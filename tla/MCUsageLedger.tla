--------------------------- MODULE MCUsageLedger ---------------------------
(* A small instance of UsageLedger for TLC, with one item for each way a    *)
(* record can come back: an old request, one counted whose details were cut *)
(* away, one with a key, a native record and the fallback it answers, and a *)
(* copy of the old request under another identity.                          *)
EXTENDS UsageLedger

MCItems == {"old", "evic", "key", "nat", "ans", "dup"}
MCEarlier == {"old", "evic", "dup", "ans"}
MCAt == [x \in MCItems |-> IF x \in {"evic", "dup"} THEN 0 ELSE 1]
MCNativeOf == [x \in {"ans"} |-> "nat"]
MCCopyOf == [x \in {"dup"} |-> "old"]

(* Backups of an earlier version: they bring no facts and no identities. *)
Old(x) == Record(x, "none", x \in Doubled, TRUE)
OldBackup ==
    [visible |-> <<Old("old")>>, archive |-> <<>>,
     counters |-> CountedAll(Zero, <<Old("old"), Old("evic")>>),
     quota |-> FALSE, facts |-> <<>>, deleted |-> <<>>, cut |-> {"evic"}, at |-> 1]
OldRow(x, d) == [kind |-> "detail", r |-> Old(x), archived |-> FALSE, day |-> d]
CopyBackup == [OldBackup EXCEPT !.visible = <<Old("dup")>>, !.cut = {},
                                !.counters = Counted(Zero, Old("dup"))]
MCBackups == {OldBackup, CopyBackup}
MCOldRows == {<<>>, <<OldRow("evic", 1), OldRow("old", 1), OldRow("ans", 1)>>}
=============================================================================
