---------------------------- MODULE FrozenLedger ----------------------------
(* What the archived ledger of a model promises to the code around it: a   *)
(* sequence of records, and frozen copies of it that nobody changes while  *)
(* a snapshot or an export reads them without the statistics lock.         *)
EXTENDS Naturals, Sequences

CONSTANTS
    Values,  \* the records
    Views    \* the readers that may hold a frozen copy

VARIABLES
    records,  \* the retained records, oldest first
    frozen    \* the copy each reader holds, <<>> if none

fvars == <<records, frozen>>

FrozenInit == records = <<>> /\ frozen = [w \in Views |-> <<>>]

Added(old, new) == \E v \in Values : new = Append(old, v)

Rewritten(old, new) == \E i \in DOMAIN old, v \in Values : new = [old EXCEPT ![i] = v]

DroppedOne(old, new) ==
    \E i \in DOMAIN old : new = SubSeq(old, 1, i - 1) \o SubSeq(old, i + 1, Len(old))

(* Records outside the retention window are dropped, in one step; those    *)
(* that are kept stay in their order.                                      *)
DroppedAll(old, new) ==
    \E gone \in SUBSET Values, kept \in [DOMAIN new -> DOMAIN old] :
        /\ {kept[i] : i \in DOMAIN new} = {i \in DOMAIN old : old[i] \notin gone}
        /\ \A i, j \in DOMAIN new : i < j => kept[i] < kept[j]
        /\ \A i \in DOMAIN new : new[i] = old[kept[i]]

Change ==
    /\ UNCHANGED frozen
    /\ \E old \in {records}, new \in {records'} :
         \/ Added(old, new) \/ Rewritten(old, new)
         \/ DroppedOne(old, new) \/ DroppedAll(old, new)

Copy(w) == frozen' = [frozen EXCEPT ![w] = records]

Discard(w) == frozen' = [frozen EXCEPT ![w] = <<>>]

FrozenNext == Change \/ (UNCHANGED records /\ \E w \in Views : Copy(w) \/ Discard(w))

FrozenSpec == FrozenInit /\ [][FrozenNext]_fvars
=============================================================================
