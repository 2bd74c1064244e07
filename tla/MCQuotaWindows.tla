--------------------------- MODULE MCQuotaWindows ---------------------------
(* Small instances of QuotaWindows for TLC.                                *)
EXTENDS QuotaWindows, TLC

Usage(at, reset, used) ==
    [at |-> at, reset |-> reset, length |-> 8, used |-> used, revoked |-> FALSE]
Revocation(at) == [at |-> at, reset |-> 0, length |-> 0, used |-> 0, revoked |-> TRUE]

(* A reset and its confirmation, a deadline that drifts, a reset card, the *)
(* next period, and two revocations.                                       *)
ResetsAndRevocations ==
    {Usage(3, 9, 90), Usage(4, 9, 10), Usage(5, 9, 20), Usage(5, 10, 90), Usage(6, 9, 25),
     Usage(6, 13, 10), Usage(7, 9, 30), Usage(9, 15, 5), Revocation(4), Revocation(6)}

(* A high reading arrives after the reset it contradicts. *)
LateHighReading == {Usage(3, 9, 90), Usage(4, 9, 10), Usage(5, 9, 12), Usage(4, 9, 88)}
=============================================================================
