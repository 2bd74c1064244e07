---------------------------- MODULE DurableLedger ---------------------------
(* What the persistence of the statistics engine promises, with no queue,  *)
(* worker, file or snapshot in it: a ledger of requests that lives in a    *)
(* process, a durable set that a restart brings back, and the part of it   *)
(* that even a power loss leaves alone.                                    *)
CONSTANT Records

VARIABLES
    live,     \* the requests the running process counts
    durable,  \* the requests a restart brings back
    safe,     \* the requests a restart brings back after a power loss
    attached  \* the process owns the durable set

lvars == <<live, durable, safe, attached>>

Init ==
    /\ live = {}
    /\ durable = {}
    /\ safe = {}
    /\ attached = FALSE

(* A request arrives; it is only in memory. *)
Accept(r) ==
    /\ r \notin live
    /\ live' = live \cup {r}
    /\ UNCHANGED <<durable, safe, attached>>

(* Some live requests become durable, some durable ones safe; none is lost. *)
Persist ==
    /\ attached
    /\ durable \subseteq durable'
    /\ durable' \subseteq durable \cup live
    /\ safe \subseteq safe'
    /\ safe' \subseteq durable'
    /\ UNCHANGED <<live, attached>>

(* Taking ownership brings every durable request back into the ledger. *)
Attach ==
    /\ ~attached
    /\ attached' = TRUE
    /\ live' = live \cup durable
    /\ UNCHANGED <<durable, safe>>

Detach ==
    /\ attached' = FALSE
    /\ UNCHANGED <<live, durable, safe>>

(* The process ends; what was durable and not yet safe may be lost. *)
Die ==
    /\ live' = {}
    /\ attached' = FALSE
    /\ safe \subseteq durable'
    /\ durable' \subseteq durable
    /\ UNCHANGED safe

LedgerNext ==
    \/ \E r \in Records : Accept(r)
    \/ Persist \/ Attach \/ Detach \/ Die

LedgerSpec == Init /\ [][LedgerNext]_lvars
=============================================================================
