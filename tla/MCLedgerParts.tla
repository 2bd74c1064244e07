---------------------------- MODULE MCLedgerParts ----------------------------
(* Small instances of the components whose state the statistics lock       *)
(* guards, for TLC.  They do not read one another's state, so a behaviour  *)
(* of this module exercises one of them, chosen at the beginning; of the   *)
(* dashboard's views, either the event lists or the range aggregates.      *)
EXTENDS AccountingBlocks, MCQuotaWindows, MCDetailViews

VARIABLE part

Symmetry == Permutations(Values)

-----------------------------------------------------------------------------

LedgerInit ==
    /\ Init /\ QuotaInit /\ ViewInit
    /\ part \in {"blocks", "quota", "events", "ranges"}
    /\ part = "quota" \/ storing
    /\ IF part \in {"events", "ranges"} THEN stats.n > 0
       ELSE stats.n = 0 /\ stats.limit = CHOOSE n \in VisibleLimits : TRUE

Blocks == part = "blocks" /\ UNCHANGED <<part, quotaVars, viewVars>>
Quota  == part = "quota"  /\ UNCHANGED <<part, vars, viewVars>>
Events == part = "events" /\ UNCHANGED <<part, vars, quotaVars>>
Ranges == part = "ranges" /\ UNCHANGED <<part, vars, quotaVars>>
Shows  == part \in {"events", "ranges"} /\ UNCHANGED <<part, vars, quotaVars>>

LedgerNext ==
    \/ \E v \in Values : Blocks /\ ArchiveDetail(v)
    \/ \E i \in 0..ledger.count - 1 :
         (Blocks /\ RemoveDetailAt(i)) \/ \E v \in Values : Blocks /\ SetDetailAt(i, v)
    \/ \E old \in SUBSET Values : Blocks /\ PruneAccounting(old)
    \/ Blocks /\ QueryRange
    \/ \E w \in Views : Blocks /\ CaptureView(w)
    \/ \E w \in Views : Blocks /\ ReleaseView(w)
    \/ \E o \in Observations : Quota /\ Observe(o)
    \/ \E n \in QuotaTicks : Quota /\ Tick(n)
    \/ Quota /\ Housekeep
    \/ Quota /\ SaveWindows
    \/ Quota /\ Download
    \/ Quota /\ ImportBackup
    \/ Quota /\ Restart
    \/ \E r \in Requests, over \in BOOLEAN : Shows /\ RecordRequest(r, over)
    \/ \E r \in Requests : Shows /\ EnrichRequest(r)
    \/ \E r \in Requests : Shows /\ RemoveRequest(r)
    \/ \E r, f \in Requests : Shows /\ ReconcileRequest(r, f)
    \/ Ranges /\ ChangePrices
    \/ \E limit \in VisibleLimits : Shows /\ ChangeLimit(limit)
    \/ Shows /\ ViewTick
    \/ \E q \in EventQueries, over, admit, keep \in BOOLEAN : Events /\ ShowEvents(q, over, admit, keep)
    \/ \E q \in Summaries, admit \in BOOLEAN : Ranges /\ ShowSummary(q, admit)
    \/ \E q \in DetailPages, admit \in BOOLEAN : Ranges /\ ShowDetail(q, admit)

LedgerSpec == LedgerInit /\ [][LedgerNext]_<<part, vars, quotaVars, viewVars>>
=============================================================================
