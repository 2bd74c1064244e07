---------------------------- MODULE MCExportParts ----------------------------
(* Small instances, for TLC, of the ledger of requests and of the jobs that *)
(* export it.  A job reads the ledger in one step under the statistics lock *)
(* and the ledger knows nothing of jobs, so a behaviour of this module      *)
(* exercises one of them, chosen at the beginning.                         *)
EXTENDS ExportJobs, MCUsageLedger

VARIABLE part

-----------------------------------------------------------------------------

PartsInit ==
    /\ Init /\ LedgerInit
    /\ part \in {"jobs", "records"}
    /\ part = "records" => rows # <<>> \/ snapshot = OldBackup
    /\ part = "jobs" => rows = <<>> /\ snapshot = NoFile /\ ledger.retention = 0 /\ ~ledger.repairing

Exports == part = "jobs"    /\ UNCHANGED <<part, ledgerVars>>
Records == part = "records" /\ UNCHANGED <<part, vars>>

PartsNext ==
    \/ \E j \in Jobs : Exports /\ Create(j)
    \/ \E j \in Jobs : Exports /\ Delete(j)
    \/ \E j \in Jobs : Exports /\ Run(j)
    \/ \E j \in Jobs : Exports /\ Expire(j)
    \/ Exports /\ List
    \/ Exports /\ BeginClose
    \/ Exports /\ Closed
    \/ Exports /\ Restart
    \/ Exports /\ Hold
    \/ Exports /\ LetGo
    \/ \E x \in Items : Records /\ RecordUsage(x)
    \/ Records /\ Export
    \/ Records /\ Query
    \/ Records /\ SaveSnapshot
    \/ Records /\ Begin
    \/ Records /\ Stop
    \/ Records /\ Tick
    \/ \E f \in Backups \cup {file} : Records /\ ImportFile(f)
    \/ \E ret \in Retentions, rep \in BOOLEAN : Records /\ Configure(ret, rep)
    \/ \E ret \in Retentions, rep \in BOOLEAN : Records /\ Reopen(ret, rep)

PartsSpec ==
    /\ PartsInit /\ [][PartsNext]_<<part, vars, ledgerVars>>
    /\ Fairness /\ WF_vars(LetGo)
=============================================================================
