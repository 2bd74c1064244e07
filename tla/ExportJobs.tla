----------------------------- MODULE ExportJobs -----------------------------
(* The background export jobs (dashboard_export_jobs.go,                   *)
(* usage_export_jobs.go): management calls that create, list and delete    *)
(* jobs under the manager's mutex, one goroutine per job that freezes the  *)
(* ledger under the statistics lock, writes a temporary file and publishes *)
(* it, and the shutdown that cancels the jobs and waits for the goroutines. *)
(*                                                                         *)
(* Abstractions.  A job id is used once.  The mutex is a guard: it is      *)
(* free in every state but the one where a publishing goroutine holds it   *)
(* while it waits for the statistics lock.  Removing a file succeeds.      *)
EXTENDS Naturals, FiniteSets

CONSTANTS
    Jobs,       \* the job ids of the instance
    EventJobs,  \* the jobs of kind "events"; the others are usage backups
    MaxActive,  \* dashboardExportJobMaxActive
    MaxStored,  \* dashboardExportJobMaxStored
    MaxFaults,  \* bound: failing file operations
    MaxHolds    \* bound: long imports and snapshots that hold s.mu

ASSUME JobsAssumption == EventJobs \subseteq Jobs
ASSUME LimitsAssumption == MaxActive \in Nat \ {0} /\ MaxStored \in Nat \ {0}
ASSUME BoundsAssumption == MaxFaults \in Nat /\ MaxHolds \in Nat

VARIABLES
    status,     \* status of each job, "unused" and "gone" outside m.jobs
    expired,    \* the finished jobs whose ExpiresAt has passed
    cancelled,  \* the jobs whose context is cancelled
    pc,         \* program counter of each job's goroutine
    tmp,        \* the jobs whose temporary file exists
    final,      \* the jobs whose result file exists
    closing,    \* progress of close
    held,       \* another user holds the statistics lock
    faults,     \* file operations that may still fail
    holds       \* holds of the statistics lock still to come

vars == <<status, expired, cancelled, pc, tmp, final, closing, held, faults, holds>>
lock == <<held, holds>>

-----------------------------------------------------------------------------
Finished == {j \in Jobs : status[j] \in {"succeeded", "failed"}}
Pending  == {j \in Jobs : status[j] \in {"queued", "running"}}
Present  == Finished \cup Pending
Workers  == {j \in Jobs : pc[j] \notin {"none", "done"}}

TypeOK ==
    /\ status \in [Jobs -> {"unused", "queued", "running", "succeeded", "failed", "gone"}]
    /\ expired \subseteq {j \in Jobs : status[j] \notin {"unused", "queued", "running"}}
    /\ cancelled \subseteq Jobs
    /\ pc \in [Jobs -> {"none", "spawned", "check", "open", "capture", "encode", "hash",
                        "publish", "summary", "failing", "cleanup", "leaving", "done"}]
    /\ tmp \subseteq Jobs
    /\ final \subseteq Jobs
    /\ closing \in {"open", "waiting", "closed"}
    /\ held \in BOOLEAN
    /\ faults \in 0..MaxFaults
    /\ holds \in 0..MaxHolds

Init ==
    /\ status = [j \in Jobs |-> "unused"]
    /\ expired = {}
    /\ cancelled = {}
    /\ pc = [j \in Jobs |-> "none"]
    /\ tmp = {}
    /\ final = {}
    /\ closing = "open"
    /\ held = FALSE
    /\ faults = MaxFaults
    /\ holds = MaxHolds

(* m.mu: RecordEventsExportSummary waits for s.mu with m.mu held. *)
MuFree == \A j \in Jobs : pc[j] # "summary"

Fault == faults > 0 /\ faults' = faults - 1

Goto(j, to) == pc' = [pc EXCEPT ![j] = to]

(* The jobs in gone leave m.jobs and their files are removed. *)
Dropped(gone, now) == [j \in Jobs |-> IF j \in gone THEN "gone" ELSE now[j]]

RemoveFiles(gone) ==
    /\ tmp' = tmp \ gone
    /\ final' = final \ gone

-----------------------------------------------------------------------------
(* Management calls.                                                       *)

(* cleanupLocked: lazily, at the start of create, list and get. *)
Stale == {j \in Finished : j \in expired}

(* Mutant: the goroutines of deleted jobs are not counted. *)
ActiveJobs == Cardinality(Pending)

(* activeLocked *)
Active ==
    IF Cardinality(Workers) > Cardinality(Pending)
    THEN Cardinality(Workers) ELSE Cardinality(Pending)

Create(j) ==
    /\ MuFree
    /\ closing = "open"
    /\ status[j] = "unused"
    /\ Active < MaxActive
    /\ Cardinality(Present \ Stale) < MaxStored
    /\ status' = Dropped(Stale, [status EXCEPT ![j] = "queued"])
    /\ RemoveFiles(Stale)
    /\ Goto(j, "spawned")
    /\ UNCHANGED <<expired, cancelled, closing, lock, faults>>

(* list and get, and a create that is refused. *)
List ==
    /\ MuFree
    /\ Stale # {}
    /\ status' = Dropped(Stale, status)
    /\ RemoveFiles(Stale)
    /\ UNCHANGED <<expired, cancelled, pc, closing, lock, faults>>

(* deleteKind with the kind of the job. *)
Delete(j) ==
    /\ MuFree
    /\ j \in Present
    /\ status' = Dropped({j}, status)
    /\ cancelled' = cancelled \cup {j}
    /\ RemoveFiles({j})
    /\ UNCHANGED <<expired, pc, closing, lock, faults>>

-----------------------------------------------------------------------------
(* The goroutine of a job.                                                 *)

(* Mutant: the early return of run skips the deferred Done. *)
StartNeverDone(j) ==
    /\ pc[j] = "spawned"
    /\ MuFree
    /\ IF j \in Present /\ closing = "open"
       THEN status' = [status EXCEPT ![j] = "running"] /\ Goto(j, "check")
       ELSE UNCHANGED <<status, pc>>
    /\ UNCHANGED <<expired, cancelled, tmp, final, closing, lock, faults>>

Start(j) ==
    /\ pc[j] = "spawned"
    /\ MuFree
    /\ IF j \in Present /\ closing = "open"
       THEN status' = [status EXCEPT ![j] = "running"] /\ Goto(j, "check")
       ELSE UNCHANGED status /\ Goto(j, "leaving")
    /\ UNCHANGED <<expired, cancelled, tmp, final, closing, lock, faults>>

(* encodeDashboardExportFile looks at the context, then opens the file: a  *)
(* deletion may come in between and find nothing to remove.                *)
Check(j) ==
    /\ pc[j] = "check"
    /\ Goto(j, IF j \in cancelled THEN "failing" ELSE "open")
    /\ UNCHANGED <<status, expired, cancelled, tmp, final, closing, lock, faults>>

Open(j) ==
    /\ pc[j] = "open"
    /\ tmp' = tmp \cup {j}
    /\ Goto(j, "capture")
    /\ UNCHANGED <<status, expired, cancelled, final, closing, lock, faults>>

(* lockExportSnapshot: cancelled, or the statistics lock by TryLock. *)
Capture(j) ==
    /\ pc[j] = "capture"
    /\ \/ j \in cancelled /\ Goto(j, "failing")
       \/ j \notin cancelled /\ ~held /\ Goto(j, "encode")
    /\ UNCHANGED <<status, expired, cancelled, tmp, final, closing, lock, faults>>

(* The rows are written; a cancellation is seen by the next row, if there  *)
(* is one.                                                                 *)
Encode(j) ==
    /\ pc[j] = "encode"
    /\ \/ Goto(j, "hash")
       \/ j \in cancelled /\ Goto(j, "failing")
    /\ UNCHANGED <<status, expired, cancelled, tmp, final, closing, lock, faults>>

(* fileSHA256Context reads the file back by its name. *)
Hash(j) ==
    /\ pc[j] = "hash"
    /\ \/ j \in tmp /\ Goto(j, "publish")
       \/ (j \in cancelled \/ j \notin tmp) /\ Goto(j, "failing")
    /\ UNCHANGED <<status, expired, cancelled, tmp, final, closing, lock, faults>>

(* Opening, writing, closing or reading the file fails. *)
Breaks(j) ==
    /\ pc[j] \in {"open", "encode", "hash"}
    /\ Fault
    /\ Goto(j, "failing")
    /\ UNCHANGED <<status, expired, cancelled, tmp, final, closing, lock>>

(* Mutant: a failure is recorded for a job that was deleted meanwhile. *)
FailDeleted(j) ==
    /\ pc[j] = "failing"
    /\ MuFree
    /\ RemoveFiles({j})
    /\ status' = IF closing = "open" THEN [status EXCEPT ![j] = "failed"] ELSE status
    /\ Goto(j, "cleanup")
    /\ UNCHANGED <<expired, cancelled, closing, lock, faults>>

(* Mutant: the failure is not recorded. *)
FailSilently(j) ==
    /\ pc[j] = "failing"
    /\ MuFree
    /\ tmp' = tmp \ {j}
    /\ Goto(j, "cleanup")
    /\ UNCHANGED <<status, final, expired, cancelled, closing, lock, faults>>

(* Mutant: the files are left to the update of the job, which does nothing *)
(* for a job that was deleted meanwhile.                                   *)
FailLeavesFile(j) ==
    /\ pc[j] = "failing"
    /\ MuFree
    /\ IF closing = "open" /\ j \in Present
       THEN status' = [status EXCEPT ![j] = "failed"] /\ RemoveFiles({j})
       ELSE UNCHANGED <<status, tmp, final>>
    /\ Goto(j, "leaving")
    /\ UNCHANGED <<expired, cancelled, closing, lock, faults>>

(* The temporary file is removed and the failure recorded, if the job is   *)
(* still there.                                                            *)
Fail(j) ==
    /\ pc[j] = "failing"
    /\ MuFree
    /\ tmp' = tmp \ {j}
    /\ IF closing = "open" /\ j \in Present
       THEN status' = [status EXCEPT ![j] = "failed"] /\ final' = final \ {j}
       ELSE UNCHANGED <<status, final>>
    /\ Goto(j, "cleanup")
    /\ UNCHANGED <<expired, cancelled, closing, lock, faults>>

(* The last look under m.mu: the job was deleted, or the manager closed. *)
Abandon(j) ==
    /\ pc[j] = "publish"
    /\ MuFree
    /\ j \notin Present \/ closing # "open"
    /\ Goto(j, "cleanup")
    /\ UNCHANGED <<status, expired, cancelled, tmp, final, closing, lock, faults>>

RenameFails(j) ==
    /\ pc[j] = "publish"
    /\ MuFree
    /\ j \in Present /\ closing = "open"
    /\ Fault
    /\ tmp' = tmp \ {j}
    /\ status' = [status EXCEPT ![j] = "failed"]
    /\ Goto(j, "cleanup")
    /\ UNCHANGED <<expired, cancelled, final, closing, lock>>

(* Mutant: the deferred cleanup runs after a success too. *)
PublishThenClean(j) ==
    /\ pc[j] = "publish"
    /\ MuFree
    /\ j \in Present /\ closing = "open"
    /\ tmp' = tmp \ {j}
    /\ final' = final \cup {j}
    /\ IF j \in EventJobs
       THEN Goto(j, "summary") /\ UNCHANGED status
       ELSE Goto(j, "cleanup") /\ status' = [status EXCEPT ![j] = "succeeded"]
    /\ UNCHANGED <<expired, cancelled, closing, lock, faults>>

(* The file is renamed and the job succeeds; an event export first counts  *)
(* itself in the statistics.                                               *)
Publish(j) ==
    /\ pc[j] = "publish"
    /\ MuFree
    /\ j \in Present /\ closing = "open"
    /\ tmp' = tmp \ {j}
    /\ final' = final \cup {j}
    /\ IF j \in EventJobs
       THEN Goto(j, "summary") /\ UNCHANGED status
       ELSE Goto(j, "leaving") /\ status' = [status EXCEPT ![j] = "succeeded"]
    /\ UNCHANGED <<expired, cancelled, closing, lock, faults>>

Summarise(j) ==
    /\ pc[j] = "summary"
    /\ ~held
    /\ status' = [status EXCEPT ![j] = "succeeded"]
    /\ Goto(j, "leaving")
    /\ UNCHANGED <<expired, cancelled, tmp, final, closing, lock, faults>>

(* The deferred removal of a run that has not succeeded, without m.mu. *)
Cleanup(j) ==
    /\ pc[j] = "cleanup"
    /\ RemoveFiles({j})
    /\ Goto(j, "leaving")
    /\ UNCHANGED <<status, expired, cancelled, closing, lock, faults>>

(* workers-- under m.mu and wg.Done. *)
Leave(j) ==
    /\ pc[j] = "leaving"
    /\ MuFree
    /\ Goto(j, "done")
    /\ UNCHANGED <<status, expired, cancelled, tmp, final, closing, lock, faults>>

-----------------------------------------------------------------------------
(* Shutdown and restart of the plugin, and the environment.                *)

BeginClose ==
    /\ MuFree
    /\ closing = "open"
    /\ closing' = "waiting"
    /\ status' = Dropped(Present, status)
    /\ cancelled' = cancelled \cup Present
    /\ RemoveFiles(Present)
    /\ UNCHANGED <<expired, pc, lock, faults>>

(* wg.Wait returns. *)
Closed ==
    /\ closing = "waiting"
    /\ Workers = {}
    /\ closing' = "closed"
    /\ UNCHANGED <<status, expired, cancelled, pc, tmp, final, lock, faults>>

(* restartPluginStateLocked makes a new manager. *)
Restart ==
    /\ closing = "closed"
    /\ closing' = "open"
    /\ UNCHANGED <<status, expired, cancelled, pc, tmp, final, lock, faults>>

(* Fifteen minutes pass since the job finished. *)
Expire(j) ==
    /\ j \in Finished \ expired
    /\ expired' = expired \cup {j}
    /\ UNCHANGED <<status, cancelled, pc, tmp, final, closing, lock, faults>>

(* A large import or snapshot takes the statistics lock. *)
Hold ==
    /\ ~held
    /\ holds > 0
    /\ held' = TRUE
    /\ holds' = holds - 1
    /\ UNCHANGED <<status, expired, cancelled, pc, tmp, final, closing, faults>>

LetGo ==
    /\ held
    /\ held' = FALSE
    /\ UNCHANGED <<status, expired, cancelled, pc, tmp, final, closing, holds, faults>>

-----------------------------------------------------------------------------
Run(j) ==
    \/ Start(j) \/ Check(j) \/ Open(j) \/ Capture(j) \/ Encode(j) \/ Hash(j)
    \/ Breaks(j) \/ Fail(j) \/ Abandon(j) \/ RenameFails(j) \/ Publish(j)
    \/ Summarise(j) \/ Cleanup(j) \/ Leave(j)

Next ==
    \/ \E j \in Jobs : Create(j) \/ Delete(j) \/ Run(j) \/ Expire(j)
    \/ List \/ BeginClose \/ Closed \/ Restart \/ Hold \/ LetGo

Spec == Init /\ [][Next]_vars

(* Goroutines and wg.Wait make progress; nothing is assumed of whoever     *)
(* holds the statistics lock.                                              *)
Fairness == /\ \A j \in Jobs : WF_vars(Run(j))
            /\ WF_vars(Closed)

FairSpec == Spec /\ Fairness

(* Every import and snapshot comes to its end. *)
ReleasingSpec == FairSpec /\ WF_vars(LetGo)

-----------------------------------------------------------------------------
(* Correctness.                                                            *)

(* What the goroutine of j, the status of j and the files of j say of each *)
(* other at every point of run: this is what makes the file rules below    *)
(* inductive.                                                              *)
StageConsistent(j) ==
    /\ pc[j] = "none" <=> status[j] = "unused"
    /\ pc[j] = "spawned" => status[j] \in {"queued", "gone"}
    /\ pc[j] \in {"check", "open", "capture", "encode", "hash", "publish", "failing"}
         => status[j] \in {"running", "gone"}
    /\ pc[j] = "summary" => status[j] = "running" /\ j \in final /\ j \notin tmp
    /\ pc[j] = "cleanup" => status[j] \in {"failed", "gone"}
    /\ pc[j] \in {"leaving", "done"} => status[j] \in {"succeeded", "failed", "gone"}
    /\ status[j] = "succeeded" => j \in final
    /\ j \in final => status[j] = "succeeded" \/ pc[j] = "summary"
    /\ j \in tmp => pc[j] \in {"capture", "encode", "hash", "publish", "failing", "cleanup"}

(* No job is held by a manager that was closed. *)
StageInvariant ==
    /\ \A j \in Jobs : StageConsistent(j)
    /\ closing # "open" => Present = {}

(* The limits hold for the goroutines themselves: deleting a job that is   *)
(* still encoding does not let another one start beside it.                *)
CapacityHeld ==
    /\ Cardinality(Workers) <= MaxActive
    /\ Cardinality(Present) <= MaxStored

(* A job that is reported as succeeded can be downloaded. *)
SucceededHasFile ==
    \A j \in Jobs : status[j] = "succeeded" => j \in final /\ j \notin tmp

(* Once its goroutine has ended, a job that failed, was deleted, expired   *)
(* or was cut off by a shutdown has left no file behind, wherever the      *)
(* goroutine was when that happened.                                       *)
NoOrphanFiles ==
    \A j \in Jobs :
        pc[j] \in {"none", "done"} /\ status[j] # "succeeded"
            => j \notin tmp /\ j \notin final

(* A deleted job is never brought back, and a finished one never changes   *)
(* its outcome, by a goroutine that was still at work.                     *)
KeepsOutcomes ==
    \A j \in Jobs :
        /\ status[j] = "gone" => status'[j] = "gone"
        /\ j \in Finished => status'[j] \in {status[j], "gone"}

OutcomeFinal == [][KeepsOutcomes]_vars

(* Every job comes to an outcome. *)
JobSettles ==
    \A j \in Jobs : status[j] = "queued" ~> j \notin Pending

(* Shutdown never hangs: every cancelled goroutine notices and ends. *)
CloseReturns == closing = "waiting" ~> closing = "closed"

(* "A canceled export must release its worker slot without waiting for     *)
(* that work": a cancelled job ends even if the statistics lock is never   *)
(* released.                                                               *)
CancelFreesWorker ==
    \A j \in Jobs : j \in cancelled ~> pc[j] = "done"
=============================================================================
