--------------------------- MODULE RequestMetadata ---------------------------
(* The correlation of usage reports with request callbacks                 *)
(* (request_metadata.go).  The stock host gives a report no request id, so *)
(* the plugin remembers when each execution began and ended and completes  *)
(* a report only with what all executions that may have produced it agree  *)
(* on.                                                                     *)
(*                                                                         *)
(* The host is part of the model: executions run between begun and ended,  *)
(* create reporters at any moment of that time and deliver their reports   *)
(* at any later moment.  Executions of one request follow each other.      *)
(*                                                                         *)
(* Abstractions.  Two executions may produce the same report when they are *)
(* of one group: the same credential, and models or aliases that match.    *)
(* Times are ticks; zero is the zero time.  byAuth and byID index the same *)
(* observations.                                                           *)
EXTENDS Integers, FiniteSets

CONSTANTS
    Execs,       \* the executions of the instance
    Request,     \* Request[e]: the request of execution e
    Group,       \* Group[e]: credential and model of execution e
    Infos,       \* what an observation tells: [path, stream, tier]
    TTL,         \* requestMetadataTTL
    Interval,    \* the minute between two cleanups
    MaxEntries,  \* maxRequestMetadata
    MaxTime      \* bound: the last tick

ASSUME ExecsAssumption == IsFiniteSet(Execs)
ASSUME InfosAssumption == \A i \in Infos : DOMAIN i = {"path", "stream", "tier"}
ASSUME TimesAssumption ==
    /\ TTL \in Nat \ {0}
    /\ Interval \in Nat \ {0}
    /\ MaxEntries \in Nat \ {0}
    /\ MaxTime \in Nat \ {0}

VARIABLES
    now,          \* time.Now()
    begun,        \* when the host began each execution, 0 before
    ended,        \* when it ended, 0 while it runs
    info,         \* what the callback of the execution tells
    kept,         \* the executions whose observations are cached
    until,        \* end of the observed interval, 0 while it is open
    exclusive,    \* the observations with endExclusive
    unsafeUntil,  \* enrichment is suspended before this time
    nextCleanup

host  == <<begun, ended, info>>
cache == <<kept, until, exclusive, unsafeUntil, nextCleanup>>
vars  == <<now, host, cache>>

Times == 0..(MaxTime + TTL + Interval)

TypeOK ==
    /\ now \in 1..MaxTime
    /\ begun \in [Execs -> 0..MaxTime]
    /\ ended \in [Execs -> 0..MaxTime]
    /\ info \in [Execs -> Infos]
    /\ kept \subseteq {e \in Execs : begun[e] # 0}
    /\ until \in [Execs -> 0..MaxTime]
    /\ exclusive \subseteq Execs
    /\ unsafeUntil \in Times
    /\ nextCleanup \in Times
    /\ Cardinality(kept) <= MaxEntries

Init ==
    /\ now = 1
    /\ begun = [e \in Execs |-> 0]
    /\ ended = [e \in Execs |-> 0]
    /\ info \in [Execs -> Infos]
    /\ kept = {}
    /\ until = [e \in Execs |-> 0]
    /\ exclusive = {}
    /\ unsafeUntil = 0
    /\ nextCleanup = 0

-----------------------------------------------------------------------------
(* cleanupLocked, at the start of every call, at most once a minute.       *)

Due == now >= nextCleanup

(* An execution older than the retention is still running. *)
Outlived == \E e \in kept : until[e] = 0 /\ begun[e] + TTL < now

(* Mutant: retention runs from the beginning of the execution. *)
RetainedFromStart(e) == until[e] = 0 \/ begun[e] + TTL >= now

Retained(e) == until[e] = 0 \/ until[e] + TTL >= now

CleanKept ==
    IF ~Due THEN kept
    ELSE IF Outlived THEN {}
    ELSE {e \in kept : Retained(e)}

CleanUnsafe == IF Due /\ Outlived THEN now + TTL ELSE unsafeUntil

Cleanup == nextCleanup' = IF Due THEN now + Interval ELSE nextCleanup

-----------------------------------------------------------------------------
(* The callbacks.                                                          *)

(* The open observations of the request that e belongs to. *)
OpenOf(q) == {f \in CleanKept : Request[f] = q /\ until[f] = 0}

(* Nothing is added. *)
Skip ==
    /\ kept' = CleanKept
    /\ unsafeUntil' = CleanUnsafe
    /\ UNCHANGED <<until, exclusive>>

(* Everything is forgotten and enrichment suspended. *)
Suspend ==
    /\ kept' = {}
    /\ unsafeUntil' = now + TTL
    /\ UNCHANGED <<until, exclusive>>

(* The new interval ends the one of the attempt before it. *)
Store(e) ==
    /\ kept' = CleanKept \cup {e}
    /\ unsafeUntil' = CleanUnsafe
    /\ until' = [f \in Execs |-> IF f \in OpenOf(Request[e]) THEN now ELSE until[f]]
    /\ exclusive' = exclusive \cup OpenOf(Request[e])

Full == Cardinality(CleanKept) >= MaxEntries

(* Mutant: at the limit the observation is dropped, and that is all. *)
ObserveDropsNew(e) ==
    /\ Cleanup
    /\ IF now < CleanUnsafe \/ Full THEN Skip ELSE Store(e)

Observe(e) ==
    /\ Cleanup
    /\ IF now < CleanUnsafe THEN Skip ELSE IF Full THEN Suspend ELSE Store(e)

(* complete, with a time that is not in the future. *)
Close(q, at) ==
    /\ Cleanup
    /\ kept' = CleanKept
    /\ unsafeUntil' = CleanUnsafe
    /\ until' = [f \in Execs |-> IF f \in OpenOf(q) /\ begun[f] <= at THEN at ELSE until[f]]
    /\ UNCHANGED exclusive

(* enrich changes nothing but what cleanup does, as a completion that      *)
(* comes from the future does; its answer is below.                        *)
Report == Cleanup /\ Skip /\ UNCHANGED <<now, host>>

-----------------------------------------------------------------------------
(* The host.                                                               *)

Attempts(q) == {e \in Execs : Request[e] = q /\ begun[e] # 0}

(* An execution begins after the attempt before it has ended. *)
Begin(e) ==
    /\ begun[e] = 0
    /\ \A f \in Attempts(Request[e]) : ended[f] # 0 /\ ended[f] < now
    /\ begun' = [begun EXCEPT ![e] = now]
    /\ Observe(e)
    /\ UNCHANGED <<now, ended, info>>

End(e) ==
    /\ begun[e] # 0
    /\ ended[e] = 0
    /\ ended' = [ended EXCEPT ![e] = now]
    /\ UNCHANGED <<now, begun, info, cache>>

(* request.complete comes after the last attempt, possibly late. *)
Complete(q, at) ==
    /\ Attempts(q) # {}
    /\ at <= now
    /\ \A e \in Attempts(q) : ended[e] # 0 /\ ended[e] <= at
    /\ Close(q, at)
    /\ UNCHANGED <<now, host>>

Tick ==
    /\ now < MaxTime
    /\ now' = now + 1
    /\ UNCHANGED <<host, cache>>

Next ==
    \/ \E e \in Execs : Begin(e) \/ End(e)
    \/ \E e \in Execs, at \in 1..MaxTime : Complete(Request[e], at)
    \/ Report
    \/ Tick

Spec == Init /\ [][Next]_vars

-----------------------------------------------------------------------------
(* What enrich would answer to a report whose RequestedAt is at.           *)

(* Reports that execution e may still deliver. *)
Reporting(e, at) ==
    /\ begun[e] # 0
    /\ begun[e] <= at /\ at <= now
    /\ ended[e] # 0 => at <= ended[e]

(* The observed interval of f contains at. *)
Covers(f, at) ==
    /\ begun[f] <= at
    /\ until[f] = 0 \/ at < until[f] \/ (at = until[f] /\ f \notin exclusive)

(* A report that carries its own path is compared with it. *)
Candidates(e, at, native) ==
    {f \in CleanKept : /\ Group[f] = Group[e]
                       /\ Covers(f, at)
                       /\ native => info[f].path = info[e].path}

Accepted(at) == now >= CleanUnsafe /\ at + TTL >= now

Agreed(group) ==
    \A f, g \in group : info[f].path = info[g].path /\ info[f].stream = info[g].stream

TierAgreed(group) == \A f, g \in group : info[f].tier = info[g].tier

(* What is filled in is what the execution of the report really was. *)
Truthful(e, at, native) ==
    LET group == Candidates(e, at, native)
    IN  Accepted(at) /\ group # {} /\ Agreed(group) =>
          \A f \in group :
            /\ info[f].path = info[e].path
            /\ info[f].stream = info[e].stream
            /\ TierAgreed(group) => info[f].tier = info[e].tier

-----------------------------------------------------------------------------
(* Correctness.                                                            *)

(* A report is never completed with the metadata of another execution,     *)
(* however late it comes, whatever was retried, expired or dropped at the  *)
(* limit, unless its execution was going on when a suspension ended.       *)
TruthfulUnlessSpanning ==
    \A e \in Execs, at \in 1..MaxTime, native \in BOOLEAN :
        Reporting(e, at) /\ ~(begun[e] < CleanUnsafe /\ CleanUnsafe <= at)
            => Truthful(e, at, native)

(* The observation of an execution outlives every report that is still     *)
(* accepted: retention counts from the end, acceptance from the report.    *)
ReportFindsItsOwn ==
    \A e \in Execs, at \in 1..MaxTime, native \in BOOLEAN :
        Reporting(e, at) /\ Accepted(at) /\ begun[e] >= CleanUnsafe
            => e \in Candidates(e, at, native)

(* "Dropping an overlapping candidate could turn ambiguity into a false    *)
(* match. Suspend enrichment for the entire retention window instead.":    *)
(* no false match, without exception.                                      *)
NeverFalseMatch ==
    \A e \in Execs, at \in 1..MaxTime, native \in BOOLEAN :
        Reporting(e, at) => Truthful(e, at, native)
=============================================================================
