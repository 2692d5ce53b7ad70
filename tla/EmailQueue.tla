------------------------------ MODULE EmailQueue ------------------------------
(***************************************************************************)
(* The BullMQ queue `email-send` as the backend uses it.  BullMQ is a      *)
(* library kept in Redis, outside the repository: only its observable      *)
(* behaviour towards src/ is stated.  The job of email e has the job id    *)
(* `email-<e>`, so there is at most one job per email, and adding a job    *)
(* whose id is still retained is ignored by the queue.                     *)
(*                                                                         *)
(* "queued" stands for BullMQ's delayed, waiting and prioritised states:   *)
(* the timer of a delayed job is not modelled, a queued job may be taken   *)
(* at any moment.                                                          *)
(***************************************************************************)
EXTENDS Naturals

CONSTANTS
    Emails,        \* rows of scheduled_emails, and the ids of their jobs
    Workers,       \* concurrent executions of processEmailJob
    NoWorker,      \* no execution
    MaxAttempts,   \* defaultJobOptions.attempts
    MaxStalls      \* BullMQ's maxStalledCount, left at its default of 1

ASSUME WorkersAssumption  == NoWorker \notin Workers
ASSUME AttemptsAssumption == MaxAttempts \in Nat \ {0}
ASSUME StallsAssumption   == MaxStalls \in Nat

VARIABLES
    jobState,      \* where the job of each email is
    lock,          \* the execution that holds the job's lock
    attemptsMade,  \* failures counted against the job
    stalls         \* times the job was found active without a lock

queueVars == <<jobState, lock, attemptsMade, stalls>>

JobStates == {"none", "queued", "active", "completed", "failed"}

QueueTypeOK ==
    /\ jobState \in [Emails -> JobStates]
    /\ lock \in [Emails -> Workers \union {NoWorker}]
    /\ attemptsMade \in [Emails -> 0..MaxAttempts]
    /\ stalls \in [Emails -> 0..MaxStalls]

QueueInit ==
    /\ jobState = [e \in Emails |-> "none"]
    /\ lock = [e \in Emails |-> NoWorker]
    /\ attemptsMade = [e \in Emails |-> 0]
    /\ stalls = [e \in Emails |-> 0]

JobExists(e) == jobState[e] # "none"

LiveJob(e) == jobState[e] \in {"queued", "active"}

-------------------------------------------------------------------------------
\* Queue.add and Queue.addBulk with the job id of e.
AddJob(e) ==
    /\ jobState' = [jobState EXCEPT ![e] = IF JobExists(e) THEN @ ELSE "queued"]
    /\ UNCHANGED <<lock, attemptsMade, stalls>>

\* A worker fetches the job and takes its lock.
TakeJob(w, e) ==
    /\ jobState[e] = "queued"
    /\ jobState' = [jobState EXCEPT ![e] = "active"]
    /\ lock' = [lock EXCEPT ![e] = w]
    /\ UNCHANGED <<attemptsMade, stalls>>

\* The lock holder leaves the job in state s; only it can.
Release(w, e, s) ==
    /\ lock[e] = w
    /\ jobState' = [jobState EXCEPT ![e] = s]
    /\ lock' = [lock EXCEPT ![e] = NoWorker]

\* job.moveToDelayed: costs no attempt.
MoveToDelayed(w, e) ==
    Release(w, e, "queued") /\ UNCHANGED <<attemptsMade, stalls>>

\* The processor returned.
MoveToCompleted(w, e) ==
    Release(w, e, "completed") /\ UNCHANGED <<attemptsMade, stalls>>

\* Mutant: one attempt too many.
RetryLeft_OffByOne(e) == attemptsMade[e] < MaxAttempts

\* The failure being counted is not the last one allowed.
RetryLeft(e) == attemptsMade[e] + 1 < MaxAttempts

\* The processor threw: back off and retry while attempts remain.
MoveToFailed(w, e) ==
    /\ Release(w, e, IF RetryLeft(e) THEN "queued" ELSE "failed")
    /\ attemptsMade' = [attemptsMade EXCEPT ![e] = @ + 1]
    /\ UNCHANGED stalls

\* An execution whose lock is gone is refused whatever it asks for.
LockLost(w, e) == lock[e] # w /\ UNCHANGED queueVars

-------------------------------------------------------------------------------
\* The lock of e was not renewed in time.
ExpireLock(e) ==
    /\ lock[e] # NoWorker
    /\ lock' = [lock EXCEPT ![e] = NoWorker]
    /\ UNCHANGED <<jobState, attemptsMade, stalls>>

\* The stalled checker finds an active job without a lock.
SweepStalled(e) ==
    /\ jobState[e] = "active" /\ lock[e] = NoWorker
    /\ \/ /\ stalls[e] < MaxStalls
          /\ jobState' = [jobState EXCEPT ![e] = "queued"]
          /\ stalls' = [stalls EXCEPT ![e] = @ + 1]
       \/ /\ stalls[e] = MaxStalls
          /\ jobState' = [jobState EXCEPT ![e] = "failed"]
          /\ UNCHANGED stalls
    /\ UNCHANGED <<lock, attemptsMade>>

\* The record of the jobs in E disappears from Redis.
Forget(E) ==
    /\ jobState' = [e \in Emails |-> IF e \in E THEN "none" ELSE jobState[e]]
    /\ lock' = [e \in Emails |-> IF e \in E THEN NoWorker ELSE lock[e]]
    /\ attemptsMade' = [e \in Emails |-> IF e \in E THEN 0 ELSE attemptsMade[e]]
    /\ stalls' = [e \in Emails |-> IF e \in E THEN 0 ELSE stalls[e]]

\* job.remove(): refused, by throwing, while the job is locked.
RemoveJob(e) == JobExists(e) /\ lock[e] = NoWorker /\ Forget({e})

\* removeOnComplete and removeOnFail: old finished jobs are trimmed.
TrimJob(e) == jobState[e] \in {"completed", "failed"} /\ Forget({e})
===============================================================================
