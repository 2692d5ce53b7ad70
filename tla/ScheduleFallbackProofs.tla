------------------------- MODULE ScheduleFallbackProofs -------------------------
(***************************************************************************)
(* Proofs about ScheduleFallback, for any number of recipients, failures,  *)
(* outages and restarts.                                                   *)
(*                                                                         *)
(* The argument follows the request: what exists of its rows, jobs and     *)
(* copies while it runs (StageInv), and after that who may still deliver   *)
(* (BudgetInv), who still sees to a recipient (HeldInv), and since when    *)
(* (TimeInv).                                                              *)
(***************************************************************************)
EXTENDS ScheduleFallback, Integers, TLAPS

\* The part of TypeOK that the argument needs.
Shapes ==
    /\ rows \in [Recipients -> RowStatuses]
    /\ job \in [Recipients -> JobStates]
    /\ work \in [Recipients -> WorkPCs]
    /\ copies \in [Recipients -> CopyStatuses]
    /\ timers \in SUBSET Recipients
    /\ running \in [Recipients -> {"no", "lookup", "send"}]
    /\ cancelling \in SUBSET Recipients
    /\ delivered \in [Recipients -> Nat]
    /\ lost \in [Recipients -> Nat]
    /\ upset \in SUBSET Recipients
    /\ start \in Times
    /\ restarts \in Nat

\* The copy of r may still be sent.
Pends(r) == r \in timers \/ running[r] # "no"

\* A worker is past its claim, and not yet past its last update.
Owned(r) == work[r] \in {"send", "record", "fail"}

\* What there is of an email while the request is at a call.  A job is of a row,
\* and a timer goes off before its execution begins.
StageInv ==
    /\ request \in {"lookup", "campaign", "insert"} \/ inserting =>
           \A r \in Recipients: rows[r] = "none"
    /\ request \in {"read", "enqueue"} => ~inserting /\ \A r \in Recipients: rows[r] = "scheduled"
    /\ request \in Calls => server = "up"
    /\ request \in Calls \ {"fallback"} => ~inserting /\ \A r \in Recipients: job[r] = "none"
    /\ \A r \in Recipients:
           /\ job[r] # "none" => rows[r] # "none"
           /\ Pends(r) => request = "inMemory"
           /\ r \in timers => running[r] = "no"

\* An execution has its job and, from its claim on, a row that is processing, or
\* sent when it could not say so.  It ends with its outcome in the row, and leaves
\* no row processing, unless something failed.
WorkInv ==
    \A r \in Recipients:
        /\ work[r] # "no" => job[r] = "active"
        /\ work[r] \in {"send", "record"} => rows[r] = "processing"
        /\ job[r] = "active" /\ work[r] = "no" => restarts > 0
        /\ work[r] = "resolve" => rows[r] = "sent" \/ r \in upset \/ restarts > 0
        /\ work[r] = "reject" => rows[r] = "failed" \/ r \in upset
        /\ rows[r] = "processing" => Owned(r) \/ r \in upset \/ restarts > 0

\* The row has a delivery that is recorded, or about to be.
Recorded(r) == work[r] = "record" \/ (rows[r] = "sent" /\ work[r] # "fail")

\* Each store has one delivery for each recipient, done or to come, beside those
\* whose outcome was lost.
BudgetInv ==
    \A r \in Recipients:
        delivered[r] + (IF Pends(r) THEN 1 ELSE 0) <=
            (IF Recorded(r) THEN 1 ELSE 0) + lost[r] + (IF request = "inMemory" THEN 1 ELSE 0)

\* After the answer, a recipient is seen to where the request put it.
HeldInv ==
    \A r \in Recipients:
        /\ request = "queued" /\ restarts = 0 =>
               job[r] \in {"queued", "active"} \/ rows[r] \in {"sent", "failed"} \/ r \in upset
        /\ request = "inMemory" /\ restarts = 0 =>
               Pends(r) \/ copies[r] \in {"sent", "failed", "cancelled"}

\* Jobs have the time of the email; timers end early only if that was too far.
TimeInv ==
    /\ "jobs" \notin early
    /\ "timers" \in early => madeFar
    /\ madeFar => request \notin Calls
    /\ \A r \in Recipients:
           work[r] # "no" \/ running[r] # "no" \/ delivered[r] > 0 => start = "now" \/ madeFar

FallbackInv == Shapes /\ StageInv /\ WorkInv /\ BudgetInv /\ HeldInv /\ TimeInv

-------------------------------------------------------------------------------
\* The initial state satisfies the invariant.
LEMMA FallbackInit == Init => FallbackInv
  BY DEF Init, NoCopies, NoneRunning, Never, FallbackInv, Shapes, StageInv, WorkInv, BudgetInv,
         HeldInv, TimeInv, Pends, Recorded, RowStatuses, JobStates, WorkPCs, CopyStatuses, Times,
         Calls

\* The calls that make nothing yet.
LEMMA EarlyCalls ==
  ASSUME FallbackInv, Lookup \/ CreateCampaign \/ ReadBack PROVE FallbackInv'
  BY DEF Lookup, CreateCampaign, ReadBack, queued, queue, memory, sends, time,
         FallbackInv, Shapes, StageInv, WorkInv, BudgetInv, HeldInv, TimeInv, Pends, Owned, Recorded,
         Calls

\* The rows are inserted, now or later.
LEMMA InsertSteps ==
  ASSUME FallbackInv, CreateMany \/ CommitLate PROVE FallbackInv'
  BY DEF CreateMany, CommitLate, InsertAll, outside, route, queue, memory, sends, time, RowStatuses,
         FallbackInv, Shapes, StageInv, WorkInv, BudgetInv, HeldInv, TimeInv, Pends, Owned, Recorded,
         Calls

\* The jobs are added, whether or not the route learns of it.
LEMMA AddBulkStep == ASSUME FallbackInv, AddBulk PROVE FallbackInv'
<1>1. /\ request = "enqueue" /\ request' \in {"queued", "fallback"}
      /\ job' \in {job, [r \in Recipients |-> "queued"]}
      /\ request' = "queued" => job' = [r \in Recipients |-> "queued"]
      /\ early' = early
      /\ UNCHANGED <<rows, work, copies, timers, running, cancelling, delivered, lost, upset,
                     start, madeFar, restarts, server, inserting>>
  BY DEF AddBulk, EnqueueAll, Started, JobDelay, memory, sends
<1>2. \A r \in Recipients: work[r] = "no" /\ rows[r] = "scheduled" /\ job[r] = "none"
  BY <1>1 DEF FallbackInv, StageInv, WorkInv, Calls
<1>3. Shapes' /\ StageInv'
  BY <1>1, <1>2 DEF FallbackInv, Shapes, StageInv, Pends, Calls, JobStates
<1>4. WorkInv'
  BY <1>1, <1>2 DEF FallbackInv, WorkInv
<1>5. BudgetInv' /\ HeldInv'
  BY <1>1, <1>2 DEF FallbackInv, Shapes, StageInv, BudgetInv, HeldInv, Pends, Recorded, Calls
<1>6. TimeInv'
  BY <1>1 DEF FallbackInv, TimeInv, Calls
<1>7. QED
  BY <1>3, <1>4, <1>5, <1>6 DEF FallbackInv

\* The catch block makes the copies and their timers.
LEMMA FallbackStep == ASSUME FallbackInv, Fallback PROVE FallbackInv'
<1>1. /\ request = "fallback" /\ request' = "inMemory"
      /\ copies' = [r \in Recipients |-> "scheduled"] /\ timers' = Recipients
      /\ madeFar' = (start = "far")
      /\ UNCHANGED <<rows, job, work, running, cancelling, delivered, lost, upset, start,
                     restarts, server, inserting>>
  BY DEF Fallback, FallbackRecipients, outside, queued, queue, sends
<1>2. Shapes' /\ StageInv' /\ WorkInv'
  BY <1>1 DEF FallbackInv, Shapes, StageInv, WorkInv, Pends, Owned, Calls, CopyStatuses
<1>3. BudgetInv' /\ HeldInv'
  BY <1>1 DEF FallbackInv, Shapes, StageInv, BudgetInv, HeldInv, Pends, Recorded, Calls
<1>4. TimeInv'
  <2>1. early' = IF start = "far" THEN early \union {"timers"} ELSE early
    BY DEF Fallback, Started, TimerDelay, FallbackInv, Shapes, Times
  <2>2. ~madeFar
    BY <1>1 DEF FallbackInv, TimeInv, Calls
  <2>3. QED
    BY <1>1, <2>1, <2>2 DEF FallbackInv, TimeInv, Calls
<1>5. QED
  BY <1>2, <1>3, <1>4 DEF FallbackInv

\* What a step of the worker of r may change, and what follows of the rest.
LEMMA WorkerFrame ==
  ASSUME FallbackInv, NEW r \in Recipients, WorkerKeeps,
         Shapes',
         \A q \in Recipients \ {r}:
             /\ rows'[q] = rows[q] /\ job'[q] = job[q] /\ work'[q] = work[q]
             /\ delivered'[q] = delivered[q] /\ lost'[q] = lost[q] /\ (q \in upset => q \in upset'),
         job[r] # "none" /\ job'[r] # "none" /\ rows'[r] # "none",
         \* WorkInv of r
         work'[r] # "no" => job'[r] = "active",
         work'[r] \in {"send", "record"} => rows'[r] = "processing",
         job'[r] = "active" /\ work'[r] = "no" => restarts > 0,
         work'[r] = "resolve" => rows'[r] = "sent" \/ r \in upset' \/ restarts > 0,
         work'[r] = "reject" => rows'[r] = "failed" \/ r \in upset',
         rows'[r] = "processing" => Owned(r)' \/ r \in upset' \/ restarts > 0,
         \* BudgetInv of r
         delivered'[r] - delivered[r] <=
             (IF Recorded(r)' THEN 1 ELSE 0) - (IF Recorded(r) THEN 1 ELSE 0) + lost'[r] - lost[r],
         \* HeldInv of r
         \/ job'[r] \in {"queued", "active"} \/ rows'[r] \in {"sent", "failed"} \/ r \in upset'
         \/ restarts > 0,
         \* TimeInv of r
         start = "now" \/ madeFar
  PROVE  FallbackInv'
<1>1. UNCHANGED <<request, inserting, server, copies, timers, running, cancelling, restarts,
                  start, early, madeFar>>
  BY DEF WorkerKeeps, time, route, memory
<1>2. \A q \in Recipients: Pends(q)' <=> Pends(q)
  BY <1>1 DEF Pends
<1>3. \A q \in Recipients \ {r}: (Owned(q)' <=> Owned(q)) /\ (Recorded(q)' <=> Recorded(q))
  BY DEF Owned, Recorded
<1>4. StageInv'
  BY <1>1, <1>2 DEF FallbackInv, StageInv, Calls
<1>5. WorkInv'
  BY <1>1, <1>3 DEF FallbackInv, WorkInv
<1>6. BudgetInv'
  <2> SUFFICES ASSUME NEW q \in Recipients
               PROVE  delivered'[q] + (IF Pends(q)' THEN 1 ELSE 0) <=
                          (IF Recorded(q)' THEN 1 ELSE 0) + lost'[q]
                          + (IF request' = "inMemory" THEN 1 ELSE 0)
    BY DEF BudgetInv
  <2>1. /\ delivered[q] + (IF Pends(q) THEN 1 ELSE 0) <=
               (IF Recorded(q) THEN 1 ELSE 0) + lost[q] + (IF request = "inMemory" THEN 1 ELSE 0)
        /\ {delivered[q], lost[q], delivered'[q], lost'[q]} \subseteq Nat
    BY DEF FallbackInv, BudgetInv, Shapes
  <2>2. CASE q = r
    BY <1>1, <1>2, <2>1, <2>2
  <2>3. CASE q # r
    BY <1>1, <1>2, <1>3, <2>1, <2>3
  <2>4. QED
    BY <2>2, <2>3
<1>7. HeldInv'
  <2>1. restarts = 0 => \/ job'[r] \in {"queued", "active"} \/ rows'[r] \in {"sent", "failed"}
                        \/ r \in upset'
    OBVIOUS
  <2>2. QED
    BY <1>1, <1>2, <2>1 DEF FallbackInv, HeldInv
<1>8. TimeInv'
  BY <1>1 DEF FallbackInv, TimeInv
<1>9. QED
  BY <1>4, <1>5, <1>6, <1>7, <1>8 DEF FallbackInv

\* A worker takes the job of r and goes through it.
LEMMA JobSteps ==
  ASSUME FallbackInv, NEW r \in Recipients, JobStep(r) PROVE FallbackInv'
<1> USE DEF JobStates, WorkPCs, RowStatuses
<1>1. CASE TakeJob(r)
  <2>1. /\ start = "now" /\ job[r] = "queued" /\ work[r] = "no" /\ rows[r] # "none"
    BY <1>1 DEF TakeJob, FallbackInv, WorkInv, StageInv, TimeInv, Due
  <2>2. WorkerKeeps /\ Shapes'
    BY <1>1 DEF TakeJob, WorkerKeeps, time, route, memory, sends, FallbackInv, Shapes,
               Throws, UpdateThrows, SetRow, SetJob, SetWork, Upset, Deliver, LoseOutcome, Claimable
  <2>3. QED
    BY <1>1, <2>1, <2>2, WorkerFrame
    DEF TakeJob, sends, FallbackInv, Shapes, WorkInv, Owned, Recorded,
        Throws, UpdateThrows, SetRow, SetJob, SetWork, Upset, Deliver, LoseOutcome, Claimable
<1>2. CASE Claim(r)
  <2>1. /\ work[r] = "claim" /\ job[r] = "active" /\ rows[r] # "none" /\ (start = "now" \/ madeFar)
    BY <1>2 DEF Claim, FallbackInv, WorkInv, StageInv, TimeInv, Due
  <2>2. WorkerKeeps /\ Shapes'
    BY <1>2 DEF Claim, WorkerKeeps, time, route, memory, sends, FallbackInv, Shapes,
               Throws, UpdateThrows, SetRow, SetJob, SetWork, Upset, Deliver, LoseOutcome, Claimable
  <2>3. QED
    BY <1>2, <2>1, <2>2, WorkerFrame
    DEF Claim, sends, FallbackInv, Shapes, WorkInv, Owned, Recorded,
        Throws, UpdateThrows, SetRow, SetJob, SetWork, Upset, Deliver, LoseOutcome, Claimable
<1>3. CASE Abandon(r)
  <2>1. /\ work[r] = "send" /\ job[r] = "active" /\ rows[r] = "processing" /\ (start = "now" \/ madeFar)
    BY <1>3 DEF Abandon, FallbackInv, WorkInv, StageInv, TimeInv, Due
  <2>2. WorkerKeeps /\ Shapes'
    BY <1>3 DEF Abandon, WorkerKeeps, time, route, memory, sends, FallbackInv, Shapes,
               Throws, UpdateThrows, SetRow, SetJob, SetWork, Upset, Deliver, LoseOutcome, Claimable
  <2>3. QED
    BY <1>3, <2>1, <2>2, WorkerFrame
    DEF Abandon, sends, FallbackInv, Shapes, WorkInv, Owned, Recorded,
        Throws, UpdateThrows, SetRow, SetJob, SetWork, Upset, Deliver, LoseOutcome, Claimable
<1>4. CASE Postpone(r)
  <2>1. /\ work[r] = "send" /\ job[r] = "active" /\ rows[r] = "processing" /\ (start = "now" \/ madeFar)
    BY <1>4 DEF Postpone, FallbackInv, WorkInv, StageInv, TimeInv, Due
  <2>2. WorkerKeeps /\ Shapes'
    BY <1>4 DEF Postpone, WorkerKeeps, time, route, memory, sends, FallbackInv, Shapes,
               Throws, UpdateThrows, SetRow, SetJob, SetWork, Upset, Deliver, LoseOutcome, Claimable
  <2>3. QED
    BY <1>4, <2>1, <2>2, WorkerFrame
    DEF Postpone, sends, FallbackInv, Shapes, WorkInv, Owned, Recorded,
        Throws, UpdateThrows, SetRow, SetJob, SetWork, Upset, Deliver, LoseOutcome, Claimable
<1>5. CASE SendMail(r)
  <2>1. /\ work[r] = "send" /\ job[r] = "active" /\ rows[r] = "processing" /\ (start = "now" \/ madeFar)
    BY <1>5 DEF SendMail, FallbackInv, WorkInv, StageInv, TimeInv, Due
  <2>2. WorkerKeeps /\ Shapes'
    BY <1>5 DEF SendMail, WorkerKeeps, time, route, memory, sends, FallbackInv, Shapes,
               Throws, UpdateThrows, SetRow, SetJob, SetWork, Upset, Deliver, LoseOutcome, Claimable
  <2>3. QED
    BY <1>5, <2>1, <2>2, WorkerFrame
    DEF SendMail, sends, FallbackInv, Shapes, WorkInv, Owned, Recorded,
        Throws, UpdateThrows, SetRow, SetJob, SetWork, Upset, Deliver, LoseOutcome, Claimable
<1>6. CASE RecordSent(r)
  <2>1. /\ work[r] = "record" /\ job[r] = "active" /\ rows[r] = "processing" /\ (start = "now" \/ madeFar)
    BY <1>6 DEF RecordSent, FallbackInv, WorkInv, StageInv, TimeInv, Due
  <2>2. WorkerKeeps /\ Shapes'
    BY <1>6 DEF RecordSent, WorkerKeeps, time, route, memory, sends, FallbackInv, Shapes,
               Throws, UpdateThrows, SetRow, SetJob, SetWork, Upset, Deliver, LoseOutcome, Claimable
  <2>3. QED
    BY <1>6, <2>1, <2>2, WorkerFrame
    DEF RecordSent, sends, FallbackInv, Shapes, WorkInv, Owned, Recorded,
        Throws, UpdateThrows, SetRow, SetJob, SetWork, Upset, Deliver, LoseOutcome, Claimable
<1>7. CASE RecordFailed(r)
  <2>1. /\ work[r] = "fail" /\ job[r] = "active" /\ rows[r] # "none" /\ (start = "now" \/ madeFar)
    BY <1>7 DEF RecordFailed, FallbackInv, WorkInv, StageInv, TimeInv, Due
  <2>2. WorkerKeeps /\ Shapes'
    BY <1>7 DEF RecordFailed, WorkerKeeps, time, route, memory, sends, FallbackInv, Shapes,
               Throws, UpdateThrows, SetRow, SetJob, SetWork, Upset, Deliver, LoseOutcome, Claimable
  <2>3. QED
    BY <1>7, <2>1, <2>2, WorkerFrame
    DEF RecordFailed, sends, FallbackInv, Shapes, WorkInv, Owned, Recorded,
        Throws, UpdateThrows, SetRow, SetJob, SetWork, Upset, Deliver, LoseOutcome, Claimable
<1>8. CASE LeaveJob(r)
  <2>1. /\ work[r] \in {"resolve", "reject"} /\ job[r] = "active" /\ rows[r] # "none" /\ (start = "now" \/ madeFar)
    BY <1>8 DEF LeaveJob, FallbackInv, WorkInv, StageInv, TimeInv, Due
  <2>2. WorkerKeeps /\ Shapes'
    BY <1>8 DEF LeaveJob, WorkerKeeps, time, route, memory, sends, FallbackInv, Shapes,
               Throws, UpdateThrows, SetRow, SetJob, SetWork, Upset, Deliver, LoseOutcome, Claimable
  <2>3. QED
    BY <1>8, <2>1, <2>2, WorkerFrame
    DEF LeaveJob, sends, FallbackInv, Shapes, WorkInv, Owned, Recorded,
        Throws, UpdateThrows, SetRow, SetJob, SetWork, Upset, Deliver, LoseOutcome, Claimable
<1>9. CASE SweepStalled(r)
  <2>1. /\ job[r] = "active" /\ work[r] = "no" /\ restarts > 0 /\ job'[r] \in {"queued", "done"}
        /\ job' = [job EXCEPT ![r] = job'[r]]
        /\ UNCHANGED <<time, server, route, inserting, rows, work, memory, sends, restarts>>
    BY <1>9 DEF SweepStalled, SetJob, FallbackInv, WorkInv, Shapes, outside
  <2>2. Shapes'
    BY <2>1 DEF time, memory, sends, FallbackInv, Shapes
  <2>3. StageInv' /\ WorkInv'
    BY <2>1 DEF time, route, memory, sends, FallbackInv, Shapes, StageInv, WorkInv, Pends, Owned, Calls
  <2>4. BudgetInv' /\ HeldInv' /\ TimeInv'
    BY <2>1 DEF time, route, memory, sends, FallbackInv, Shapes, BudgetInv, HeldInv, TimeInv,
                Pends, Recorded
  <2>5. QED
    BY <2>2, <2>3, <2>4 DEF FallbackInv
<1>10. QED
  BY <1>1, <1>2, <1>3, <1>4, <1>5, <1>6, <1>7, <1>8, <1>9 DEF JobStep

\* The timer of r goes off, and its copy is sent, once.
LEMMA CopySteps ==
  ASSUME FallbackInv, NEW r \in Recipients, CopyStep(r) PROVE FallbackInv'
<1>1. CASE FireTimer(r)
  BY <1>1 DEF FireTimer, SetRunning, Due, outside, route, queued, queue, sends, time,
              FallbackInv, Shapes, StageInv, WorkInv, BudgetInv, HeldInv, TimeInv, Pends, Owned, Recorded, Calls
<1>2. CASE ProcessCopy(r)
  BY <1>2 DEF ProcessCopy, SetCopy, SetRunning, outside, route, queued, queue, sends, time, CopyStatuses,
              FallbackInv, Shapes, StageInv, WorkInv, BudgetInv, HeldInv, TimeInv, Pends, Owned, Recorded, Calls
<1>3. CASE SendCopy(r)
  BY <1>3 DEF SendCopy, SetCopy, SetRunning, Deliver, outside, route, queued, queue, time, CopyStatuses,
              FallbackInv, Shapes, StageInv, WorkInv, BudgetInv, HeldInv, TimeInv, Pends, Owned, Recorded, Calls
<1>4. QED
  BY <1>1, <1>2, <1>3 DEF CopyStep

\* A cancel changes what the copy says, and nothing that runs it.
LEMMA CancelSteps ==
  ASSUME FallbackInv, NEW r \in Recipients, BeginCancel(r) \/ FinishCancel(r)
  PROVE  FallbackInv'
  BY DEF BeginCancel, FinishCancel, SetCopy, outside, route, queued, queue, sends, time, CopyStatuses,
         FallbackInv, Shapes, StageInv, WorkInv, BudgetInv, HeldInv, TimeInv, Pends, Owned, Recorded, Calls

\* The memory is lost, and the recovery adds the jobs that are missing.
LEMMA ServerSteps ==
  ASSUME FallbackInv, Restart \/ Recover PROVE FallbackInv'
<1>1. CASE Restart
  BY <1>1, BoundsAssumption
  DEF Restart, NoCopies, NoneRunning, queued, queue, sends, CopyStatuses, WorkPCs,
      FallbackInv, Shapes, StageInv, WorkInv, BudgetInv, HeldInv, TimeInv, Pends, Owned, Recorded, Calls
<1>2. CASE Recover
  BY <1>2
  DEF Recover, Recoverable, Started, JobDelay, Throws, outside, route, memory, JobStates,
      FallbackInv, Shapes, StageInv, WorkInv, BudgetInv, HeldInv, TimeInv, Pends, Owned, Recorded, Calls
<1>3. QED
  BY <1>1, <1>2

\* Servers come and go, and time passes.
LEMMA OutsideSteps ==
  ASSUME FallbackInv,
         \/ LoseDatabase \/ DatabaseReturns \/ LoseRedis \/ RedisReturns \/ TimePasses
         \/ UNCHANGED vars
  PROVE  FallbackInv'
<1>1. CASE TimePasses
  BY <1>1 DEF TimePasses, Times, outside, route, queued, queue, memory, sends,
              FallbackInv, Shapes, StageInv, WorkInv, BudgetInv, HeldInv, TimeInv, Pends, Owned, Recorded
<1>2. CASE ~TimePasses
  BY <1>2 DEF LoseDatabase, DatabaseReturns, LoseRedis, RedisReturns, vars,
              outside, route, queued, queue, memory, sends, time,
              FallbackInv, Shapes, StageInv, WorkInv, BudgetInv, HeldInv, TimeInv, Pends, Owned, Recorded
<1>3. QED
  BY <1>1, <1>2

\* Every step preserves the invariant.
LEMMA FallbackNext == FallbackInv /\ [Next]_vars => FallbackInv'
  BY EarlyCalls, InsertSteps, AddBulkStep, FallbackStep, JobSteps, CopySteps, CancelSteps,
     ServerSteps, OutsideSteps
  DEF Next, RouteStep

\* The invariant holds of the specification.
LEMMA FallbackInvariance == Spec => []FallbackInv
  BY FallbackInit, FallbackNext, PTL DEF Spec

\* As long as the process lives, an answer leaves every recipient with a job or a
\* timer, or run to its end (routes/emails.ts:129, 174), unless a statement of its
\* worker failed.
THEOREM AcceptedIsHeldHolds == Spec => []AcceptedIsHeld
<1>1. FallbackInv => AcceptedIsHeld
  BY DEF FallbackInv, HeldInv, Pends, AcceptedIsHeld, Answered, Held
<1>2. QED
  BY <1>1, FallbackInvariance, PTL

\* A recipient gets one message at most from each of the two stores, and one more for
\* each delivery whose outcome a worker lost (emailWorker.ts:122, 135), whatever is
\* restarted, retried, recovered or committed late.
THEOREM OncePerStoreHolds == Spec => []OncePerStore
<1>1. FallbackInv => OncePerStore
  BY DEF FallbackInv, Shapes, BudgetInv, Recorded, OncePerStore
<1>2. QED
  BY <1>1, FallbackInvariance, PTL

\* No email is sent before its time, unless its timer was set when that was too far
\* away for setTimeout (inMemoryQueue.ts:21).
THEOREM NotBeforeItsTimeHolds == Spec => []NotBeforeItsTime
<1>1. FallbackInv => NotBeforeItsTime
  BY DEF FallbackInv, TimeInv, NotBeforeItsTime
<1>2. QED
  BY <1>1, FallbackInvariance, PTL
===============================================================================
