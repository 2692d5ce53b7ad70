------------------------- MODULE EmailSchedulerProofs -------------------------
(***************************************************************************)
(* Proofs about EmailScheduler, for any number of emails, workers,         *)
(* processes and senders and under every combination of faults and         *)
(* requests.                                                               *)
(*                                                                         *)
(* The inductive invariant has two layers.  StateInv is about types and    *)
(* the queue's own bookkeeping; it does not look at the rows.  SendInv     *)
(* says who may hold which row in which status, and is what the claim on   *)
(* the row is proved from; it uses nothing of the queue, which is why the  *)
(* guarantees survive lost locks, redeliveries and lost queues.            *)
(*                                                                         *)
(* Two sections follow from it.  The system implements SendLease: what a   *)
(* step does to one email, said of its row and its executions (LeaseStep), *)
(* is a step of the leases or a stutter.  And up to the first crash rows   *)
(* and jobs agree (AgreeInv), which does look at both.                     *)
(***************************************************************************)
EXTENDS EmailScheduler, TLAPS

\* A held lock is an active job's; a job that may run, now or once added, has
\* an attempt left.
QueueInv ==
    \A e \in Emails:
        /\ lock[e] # NoWorker => jobState[e] = "active"
        /\ jobState[e] \notin {"completed", "failed"} => attemptsMade[e] < MaxAttempts

\* Exactly the busy workers have a task.
TaskInv == \A w \in Workers: pc[w] = "idle" <=> task[w] = NoEmail

QueueOK == QueueTypeOK /\ QueueInv

WorkOK == WorkerTypeOK /\ TaskInv

BackendOK ==
    /\ server \in [Servers -> {"down", "recovering", "up"}]
    /\ scan \in [Servers -> SUBSET Emails]
    /\ enqueuing \in [Servers -> SUBSET Emails]
    /\ cancelling \in [Servers -> [Emails -> {"none", "update", "remove"}]]
    /\ senders \in SUBSET Senders
    /\ crashes \in 0..MaxCrashes

StateInv == QueueOK /\ WorkOK /\ BackendOK

\* A row that is owned exists or was deleted, and nobody else may claim it.
ClaimInv ==
    \A e \in Emails, w \in Workers:
        Owns(w, e) => status[e] \notin Claimable \union {"none"}

\* How far a delivery has got is visible in its row and in its owner.
DeliveryInv ==
    \A e \in Emails:
        /\ status[e] = "none" => delivered[e] = 0
        /\ delivered[e] > 0 /\ ~ackLost[e] =>
               /\ status[e] \notin Claimable
               /\ \A w \in Workers: Owns(w, e) => pc[w] = "record"
        /\ \A w \in Workers: Owns(w, e) /\ pc[w] = "record" => delivered[e] > 0

SendInv ==
    ClaimInv /\ DeliveryInv /\ SingleOwner /\ SentIsTruthful /\ NoDuplicateWithoutLostAck

-------------------------------------------------------------------------------
(* StateInv *)

\* The initial state satisfies StateInv.
LEMMA StateInit == Init => StateInv
  BY NoEmailAssumption, CrashesAssumption, AttemptsAssumption, StallsAssumption
  DEF Init, QueueInit, WorkerInit, StateInv, QueueOK, WorkOK, BackendOK, QueueTypeOK, WorkerTypeOK,
      QueueInv, TaskInv, JobStates, Statuses, PCs, OwningPCs

\* Each operation of the queue preserves it.
LEMMA QueueStutter == QueueOK /\ UNCHANGED queueVars => QueueOK'
  BY DEF QueueOK, QueueTypeOK, QueueInv, queueVars

\* Adding a job preserves QueueOK.
LEMMA AddJobStep == ASSUME QueueOK, NEW e \in Emails, AddJob(e) PROVE QueueOK'
<1> USE WorkersAssumption DEF QueueOK, QueueTypeOK, QueueInv, JobStates, AddJob
<1>1. CASE JobExists(e)
  <2>1. jobState' = jobState
    BY <1>1
  <2>2. QED
    BY <2>1
<1>2. CASE ~JobExists(e)
  <2>1. jobState' = [jobState EXCEPT ![e] = "queued"]
    BY <1>2
  <2>2. QED
    BY <1>2, <2>1 DEF JobExists
<1>3. QED
  BY <1>1, <1>2

\* So do a lock that expires and the sweep of a stalled job.
LEMMA StalledSteps ==
  ASSUME QueueOK, NEW e \in Emails, ExpireLock(e) \/ SweepStalled(e)
  PROVE  QueueOK'
<1> USE WorkersAssumption, AttemptsAssumption, StallsAssumption
    DEF QueueOK, QueueTypeOK, QueueInv, JobStates
<1>1. CASE ExpireLock(e)
  BY <1>1 DEF ExpireLock
<1>2. CASE SweepStalled(e)
  BY <1>2 DEF SweepStalled
<1>3. QED
  BY <1>1, <1>2

\* So do the steps of the worker that holds a job.
LEMMA HolderSteps ==
  ASSUME QueueOK, NEW e \in Emails, NEW w \in Workers,
         \/ TakeJob(w, e) \/ MoveToDelayed(w, e) \/ MoveToCompleted(w, e)
         \/ MoveToFailed(w, e) \/ LockLost(w, e)
  PROVE  QueueOK'
<1> USE WorkersAssumption, AttemptsAssumption, StallsAssumption
    DEF QueueOK, QueueTypeOK, QueueInv, JobStates
<1>1. CASE TakeJob(w, e)
  BY <1>1 DEF TakeJob
<1>2. CASE MoveToDelayed(w, e)
  BY <1>2 DEF MoveToDelayed, Release
<1>3. CASE MoveToCompleted(w, e)
  BY <1>3 DEF MoveToCompleted, Release
<1>4. CASE MoveToFailed(w, e)
  BY <1>4 DEF MoveToFailed, Release, RetryLeft
<1>5. CASE LockLost(w, e)
  BY <1>5, QueueStutter DEF LockLost
<1>6. QED
  BY <1>1, <1>2, <1>3, <1>4, <1>5

\* So does the removal of jobs, one or all.
LEMMA ForgetStep == ASSUME QueueOK, NEW E \in SUBSET Emails, Forget(E) PROVE QueueOK'
  BY AttemptsAssumption, StallsAssumption
  DEF QueueOK, QueueTypeOK, QueueInv, JobStates, Forget

\* A busy worker's task is an email.
LEMMA BusyTask ==
  ASSUME WorkOK, NEW w \in Workers, pc[w] # "idle" PROVE task[w] \in Emails
  BY NoEmailAssumption DEF WorkOK, WorkerTypeOK, TaskInv

\* A step that goes on to another await, or ends, keeps the bookkeeping of
\* executions.
LEMMA GotoStep ==
  ASSUME WorkOK, NEW w \in Workers, pc[w] # "idle",
         NEW label \in PCs \ {"idle"}, Goto(w, label)
  PROVE  pc' \in [Workers -> PCs] /\ task' \in [Workers -> Emails \union {NoEmail}] /\ TaskInv'
  BY DEF WorkOK, WorkerTypeOK, TaskInv, Goto

\* A worker that ends its execution has no task.
LEMMA FinishStep ==
  ASSUME WorkOK, NEW w \in Workers, Finish(w)
  PROVE  pc' \in [Workers -> PCs] /\ task' \in [Workers -> Emails \union {NoEmail}] /\ TaskInv'
  BY DEF WorkOK, WorkerTypeOK, TaskInv, Finish, PCs

\* prisma.scheduledEmail.update keeps the types of rows and executions.
LEMMA UpdateStep ==
  ASSUME WorkOK, NEW w \in Workers, pc[w] # "idle",
         NEW onOk \in PCs \ {"idle"}, NEW onError \in PCs \ {"idle"},
         NEW st \in Statuses, Update(w, st, onOk, onError)
  PROVE  /\ status' \in [Emails -> Statuses]
         /\ pc' \in [Workers -> PCs] /\ task' \in [Workers -> Emails \union {NoEmail}]
         /\ TaskInv'
<1>1. PICK label \in {onOk, onError}: Goto(w, label)
  BY DEF Update
<1>2. status' \in [Emails -> Statuses]
  BY BusyTask DEF Update, SetStatus, WorkOK, WorkerTypeOK
<1>3. QED
  BY <1>1, <1>2, GotoStep

\* Every step of processEmailJob preserves both layers of bookkeeping.
LEMMA WorkerStepOK ==
  ASSUME QueueOK, WorkOK, NEW w \in Workers, WorkerStep(w)
  PROVE  QueueOK' /\ WorkOK'
<1> USE DEF PCs, OwningPCs, Statuses, At
<1>1. CASE Claim(w)
  <2>1. pc[w] # "idle" /\ task[w] \in Emails
    BY <1>1, BusyTask DEF Claim
  <2>2. PICK label \in {"fetch", "recheck", "reject"}: Goto(w, label)
    BY <1>1 DEF Claim
  <2>3. status' \in [Emails -> Statuses]
    BY <1>1, <2>1 DEF Claim, SetStatus, WorkOK, WorkerTypeOK
  <2>4. QED
    BY <1>1, <2>1, <2>2, <2>3, GotoStep, QueueStutter DEF Claim, WorkOK, WorkerTypeOK
<1>2. CASE Recheck(w) \/ Fetch(w) \/ LimiterStep(w)
  <2>1. pc[w] # "idle" /\ UNCHANGED <<queueVars, rowVars>>
    BY <1>2 DEF Recheck, Fetch, LimiterStep, SlotCheck, HourlyCheck
  <2>2. PICK label \in PCs \ {"idle"}: Goto(w, label)
    BY <1>2 DEF Recheck, Fetch, LimiterStep, SlotCheck, HourlyCheck, AfterDenial
  <2>3. QED
    BY <2>1, <2>2, GotoStep, QueueStutter DEF WorkOK, WorkerTypeOK, rowVars
<1>3. CASE Revert(w) \/ RecordSent(w) \/ MarkFailed(w)
  <2>1. pc[w] # "idle" /\ task[w] \in Emails /\ UNCHANGED <<queueVars, delivered>>
    BY <1>3, BusyTask DEF Revert, RecordSent, MarkFailed
  <2>2. PICK onOk \in PCs \ {"idle"}, onError \in PCs \ {"idle"}, st \in Statuses:
          Update(w, st, onOk, onError)
    BY <1>3 DEF Revert, RecordSent, MarkFailed
  <2>3. ackLost' \in [Emails -> BOOLEAN]
    BY <1>3, <2>1 DEF Revert, RecordSent, MarkFailed, WorkOK, WorkerTypeOK
  <2>4. QED
    BY <2>1, <2>2, <2>3, UpdateStep, QueueStutter DEF WorkOK, WorkerTypeOK
<1>4. CASE SendMail(w)
  <2>1. pc[w] # "idle" /\ task[w] \in Emails /\ UNCHANGED <<queueVars, status>>
    BY <1>4, BusyTask DEF SendMail
  <2>2. PICK label \in {"record", "markFailed"}: Goto(w, label)
    BY <1>4 DEF SendMail, AfterSendError
  <2>3. delivered' \in [Emails -> 0..2]
    <3>1. CASE UNCHANGED delivered
      BY <3>1 DEF WorkOK, WorkerTypeOK
    <3>2. CASE delivered' = [delivered EXCEPT ![task[w]] = IF @ < 2 THEN @ + 1 ELSE 2]
      <4>1. delivered[task[w]] \in 0..2
        BY <2>1 DEF WorkOK, WorkerTypeOK
      <4>2. (IF delivered[task[w]] < 2 THEN delivered[task[w]] + 1 ELSE 2) \in 0..2
        BY <4>1
      <4>3. QED
        BY <3>2, <4>2, <2>1 DEF WorkOK, WorkerTypeOK
    <3>3. QED
      BY <1>4, <3>1, <3>2 DEF SendMail
  <2>4. ackLost' \in [Emails -> BOOLEAN]
    BY <1>4, <2>1 DEF SendMail, WorkOK, WorkerTypeOK
  <2>5. QED
    BY <2>1, <2>2, <2>3, <2>4, GotoStep, QueueStutter DEF WorkOK, WorkerTypeOK
<1>5. CASE Defer(w) \/ Resolve(w) \/ Reject(w)
  <2>1. pc[w] # "idle" /\ task[w] \in Emails /\ UNCHANGED rowVars
    BY <1>5, BusyTask DEF Defer, Resolve, Reject
  <2>2. QueueOK'
    BY <1>5, <2>1, HolderSteps, QueueStutter DEF Defer, Resolve, Reject
  <2>3. Goto(w, "reject") \/ Finish(w)
    BY <1>5 DEF Defer, Resolve, Reject
  <2>4. QED
    BY <2>1, <2>2, <2>3, GotoStep, FinishStep DEF WorkOK, WorkerTypeOK, rowVars
<1>6. QED
  BY <1>1, <1>2, <1>3, <1>4, <1>5 DEF WorkerStep, ProcessorStep

\* The rows and the executions are untouched.
LEMMA WorkStutter == WorkOK /\ UNCHANGED <<rowVars, workerVars>> => WorkOK'
  BY DEF WorkOK, WorkerTypeOK, TaskInv, rowVars, workerVars

\* The server's part holds while its variables stay.
LEMMA BackendStutter ==
  BackendOK /\ UNCHANGED <<serverVars, routeVars, crashes>> => BackendOK'
  BY DEF BackendOK, serverVars, routeVars

\* Each request of the HTTP API preserves StateInv.
LEMMA RouteStepOK ==
  ASSUME StateInv, NEW s \in Servers, NEW e \in Emails, RouteStep(s, e)
  PROVE  StateInv'
<1>1. QueueOK /\ WorkOK /\ BackendOK
  BY DEF StateInv
<1>2. CASE Submit(s, e)
  <2>1. WorkOK'
    BY <1>1, <1>2 DEF Submit, SetStatus, WorkOK, WorkerTypeOK, TaskInv, Statuses, workerVars
  <2>2. BackendOK'
    BY <1>1, <1>2 DEF Submit, BackendOK, serverVars
  <2>3. QED
    BY <1>1, <1>2, <2>1, <2>2, QueueStutter DEF StateInv, Submit
<1>3. CASE Enqueue(s, e)
  <2>1. BackendOK'
    BY <1>1, <1>3 DEF Enqueue, BackendOK, serverVars
  <2>2. QED
    BY <1>1, <1>3, <2>1, AddJobStep, WorkStutter DEF StateInv, Enqueue
<1>4. CASE AbandonEnqueue(s, e)
  <2>1. BackendOK'
    BY <1>1, <1>4 DEF AbandonEnqueue, BackendOK, serverVars
  <2>2. QED
    BY <1>1, <1>4, <2>1, QueueStutter, WorkStutter DEF StateInv, AbandonEnqueue
<1>5. CASE BeginCancel(s, e)
  <2>1. BackendOK'
    BY <1>1, <1>5 DEF BeginCancel, SetCancelling, BackendOK, serverVars
  <2>2. QED
    BY <1>1, <1>5, <2>1, QueueStutter, WorkStutter DEF StateInv, BeginCancel
<1>6. CASE CancelUpdate(s, e)
  <2>1. WorkOK'
    BY <1>1, <1>6
    DEF CancelUpdate, SetStatus, WorkOK, WorkerTypeOK, TaskInv, Statuses, workerVars
  <2>2. PICK step \in {"none", "remove"}: SetCancelling(s, e, step)
    BY <1>6 DEF CancelUpdate
  <2>3. BackendOK'
    BY <1>1, <1>6, <2>2 DEF CancelUpdate, SetCancelling, BackendOK, serverVars
  <2>4. QED
    BY <1>1, <1>6, <2>1, <2>3, QueueStutter DEF StateInv, CancelUpdate
<1>7. CASE CancelRemove(s, e)
  <2>1. QueueOK'
    BY <1>1, <1>7, ForgetStep, QueueStutter DEF CancelRemove, RemoveJob
  <2>2. BackendOK'
    BY <1>1, <1>7 DEF CancelRemove, SetCancelling, BackendOK, serverVars
  <2>3. QED
    BY <1>1, <1>7, <2>1, <2>2, WorkStutter DEF StateInv, CancelRemove
<1>8. QED
  BY <1>2, <1>3, <1>4, <1>5, <1>6, <1>7 DEF RouteStep

\* Deaths, boots and recoveries preserve StateInv.
LEMMA ServerStepOK ==
  ASSUME StateInv, NEW s \in Servers, ServerStep(s) PROVE StateInv'
<1>1. QueueOK /\ WorkOK /\ BackendOK
  BY DEF StateInv
<1>2. CASE Crash(s)
  <2>1. WorkOK'
    BY <1>1, <1>2 DEF Crash, WorkOK, WorkerTypeOK, TaskInv, PCs, rowVars
  <2>2. BackendOK'
    <3>1. crashes' \in 0..MaxCrashes
      BY <1>1, <1>2, CrashesAssumption DEF Crash, BackendOK
    <3>2. [e \in Emails |-> "none"] \in [Emails -> {"none", "update", "remove"}]
      OBVIOUS
    <3>3. cancelling' \in [Servers -> [Emails -> {"none", "update", "remove"}]]
      BY <1>1, <1>2, <3>2 DEF Crash, BackendOK
    <3>4. QED
      BY <1>1, <1>2, <3>1, <3>3 DEF Crash, BackendOK
  <2>3. QED
    BY <1>1, <1>2, <2>1, <2>2, QueueStutter DEF StateInv, Crash
<1>3. CASE Start(s)
  <2>1. BackendOK'
    BY <1>1, <1>3 DEF Start, BackendOK, routeVars
  <2>2. QED
    BY <1>1, <1>3, <2>1, QueueStutter, WorkStutter DEF StateInv, Start
<1>4. CASE FinishRecovery(s)
  <2>1. BackendOK'
    BY <1>1, <1>4 DEF FinishRecovery, BackendOK, routeVars
  <2>2. QED
    BY <1>1, <1>4, <2>1, QueueStutter, WorkStutter DEF StateInv, FinishRecovery
<1>5. ASSUME NEW e \in Emails, Recover(s, e) PROVE StateInv'
  <2>1. BackendOK'
    BY <1>1, <1>5 DEF Recover, BackendOK, routeVars
  <2>2. QED
    BY <1>1, <1>5, <2>1, AddJobStep, WorkStutter DEF StateInv, Recover
<1>6. QED
  BY <1>2, <1>3, <1>4, <1>5 DEF ServerStep

\* Every step preserves StateInv.
LEMMA StateNext == StateInv /\ [Next]_vars => StateInv'
<1> SUFFICES ASSUME StateInv, [Next]_vars PROVE StateInv'
  OBVIOUS
<1>1. QueueOK /\ WorkOK /\ BackendOK
  BY DEF StateInv
<1>2. ASSUME NEW x \in Senders, DeleteSender(x) PROVE StateInv'
  <2>1. WorkOK'
    BY <1>1, <1>2 DEF DeleteSender, WorkOK, WorkerTypeOK, TaskInv, Statuses, workerVars
  <2>2. BackendOK'
    BY <1>1, <1>2 DEF DeleteSender, BackendOK, serverVars
  <2>3. QED
    BY <1>1, <1>2, <2>1, <2>2, QueueStutter DEF StateInv, DeleteSender
<1>3. ASSUME NEW e \in Emails, QueueStep(e) PROVE StateInv'
  <2>1. QueueOK'
    BY <1>1, <1>3, StalledSteps, ForgetStep DEF QueueStep, LoseLock, Sweep, Trim, TrimJob
  <2>2. UNCHANGED <<rowVars, workerVars>> /\ UNCHANGED <<serverVars, routeVars, crashes>>
    BY <1>3 DEF QueueStep, LoseLock, Sweep, Trim
  <2>3. QED
    BY <1>1, <2>1, <2>2, WorkStutter, BackendStutter DEF StateInv
<1>4. CASE LoseRedis
  <2>1. QueueOK'
    BY <1>1, <1>4, ForgetStep DEF LoseRedis
  <2>2. BackendOK'
    BY <1>1, <1>4, CrashesAssumption DEF LoseRedis, BackendOK, serverVars, routeVars
  <2>3. QED
    BY <1>1, <1>4, <2>1, <2>2, WorkStutter DEF StateInv, LoseRedis
<1>5. ASSUME NEW w \in Workers, NEW e \in Emails, WorkerStart(w, e) PROVE StateInv'
  <2>1. QueueOK'
    BY <1>1, <1>5, HolderSteps DEF WorkerStart, StartJob
  <2>2. WorkOK'
    BY <1>1, <1>5, NoEmailAssumption
    DEF WorkerStart, StartJob, WorkOK, WorkerTypeOK, TaskInv, PCs, rowVars
  <2>3. QED
    BY <1>1, <1>5, <2>1, <2>2, BackendStutter DEF StateInv, WorkerStart
<1>6. ASSUME NEW w \in Workers, ProcessStep(w) PROVE StateInv'
  BY <1>1, <1>6, WorkerStepOK, BackendStutter DEF StateInv, ProcessStep
<1>7. CASE UNCHANGED vars
  BY <1>1, <1>7, QueueStutter, WorkStutter, BackendStutter DEF StateInv, vars
<1>8. QED
  BY <1>2, <1>3, <1>4, <1>5, <1>6, <1>7, RouteStepOK, ServerStepOK DEF Next

\* The variables always have their types: among others, a job never counts
\* more failures than defaultJobOptions.attempts (queues/emailQueue.ts).
THEOREM TypeCorrect == Spec => []TypeOK
<1>1. Spec => []StateInv
  BY StateInit, StateNext, PTL DEF Spec
<1>2. StateInv => TypeOK
  BY DEF StateInv, QueueOK, WorkOK, BackendOK, TypeOK
<1>3. QED
  BY <1>1, <1>2, PTL

-------------------------------------------------------------------------------
(* SendInv *)

\* SendInv holds before the first execution.
LEMMA SendInit == Init => SendInv
  BY DEF Init, WorkerInit, SendInv, ClaimInv, DeliveryInv, SingleOwner,
         SentIsTruthful, NoDuplicateWithoutLostAck, Owns, OwningPCs, Claimable

\* No execution gains or moves: it may only stop owning its row.
OwnersShrink ==
    \A e \in Emails, w \in Workers: Owns(w, e)' => Owns(w, e) /\ pc'[w] = pc[w]

\* A step that only takes owners away preserves SendInv.
LEMMA ShrinkStep ==
  SendInv /\ UNCHANGED rowVars /\ OwnersShrink => SendInv'
  BY DEF SendInv, ClaimInv, DeliveryInv, SingleOwner, SentIsTruthful,
         NoDuplicateWithoutLostAck, OwnersShrink, rowVars

\* Users withdraw rows that exist, owned or not.
LEMMA WithdrawStep ==
  ASSUME SendInv, UNCHANGED <<delivered, ackLost, workerVars>>,
         \A e \in Emails:
             \/ status'[e] = status[e]
             \/ RowExists(e) /\ status'[e] \in {"cancelled", "deleted"}
  PROVE  SendInv'
  BY DEF SendInv, ClaimInv, DeliveryInv, SingleOwner, SentIsTruthful,
         NoDuplicateWithoutLostAck, Owns, RowExists, Claimable, workerVars

\* A new row has no owner and no delivery behind it.
LEMMA SubmitStep ==
  ASSUME WorkOK, SendInv, NEW s \in Servers, NEW e \in Emails, Submit(s, e)
  PROVE  SendInv'
  BY DEF Submit, SetStatus, SendInv, ClaimInv, DeliveryInv, SingleOwner, SentIsTruthful,
         NoDuplicateWithoutLostAck, Owns, Claimable, workerVars, WorkOK, WorkerTypeOK

\* A claim finds the row unowned, and not delivered unless the ack was lost.
LEMMA ClaimStep ==
  ASSUME WorkOK, SendInv, NEW w \in Workers, Claim(w) PROVE SendInv'
  BY BusyTask
  DEF Claim, SetStatus, Goto, At, SendInv, ClaimInv, DeliveryInv, SingleOwner,
      SentIsTruthful, NoDuplicateWithoutLostAck, Owns, OwningPCs, Claimable, WorkOK, WorkerTypeOK

\* The steps before the delivery keep the row as it is.
LEMMA BeforeSendStep ==
  ASSUME WorkOK, SendInv, NEW w \in Workers, Fetch(w) \/ LimiterStep(w) PROVE SendInv'
  BY BusyTask
  DEF Fetch, LimiterStep, SlotCheck, HourlyCheck, AfterDenial, Goto, At, rowVars,
      SendInv, ClaimInv, DeliveryInv, SingleOwner, SentIsTruthful,
      NoDuplicateWithoutLostAck, Owns, OwningPCs, Claimable, WorkOK, WorkerTypeOK

\* A denied execution gives the row up undelivered.
LEMMA RevertStep ==
  ASSUME WorkOK, SendInv, NEW w \in Workers, Revert(w) PROVE SendInv'
  BY BusyTask
  DEF Revert, Update, SetStatus, RowExists, Goto, At,
      SendInv, ClaimInv, DeliveryInv, SingleOwner, SentIsTruthful,
      NoDuplicateWithoutLostAck, Owns, OwningPCs, Claimable, WorkOK, WorkerTypeOK

\* The one step that delivers.
LEMMA SendMailStep ==
  ASSUME WorkOK, SendInv, NEW w \in Workers, SendMail(w) PROVE SendInv'
  BY BusyTask
  DEF SendMail, AfterSendError, Goto, At,
      SendInv, ClaimInv, DeliveryInv, SingleOwner, SentIsTruthful,
      NoDuplicateWithoutLostAck, Owns, OwningPCs, Claimable, WorkOK, WorkerTypeOK

\* After it, the row becomes sent or the acknowledgement is lost.
LEMMA RecordStep ==
  ASSUME WorkOK, SendInv, NEW w \in Workers, RecordSent(w) PROVE SendInv'
<1>1. pc[w] = "record" /\ task[w] \in Emails
  BY BusyTask DEF RecordSent, At
<1>2. CASE Goto(w, "resolve")
  <2>1. status' = [status EXCEPT ![task[w]] = "sent"]
    BY <1>1, <1>2 DEF RecordSent, Update, SetStatus, Goto, WorkOK, WorkerTypeOK
  <2>2. UNCHANGED <<delivered, ackLost>>
    BY <1>1, <1>2 DEF RecordSent, Goto, WorkOK, WorkerTypeOK
  <2>3. QED
    BY <1>1, <1>2, <2>1, <2>2
    DEF Goto,
      SendInv, ClaimInv, DeliveryInv, SingleOwner, SentIsTruthful,
      NoDuplicateWithoutLostAck, Owns, OwningPCs, Claimable, WorkOK, WorkerTypeOK
<1>3. CASE Goto(w, "markFailed")
  <2>1. status' \in {status, [status EXCEPT ![task[w]] = "sent"]}
    BY <1>1, <1>3 DEF RecordSent, Update, SetStatus, Goto
  <2>2. ackLost' = [ackLost EXCEPT ![task[w]] = TRUE] /\ UNCHANGED delivered
    BY <1>1, <1>3 DEF RecordSent, Goto, WorkOK, WorkerTypeOK
  <2>3. QED
    BY <1>1, <1>3, <2>1, <2>2
    DEF Goto,
      SendInv, ClaimInv, DeliveryInv, SingleOwner, SentIsTruthful,
      NoDuplicateWithoutLostAck, Owns, OwningPCs, Claimable, WorkOK, WorkerTypeOK
<1>4. QED
  BY <1>2, <1>3 DEF RecordSent, Update

\* The catch block opens the row again.
LEMMA MarkFailedStep ==
  ASSUME WorkOK, SendInv, NEW w \in Workers, MarkFailed(w) PROVE SendInv'
  BY BusyTask
  DEF MarkFailed, Update, SetStatus, RowExists, Goto, At,
      SendInv, ClaimInv, DeliveryInv, SingleOwner, SentIsTruthful,
      NoDuplicateWithoutLostAck, Owns, OwningPCs, Claimable, WorkOK, WorkerTypeOK

\* Every step preserves SendInv.
LEMMA SendNext == StateInv /\ SendInv /\ [Next]_vars => SendInv'
<1> SUFFICES ASSUME StateInv, SendInv, [Next]_vars PROVE SendInv'
  OBVIOUS
<1>1. WorkOK
  BY DEF StateInv
<1>2. ASSUME NEW s \in Servers, NEW e \in Emails, RouteStep(s, e) PROVE SendInv'
  <2>1. CASE Submit(s, e)
    BY <1>1, <2>1, SubmitStep
  <2>2. CASE CancelUpdate(s, e)
    <3>1. \/ status' = status
          \/ RowExists(e) /\ status' = [status EXCEPT ![e] = "cancelled"]
      BY <2>2 DEF CancelUpdate, SetStatus
    <3>2. \A f \in Emails:
            \/ status'[f] = status[f]
            \/ RowExists(f) /\ status'[f] \in {"cancelled", "deleted"}
      BY <1>1, <3>1 DEF WorkOK, WorkerTypeOK
    <3>3. QED
      BY <2>2, <3>2, WithdrawStep DEF CancelUpdate
  <2>3. CASE UNCHANGED <<rowVars, workerVars>>
    BY <2>3, ShrinkStep DEF OwnersShrink, Owns, workerVars
  <2>4. QED
    BY <1>2, <2>1, <2>2, <2>3
    DEF RouteStep, Enqueue, AbandonEnqueue, BeginCancel, CancelRemove
<1>3. ASSUME NEW x \in Senders, DeleteSender(x) PROVE SendInv'
  BY <1>1, <1>3, WithdrawStep DEF DeleteSender, WorkOK, WorkerTypeOK
<1>4. ASSUME NEW s \in Servers, ServerStep(s) PROVE SendInv'
  <2>1. CASE Crash(s)
    <3>1. OwnersShrink
      BY <2>1 DEF Crash, OwnersShrink, Owns, OwningPCs
    <3>2. QED
      BY <2>1, <3>1, ShrinkStep DEF Crash
  <2>2. CASE UNCHANGED <<rowVars, workerVars>>
    BY <2>2, ShrinkStep DEF OwnersShrink, Owns, workerVars
  <2>3. QED
    BY <1>4, <2>1, <2>2 DEF ServerStep, Start, FinishRecovery, Recover
<1>5. CASE LoseRedis \/ (\E e \in Emails: QueueStep(e)) \/ UNCHANGED vars
  <2>1. UNCHANGED <<rowVars, workerVars>>
    BY <1>5 DEF LoseRedis, QueueStep, LoseLock, Sweep, Trim, vars
  <2>2. QED
    BY <2>1, ShrinkStep DEF OwnersShrink, Owns, workerVars
<1>6. ASSUME NEW w \in Workers, NEW e \in Emails, WorkerStart(w, e) PROVE SendInv'
  <2>1. OwnersShrink
    BY <1>1, <1>6
    DEF WorkerStart, StartJob, At, OwnersShrink, Owns, OwningPCs, WorkOK, WorkerTypeOK
  <2>2. QED
    BY <1>6, <2>1, ShrinkStep DEF WorkerStart, StartJob
<1>7. ASSUME NEW w \in Workers, WorkerStep(w) PROVE SendInv'
  <2>1. CASE Recheck(w) \/ Defer(w) \/ Resolve(w) \/ Reject(w)
    <3>1. OwnersShrink
      BY <1>1, <2>1
      DEF Recheck, Defer, Resolve, Reject, Goto, Finish, At, OwnersShrink, Owns,
          OwningPCs, WorkOK, WorkerTypeOK
    <3>2. QED
      BY <2>1, <3>1, ShrinkStep DEF Recheck, Defer, Resolve, Reject
  <2>2. QED
    BY <1>1, <1>7, <2>1, ClaimStep, BeforeSendStep, RevertStep, SendMailStep,
       RecordStep, MarkFailedStep DEF WorkerStep, ProcessorStep
<1>8. QED
  BY <1>2, <1>3, <1>4, <1>5, <1>6, <1>7 DEF Next, ProcessStep

\* Both parts of the invariant hold of the specification.
LEMMA Invariance == Spec => [](StateInv /\ SendInv)
  BY StateInit, StateNext, SendInit, SendNext, PTL DEF Spec

\* Whatever fails, however often a job is redelivered, an email is in the
\* hands of at most one execution (emailWorker.ts, step 1).
THEOREM SingleOwnerHolds == Spec => []SingleOwner
  BY Invariance, PTL DEF SendInv

\* Whatever fails, a row reads sent only after a delivery.
THEOREM SentIsTruthfulHolds == Spec => []SentIsTruthful
  BY Invariance, PTL DEF SendInv

\* Whatever fails, a second delivery needs a lost acknowledgement.
THEOREM NoDuplicateHolds == Spec => []NoDuplicateWithoutLostAck
  BY Invariance, PTL DEF SendInv

-------------------------------------------------------------------------------
(* CancelledBeforeClaimIsFinal *)

\* An execution writes the row it owns, or one it may claim, and no other.
LEMMA WorkerStepKeepsCancelled ==
  ASSUME WorkOK, NEW w \in Workers, WorkerStep(w), NEW e \in Emails,
         status[e] = "cancelled", Unowned(e)
  PROVE  status'[e] = status[e] /\ delivered'[e] = delivered[e]
<1> USE DEF WorkOK, WorkerTypeOK, Unowned, Owns, OwningPCs, At
<1>1. CASE Claim(w)
  BY <1>1, BusyTask DEF Claim, Claimable, SetStatus
<1>2. CASE Recheck(w) \/ Fetch(w) \/ LimiterStep(w) \/ Defer(w) \/ Resolve(w) \/ Reject(w)
  BY <1>2
  DEF Recheck, Fetch, LimiterStep, SlotCheck, HourlyCheck, Defer, Resolve, Reject, rowVars
<1>3. CASE SendMail(w)
  BY <1>3, BusyTask DEF SendMail
<1>4. CASE Revert(w) \/ RecordSent(w) \/ MarkFailed(w)
  BY <1>4, BusyTask DEF Revert, RecordSent, MarkFailed, Update, SetStatus
<1>5. QED
  BY <1>1, <1>2, <1>3, <1>4 DEF WorkerStep, ProcessorStep

\* No step breaks CancelledStays.
LEMMA CancelledStaysNext == StateInv /\ [Next]_vars => CancelledStays
<1> SUFFICES ASSUME StateInv, [Next]_vars, NEW e \in Emails,
                    status[e] = "cancelled", Unowned(e)
             PROVE  /\ status'[e] \in {"cancelled", "deleted"}
                    /\ delivered'[e] = delivered[e]
  BY DEF CancelledStays
<1> USE DEF StateInv, WorkOK, WorkerTypeOK
<1>1. ASSUME NEW s \in Servers, NEW f \in Emails, RouteStep(s, f)
      PROVE  status'[e] \in {"cancelled", "deleted"} /\ delivered'[e] = delivered[e]
  BY <1>1
  DEF RouteStep, Submit, Enqueue, AbandonEnqueue, BeginCancel, CancelUpdate,
      CancelRemove, SetStatus, rowVars
<1>2. ASSUME NEW x \in Senders, DeleteSender(x)
      PROVE  status'[e] \in {"cancelled", "deleted"} /\ delivered'[e] = delivered[e]
  BY <1>2 DEF DeleteSender
<1>3. ASSUME NEW w \in Workers, ProcessStep(w)
      PROVE  status'[e] \in {"cancelled", "deleted"} /\ delivered'[e] = delivered[e]
  BY <1>3, WorkerStepKeepsCancelled DEF ProcessStep
<1>4. CASE UNCHANGED rowVars
  BY <1>4 DEF rowVars
<1>5. QED
  BY <1>1, <1>2, <1>3, <1>4
  DEF Next, ServerStep, Crash, Start, FinishRecovery, Recover, QueueStep, LoseLock,
      Sweep, Trim, LoseRedis, WorkerStart, StartJob, vars

\* Whatever fails, a row cancelled while nobody owns it stays undelivered.
THEOREM CancelledBeforeClaimIsFinalHolds == Spec => CancelledBeforeClaimIsFinal
<1>1. StateInv /\ [Next]_vars => [CancelledStays]_vars
  BY CancelledStaysNext
<1>2. Spec => [][CancelledStays]_vars
  BY <1>1, Invariance, PTL DEF Spec
<1>3. QED
  BY <1>2 DEF CancelledBeforeClaimIsFinal

-------------------------------------------------------------------------------
(* SentIsFinal *)

\* An execution gets hold of a row only if the row may be claimed.
LEMMA WorkerStepKeepsSent ==
  ASSUME WorkOK, NEW w \in Workers, WorkerStep(w), NEW e \in Emails,
         status[e] = "sent", Unowned(e)
  PROVE  status'[e] = "sent" /\ delivered'[e] = delivered[e] /\ Unowned(e)'
<1> USE DEF WorkOK, WorkerTypeOK, Unowned, Owns, OwningPCs, At
<1>1. CASE Claim(w)
  BY <1>1, BusyTask DEF Claim, Claimable, SetStatus, Goto
<1>2. CASE Recheck(w) \/ Fetch(w) \/ LimiterStep(w) \/ Defer(w) \/ Resolve(w) \/ Reject(w)
  BY <1>2, BusyTask
  DEF Recheck, Fetch, LimiterStep, SlotCheck, HourlyCheck, Defer, Resolve, Reject, rowVars,
      Goto, Finish, AfterDenial
<1>3. CASE SendMail(w)
  BY <1>3, BusyTask DEF SendMail, Goto, AfterSendError
<1>4. CASE Revert(w) \/ RecordSent(w) \/ MarkFailed(w)
  BY <1>4, BusyTask DEF Revert, RecordSent, MarkFailed, Update, SetStatus, Goto
<1>5. QED
  BY <1>1, <1>2, <1>3, <1>4 DEF WorkerStep, ProcessorStep

\* No step breaks SentSettles.
LEMMA SentSettlesNext == StateInv /\ [Next]_vars => SentSettles
<1> DEFINE Kept(e) == /\ SettledSent(e)' \/ status'[e] = "deleted"
                      /\ delivered'[e] = delivered[e]
<1> SUFFICES ASSUME StateInv, [Next]_vars, NEW e \in Emails, SettledSent(e)
             PROVE  Kept(e)
  BY DEF SentSettles
<1> USE DEF StateInv, WorkOK, WorkerTypeOK, BackendOK, SettledSent
<1>1. ASSUME NEW s \in Servers, NEW f \in Emails, RouteStep(s, f)
      PROVE  Kept(e)
  <2>1. Unowned(e)' /\ delivered' = delivered
    BY <1>1
    DEF RouteStep, Submit, Enqueue, AbandonEnqueue, BeginCancel, CancelUpdate,
        CancelRemove, rowVars, workerVars, Unowned, Owns
  <2>2. status'[e] = "sent"
    BY <1>1
    DEF RouteStep, Submit, Enqueue, AbandonEnqueue, BeginCancel, CancelUpdate,
        CancelRemove, SetStatus, rowVars
  <2>3. \A t \in Servers: cancelling'[t][e] # "update"
    BY <1>1
    DEF RouteStep, Submit, Enqueue, AbandonEnqueue, BeginCancel, CancelUpdate,
        CancelRemove, SetCancelling, NotCancellable
  <2>4. QED
    BY <2>1, <2>2, <2>3
<1>2. ASSUME NEW x \in Senders, DeleteSender(x)
      PROVE  Kept(e)
  BY <1>2 DEF DeleteSender, workerVars, Unowned, Owns
<1>3. ASSUME NEW w \in Workers, ProcessStep(w)
      PROVE  Kept(e)
  BY <1>3, WorkerStepKeepsSent DEF ProcessStep, routeVars
<1>4. ASSUME NEW s \in Servers, Crash(s)
      PROVE  Kept(e)
  BY <1>4 DEF Crash, rowVars, Unowned, Owns, OwningPCs
<1>5. ASSUME NEW w \in Workers, NEW f \in Emails, WorkerStart(w, f)
      PROVE  Kept(e)
  BY <1>5 DEF WorkerStart, StartJob, routeVars, rowVars, Unowned, Owns, OwningPCs
<1>6. CASE UNCHANGED <<rowVars, workerVars, routeVars>>
  BY <1>6 DEF rowVars, workerVars, routeVars, Unowned, Owns
<1>7. QED
  BY <1>1, <1>2, <1>3, <1>4, <1>5, <1>6
  DEF Next, ServerStep, Start, FinishRecovery, Recover, QueueStep, LoseLock,
      Sweep, Trim, LoseRedis, vars

\* Whatever fails, a row that reads sent with nobody about to write it stays so.
THEOREM SentIsFinalHolds == Spec => SentIsFinal
<1>1. StateInv /\ [Next]_vars => [SentSettles]_vars
  BY SentSettlesNext
<1>2. Spec => [][SentSettles]_vars
  BY <1>1, Invariance, PTL DEF Spec
<1>3. QED
  BY <1>2 DEF SentIsFinal

-------------------------------------------------------------------------------
(* The refinement of SendLease: the fields of a lease, of a row and its executions *)

Opened(e) == status[e] \in Claimable
Unused(e) == \E w \in Workers: Owns(w, e) /\ pc[w] \notin {"record", "markFailed"}
Free(e) == delivered[e] = 0 \/ ackLost[e]

SameHolder(e) == \A w \in Workers: Owns(w, e)' <=> Owns(w, e)
SameUnused(e) == Unused(e)' <=> Unused(e)
SameOpened(e) == Opened(e)' <=> Opened(e)
SameCount(e) == delivered'[e] = delivered[e] /\ ackLost'[e] = ackLost[e]

(* What a step of the system may do to one email: the actions of SendLease, said of
   its row and its executions *)

StutterStep(e) == SameHolder(e) /\ SameUnused(e) /\ SameOpened(e) /\ SameCount(e)

OpenStep(e) ==
    SameHolder(e) /\ SameUnused(e) /\ SameCount(e) /\ Unowned(e) /\ Free(e) /\ Opened(e)'

CloseStep(e) == SameHolder(e) /\ SameUnused(e) /\ SameCount(e) /\ ~Opened(e)'

AcquireStep(e) ==
    /\ Opened(e) /\ Unowned(e)
    /\ ~Opened(e)' /\ ~Unowned(e)' /\ Unused(e)'
    /\ SameCount(e)

DeliverStep(e) ==
    /\ Unused(e) /\ ~Unused(e)'
    /\ SameHolder(e) /\ SameOpened(e)
    /\ delivered'[e] = IF delivered[e] < 2 THEN delivered[e] + 1 ELSE 2
    /\ ackLost[e] => ackLost'[e]

GiveUpStep(e) == SameHolder(e) /\ ~Unused(e)' /\ SameOpened(e) /\ SameCount(e)

LoseAckStep(e) ==
    /\ ~Unowned(e) /\ ~Unused(e) /\ delivered[e] > 0
    /\ SameHolder(e) /\ ~Unused(e)' /\ SameOpened(e)
    /\ delivered'[e] = delivered[e] /\ ackLost'[e]

ReleaseStep(e) ==
    /\ ~Unowned(e) /\ Unowned(e)'
    /\ Opened(e)' => Free(e)
    /\ SameCount(e)

LeaseStep(e) ==
    \/ StutterStep(e) \/ OpenStep(e) \/ CloseStep(e) \/ AcquireStep(e) \/ DeliverStep(e)
    \/ GiveUpStep(e) \/ LoseAckStep(e) \/ ReleaseStep(e)

-------------------------------------------------------------------------------
(* Rows and executions as leases *)

\* The fields of the lease that an email stands for.
LeaseFields(e) ==
    /\ LeaseOf(e) \in Lease!Leases
    /\ LeaseOf(e).holder = NoWorker <=> Unowned(e)
    /\ \A w \in Workers: LeaseOf(e).holder = w <=> Owns(w, e)
    /\ LeaseOf(e).unused <=> Unused(e)
    /\ LeaseOf(e).open <=> Opened(e)
    /\ LeaseOf(e).delivered = delivered[e]
    /\ LeaseOf(e).ackLost = ackLost[e]

AllFields == \A e \in Emails: LeaseFields(e)

\* LeaseOf is a lease, whose fields are what they are said to be.
LEMMA FieldsHold == StateInv /\ SendInv => AllFields
<1> SUFFICES ASSUME StateInv, SendInv, NEW e \in Emails PROVE LeaseFields(e)
  BY DEF AllFields
<1>1. LeaseOf(e).delivered = delivered[e] /\ LeaseOf(e).ackLost = ackLost[e]
  BY DEF LeaseOf
<1>2. LeaseOf(e).unused = Unused(e)
  BY Zenon DEF LeaseOf, Unused
<1>3. LeaseOf(e).open = Opened(e)
  BY Zenon DEF LeaseOf, Opened
<1>4. LeaseOf(e).holder = IF Unowned(e) THEN NoWorker ELSE CHOOSE w \in Workers: Owns(w, e)
  BY DEF LeaseOf
<1>5. /\ LeaseOf(e).holder \in Workers \union {NoWorker}
      /\ LeaseOf(e).holder = NoWorker <=> Unowned(e)
      /\ \A w \in Workers: LeaseOf(e).holder = w <=> Owns(w, e)
  BY <1>4, WorkersAssumption DEF SendInv, SingleOwner, Unowned
<1>6. (LeaseOf(e).unused <=> Unused(e)) /\ LeaseOf(e).unused \in BOOLEAN
  <2>1. Unused(e) \in BOOLEAN
    BY DEF Unused
  <2>2. QED
    BY <1>2, <2>1, Zenon
<1>7. (LeaseOf(e).open <=> Opened(e)) /\ LeaseOf(e).open \in BOOLEAN
  <2>1. Opened(e) \in BOOLEAN
    BY DEF Opened
  <2>2. QED
    BY <1>3, <2>1, Zenon
<1>8. delivered[e] \in 0..2 /\ ackLost[e] \in BOOLEAN
  BY DEF StateInv, WorkOK, WorkerTypeOK
<1>9. LeaseOf(e) \in Lease!Leases
  <2>1. LeaseOf(e) = [holder |-> LeaseOf(e).holder, unused |-> LeaseOf(e).unused,
                      open |-> LeaseOf(e).open, delivered |-> LeaseOf(e).delivered,
                      ackLost |-> LeaseOf(e).ackLost]
    BY <1>2, <1>3, <1>4, Zenon DEF LeaseOf
  <2>2. QED
    BY <2>1, <1>1, <1>5, <1>6, <1>7, <1>8 DEF Lease!Leases
<1>10. QED
  BY <1>1, <1>5, <1>6, <1>7, <1>9, Zenon DEF LeaseFields

\* A lease is its fields.
LEMMA SameLease ==
  ASSUME NEW l \in Lease!Leases, NEW m \in Lease!Leases,
         l.holder = m.holder, l.unused <=> m.unused, l.open <=> m.open,
         l.delivered = m.delivered, l.ackLost <=> m.ackLost
  PROVE  l = m
  BY DEF Lease!Leases

\* What a step does to an email, it does to its lease.
LeaseMove(e) ==
    \/ [x \in Emails |-> LeaseOf(x)]'[e] = [x \in Emails |-> LeaseOf(x)][e]
    \/ Lease!Open(e) \/ Lease!Close(e) \/ Lease!Acquire(e) \/ Lease!Deliver(e)
    \/ Lease!GiveUp(e) \/ Lease!LoseAck(e) \/ Lease!Release(e)

\* A step of one of the kinds above is the step of that kind of the lease.
LEMMA LeaseMoves ==
  ASSUME AllFields, AllFields', NEW e \in Emails, LeaseStep(e)
  PROVE  LeaseMove(e)
<1> DEFINE l == LeaseOf(e)
           m == LeaseOf(e)'
<1>1. LeaseFields(e) /\ LeaseFields(e)'
  BY DEF AllFields
<1>2. l \in Lease!Leases /\ m \in Lease!Leases
  BY <1>1 DEF LeaseFields
<1>3. /\ [x \in Emails |-> LeaseOf(x)][e] = l
      /\ [x \in Emails |-> LeaseOf(x)]'[e] = m
  OBVIOUS
<1>4. /\ l.holder = NoWorker <=> Unowned(e)
      /\ \A w \in Workers: l.holder = w <=> Owns(w, e)
      /\ l.unused <=> Unused(e)
      /\ l.open <=> Opened(e)
      /\ l.delivered = delivered[e]
      /\ l.ackLost = ackLost[e]
  BY <1>1 DEF LeaseFields
<1>5. /\ m.holder = NoWorker <=> Unowned(e)'
      /\ \A w \in Workers: m.holder = w <=> Owns(w, e)'
      /\ m.unused <=> Unused(e)'
      /\ m.open <=> Opened(e)'
      /\ m.delivered = delivered'[e]
      /\ m.ackLost = ackLost'[e]
  BY <1>1 DEF LeaseFields
<1> HIDE DEF l, m
<1>6. /\ {l.holder, m.holder} \subseteq Workers \union {NoWorker}
      /\ {l.unused, l.open, l.ackLost, m.unused, m.open, m.ackLost} \subseteq BOOLEAN
      /\ {l.delivered, m.delivered} \subseteq 0..2
  BY <1>2 DEF Lease!Leases
<1>7. SameHolder(e) => m.holder = l.holder
  BY <1>4, <1>5, <1>6 DEF SameHolder, Unowned
<1>8. CASE StutterStep(e)
  <2>1. m = l
    BY <1>2, <1>4, <1>5, <1>7, <1>8, SameLease DEF StutterStep, SameUnused, SameOpened, SameCount
  <2>2. QED
    BY <1>3, <2>1 DEF LeaseMove
<1>9. CASE OpenStep(e)
  <2>1. m = [l EXCEPT !.open = TRUE]
    <3>1. [l EXCEPT !.open = TRUE] \in Lease!Leases
      BY <1>2 DEF Lease!Leases
    <3>2. QED
      BY <3>1, <1>2, <1>4, <1>5, <1>7, <1>9, SameLease
      DEF OpenStep, SameUnused, SameCount, Lease!Leases
  <2>2. Lease!Open(e)
    BY <1>3, <1>4, <1>9, <2>1 DEF OpenStep, Free, Lease!Open, Lease!May
  <2>3. QED
    BY <2>2 DEF LeaseMove
<1>10. CASE CloseStep(e)
  <2>1. m = [l EXCEPT !.open = FALSE]
    <3>1. [l EXCEPT !.open = FALSE] \in Lease!Leases
      BY <1>2 DEF Lease!Leases
    <3>2. QED
      BY <3>1, <1>2, <1>4, <1>5, <1>7, <1>10, SameLease
      DEF CloseStep, SameUnused, SameCount, Lease!Leases
  <2>2. Lease!Close(e)
    BY <1>3, <1>4, <1>10, <2>1 DEF CloseStep, Lease!Close
  <2>3. QED
    BY <2>2 DEF LeaseMove
<1>11. CASE GiveUpStep(e)
  <2>1. m = [l EXCEPT !.unused = FALSE]
    <3>1. [l EXCEPT !.unused = FALSE] \in Lease!Leases
      BY <1>2 DEF Lease!Leases
    <3>2. QED
      BY <3>1, <1>2, <1>4, <1>5, <1>7, <1>11, SameLease
      DEF GiveUpStep, SameOpened, SameCount, Lease!Leases
  <2>2. Lease!GiveUp(e)
    BY <1>3, <1>4, <1>11, <2>1 DEF GiveUpStep, Lease!GiveUp
  <2>3. QED
    BY <2>2 DEF LeaseMove
<1>12. CASE LoseAckStep(e)
  <2>1. m = [l EXCEPT !.ackLost = TRUE]
    <3>1. [l EXCEPT !.ackLost = TRUE] \in Lease!Leases
      BY <1>2 DEF Lease!Leases
    <3>2. QED
      BY <3>1, <1>2, <1>4, <1>5, <1>7, <1>12, SameLease DEF LoseAckStep, SameOpened, Lease!Leases
  <2>2. Lease!LoseAck(e)
    BY <1>3, <1>4, <1>12, <2>1 DEF LoseAckStep, Lease!LoseAck
  <2>3. QED
    BY <2>2 DEF LeaseMove
<1>13. CASE AcquireStep(e)
  <2>1. PICK w \in Workers: m.holder = w
    BY <1>5, <1>6, <1>13 DEF AcquireStep
  <2>2. m = [l EXCEPT !.holder = w, !.unused = TRUE, !.open = FALSE]
    <3>1. [l EXCEPT !.holder = w, !.unused = TRUE, !.open = FALSE] \in Lease!Leases
      BY <1>2 DEF Lease!Leases
    <3>2. QED
      BY <3>1, <2>1, <1>2, <1>4, <1>5, <1>13, SameLease DEF AcquireStep, SameCount, Lease!Leases
  <2>3. Lease!Acquire(e)
    BY <1>3, <1>4, <1>13, <2>2 DEF AcquireStep, Lease!Acquire
  <2>4. QED
    BY <2>3 DEF LeaseMove
<1>14. CASE DeliverStep(e)
  <2>1. /\ m.delivered = IF l.delivered < 2 THEN l.delivered + 1 ELSE 2
        /\ m.ackLost = (l.ackLost \/ m.ackLost)
    BY <1>4, <1>5, <1>6, <1>14 DEF DeliverStep
  <2>2. m = [l EXCEPT !.unused = FALSE, !.delivered = m.delivered, !.ackLost = m.ackLost]
    <3>1. [l EXCEPT !.unused = FALSE, !.delivered = m.delivered, !.ackLost = m.ackLost]
            \in Lease!Leases
      BY <1>2, <1>6 DEF Lease!Leases
    <3>2. QED
      BY <3>1, <1>2, <1>4, <1>5, <1>6, <1>7, <1>14, SameLease
      DEF DeliverStep, SameOpened, Lease!Leases
  <2>3. Lease!Deliver(e)
    BY <1>3, <1>4, <1>6, <1>14, <2>1, <2>2 DEF DeliverStep, Lease!Deliver
  <2>4. QED
    BY <2>3 DEF LeaseMove
<1>15. CASE ReleaseStep(e)
  <2>1. m = [l EXCEPT !.holder = NoWorker, !.unused = FALSE, !.open = m.open]
    <3>1. [l EXCEPT !.holder = NoWorker, !.unused = FALSE, !.open = m.open] \in Lease!Leases
      BY <1>2, <1>6 DEF Lease!Leases
    <3>2. ~Unused(e)'
      BY <1>15 DEF ReleaseStep, Unused, Unowned
    <3>3. QED
      BY <3>1, <3>2, <1>2, <1>4, <1>5, <1>6, <1>15, SameLease
      DEF ReleaseStep, SameCount, Lease!Leases
  <2>2. Lease!Release(e)
    BY <1>3, <1>4, <1>5, <1>6, <1>15, <2>1 DEF ReleaseStep, Free, Lease!Release, Lease!May
  <2>3. QED
    BY <2>2 DEF LeaseMove
<1>16. QED
  BY <1>8, <1>9, <1>10, <1>11, <1>12, <1>13, <1>14, <1>15 DEF LeaseStep

-------------------------------------------------------------------------------
(* What each step does to an email *)

EveryLease == \A e \in Emails: LeaseStep(e)

\* An email is left alone by steps that leave its row and its owners alone.
LEMMA LeftAlone ==
  ASSUME NEW e \in Emails, status'[e] = status[e], SameCount(e),
         \A w \in Workers: Owns(w, e)' <=> Owns(w, e),
         \A w \in Workers: Owns(w, e) => (pc'[w] \in {"record", "markFailed"} <=>
                                          pc[w] \in {"record", "markFailed"})
  PROVE  LeaseStep(e)
  BY DEF LeaseStep, StutterStep, SameHolder, SameUnused, SameOpened, Opened, Unused

\* Executions that vanish release what they own; the row they leave is not open.
LEMMA ShrinkLease ==
  ASSUME SendInv, UNCHANGED rowVars, OwnersShrink PROVE EveryLease
<1> SUFFICES ASSUME NEW e \in Emails PROVE LeaseStep(e)
  BY DEF EveryLease
<1>1. CASE \A w \in Workers: Owns(w, e)' <=> Owns(w, e)
  BY <1>1, LeftAlone DEF rowVars, OwnersShrink, SameCount
<1>2. CASE \E w \in Workers: Owns(w, e) /\ ~Owns(w, e)'
  <2>1. ~Unowned(e) /\ Unowned(e)' /\ ~Opened(e)'
    BY <1>2 DEF OwnersShrink, SendInv, SingleOwner, ClaimInv, Unowned, Opened, rowVars
  <2>2. QED
    BY <2>1 DEF LeaseStep, ReleaseStep, SameCount, rowVars
<1>3. QED
  BY <1>1, <1>2 DEF OwnersShrink

\* Users withdraw rows: the lease is closed, held or not.
LEMMA WithdrawLease ==
  ASSUME UNCHANGED <<delivered, ackLost, workerVars>>,
         \A e \in Emails: status'[e] = status[e] \/ status'[e] \in {"cancelled", "deleted"}
  PROVE  EveryLease
<1> SUFFICES ASSUME NEW e \in Emails PROVE LeaseStep(e)
  BY DEF EveryLease
<1>1. SameHolder(e) /\ SameUnused(e) /\ SameCount(e)
  BY DEF SameHolder, SameUnused, SameCount, Unused, Owns, workerVars
<1>2. CASE status'[e] = status[e]
  BY <1>1, <1>2 DEF LeaseStep, StutterStep, SameOpened, Opened
<1>3. CASE status'[e] \in {"cancelled", "deleted"}
  BY <1>1, <1>3 DEF LeaseStep, CloseStep, Opened, Claimable
<1>4. QED
  BY <1>2, <1>3

\* A new row opens its lease.
LEMMA SubmitLease ==
  ASSUME WorkOK, SendInv, NEW s \in Servers, NEW x \in Emails, Submit(s, x)
  PROVE  EveryLease
<1> SUFFICES ASSUME NEW e \in Emails PROVE LeaseStep(e)
  BY DEF EveryLease
<1>1. SameHolder(e) /\ SameUnused(e) /\ SameCount(e)
  BY DEF Submit, SameHolder, SameUnused, SameCount, Unused, Owns, workerVars
<1>2. CASE e # x
  BY <1>1, <1>2
  DEF Submit, SetStatus, LeaseStep, StutterStep, SameOpened, Opened, WorkOK, WorkerTypeOK
<1>3. CASE e = x
  <2>1. Unowned(e) /\ Free(e)
    BY <1>3 DEF Submit, SendInv, ClaimInv, DeliveryInv, Unowned, Free
  <2>2. Opened(e)'
    BY <1>3 DEF Submit, SetStatus, Opened, Claimable, WorkOK, WorkerTypeOK
  <2>3. QED
    BY <1>1, <2>1, <2>2 DEF LeaseStep, OpenStep
<1>4. QED
  BY <1>2, <1>3

\* The other emails, in a step of the execution w.
LEMMA OtherEmails ==
  ASSUME WorkOK, NEW w \in Workers, pc[w] # "idle", NEW label, Goto(w, label),
         NEW e \in Emails, e # task[w], status'[e] = status[e], SameCount(e)
  PROVE  LeaseStep(e)
  BY LeftAlone DEF Goto, Owns, WorkOK, WorkerTypeOK

\* The claim takes the lease; a claim that is applied but not acknowledged closes it.
LEMMA ClaimLease ==
  ASSUME WorkOK, SendInv, NEW w \in Workers, Claim(w) PROVE EveryLease
<1> SUFFICES ASSUME NEW e \in Emails PROVE LeaseStep(e)
  BY DEF EveryLease
<1>1. pc[w] = "claim" /\ task[w] \in Emails /\ SameCount(e)
  BY BusyTask DEF Claim, At, SameCount
<1>2. CASE e # task[w]
  <2>1. status'[e] = status[e]
    BY <1>1, <1>2 DEF Claim, SetStatus, WorkOK, WorkerTypeOK
  <2>2. QED
    BY <1>1, <1>2, <2>1, OtherEmails DEF Claim
<1>3. CASE /\ e = task[w] /\ status[e] \in Claimable
           /\ SetStatus(e, "processing") /\ Goto(w, "fetch")
  <2>1. Opened(e) /\ Unowned(e) /\ ~Opened(e)'
    BY <1>3 DEF SetStatus, SendInv, ClaimInv, Unowned, Opened, Claimable, WorkOK, WorkerTypeOK
  <2>2. Owns(w, e)' /\ pc'[w] = "fetch"
    BY <1>3 DEF Goto, Owns, OwningPCs, WorkOK, WorkerTypeOK
  <2>3. ~Unowned(e)' /\ Unused(e)'
    BY <2>2 DEF Unowned, Unused
  <2>4. QED
    BY <1>1, <2>1, <2>3 DEF LeaseStep, AcquireStep
<1>4. CASE e = task[w] /\ (Goto(w, "recheck") \/ Goto(w, "reject"))
  <2>1. \A v \in Workers: /\ Owns(v, e)' <=> Owns(v, e)
                          /\ Owns(v, e) => pc'[v] = pc[v]
    BY <1>1, <1>4 DEF Goto, Owns, OwningPCs, WorkOK, WorkerTypeOK
  <2>2. CASE status'[e] = status[e]
    BY <1>1, <2>1, <2>2, LeftAlone
  <2>3. CASE status'[e] # status[e]
    <3>1. status'[e] = "processing"
      BY <1>4, <2>3 DEF Claim, SetStatus, WorkOK, WorkerTypeOK
    <3>2. SameHolder(e) /\ SameUnused(e)
      BY <2>1 DEF SameHolder, SameUnused, Unused
    <3>3. QED
      BY <1>1, <3>1, <3>2 DEF LeaseStep, CloseStep, Opened, Claimable
  <2>4. QED
    BY <2>2, <2>3
<1>5. QED
  BY <1>2, <1>3, <1>4 DEF Claim

\* Until the message is sent, an execution keeps its unused lease, or goes on to
\* put it back.
LEMMA BeforeSendLease ==
  ASSUME WorkOK, SendInv, NEW w \in Workers, Fetch(w) \/ LimiterStep(w) PROVE EveryLease
<1>1. pc[w] \in {"fetch", "slot", "hourly"} /\ task[w] \in Emails /\ UNCHANGED rowVars
  BY BusyTask DEF Fetch, LimiterStep, SlotCheck, HourlyCheck, At
<1>2. CASE Goto(w, "reject")
  <2>1. OwnersShrink
    BY <1>2 DEF OwnersShrink, Owns, OwningPCs, Goto, WorkOK, WorkerTypeOK
  <2>2. QED
    BY <1>1, <2>1, ShrinkLease
<1>3. CASE \E label \in {"slot", "hourly", "revert", "send"}: Goto(w, label)
  <2>1. PICK label \in {"slot", "hourly", "revert", "send"}: Goto(w, label)
    BY <1>3
  <2>2. ASSUME NEW e \in Emails PROVE LeaseStep(e)
    <3>1. SameCount(e) /\ status'[e] = status[e]
      BY <1>1 DEF SameCount, rowVars
    <3>2. \A v \in Workers: Owns(v, e)' <=> Owns(v, e)
      BY <1>1, <2>1 DEF Owns, OwningPCs, Goto, WorkOK, WorkerTypeOK
    <3>3. \A v \in Workers: pc'[v] \in {"record", "markFailed"} <=>
                            pc[v] \in {"record", "markFailed"}
      BY <1>1, <2>1 DEF Goto, WorkOK, WorkerTypeOK
    <3>4. QED
      BY <3>1, <3>2, <3>3, LeftAlone
  <2>3. QED
    BY <2>2 DEF EveryLease
<1>4. QED
  BY <1>2, <1>3 DEF Fetch, LimiterStep, SlotCheck, HourlyCheck, AfterDenial

\* An execution that puts the row back, or records a failure, releases the lease.  It
\* may leave it open, for its own delivery, if any, was not acknowledged.
LEMMA LeaveLease ==
  ASSUME WorkOK, SendInv, NEW w \in Workers, Revert(w) \/ MarkFailed(w)
  PROVE  EveryLease
<1> SUFFICES ASSUME NEW e \in Emails PROVE LeaseStep(e)
  BY DEF EveryLease
<1>1. /\ pc[w] \in {"revert", "markFailed"} /\ task[w] \in Emails
      /\ SameCount(e)
      /\ \E label \in {"defer", "reject"}: Goto(w, label)
  BY BusyTask DEF Revert, MarkFailed, Update, At, SameCount
<1>2. CASE e # task[w]
  <2>1. status'[e] = status[e]
    BY <1>1, <1>2 DEF Revert, MarkFailed, Update, SetStatus, WorkOK, WorkerTypeOK
  <2>2. QED
    BY <1>1, <1>2, <2>1, OtherEmails
<1>3. CASE e = task[w]
  <2>1. Owns(w, e) /\ Free(e)
    BY <1>1, <1>3 DEF Owns, OwningPCs, SendInv, DeliveryInv, Free, WorkOK, WorkerTypeOK
  <2>2. ~Unowned(e) /\ Unowned(e)'
    BY <1>1, <1>3, <2>1
    DEF Goto, Owns, OwningPCs, Unowned, SendInv, SingleOwner, WorkOK, WorkerTypeOK
  <2>3. QED
    BY <1>1, <2>1, <2>2 DEF LeaseStep, ReleaseStep
<1>4. QED
  BY <1>2, <1>3

\* The lease is used up by the delivery, or given up without one.
LEMMA SendMailLease ==
  ASSUME WorkOK, SendInv, NEW w \in Workers, SendMail(w) PROVE EveryLease
<1> SUFFICES ASSUME NEW e \in Emails PROVE LeaseStep(e)
  BY DEF EveryLease
<1>1. /\ pc[w] = "send" /\ task[w] \in Emails /\ status' = status
      /\ \E label \in {"record", "markFailed"}: Goto(w, label)
  BY BusyTask DEF SendMail, AfterSendError, At
<1>2. CASE e # task[w]
  <2>1. SameCount(e)
    BY <1>1, <1>2 DEF SendMail, SameCount, WorkOK, WorkerTypeOK
  <2>2. QED
    BY <1>1, <1>2, <2>1, OtherEmails
<1>3. CASE e = task[w]
  <2>1. SameHolder(e) /\ SameOpened(e)
    BY <1>1, <1>3 DEF Goto, SameHolder, SameOpened, Opened, Owns, OwningPCs, WorkOK, WorkerTypeOK
  <2>2. Owns(w, e) /\ Unused(e)
    BY <1>1, <1>3 DEF Owns, OwningPCs, Unused
  <2>3. \A v \in Workers: Owns(v, e)' => v = w
    BY <2>1, <2>2 DEF SameHolder, SendInv, SingleOwner
  <2>4. ~Unused(e)'
    BY <1>1, <2>3 DEF Goto, Unused, WorkOK, WorkerTypeOK
  <2>5. CASE SameCount(e)
    BY <2>1, <2>4, <2>5 DEF LeaseStep, GiveUpStep
  <2>6. CASE delivered' = [delivered EXCEPT ![task[w]] = IF @ < 2 THEN @ + 1 ELSE 2]
    <3>1. delivered'[e] = IF delivered[e] < 2 THEN delivered[e] + 1 ELSE 2
      BY <1>3, <2>6 DEF WorkOK, WorkerTypeOK
    <3>2. ackLost[e] => ackLost'[e]
      BY <1>3, <2>6 DEF SendMail, WorkOK, WorkerTypeOK
    <3>3. QED
      BY <2>1, <2>2, <2>4, <3>1, <3>2 DEF LeaseStep, DeliverStep
  <2>7. QED
    BY <2>5, <2>6 DEF SendMail, SameCount
<1>4. QED
  BY <1>2, <1>3

\* The holder records its delivery and leaves, or does not get to say so.
LEMMA RecordLease ==
  ASSUME WorkOK, SendInv, NEW w \in Workers, RecordSent(w) PROVE EveryLease
<1> SUFFICES ASSUME NEW e \in Emails PROVE LeaseStep(e)
  BY DEF EveryLease
<1>1. /\ pc[w] = "record" /\ task[w] \in Emails /\ delivered' = delivered
      /\ \E label \in {"resolve", "markFailed"}: Goto(w, label)
      /\ status' \in {status, [status EXCEPT ![task[w]] = "sent"]}
  BY BusyTask DEF RecordSent, Update, SetStatus, At
<1>2. CASE e # task[w]
  <2>1. SameCount(e) /\ status'[e] = status[e]
    BY <1>1, <1>2 DEF RecordSent, SameCount, WorkOK, WorkerTypeOK
  <2>2. QED
    BY <1>1, <1>2, <2>1, OtherEmails
<1>3. CASE e = task[w]
  <2>1. Owns(w, e) /\ \A v \in Workers: Owns(v, e) => v = w
    BY <1>1, <1>3 DEF Owns, OwningPCs, SendInv, SingleOwner
  <2>2. ~Unowned(e) /\ ~Unused(e) /\ delivered[e] > 0 /\ ~Opened(e)
    BY <1>1, <2>1 DEF Unowned, Unused, Opened, SendInv, DeliveryInv, ClaimInv
  <2>3. ~Opened(e)'
    BY <1>1, <1>3, <2>2 DEF Opened, Claimable, WorkOK, WorkerTypeOK
  <2>4. CASE Goto(w, "resolve")
    <3>1. SameCount(e)
      BY <1>1, <1>3, <2>4 DEF RecordSent, Goto, SameCount, WorkOK, WorkerTypeOK
    <3>2. Unowned(e)'
      BY <2>1, <2>4 DEF Goto, Owns, OwningPCs, Unowned, WorkOK, WorkerTypeOK
    <3>3. QED
      BY <2>2, <2>3, <3>1, <3>2 DEF LeaseStep, ReleaseStep
  <2>5. CASE Goto(w, "markFailed")
    <3>1. ackLost'[e]
      BY <1>1, <1>3, <2>5 DEF RecordSent, Goto, WorkOK, WorkerTypeOK
    <3>2. SameHolder(e)
      BY <1>1, <2>5 DEF Goto, SameHolder, Owns, OwningPCs, WorkOK, WorkerTypeOK
    <3>3. ~Unused(e)'
      BY <2>1, <2>5, <3>2 DEF Goto, SameHolder, Unused, WorkOK, WorkerTypeOK
    <3>4. QED
      BY <1>1, <2>2, <2>3, <3>1, <3>2, <3>3 DEF LeaseStep, LoseAckStep, SameOpened
  <2>6. QED
    BY <1>1, <2>4, <2>5
<1>4. QED
  BY <1>2, <1>3

\* Every step of the system does to every email what a lease may do.
LEMMA LeaseNext == StateInv /\ SendInv /\ [Next]_vars => EveryLease
<1> SUFFICES ASSUME StateInv, SendInv, [Next]_vars PROVE EveryLease
  OBVIOUS
<1>1. WorkOK
  BY DEF StateInv
<1>2. ASSUME UNCHANGED <<rowVars, workerVars>> PROVE EveryLease
  BY <1>2, ShrinkLease DEF OwnersShrink, Owns, workerVars
<1>3. ASSUME NEW s \in Servers, NEW e \in Emails, RouteStep(s, e) PROVE EveryLease
  <2>1. CASE Submit(s, e)
    BY <1>1, <2>1, SubmitLease
  <2>2. CASE CancelUpdate(s, e)
    <3>1. status' = status \/ status' = [status EXCEPT ![e] = "cancelled"]
      BY <2>2 DEF CancelUpdate, SetStatus
    <3>2. \A f \in Emails: status'[f] = status[f] \/ status'[f] \in {"cancelled", "deleted"}
      BY <1>1, <3>1 DEF WorkOK, WorkerTypeOK
    <3>3. QED
      BY <2>2, <3>2, WithdrawLease DEF CancelUpdate
  <2>3. QED
    BY <1>2, <1>3, <2>1, <2>2
    DEF RouteStep, Enqueue, AbandonEnqueue, BeginCancel, CancelRemove
<1>4. ASSUME NEW x \in Senders, DeleteSender(x) PROVE EveryLease
  BY <1>1, <1>4, WithdrawLease DEF DeleteSender, WorkOK, WorkerTypeOK
<1>5. ASSUME NEW s \in Servers, ServerStep(s) PROVE EveryLease
  <2>1. CASE Crash(s)
    <3>1. OwnersShrink
      BY <2>1 DEF Crash, OwnersShrink, Owns, OwningPCs
    <3>2. QED
      BY <2>1, <3>1, ShrinkLease DEF Crash
  <2>2. QED
    BY <1>2, <1>5, <2>1 DEF ServerStep, Start, FinishRecovery, Recover
<1>6. ASSUME LoseRedis \/ (\E e \in Emails: QueueStep(e)) \/ UNCHANGED vars PROVE EveryLease
  BY <1>2, <1>6 DEF LoseRedis, QueueStep, LoseLock, Sweep, Trim, vars
<1>7. ASSUME NEW w \in Workers, NEW e \in Emails, WorkerStart(w, e) PROVE EveryLease
  <2>1. OwnersShrink
    BY <1>1, <1>7
    DEF WorkerStart, StartJob, At, OwnersShrink, Owns, OwningPCs, WorkOK, WorkerTypeOK
  <2>2. QED
    BY <1>7, <2>1, ShrinkLease DEF WorkerStart, StartJob
<1>8. ASSUME NEW w \in Workers, WorkerStep(w) PROVE EveryLease
  <2>1. CASE Recheck(w) \/ Defer(w) \/ Resolve(w) \/ Reject(w)
    <3>1. OwnersShrink
      BY <1>1, <2>1
      DEF Recheck, Defer, Resolve, Reject, Goto, Finish, At, OwnersShrink, Owns,
          OwningPCs, WorkOK, WorkerTypeOK
    <3>2. QED
      BY <2>1, <3>1, ShrinkLease DEF Recheck, Defer, Resolve, Reject
  <2>2. QED
    BY <1>1, <1>8, <2>1, ClaimLease, BeforeSendLease, LeaveLease, SendMailLease,
       RecordLease DEF WorkerStep, ProcessorStep
<1>9. QED
  BY <1>3, <1>4, <1>5, <1>6, <1>7, <1>8 DEF Next, ProcessStep

\* Leases start unused and closed: there are no rows and no executions.
LEMMA LeaseInit == Init => Lease!Init
<1> SUFFICES ASSUME Init, NEW e \in Emails
    PROVE  LeaseOf(e) = [holder |-> NoWorker, unused |-> FALSE, open |-> FALSE,
                         delivered |-> 0, ackLost |-> FALSE]
  BY DEF Lease!Init
<1> DEFINE l == [holder |-> NoWorker, unused |-> FALSE, open |-> FALSE,
                 delivered |-> 0, ackLost |-> FALSE]
<1>1. LeaseFields(e)
  BY StateInit, SendInit, FieldsHold DEF AllFields
<1>2. /\ Unowned(e) /\ ~Unused(e) /\ ~Opened(e)
      /\ delivered[e] = 0 /\ ackLost[e] = FALSE
  BY DEF Init, WorkerInit, Unowned, Unused, Opened, Owns, OwningPCs, Claimable
<1>3. l \in Lease!Leases
  BY DEF Lease!Leases
<1>4. QED
  BY <1>1, <1>2, <1>3, SameLease DEF LeaseFields

\* The steps of all leases together.
LEMMA LeaseStepsRefine == AllFields /\ AllFields' /\ EveryLease => Lease!Next
<1> SUFFICES ASSUME AllFields, AllFields', EveryLease PROVE Lease!Next
  OBVIOUS
<1>1. [x \in Emails |-> LeaseOf(x)]' \in [Emails -> Lease!Leases]
  BY DEF AllFields, LeaseFields
<1>2. \A e \in Emails: LeaseMove(e)
  BY LeaseMoves DEF EveryLease
<1>3. QED
  BY <1>1, <1>2 DEF LeaseMove, Lease!Next

\* Rows, jobs, requests, faults and restarts together implement the lease: each step
\* of EmailScheduler is one of SendLease, or leaves all leases alone
\* (emailWorker.ts, step 1).
THEOREM ImplementsLeaseHolds == Spec => ImplementsLease
<1>1. StateInv /\ SendInv => AllFields
  BY FieldsHold
<1>2. AllFields /\ AllFields' /\ StateInv /\ SendInv /\ [Next]_vars => Lease!Next
  BY LeaseNext, LeaseStepsRefine
<1>3. QED
  BY <1>1, <1>2, LeaseInit, Invariance, PTL DEF Spec, ImplementsLease, Lease!Spec

-------------------------------------------------------------------------------
(* Rows and jobs up to the first crash *)

\* No statement or command of a worker fails, no running execution loses its
\* lock, and nobody cancels.
Undisturbed == Faults \intersect {"db", "stall", "redisError"} = {} /\ "cancel" \notin Requests

\* No request leaves its row without a job either.
AllEnqueued == Undisturbed /\ "api" \notin Faults

\* Every process is up, its recovery over, and none serves a cancel.
EpochInv ==
    \A s \in Servers:
        /\ server[s] = "up" /\ scan[s] = {}
        /\ \A e \in Emails: cancelling[s][e] = "none"

\* The active job is the one its lock's holder works on, and whoever works on a
\* job holds its lock.
HolderInv(e) ==
    /\ jobState[e] = "active" => lock[e] \in Workers /\ Running(lock[e], e)
    /\ \A w \in Workers: Running(w, e) => lock[e] = w

\* What a row may read while an execution is at an await.
ReadsAt(e, label) ==
    \/ status[e] = "deleted"
    \/ label = "claim" /\ status[e] \in {"scheduled", "failed"}
    \/ label \in OwningPCs /\ status[e] = "processing"
    \/ label = "defer" /\ status[e] = "scheduled"
    \/ label = "resolve" /\ status[e] = "sent"
    \/ label = "reject" /\ status[e] = "failed"

\* What it may read while its job rests in a state.
ReadsIn(e, state) ==
    \/ status[e] = "deleted"
    \/ state = "none" /\ status[e] # "processing"
    \/ state = "queued" /\ status[e] \in {"scheduled", "failed"}
    \/ state = "completed" /\ status[e] = "sent"
    \/ state = "failed" /\ status[e] = "failed"

\* The row follows its job.
RowInv(e) ==
    /\ jobState[e] # "active" => ReadsIn(e, jobState[e])
    /\ \A w \in Workers: Running(w, e) => ReadsAt(e, pc[w])

\* A row that is about to be enqueued has no job yet, and one request enqueues it.
EnqueueInv(e) ==
    \A s \in Servers: e \in enqueuing[s] =>
        /\ jobState[e] = "none" /\ status[e] \in {"scheduled", "deleted"}
        /\ \A t \in Servers: e \in enqueuing[t] => t = s

JobInv(e) == HolderInv(e) /\ RowInv(e) /\ EnqueueInv(e)

AgreeInv == crashes = 0 => EpochInv /\ \A e \in Emails: JobInv(e)

\* A scheduled row without a job is about to get it.
PromiseInv ==
    crashes = 0 => \A e \in Emails:
        status[e] = "scheduled" /\ jobState[e] = "none" => BeingEnqueued(e)

\* A step that is not about e.
Untouched(e) ==
    /\ status'[e] = status[e] /\ jobState'[e] = jobState[e] /\ lock'[e] = lock[e]
    /\ \A w \in Workers:
         (Running(w, e)' <=> Running(w, e)) /\ (Running(w, e) => pc'[w] = pc[w])
    /\ \A s \in Servers: e \in enqueuing'[s] <=> e \in enqueuing[s]

\* What is not touched stays as it should be.
LEMMA UntouchedStep ==
  ASSUME NEW e \in Emails, JobInv(e), Untouched(e) PROVE JobInv(e)'
<1>1. HolderInv(e)'
  BY DEF JobInv, HolderInv, Untouched
<1>2. RowInv(e)'
  BY DEF JobInv, RowInv, ReadsIn, ReadsAt, Untouched
<1>3. EnqueueInv(e)'
  BY DEF JobInv, EnqueueInv, Untouched
<1>4. QED
  BY <1>1, <1>2, <1>3 DEF JobInv

\* The initial state agrees.
LEMMA AgreeInit == Init => AgreeInv /\ PromiseInv
<1> SUFFICES ASSUME Init PROVE AgreeInv /\ PromiseInv
  OBVIOUS
<1>1. EpochInv /\ PromiseInv
  BY DEF Init, WorkerInit, EpochInv, PromiseInv
<1>2. ASSUME NEW e \in Emails PROVE JobInv(e)
  BY DEF Init, QueueInit, WorkerInit, JobInv, HolderInv, RowInv, EnqueueInv, Running, ReadsIn
<1>3. QED
  BY <1>1, <1>2 DEF AgreeInv

\* Before the first crash nobody works on a job that is not active.
LEMMA RestingJob ==
  ASSUME StateInv, NEW e \in Emails, JobInv(e), jobState[e] # "active", NEW w \in Workers
  PROVE  ~Running(w, e)
  BY WorkersAssumption DEF StateInv, QueueOK, QueueInv, JobInv, HolderInv

\* The row that is inserted has no job and no request yet.
LEMMA SubmitAgrees ==
  ASSUME StateInv, NEW s \in Servers, NEW e \in Emails, JobInv(e), Submit(s, e)
  PROVE  JobInv(e)'
<1>1. jobState[e] = "none"
  <2>1. CASE jobState[e] = "active"
    <3>1. PICK w \in Workers: Running(w, e)
      BY <2>1 DEF JobInv, HolderInv
    <3>2. ReadsAt(e, pc[w])
      BY <3>1 DEF JobInv, RowInv
    <3>3. QED
      BY <3>2 DEF Submit, ReadsAt
  <2>2. CASE jobState[e] # "active"
    BY <2>2 DEF JobInv, RowInv, ReadsIn, Submit, StateInv, QueueOK, QueueTypeOK, JobStates
  <2>3. QED
    BY <2>1, <2>2
<1>2. \A t \in Servers: e \notin enqueuing[t]
  BY DEF Submit, JobInv, EnqueueInv
<1>3. /\ UNCHANGED <<queueVars, workerVars>> /\ status'[e] = "scheduled"
      /\ \A t \in Servers: e \in enqueuing'[t] <=> t = s
  BY <1>2 DEF Submit, SetStatus, StateInv, WorkOK, WorkerTypeOK, BackendOK
<1>4. HolderInv(e)'
  BY <1>1, <1>3 DEF JobInv, HolderInv, Running, queueVars, workerVars
<1>5. RowInv(e)'
  BY <1>1, <1>3, RestingJob DEF RowInv, ReadsIn, Statuses, Running, queueVars, workerVars
<1>6. EnqueueInv(e)'
  BY <1>1, <1>3 DEF EnqueueInv, queueVars
<1>7. QED
  BY <1>4, <1>5, <1>6 DEF JobInv

\* The row that is enqueued gets its job.
LEMMA EnqueueAgrees ==
  ASSUME StateInv, NEW s \in Servers, NEW e \in Emails, JobInv(e), Enqueue(s, e)
  PROVE  JobInv(e)' /\ jobState'[e] = "queued"
<1>1. jobState[e] = "none" /\ status[e] \in {"scheduled", "deleted"}
  BY DEF Enqueue, JobInv, EnqueueInv
<1>2. /\ UNCHANGED <<lock, rowVars, workerVars>> /\ jobState'[e] = "queued"
      /\ \A t \in Servers: e \notin enqueuing'[t]
  BY <1>1 DEF Enqueue, AddJob, JobExists, JobInv, EnqueueInv, StateInv, QueueOK, QueueTypeOK,
              BackendOK
<1>3. \A w \in Workers: ~Running(w, e)'
  BY <1>1, <1>2, RestingJob DEF Running, workerVars
<1>4. QED
  BY <1>1, <1>2, <1>3 DEF JobInv, HolderInv, RowInv, ReadsIn, EnqueueInv, rowVars

\* A worker takes the job that nobody works on.
LEMMA TakenAgrees ==
  ASSUME StateInv, NEW w \in Workers, NEW e \in Emails, JobInv(e), WorkerStart(w, e)
  PROVE  JobInv(e)'
<1>1. jobState[e] = "queued" /\ status[e] \in {"scheduled", "failed", "deleted"}
  BY DEF WorkerStart, StartJob, TakeJob, JobInv, RowInv, ReadsIn
<1>2. /\ jobState'[e] = "active" /\ lock'[e] = w /\ pc'[w] = "claim" /\ task'[w] = e
      /\ \A v \in Workers \ {w}: pc'[v] = pc[v] /\ task'[v] = task[v]
      /\ UNCHANGED <<rowVars, enqueuing>>
  BY DEF WorkerStart, StartJob, TakeJob, routeVars, StateInv, QueueOK, QueueTypeOK, WorkOK,
         WorkerTypeOK
<1>3. \A v \in Workers: Running(v, e)' <=> v = w
  BY <1>1, <1>2, RestingJob DEF Running
<1>4. HolderInv(e)'
  BY <1>2, <1>3 DEF HolderInv
<1>5. RowInv(e)'
  BY <1>1, <1>2, <1>3 DEF RowInv, ReadsAt, rowVars
<1>6. EnqueueInv(e)'
  BY <1>1, <1>2 DEF JobInv, EnqueueInv
<1>7. QED
  BY <1>4, <1>5, <1>6 DEF JobInv

\* An execution that goes on holds its job, whose row reads as it should.
LEMMA GoesOn ==
  ASSUME StateInv, NEW w \in Workers, NEW e \in Emails, JobInv(e), Running(w, e),
         NEW label \in PCs \ {"idle"}, Goto(w, label), UNCHANGED <<queueVars, enqueuing>>,
         ReadsAt(e, label)'
  PROVE  JobInv(e)'
<1>1. lock[e] = w /\ jobState[e] = "active"
  BY WorkersAssumption DEF JobInv, HolderInv, StateInv, QueueOK, QueueInv
<1>2. /\ pc'[w] = label /\ label # "idle" /\ task' = task
      /\ \A v \in Workers \ {w}: pc'[v] = pc[v]
  BY DEF Goto, StateInv, WorkOK, WorkerTypeOK
<1>3. \A v \in Workers: Running(v, e)' <=> v = w
  BY <1>1, <1>2 DEF Running, JobInv, HolderInv
<1>4. HolderInv(e)'
  BY <1>1, <1>3 DEF HolderInv, queueVars
<1>5. RowInv(e)'
  BY <1>1, <1>2, <1>3 DEF RowInv, queueVars
<1>6. EnqueueInv(e)'
  BY <1>1 DEF JobInv, EnqueueInv, queueVars
<1>7. QED
  BY <1>4, <1>5, <1>6 DEF JobInv

\* An execution that ends leaves its job in a state that suits the row.
LEMMA Ends ==
  ASSUME StateInv, NEW w \in Workers, NEW e \in Emails, JobInv(e), Running(w, e),
         NEW state \in JobStates \ {"none", "active"}, Release(w, e, state), Finish(w),
         UNCHANGED <<rowVars, enqueuing>>, ReadsIn(e, state)
  PROVE  JobInv(e)'
<1>1. lock[e] = w /\ jobState[e] = "active"
  BY WorkersAssumption DEF JobInv, HolderInv, StateInv, QueueOK, QueueInv
<1>2. jobState'[e] = state /\ pc'[w] = "idle" /\ \A v \in Workers \ {w}: task'[v] = task[v] /\ pc'[v] = pc[v]
  BY DEF Release, Finish, StateInv, QueueOK, QueueTypeOK, WorkOK, WorkerTypeOK
<1>3. \A v \in Workers: ~Running(v, e)'
  BY <1>1, <1>2 DEF Running, JobInv, HolderInv
<1>4. HolderInv(e)'
  BY <1>2, <1>3 DEF HolderInv
<1>5. RowInv(e)'
  BY <1>2, <1>3 DEF RowInv, ReadsIn, rowVars
<1>6. EnqueueInv(e)'
  BY <1>1 DEF JobInv, EnqueueInv
<1>7. QED
  BY <1>4, <1>5, <1>6 DEF JobInv

\* Each step of an undisturbed execution.
LEMMA WorkerAgrees ==
  ASSUME Undisturbed, StateInv, NEW w \in Workers, NEW e \in Emails, JobInv(e),
         task[w] = e, WorkerStep(w), UNCHANGED enqueuing
  PROVE  JobInv(e)'
<1>1. Running(w, e)
  BY DEF WorkerStep, ProcessorStep, LimiterStep, Claim, Recheck, Fetch, SlotCheck, HourlyCheck,
         Revert, Defer, SendMail, RecordSent, MarkFailed, Resolve, Reject, At, Running
<1>2. /\ ReadsAt(e, pc[w]) /\ lock[e] = w
      /\ status \in [Emails -> Statuses]
  BY <1>1 DEF JobInv, RowInv, HolderInv, StateInv, WorkOK, WorkerTypeOK
<1> USE DEF At, PCs, OwningPCs
<1>3. CASE Claim(w)
  <2>1. PICK label \in {"fetch", "recheck"}:
          Goto(w, label) /\ ReadsAt(e, label)'
    BY <1>2, <1>3 DEF Claim, Claimable, SetStatus, ReadsAt, Undisturbed
  <2>2. QED
    BY <1>1, <1>3, <2>1, GoesOn DEF Claim
<1>4. CASE Recheck(w) \/ Fetch(w)
  <2>1. PICK label \in {"resolve", "slot", "reject"}:
          Goto(w, label) /\ ReadsAt(e, label)'
    BY <1>2, <1>4 DEF Recheck, Fetch, RowExists, ReadsAt, Undisturbed, rowVars
  <2>2. QED
    BY <1>1, <1>4, <2>1, GoesOn DEF Recheck, Fetch
<1>5. CASE LimiterStep(w)
  <2>1. PICK label \in {"hourly", "send", "revert"}:
          Goto(w, label) /\ ReadsAt(e, label)'
    BY <1>2, <1>5 DEF LimiterStep, SlotCheck, HourlyCheck, AfterDenial, ReadsAt, rowVars
  <2>2. QED
    BY <1>1, <1>5, <2>1, GoesOn DEF LimiterStep, SlotCheck, HourlyCheck
<1>6. CASE Revert(w) \/ RecordSent(w) \/ MarkFailed(w)
  <2>1. PICK label \in {"defer", "reject", "resolve", "markFailed"}:
          Goto(w, label) /\ ReadsAt(e, label)'
    BY <1>2, <1>6
    DEF Revert, RecordSent, MarkFailed, Update, SetStatus, RowExists, ReadsAt, Undisturbed
  <2>2. QED
    BY <1>1, <1>6, <2>1, GoesOn DEF Revert, RecordSent, MarkFailed
<1>7. CASE SendMail(w)
  <2>1. PICK label \in {"record", "markFailed"}:
          Goto(w, label) /\ ReadsAt(e, label)'
    BY <1>2, <1>7 DEF SendMail, AfterSendError, ReadsAt
  <2>2. QED
    BY <1>1, <1>7, <2>1, GoesOn DEF SendMail
<1>8. CASE Defer(w) \/ Resolve(w) \/ Reject(w)
  <2>1. PICK state \in JobStates \ {"none", "active"}:
          Release(w, e, state) /\ Finish(w) /\ ReadsIn(e, state)
    <3>1. CASE Defer(w)
      BY <1>2, <3>1 DEF Defer, MoveToDelayed, LockLost, ReadsAt, ReadsIn, JobStates, Undisturbed
    <3>2. CASE Resolve(w)
      BY <1>2, <3>2 DEF Resolve, MoveToCompleted, LockLost, ReadsAt, ReadsIn, JobStates
    <3>3. CASE Reject(w)
      BY <1>2, <3>3 DEF Reject, MoveToFailed, LockLost, ReadsAt, ReadsIn, JobStates
    <3>4. QED
      BY <1>8, <3>1, <3>2, <3>3
  <2>2. QED
    BY <1>1, <1>8, <2>1, Ends DEF Defer, Resolve, Reject
<1>9. QED
  BY <1>3, <1>4, <1>5, <1>6, <1>7, <1>8 DEF WorkerStep, ProcessorStep

\* Every step of the others, and every step about another email.
LEMMA RestAgrees ==
  ASSUME Undisturbed, StateInv, EpochInv, [Next]_vars, crashes' = crashes,
         NEW e \in Emails, \A f \in Emails: JobInv(f)
  PROVE  JobInv(e)'
<1>0. JobInv(e)
  OBVIOUS
<1>1. ASSUME NEW s \in Servers, NEW f \in Emails, RouteStep(s, f) PROVE JobInv(e)'
  <2>1. CASE e # f
    <3>1. Untouched(e)
      BY <1>1, <2>1
      DEF RouteStep, Submit, SetStatus, Enqueue, AddJob, AbandonEnqueue, BeginCancel, CancelUpdate,
          CancelRemove, RemoveJob, Forget, Untouched, Running, StateInv, QueueOK, QueueTypeOK,
          WorkOK, WorkerTypeOK, BackendOK, queueVars, rowVars, workerVars
    <3>2. QED
      BY <1>0, <3>1, UntouchedStep
  <2>2. CASE e = f
    <3>1. ~BeginCancel(s, e) /\ ~CancelUpdate(s, e) /\ ~CancelRemove(s, e)
      BY DEF BeginCancel, CancelUpdate, CancelRemove, EpochInv, Undisturbed
    <3>2. CASE AbandonEnqueue(s, e)
      <4>1. /\ UNCHANGED <<queueVars, rowVars, workerVars>>
            /\ \A t \in Servers: e \in enqueuing'[t] => e \in enqueuing[t]
        BY <3>2 DEF AbandonEnqueue, StateInv, BackendOK
      <4>2. HolderInv(e)' /\ RowInv(e)'
        BY <1>0, <4>1
        DEF JobInv, HolderInv, RowInv, ReadsIn, ReadsAt, Running, queueVars, rowVars, workerVars
      <4>3. EnqueueInv(e)'
        BY <1>0, <4>1 DEF JobInv, EnqueueInv, queueVars, rowVars
      <4>4. QED
        BY <4>2, <4>3 DEF JobInv
    <3>3. QED
      BY <1>0, <1>1, <2>2, <3>1, <3>2, SubmitAgrees, EnqueueAgrees DEF RouteStep
  <2>3. QED
    BY <2>1, <2>2
<1>2. ASSUME NEW x \in Senders, DeleteSender(x) PROVE JobInv(e)'
  <2>1. /\ UNCHANGED <<queueVars, workerVars, enqueuing>>
        /\ status'[e] = status[e] \/ status'[e] = "deleted"
    BY <1>2 DEF DeleteSender
  <2>2. HolderInv(e)' /\ RowInv(e)' /\ EnqueueInv(e)'
    BY <1>0, <2>1
    DEF JobInv, HolderInv, RowInv, EnqueueInv, ReadsIn, ReadsAt, Running, queueVars, workerVars
  <2>3. QED
    BY <2>2 DEF JobInv
<1>3. ASSUME NEW s \in Servers, ServerStep(s) PROVE FALSE
  <2>1. crashes \in Nat
    BY DEF StateInv, BackendOK
  <2>2. QED
    BY <1>3, <2>1 DEF ServerStep, Crash, Start, FinishRecovery, Recover, EpochInv
<1>4. ASSUME NEW f \in Emails, QueueStep(f) PROVE JobInv(e)'
  <2>1. ~LoseLock(f) /\ ~Sweep(f)
    BY WorkersAssumption
    DEF LoseLock, ExpireLock, Sweep, SweepStalled, JobInv, HolderInv, StateInv, QueueOK, QueueInv,
        Undisturbed
  <2>2. /\ jobState[f] \in {"completed", "failed"} /\ Forget({f})
        /\ UNCHANGED <<rowVars, workerVars, enqueuing>>
    BY <1>4, <2>1 DEF QueueStep, Trim, TrimJob, routeVars
  <2>3. CASE e # f
    <3>1. Untouched(e)
      BY <2>2, <2>3 DEF Forget, Untouched, Running, rowVars, workerVars
    <3>2. QED
      BY <1>0, <3>1, UntouchedStep
  <2>4. CASE e = f
    <3>1. jobState'[e] = "none" /\ status[e] # "processing" /\ \A s \in Servers: e \notin enqueuing[s]
      BY <1>0, <2>2, <2>4 DEF Forget, JobInv, RowInv, ReadsIn, EnqueueInv
    <3>2. \A w \in Workers: ~Running(w, e)'
      BY <1>0, <2>2, <2>4, RestingJob DEF Running, workerVars
    <3>3. QED
      BY <2>2, <3>1, <3>2 DEF JobInv, HolderInv, RowInv, ReadsIn, EnqueueInv, rowVars
  <2>5. QED
    BY <2>3, <2>4
<1>5. ~LoseRedis
  BY DEF LoseRedis, StateInv, BackendOK
<1>6. ASSUME NEW w \in Workers, NEW f \in Emails, WorkerStart(w, f) PROVE JobInv(e)'
  <2>1. CASE e # f
    <3>1. task[w] = NoEmail
      BY <1>6 DEF WorkerStart, StartJob, At, StateInv, WorkOK, TaskInv
    <3>2. Untouched(e)
      BY <1>6, <2>1, <3>1, NoEmailAssumption
      DEF WorkerStart, StartJob, TakeJob, Untouched, Running, StateInv, QueueOK, QueueTypeOK,
          WorkOK, WorkerTypeOK, rowVars, routeVars
    <3>3. QED
      BY <1>0, <3>2, UntouchedStep
  <2>2. QED
    BY <1>0, <1>6, <2>1, TakenAgrees
<1>7. ASSUME NEW w \in Workers, ProcessStep(w) PROVE JobInv(e)'
  <2>1. WorkerStep(w) /\ UNCHANGED enqueuing
    BY <1>7 DEF ProcessStep, routeVars
  <2>2. CASE e # task[w]
    <3>1. status'[e] = status[e] /\ jobState'[e] = jobState[e] /\ lock'[e] = lock[e]
      BY <2>1, <2>2
      DEF WorkerStep, ProcessorStep, LimiterStep, Claim, Recheck, Fetch, SlotCheck, HourlyCheck,
          Revert, Defer, SendMail, RecordSent, MarkFailed, Resolve, Reject, Update, SetStatus,
          MoveToDelayed, MoveToCompleted, MoveToFailed, Release, LockLost, queueVars, rowVars,
          StateInv, QueueOK, QueueTypeOK, WorkOK, WorkerTypeOK
    <3>2. /\ \A v \in Workers \ {w}: pc'[v] = pc[v] /\ task'[v] = task[v]
          /\ task'[w] \in {task[w], NoEmail}
      BY <2>1
      DEF WorkerStep, ProcessorStep, LimiterStep, Claim, Recheck, Fetch, SlotCheck, HourlyCheck,
          Revert, Defer, SendMail, RecordSent, MarkFailed, Resolve, Reject, Update, Goto, Finish,
          StateInv, WorkOK, WorkerTypeOK
    <3>3. Untouched(e)
      BY <2>1, <2>2, <3>1, <3>2, NoEmailAssumption DEF Untouched, Running
    <3>4. QED
      BY <1>0, <3>3, UntouchedStep
  <2>3. QED
    BY <1>0, <2>1, <2>2, WorkerAgrees
<1>8. CASE UNCHANGED vars
  <2>1. Untouched(e)
    BY <1>8 DEF vars, queueVars, rowVars, workerVars, routeVars, Untouched, Running
  <2>2. QED
    BY <1>0, <2>1, UntouchedStep
<1>9. QED
  BY <1>1, <1>2, <1>3, <1>4, <1>5, <1>6, <1>7, <1>8 DEF Next

\* Crashes are counted and never forgotten.
LEMMA CrashesGrow ==
  ASSUME StateInv, [Next]_vars, crashes' = 0
  PROVE  crashes = 0 /\ ~LoseRedis /\ \A s \in Servers: ~Crash(s)
<1>1. crashes \in Nat
  BY DEF StateInv, BackendOK
<1>2. ~LoseRedis /\ \A s \in Servers: ~Crash(s)
  BY <1>1 DEF LoseRedis, Crash
<1>3. UNCHANGED crashes
  BY <1>2
  DEF Next, RouteStep, Submit, Enqueue, AbandonEnqueue, BeginCancel, CancelUpdate, CancelRemove,
      DeleteSender, ServerStep, Start, FinishRecovery, Recover, QueueStep, LoseLock, Sweep, Trim,
      WorkerStart, ProcessStep, vars
<1>4. QED
  BY <1>2, <1>3

\* A process that is up, without cancels to serve, stays so until it dies.
LEMMA EpochStep ==
  ASSUME Undisturbed, EpochInv, [Next]_vars, \A s \in Servers: ~Crash(s) PROVE EpochInv'
<1>1. /\ \A s \in Servers: ~Start(s) /\ ~FinishRecovery(s) /\ \A e \in Emails: ~Recover(s, e)
      /\ \A s \in Servers, e \in Emails: ~BeginCancel(s, e) /\ ~CancelUpdate(s, e) /\ ~CancelRemove(s, e)
  BY DEF Start, FinishRecovery, Recover, BeginCancel, CancelUpdate, CancelRemove, EpochInv,
         Undisturbed
<1>2. UNCHANGED <<server, scan, cancelling>>
  BY <1>1
  DEF Next, RouteStep, Submit, Enqueue, AbandonEnqueue, DeleteSender, ServerStep, QueueStep,
      LoseLock, Sweep, Trim, LoseRedis, WorkerStart, ProcessStep, vars, serverVars, routeVars
<1>3. QED
  BY <1>2 DEF EpochInv

\* Every step keeps rows and jobs in agreement.
LEMMA AgreeNext ==
  ASSUME Undisturbed PROVE StateInv /\ AgreeInv /\ [Next]_vars => AgreeInv'
<1> SUFFICES ASSUME StateInv, AgreeInv, [Next]_vars, crashes' = 0
             PROVE  EpochInv' /\ \A e \in Emails: JobInv(e)'
  BY DEF AgreeInv
<1>1. crashes = 0 /\ \A s \in Servers: ~Crash(s)
  BY CrashesGrow
<1>2. EpochInv'
  BY <1>1, EpochStep DEF AgreeInv
<1>3. QED
  BY <1>1, <1>2, RestAgrees DEF AgreeInv

\* A scheduled row without a job keeps the request that will enqueue it.
LEMMA PromiseNext ==
  ASSUME AllEnqueued PROVE StateInv /\ AgreeInv /\ PromiseInv /\ [Next]_vars => PromiseInv'
<1> SUFFICES ASSUME StateInv, AgreeInv, PromiseInv, [Next]_vars, crashes' = 0, NEW e \in Emails,
                    status'[e] = "scheduled", jobState'[e] = "none"
             PROVE  BeingEnqueued(e)'
  BY DEF PromiseInv
<1>1. /\ crashes = 0 /\ ~LoseRedis /\ \A s \in Servers: ~Crash(s)
      /\ Undisturbed /\ EpochInv /\ JobInv(e) /\ AgreeInv'
  BY CrashesGrow, AgreeNext DEF AgreeInv, AllEnqueued
<1>2. status[e] = "scheduled" /\ jobState[e] = "none" => \E s \in Servers: e \in enqueuing[s]
  BY <1>1 DEF PromiseInv, BeingEnqueued
<1>3. ASSUME NEW s \in Servers, NEW f \in Emails, RouteStep(s, f) PROVE BeingEnqueued(e)'
  <2>1. CASE Submit(s, f)
    BY <1>2, <2>1
    DEF Submit, SetStatus, BeingEnqueued, StateInv, WorkOK, WorkerTypeOK, BackendOK, queueVars
  <2>2. CASE Enqueue(s, f)
    BY <1>2, <2>2
    DEF Enqueue, AddJob, JobExists, BeingEnqueued, StateInv, QueueOK, QueueTypeOK, BackendOK, rowVars
  <2>3. QED
    BY <1>1, <1>3, <2>1, <2>2
    DEF RouteStep, AbandonEnqueue, BeginCancel, CancelUpdate, CancelRemove, AllEnqueued,
        Undisturbed, EpochInv
<1>4. ASSUME NEW x \in Senders, DeleteSender(x) PROVE BeingEnqueued(e)'
  BY <1>2, <1>4 DEF DeleteSender, BeingEnqueued, queueVars
<1>5. ASSUME NEW s \in Servers, ServerStep(s) PROVE FALSE
  BY <1>1, <1>5 DEF ServerStep, Start, FinishRecovery, Recover, EpochInv
<1>6. ASSUME NEW f \in Emails, QueueStep(f) PROVE BeingEnqueued(e)'
  <2>1. ~LoseLock(f) /\ ~Sweep(f)
    BY <1>1, WorkersAssumption
    DEF LoseLock, ExpireLock, Sweep, SweepStalled, AgreeInv, JobInv, HolderInv, StateInv, QueueOK,
        QueueInv, Undisturbed
  <2>2. /\ jobState[f] \in {"completed", "failed"} /\ Forget({f})
        /\ UNCHANGED <<status, enqueuing>>
    BY <1>6, <2>1 DEF QueueStep, Trim, TrimJob, routeVars, rowVars
  <2>3. e # f
    BY <1>1, <2>2 DEF JobInv, RowInv, ReadsIn
  <2>4. QED
    BY <1>2, <2>2, <2>3 DEF Forget, BeingEnqueued
<1>7. ASSUME NEW w \in Workers, NEW f \in Emails, WorkerStart(w, f) PROVE BeingEnqueued(e)'
  BY <1>2, <1>7
  DEF WorkerStart, StartJob, TakeJob, BeingEnqueued, StateInv, QueueOK, QueueTypeOK, rowVars,
      routeVars
<1>8. ASSUME NEW w \in Workers, ProcessStep(w) PROVE BeingEnqueued(e)'
  <2>1. WorkerStep(w) /\ UNCHANGED enqueuing
    BY <1>8 DEF ProcessStep, routeVars
  <2>2. jobState[e] = "none"
    <3>1. jobState'[e] = jobState[e] \/ jobState'[e] \in {"queued", "completed", "failed"}
      BY <2>1
      DEF WorkerStep, ProcessorStep, LimiterStep, Claim, Recheck, Fetch, SlotCheck, HourlyCheck,
          Revert, Defer, SendMail, RecordSent, MarkFailed, Resolve, Reject, MoveToDelayed,
          MoveToCompleted, MoveToFailed, Release, LockLost, queueVars, StateInv, QueueOK,
          QueueTypeOK
    <3>2. QED
      BY <3>1
  <2>3. CASE e # task[w]
    <3>1. status'[e] = status[e]
      BY <2>1, <2>3
      DEF WorkerStep, ProcessorStep, LimiterStep, Claim, Recheck, Fetch, SlotCheck, HourlyCheck,
          Revert, Defer, SendMail, RecordSent, MarkFailed, Resolve, Reject, Update, SetStatus,
          rowVars, StateInv, WorkOK, WorkerTypeOK
    <3>2. QED
      BY <1>2, <2>1, <2>2, <3>1 DEF BeingEnqueued
  <2>4. CASE e = task[w]
    <3>1. Running(w, e)
      BY <2>1, <2>4
      DEF WorkerStep, ProcessorStep, LimiterStep, Claim, Recheck, Fetch, SlotCheck, HourlyCheck,
         Revert, Defer, SendMail, RecordSent, MarkFailed, Resolve, Reject, At, Running
    <3>2. QED
      BY <1>1, <2>2, <3>1, RestingJob
  <2>5. QED
    BY <2>3, <2>4
<1>9. CASE UNCHANGED vars
  BY <1>2, <1>9 DEF vars, queueVars, rowVars, routeVars, BeingEnqueued
<1>10. QED
  BY <1>1, <1>3, <1>4, <1>5, <1>6, <1>7, <1>8, <1>9 DEF Next

\* Until the first crash, if nothing disturbs the executions and nobody cancels,
\* the outcome that BullMQ filed is the row's.
THEOREM OutcomesAgreeHolds ==
  ASSUME Undisturbed PROVE Spec => []OutcomesAgree
<1>1. AgreeInv => OutcomesAgree
  BY DEF AgreeInv, JobInv, RowInv, ReadsIn, OutcomesAgree
<1>2. StateInv /\ AgreeInv /\ [Next]_vars => AgreeInv'
  BY AgreeNext
<1>3. QED
  BY <1>1, <1>2, AgreeInit, Invariance, PTL DEF Spec

\* Until then, if routes do not give up either, a scheduled row has a job that
\* will run or a request that is about to add it, and a processing row its owner.
THEOREM RowHasItsJobHolds ==
  ASSUME AllEnqueued PROVE Spec => []RowHasItsJob
<1>1. StateInv /\ AgreeInv /\ PromiseInv => RowHasItsJob
  <2> SUFFICES ASSUME StateInv, AgreeInv, PromiseInv, crashes = 0, NEW e \in Emails
               PROVE  /\ status[e] = "scheduled" => LiveJob(e) \/ BeingEnqueued(e)
                      /\ status[e] = "processing" =>
                             \E w \in Workers: Owns(w, e) /\ lock[e] = w
    BY DEF RowHasItsJob
  <2>1. HolderInv(e) /\ RowInv(e) /\ jobState[e] \in JobStates
    BY DEF AgreeInv, JobInv, StateInv, QueueOK, QueueTypeOK
  <2>2. status[e] = "scheduled" => LiveJob(e) \/ BeingEnqueued(e)
    BY <2>1 DEF PromiseInv, RowInv, ReadsIn, JobStates, LiveJob
  <2>3. status[e] = "processing" => \E w \in Workers: Owns(w, e) /\ lock[e] = w
    <3>1. SUFFICES ASSUME status[e] = "processing" PROVE \E w \in Workers: Owns(w, e) /\ lock[e] = w
      OBVIOUS
    <3>2. jobState[e] = "active"
      BY <2>1, <3>1 DEF RowInv, ReadsIn
    <3>3. lock[e] \in Workers /\ Running(lock[e], e)
      BY <2>1, <3>2 DEF HolderInv
    <3>4. QED
      BY <2>1, <3>1, <3>3 DEF RowInv, ReadsAt, Running, Owns
  <2>4. QED
    BY <2>2, <2>3
<1>2. StateInv /\ AgreeInv /\ [Next]_vars => AgreeInv'
  BY AgreeNext DEF AllEnqueued
<1>3. StateInv /\ AgreeInv /\ PromiseInv /\ [Next]_vars => PromiseInv'
  BY PromiseNext
<1>4. QED
  BY <1>1, <1>2, <1>3, AgreeInit, Invariance, PTL DEF Spec
===============================================================================
