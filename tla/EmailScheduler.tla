---------------------------- MODULE EmailScheduler ----------------------------
(***************************************************************************)
(* The whole life of a scheduled email: the routes that create, cancel and *)
(* cascade-delete rows (routes/emails.ts, routes/senders.ts), the server   *)
(* processes that boot, recover the queue and run the workers (server.ts,  *)
(* services/recovery.ts), the workers (EmailWorker) and the queue          *)
(* (EmailQueue).                                                           *)
(*                                                                         *)
(* A campaign is one independent row per recipient.  The in-memory         *)
(* fallback of the routes, which lives outside PostgreSQL and BullMQ, is   *)
(* not part of this module.                                                *)
(***************************************************************************)
EXTENDS EmailWorker

CONSTANTS
    Servers,       \* backend processes
    ServerOf,      \* the process each worker runs in
    Senders,
    SenderOf,      \* the sender of each email
    Requests,      \* what users ask for besides scheduling
    MaxCrashes     \* bound on process deaths and losses of Redis

RequestKinds == {"cancel", "deleteSender"}

ASSUME ServerOfAssumption == ServerOf \in [Workers -> Servers]
ASSUME SenderOfAssumption == SenderOf \in [Emails -> Senders]
ASSUME RequestsAssumption == Requests \subseteq RequestKinds
ASSUME CrashesAssumption  == MaxCrashes \in Nat

VARIABLES
    server,        \* each process: "down", "recovering" or "up"
    scan,          \* rows its recovery has read and not yet looked up
    enqueuing,     \* rows its schedule requests inserted and will enqueue
    cancelling,    \* where each cancel request it serves is
    senders,       \* rows of the senders table
    crashes

serverVars == <<server, scan>>
routeVars == <<enqueuing, cancelling, senders>>
vars == <<queueVars, rowVars, workerVars, serverVars, routeVars, crashes>>

TypeOK ==
    /\ QueueTypeOK
    /\ WorkerTypeOK
    /\ server \in [Servers -> {"down", "recovering", "up"}]
    /\ scan \in [Servers -> SUBSET Emails]
    /\ enqueuing \in [Servers -> SUBSET Emails]
    /\ cancelling \in [Servers -> [Emails -> {"none", "update", "remove"}]]
    /\ senders \in SUBSET Senders
    /\ crashes \in 0..MaxCrashes

Init ==
    /\ QueueInit
    /\ WorkerInit
    /\ server = [s \in Servers |-> "up"]
    /\ scan = [s \in Servers |-> {}]
    /\ enqueuing = [s \in Servers |-> {}]
    /\ cancelling = [s \in Servers |-> [e \in Emails |-> "none"]]
    /\ senders = Senders
    /\ crashes = 0

\* The HTTP API listens as soon as the process runs.
Serving(s) == server[s] # "down"

-------------------------------------------------------------------------------
(* POST /api/emails/schedule *)

\* createMany inserts the row of e, as scheduled.
Submit(s, e) ==
    /\ Serving(s)
    /\ status[e] = "none"
    /\ SenderOf[e] \in senders
    /\ SetStatus(e, "scheduled")
    /\ enqueuing' = [enqueuing EXCEPT ![s] = @ \union {e}]
    /\ UNCHANGED <<queueVars, delivered, ackLost, workerVars, serverVars,
                   cancelling, senders, crashes>>

\* addBulk gives the inserted row its job.
Enqueue(s, e) ==
    /\ e \in enqueuing[s]
    /\ AddJob(e)
    /\ enqueuing' = [enqueuing EXCEPT ![s] = @ \ {e}]
    /\ UNCHANGED <<rowVars, workerVars, serverVars, cancelling, senders, crashes>>

\* A call between the insertion and addBulk gives up: the route turns to the
\* in-memory queue and leaves the row behind.
AbandonEnqueue(s, e) ==
    /\ "api" \in Faults
    /\ e \in enqueuing[s]
    /\ enqueuing' = [enqueuing EXCEPT ![s] = @ \ {e}]
    /\ UNCHANGED <<queueVars, rowVars, workerVars, serverVars, cancelling,
                   senders, crashes>>

-------------------------------------------------------------------------------
(* POST /api/emails/:id/cancel *)

SetCancelling(s, e, step) == cancelling' = [cancelling EXCEPT ![s][e] = step]

\* Mutant: the route cancels whatever it finds.
NotCancellable_None == {}

\* The statuses the route refuses to cancel.
NotCancellable == {"sent"}

\* findFirst, and the check of what it returned.
BeginCancel(s, e) ==
    /\ "cancel" \in Requests
    /\ Serving(s)
    /\ cancelling[s][e] = "none"
    /\ RowExists(e)
    /\ status[e] \notin NotCancellable
    /\ SetCancelling(s, e, "update")
    /\ UNCHANGED <<queueVars, rowVars, workerVars, serverVars, enqueuing,
                   senders, crashes>>

\* The row becomes cancelled, whatever its status is by now.  If the update
\* throws or times out, the route answers from the in-memory store; a timed
\* out update is still applied.
CancelUpdate(s, e) ==
    /\ cancelling[s][e] = "update"
    /\ \/ /\ RowExists(e)
          /\ SetStatus(e, "cancelled")
          /\ SetCancelling(s, e, "remove")
       \/ /\ ~RowExists(e) \/ "api" \in Faults
          /\ UNCHANGED status
          /\ SetCancelling(s, e, "none")
       \/ /\ "api" \in Faults
          /\ RowExists(e)
          /\ SetStatus(e, "cancelled")
          /\ SetCancelling(s, e, "none")
    /\ UNCHANGED <<queueVars, delivered, ackLost, workerVars, serverVars,
                   enqueuing, senders, crashes>>

\* getJob and job.remove, which throws while a worker holds the lock.
CancelRemove(s, e) ==
    /\ cancelling[s][e] = "remove"
    /\ \/ RemoveJob(e)
       \/ ~JobExists(e) /\ UNCHANGED queueVars
       \/ lock[e] # NoWorker /\ UNCHANGED queueVars
       \/ "api" \in Faults /\ UNCHANGED queueVars
    /\ SetCancelling(s, e, "none")
    /\ UNCHANGED <<rowVars, workerVars, serverVars, enqueuing, senders, crashes>>

-------------------------------------------------------------------------------
\* DELETE /api/senders/:id: the delete cascades to the sender's emails; their
\* jobs stay in the queue.
DeleteSender(x) ==
    /\ "deleteSender" \in Requests
    /\ \E s \in Servers: Serving(s)
    /\ x \in senders
    /\ senders' = senders \ {x}
    /\ status' = [e \in Emails |-> IF SenderOf[e] = x /\ RowExists(e)
                                   THEN "deleted" ELSE status[e]]
    /\ UNCHANGED <<queueVars, delivered, ackLost, workerVars, serverVars,
                   enqueuing, cancelling, crashes>>

-------------------------------------------------------------------------------
(* server.ts and QueueRecoveryService.recoverScheduledJobs *)

\* The process dies: its executions and its requests vanish, the locks its
\* executions held stay in Redis.
Crash(s) ==
    /\ "crash" \in Faults
    /\ crashes < MaxCrashes
    /\ Serving(s)
    /\ crashes' = crashes + 1
    /\ server' = [server EXCEPT ![s] = "down"]
    /\ scan' = [scan EXCEPT ![s] = {}]
    /\ enqueuing' = [enqueuing EXCEPT ![s] = {}]
    /\ cancelling' = [cancelling EXCEPT ![s] = [e \in Emails |-> "none"]]
    /\ pc' = [w \in Workers |-> IF ServerOf[w] = s THEN "idle" ELSE pc[w]]
    /\ task' = [w \in Workers |-> IF ServerOf[w] = s THEN NoEmail ELSE task[w]]
    /\ UNCHANGED <<queueVars, rowVars, senders>>

\* Mutant: recovery looks for the emails that failed.
Recoverable_Failed == {"failed"}

\* The statuses recovery looks for.
Recoverable == {"scheduled"}

\* The process boots, and its recovery reads the rows to look up.  A failing
\* read is logged and the recovery gives up.
Start(s) ==
    /\ server[s] = "down"
    /\ server' = [server EXCEPT ![s] = "recovering"]
    /\ \/ scan' = [scan EXCEPT ![s] = {e \in Emails: status[e] \in Recoverable}]
       \/ "db" \in Faults /\ scan' = [scan EXCEPT ![s] = {}]
    /\ UNCHANGED <<queueVars, rowVars, workerVars, routeVars, crashes>>

\* getJob, and add if there is no such job.
Recover(s, e) ==
    /\ e \in scan[s]
    /\ AddJob(e)
    /\ scan' = [scan EXCEPT ![s] = @ \ {e}]
    /\ UNCHANGED <<rowVars, workerVars, server, routeVars, crashes>>

\* The recovery returned, or gave up on an error: the workers start.
FinishRecovery(s) ==
    /\ server[s] = "recovering"
    /\ scan[s] = {} \/ "redisError" \in Faults
    /\ server' = [server EXCEPT ![s] = "up"]
    /\ scan' = [scan EXCEPT ![s] = {}]
    /\ UNCHANGED <<queueVars, rowVars, workerVars, routeVars, crashes>>

-------------------------------------------------------------------------------
(* The queue's own steps *)

\* The workers of a process run once its recovery is over.
WorkerStart(w, e) ==
    /\ server[ServerOf[w]] = "up"
    /\ StartJob(w, e)
    /\ UNCHANGED <<serverVars, routeVars, crashes>>

\* A lock expires because its holder died, or was too slow to renew it.
LoseLock(e) ==
    /\ ExpireLock(e)
    /\ "stall" \in Faults \/ ~Running(lock[e], e)
    /\ UNCHANGED <<rowVars, workerVars, serverVars, routeVars, crashes>>

\* Every running worker checks for stalled jobs.
Sweep(e) ==
    /\ \E s \in Servers: server[s] = "up"
    /\ SweepStalled(e)
    /\ UNCHANGED <<rowVars, workerVars, serverVars, routeVars, crashes>>

Trim(e) ==
    /\ TrimJob(e)
    /\ UNCHANGED <<rowVars, workerVars, serverVars, routeVars, crashes>>

LoseRedis ==
    /\ "redisLoss" \in Faults
    /\ crashes < MaxCrashes
    /\ crashes' = crashes + 1
    /\ Forget(Emails)
    /\ UNCHANGED <<rowVars, workerVars, serverVars, routeVars>>

-------------------------------------------------------------------------------
RouteStep(s, e) ==
    \/ Submit(s, e) \/ Enqueue(s, e) \/ AbandonEnqueue(s, e)
    \/ BeginCancel(s, e) \/ CancelUpdate(s, e) \/ CancelRemove(s, e)

ServerStep(s) ==
    Crash(s) \/ Start(s) \/ FinishRecovery(s) \/ \E e \in Emails: Recover(s, e)

QueueStep(e) == LoseLock(e) \/ Sweep(e) \/ Trim(e)

ProcessStep(w) == WorkerStep(w) /\ UNCHANGED <<serverVars, routeVars, crashes>>

\* The limiter lets w pass at its first check, and at its second.
AdmitSlot(w) == SlotCheck(w, TRUE) /\ UNCHANGED <<serverVars, routeVars, crashes>>
AdmitHourly(w) == HourlyCheck(w, TRUE) /\ UNCHANGED <<serverVars, routeVars, crashes>>

Next ==
    \/ \E s \in Servers, e \in Emails: RouteStep(s, e)
    \/ \E x \in Senders: DeleteSender(x)
    \/ \E s \in Servers: ServerStep(s)
    \/ \E e \in Emails: QueueStep(e)
    \/ LoseRedis
    \/ \E w \in Workers, e \in Emails: WorkerStart(w, e)
    \/ \E w \in Workers: ProcessStep(w)

Spec == Init /\ [][Next]_vars

(***************************************************************************)
(* Fairness.  An execution keeps running, and BullMQ hands every queued    *)
(* job to some worker in the end.  Neither check of the limiter can deny   *)
(* an execution for ever: the minimum delay elapses and the hour ends.     *)
(* An interrupted process is restarted, a lock that nobody renews expires  *)
(* and the stalled checker runs; a request that inserted a row goes on.    *)
(***************************************************************************)
Fairness ==
    /\ \A w \in Workers:
         WF_vars(ProcessStep(w)) /\ SF_vars(AdmitSlot(w)) /\ SF_vars(AdmitHourly(w))
    /\ \A e \in Emails:
         /\ SF_vars(\E w \in Workers: WorkerStart(w, e))
         /\ WF_vars(LoseLock(e)) /\ WF_vars(Sweep(e))
    /\ \A s \in Servers:
         /\ WF_vars(Start(s)) /\ WF_vars(FinishRecovery(s))
         /\ \A e \in Emails: WF_vars(Recover(s, e)) /\ WF_vars(Enqueue(s, e))

LiveSpec == Spec /\ Fairness

-------------------------------------------------------------------------------
(* What the claim on the row promises, whatever goes wrong *)

\* Two executions never own one row at the same time, though BullMQ may run
\* a job twice at once after a lost lock (emailWorker.ts, step 1).
SingleOwner ==
    \A e \in Emails: \A v, w \in Workers: Owns(v, e) /\ Owns(w, e) => v = w

\* A row reads sent only if the SMTP server accepted its message.
SentIsTruthful == \A e \in Emails: status[e] = "sent" => delivered[e] > 0

\* A message goes out twice only after an execution that delivered it ended in
\* the catch block: no crash, stall, redelivered or recovered job, cancel or
\* deletion sends twice on its own.
NoDuplicateWithoutLostAck ==
    \A e \in Emails: delivered[e] > 1 => ackLost[e]

Unowned(e) == \A w \in Workers: ~Owns(w, e)

CancelledStays ==
    \A e \in Emails: status[e] = "cancelled" /\ Unowned(e) =>
        /\ status'[e] \in {"cancelled", "deleted"}
        /\ delivered'[e] = delivered[e]

\* A row that is cancelled while no execution owns it is never delivered or
\* revived: not by its job, not by a job that recovery puts back, not by an
\* execution that is past its write but still running.
CancelledBeforeClaimIsFinal == [][CancelledStays]_vars

SettledSent(e) ==
    /\ status[e] = "sent" /\ Unowned(e)
    /\ \A s \in Servers: cancelling[s][e] # "update"

SentSettles ==
    \A e \in Emails: SettledSent(e) =>
        /\ SettledSent(e)' \/ status'[e] = "deleted"
        /\ delivered'[e] = delivered[e]

\* A row that reads sent stays sent and is not delivered again, unless it read so
\* when a cancel was past its check of the status, or the execution that wrote it
\* was not told and still owns the row (routes/emails.ts:327, emailWorker.ts:162).
SentIsFinal == [][SentSettles]_vars

\* The lease each row stands for: held by the execution that owns the row, open
\* while the row may be claimed.
LeaseOf(e) ==
    [holder |-> IF Unowned(e) THEN NoWorker ELSE CHOOSE w \in Workers: Owns(w, e),
     unused |-> \E w \in Workers: Owns(w, e) /\ pc[w] \notin {"record", "markFailed"},
     open |-> status[e] \in Claimable,
     delivered |-> delivered[e],
     ackLost |-> ackLost[e]]

Lease == INSTANCE SendLease WITH lease <- [e \in Emails |-> LeaseOf(e)]

\* Rows, jobs, crashes and requests together implement the lease on sending.
ImplementsLease == Lease!Spec

-------------------------------------------------------------------------------
(* How rows and jobs stay together while nothing stalls and no process dies *)

BeingEnqueued(e) == \E s \in Servers: e \in enqueuing[s]

\* A scheduled row has a job that will run, or is about to get one, and a row is
\* processing only while the execution that holds the job's lock owns it: the
\* revert before moveToDelayed and the retry after a failure leave no gap.
RowHasItsJob ==
    crashes = 0 => \A e \in Emails:
        /\ status[e] = "scheduled" => LiveJob(e) \/ BeingEnqueued(e)
        /\ status[e] = "processing" => \E w \in Workers: Owns(w, e) /\ lock[e] = w

\* A job that BullMQ filed as completed or failed left its row in a status
\* that says the same.
OutcomesAgree ==
    crashes = 0 => \A e \in Emails:
        /\ jobState[e] = "completed" => status[e] \in {"sent", "deleted"}
        /\ jobState[e] = "failed" => status[e] \in {"failed", "deleted"}

Settled(e) ==
    \/ status[e] \in {"sent", "cancelled", "deleted"}
    \/ status[e] = "failed" /\ ~LiveJob(e)

-------------------------------------------------------------------------------
(* What survives a process or Redis *)

Stranded(e) == crashes > 0 /\ status[e] = "processing" /\ Unowned(e)

\* Whatever is scheduled is sent, deleted, or fails with its attempts used up,
\* however often the limiter defers it; a crash loses no email but the ones
\* its workers had claimed.
OnlyClaimsAreLost ==
    \A e \in Emails: status[e] = "scheduled" ~> Settled(e) \/ Stranded(e)

-------------------------------------------------------------------------------
(* What the repository says of the program, and the code does not do *)

\* README.md:50, "Survives worker and server restarts without job loss."
RestartLosesNothing == \A e \in Emails: status[e] = "scheduled" ~> Settled(e)

\* README.md:52, "Prevents duplicate email delivery."
NoDuplicateDelivery == \A e \in Emails: delivered[e] < 2
===============================================================================
