------------------------------ MODULE EmailWorker ------------------------------
(***************************************************************************)
(* processEmailJob (workers/emailWorker.ts): one execution of the BullMQ   *)
(* processor, one step per await, over the status column of                *)
(* scheduled_emails in PostgreSQL and the jobs of EmailQueue.              *)
(*                                                                         *)
(* The rate limiter is seen through its two answers only, which an         *)
(* execution gets nondeterministically; its own state is not kept here.    *)
(* The `attempts` and `bullJobId` columns are written and never read by    *)
(* the backend and are left out.                                           *)
(***************************************************************************)
EXTENDS EmailQueue

CONSTANTS
    NoEmail,       \* what an idle worker processes
    Faults         \* what can go wrong in this environment

(* "smtp"        the server accepts a message but sendMail throws          *)
(* "db"          a statement of the worker or of the recovery throws,      *)
(*               applied or not                                            *)
(* "stall"       a lock expires while its execution still runs             *)
(* "crash"       a process dies                                            *)
(* "redisLoss"   Redis restarts without the queue                          *)
(* "redisError"  a Redis command of the worker or of the recovery rejects  *)
(* "api"         a database or Redis call of a route gives up              *)
FaultKinds == {"smtp", "db", "stall", "crash", "redisLoss", "redisError", "api"}

ASSUME FaultsAssumption  == Faults \subseteq FaultKinds
ASSUME NoEmailAssumption == NoEmail \notin Emails

VARIABLES
    status,        \* the row's status; "none" before it, "deleted" after it
    delivered,     \* messages the SMTP server accepted, counted up to 2
    ackLost,       \* a delivery was followed by an error instead of `sent`
    pc,            \* where each execution is
    task           \* the email it works on

rowVars == <<status, delivered, ackLost>>
workerVars == <<pc, task>>

Statuses == {"none", "scheduled", "processing", "sent", "failed", "cancelled",
             "deleted"}

\* The awaits at which an execution owns the row it claimed.
OwningPCs == {"fetch", "slot", "hourly", "revert", "send", "record", "markFailed"}

PCs == OwningPCs \union {"idle", "claim", "recheck", "defer", "resolve", "reject"}

WorkerTypeOK ==
    /\ status \in [Emails -> Statuses]
    /\ delivered \in [Emails -> 0..2]
    /\ ackLost \in [Emails -> BOOLEAN]
    /\ pc \in [Workers -> PCs]
    /\ task \in [Workers -> Emails \union {NoEmail}]

WorkerInit ==
    /\ status = [e \in Emails |-> "none"]
    /\ delivered = [e \in Emails |-> 0]
    /\ ackLost = [e \in Emails |-> FALSE]
    /\ pc = [w \in Workers |-> "idle"]
    /\ task = [w \in Workers |-> NoEmail]

Running(w, e) == task[w] = e /\ pc[w] # "idle"

Owns(w, e) == task[w] = e /\ pc[w] \in OwningPCs

At(w, label) == pc[w] = label

Goto(w, label) == pc' = [pc EXCEPT ![w] = label] /\ UNCHANGED task

\* The execution ends, and its worker is free for another job.
Finish(w) ==
    /\ pc' = [pc EXCEPT ![w] = "idle"]
    /\ task' = [task EXCEPT ![w] = NoEmail]

SetStatus(e, s) == status' = [status EXCEPT ![e] = s]

RowExists(e) == status[e] \notin {"none", "deleted"}

(***************************************************************************)
(* prisma.scheduledEmail.update({where: {id}, data: {status: s}}): throws  *)
(* when the row is gone; a failing connection loses the statement, or only *)
(* its acknowledgement.                                                    *)
(***************************************************************************)
Update(w, s, onOk, onError) ==
    \/ RowExists(task[w]) /\ SetStatus(task[w], s) /\ Goto(w, onOk)
    \/ ~RowExists(task[w]) /\ UNCHANGED status /\ Goto(w, onError)
    \/ /\ "db" \in Faults
       /\ RowExists(task[w])
       /\ SetStatus(task[w], s) \/ UNCHANGED status
       /\ Goto(w, onError)

-------------------------------------------------------------------------------
\* BullMQ hands the job to a free worker.
StartJob(w, e) ==
    /\ At(w, "idle")
    /\ TakeJob(w, e)
    /\ pc' = [pc EXCEPT ![w] = "claim"]
    /\ task' = [task EXCEPT ![w] = e]
    /\ UNCHANGED rowVars

\* Mutants: a claim that also takes rows another execution owns, rows the user
\* cancelled, rows already sent; a claim that does not take failed rows.
Claimable_Processing == {"scheduled", "failed", "processing"}
Claimable_Cancelled == {"scheduled", "failed", "cancelled"}
Claimable_Sent == {"scheduled", "failed", "sent"}
Claimable_NoRetry == {"scheduled"}

\* The statuses from which an email may be claimed.
Claimable == {"scheduled", "failed"}

\* Step 1: updateMany(... status in Claimable -> processing), and its count.
Claim(w) ==
    /\ At(w, "claim")
    /\ \/ /\ status[task[w]] \in Claimable
          /\ SetStatus(task[w], "processing")
          /\ Goto(w, "fetch")
       \/ /\ status[task[w]] \notin Claimable
          /\ UNCHANGED status
          /\ Goto(w, "recheck")
       \/ /\ "db" \in Faults
          /\ \/ UNCHANGED status
             \/ status[task[w]] \in Claimable /\ SetStatus(task[w], "processing")
          /\ Goto(w, "reject")
    /\ UNCHANGED <<queueVars, delivered, ackLost>>

\* count = 0: the row is read for the log, and the job completes.
Recheck(w) ==
    /\ At(w, "recheck")
    /\ \/ Goto(w, "resolve")
       \/ "db" \in Faults /\ Goto(w, "reject")
    /\ UNCHANGED <<queueVars, rowVars>>

\* The row is read again with its sender.  A row whose sender was deleted is
\* gone too, so the update that reports it missing throws.
Fetch(w) ==
    /\ At(w, "fetch")
    /\ \/ RowExists(task[w]) /\ Goto(w, "slot")
       \/ ~RowExists(task[w]) /\ Goto(w, "reject")
       \/ "db" \in Faults /\ Goto(w, "reject")
    /\ UNCHANGED <<queueVars, rowVars>>

\* What follows a denial of either check.
AfterDenial == "revert"

\* Step 2: DistributedRateLimiter.reserveSenderSendSlot.
SlotCheck(w, allowed) ==
    /\ At(w, "slot")
    /\ Goto(w, IF allowed THEN "hourly" ELSE AfterDenial)
    /\ UNCHANGED <<queueVars, rowVars>>

\* Step 3: DistributedRateLimiter.checkAndIncrementHourlyLimit.
HourlyCheck(w, allowed) ==
    /\ At(w, "hourly")
    /\ Goto(w, IF allowed THEN "send" ELSE AfterDenial)
    /\ UNCHANGED <<queueVars, rowVars>>

\* Denied by either: the row goes back to scheduled.
Revert(w) ==
    /\ At(w, "revert")
    /\ Update(w, "scheduled", "defer", "reject")
    /\ UNCHANGED <<queueVars, delivered, ackLost>>

\* Mutant: the job is not moved, the processor just returns.
Defer_Returns(w) == At(w, "defer") /\ Goto(w, "resolve") /\ UNCHANGED <<queueVars, rowVars>>

\* job.moveToDelayed, then DelayedError, which BullMQ counts neither as a
\* success nor as a failure.  Without the lock moveToDelayed throws instead.
Defer(w) ==
    /\ At(w, "defer")
    /\ \/ MoveToDelayed(w, task[w]) /\ Finish(w)
       \/ LockLost(w, task[w]) /\ Goto(w, "reject")
       \/ "redisError" \in Faults /\ UNCHANGED queueVars /\ Goto(w, "reject")
    /\ UNCHANGED rowVars

\* Mutant: an error of sendMail is swallowed.
AfterSendError_Swallowed == "record"

\* What follows an error of sendMail.
AfterSendError == "markFailed"

\* Step 4: sendMail.
SendMail(w) ==
    /\ At(w, "send")
    /\ \/ Goto(w, AfterSendError) /\ UNCHANGED <<delivered, ackLost>>
       \/ /\ delivered' = [delivered EXCEPT ![task[w]] = IF @ < 2 THEN @ + 1 ELSE 2]
          /\ \/ Goto(w, "record") /\ UNCHANGED ackLost
             \/ /\ "smtp" \in Faults
                /\ Goto(w, AfterSendError)
                /\ ackLost' = [ackLost EXCEPT ![task[w]] = TRUE]
    /\ UNCHANGED <<queueVars, status>>

\* Step 5: the row becomes sent.  An error here enters the same catch block
\* as an error of sendMail.
RecordSent(w) ==
    /\ At(w, "record")
    /\ Update(w, "sent", "resolve", "markFailed")
    /\ ackLost' = [ackLost EXCEPT ![task[w]] = @ \/ pc'[w] = "markFailed"]
    /\ UNCHANGED <<queueVars, delivered>>

\* catch: the row becomes failed and the error is thrown again; if the update
\* throws, its own error replaces it.
MarkFailed(w) ==
    /\ At(w, "markFailed")
    /\ Update(w, "failed", "reject", "reject")
    /\ UNCHANGED <<queueVars, delivered, ackLost>>

\* processEmailJob returned: the job is completed.
Resolve(w) ==
    /\ At(w, "resolve")
    /\ MoveToCompleted(w, task[w]) \/ LockLost(w, task[w])
    /\ Finish(w)
    /\ UNCHANGED rowVars

\* processEmailJob threw: the job is retried or fails for good.
Reject(w) ==
    /\ At(w, "reject")
    /\ MoveToFailed(w, task[w]) \/ LockLost(w, task[w])
    /\ Finish(w)
    /\ UNCHANGED rowVars

\* The steps an execution takes by itself, the limiter's answers apart.
ProcessorStep(w) ==
    \/ Claim(w) \/ Recheck(w) \/ Fetch(w) \/ Revert(w) \/ Defer(w) \/ SendMail(w)
    \/ RecordSent(w) \/ MarkFailed(w) \/ Resolve(w) \/ Reject(w)

LimiterStep(w) == \E allowed \in BOOLEAN: SlotCheck(w, allowed) \/ HourlyCheck(w, allowed)

WorkerStep(w) == ProcessorStep(w) \/ LimiterStep(w)
===============================================================================
