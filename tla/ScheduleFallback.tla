---------------------------- MODULE ScheduleFallback ---------------------------
(***************************************************************************)
(* POST /api/emails/schedule (routes/emails.ts) for one campaign, and what *)
(* becomes of its emails in the two places the route may put them:         *)
(* PostgreSQL with BullMQ, or, when any call of the route gives up, the    *)
(* InMemoryStore with the timers of InMemoryQueueService.                  *)
(*                                                                         *)
(* A call gives up after a timeout (withDbTimeout), but its statement goes *)
(* on in the database.  Commands to Redis have no timeout: while Redis is  *)
(* away they wait (maxRetriesPerRequest: null).  The worker is the one of  *)
(* EmailWorker, with the limiter's two checks as one and without losses of *)
(* its lock; the recovery is one step.                                     *)
(*                                                                         *)
(* The emails are due at one time.  What matters of the time until then is *)
(* whether setTimeout can wait for it, which is 2^31-1 ms at most.         *)
(***************************************************************************)
EXTENDS Naturals, FiniteSets

CONSTANTS
    Recipients,      \* uniqueRecipients
    MaxAttempts,     \* attempts of a job
    MaxFailures,     \* bound on calls that fail though their server is there
    MaxOutages,      \* bound on outages of PostgreSQL and of Redis
    MaxRestarts      \* bound on restarts of the process

ASSUME RecipientsAssumption == Recipients # {} /\ IsFiniteSet(Recipients)
ASSUME AttemptsAssumption == MaxAttempts \in Nat \ {0}
ASSUME BoundsAssumption == {MaxFailures, MaxOutages, MaxRestarts} \subseteq Nat

VARIABLES
    pgConnected,     \* isPostgresConnected
    dbUp, redisUp,
    server,          \* "recovering", or "up" with its workers running
    start,           \* when the emails are due: "now", "soon" or too "far"
    early,           \* "jobs" or "timers" with a delay that ends before that
    request,         \* the call the schedule request is at, or its outcome
    sender,          \* the store the sender was found in
    created,         \* size of createdEmails
    inserting,       \* createMany goes on after the route gave it up
    rows,            \* each recipient's row of scheduled_emails: its status
    job,             \* the state of each row's BullMQ job; one that ended is retained
    attempts,        \* failed attempts of each job
    stalled,         \* recipients whose job has stalled once
    work,            \* where the execution of each job is
    copies,          \* each recipient's email in the InMemoryStore: its status
    timers,          \* recipients whose timer is pending
    running,         \* where the in-memory job of each recipient is
    cancelling,      \* cancel requests of copies, between read and update
    delivered,       \* messages the SMTP server accepted
    lost,            \* history: deliveries of a worker whose outcome was lost
    upset,           \* history: recipients whom a failing statement, or command, of a
                     \* worker or of the recovery concerned
    madeFar,         \* history: the copies were made when their time was far
    failures, outages, restarts

time == <<start, early, madeFar>>
outside == <<dbUp, redisUp, failures, outages, restarts>>
route == <<request, sender, created>>
queue == <<job, attempts, stalled, work>>
queued == <<inserting, rows, queue>>
memory == <<copies, timers, running, cancelling>>
sends == <<delivered, lost, upset>>
vars == <<pgConnected, outside, server, time, route, queued, memory, sends>>

Calls == {"lookup", "campaign", "insert", "read", "enqueue", "fallback"}
RowStatuses == {"none", "scheduled", "processing", "sent", "failed"}
Times == {"far", "soon", "now"}
JobStates == {"none", "queued", "active", "done"}
WorkPCs == {"no", "claim", "send", "record", "fail", "resolve", "reject"}
CopyStatuses == {"none", "scheduled", "processing", "sent", "failed", "cancelled"}

TypeOK ==
    /\ {pgConnected, dbUp, redisUp, inserting} \subseteq BOOLEAN
    /\ server \in {"recovering", "up"}
    /\ start \in Times /\ early \subseteq {"jobs", "timers"} /\ madeFar \in BOOLEAN
    /\ request \in Calls \union {"queued", "inMemory", "refused", "lost"}
    /\ sender \in {"none", "row", "memory"}
    /\ created \in 0..2 * Cardinality(Recipients)
    /\ rows \in [Recipients -> RowStatuses]
    /\ job \in [Recipients -> JobStates]
    /\ attempts \in [Recipients -> 0..MaxAttempts]
    /\ stalled \in SUBSET Recipients
    /\ work \in [Recipients -> WorkPCs]
    /\ copies \in [Recipients -> CopyStatuses]
    /\ timers \in SUBSET {r \in Recipients: copies[r] # "none"}
    /\ running \in [Recipients -> {"no", "lookup", "send"}]
    /\ cancelling \in SUBSET Recipients
    /\ delivered \in [Recipients -> Nat]
    /\ lost \in [Recipients -> Nat]
    /\ upset \in SUBSET Recipients
    /\ failures \in 0..MaxFailures
    /\ outages \in 0..MaxOutages
    /\ restarts \in 0..MaxRestarts

\* The route answered 201, from addBulk or from the catch block.
Answered == request \in {"queued", "inMemory"}

NoCopies == [r \in Recipients |-> "none"]
NoneRunning == [r \in Recipients |-> "no"]
Never == [r \in Recipients |-> 0]

\* The process has started, with PostgreSQL there or not.
Init ==
    /\ dbUp \in BOOLEAN /\ pgConnected = dbUp
    /\ redisUp = TRUE
    /\ server = "up"
    /\ start \in Times /\ early = {} /\ madeFar = FALSE
    /\ request = "lookup" /\ sender = "none" /\ created = 0
    /\ inserting = FALSE
    /\ rows = [r \in Recipients |-> "none"]
    /\ job = [r \in Recipients |-> "none"] /\ attempts = Never /\ stalled = {}
    /\ work = NoneRunning
    /\ copies = NoCopies /\ timers = {} /\ running = NoneRunning
    /\ cancelling = {}
    /\ delivered = Never /\ lost = Never /\ upset = {}
    /\ failures = 0 /\ outages = 0 /\ restarts = 0

-------------------------------------------------------------------------------
(* withDbTimeout *)

\* The call is tried and answered in time.
Answers == pgConnected /\ dbUp /\ UNCHANGED failures

\* The call was tried and gave up although PostgreSQL is there.
TimesOut ==
    /\ pgConnected /\ dbUp
    /\ failures < MaxFailures
    /\ failures' = failures + 1

\* The call rejects: without being tried if the process could not connect when
\* it started.
Refuses == ~(pgConnected /\ dbUp) /\ UNCHANGED failures

GivesUp == TimesOut \/ Refuses

-------------------------------------------------------------------------------
(* Delays, as the time they end *)

\* Mutant: jobs have no delay.
JobDelay_None == "now"

\* The delay of a BullMQ job, from the route and from the recovery.
JobDelay == start

\* setTimeout takes a delay that it cannot wait for as 1 ms.
TimerDelay == IF start = "far" THEN "now" ELSE start

Started(kind, delay) ==
    early' = IF delay = start THEN early ELSE early \union {kind}

Due(kind) == start = "now" \/ kind \in early

TimePasses ==
    /\ start # "now"
    /\ start' = IF start = "far" THEN "soon" ELSE "now"
    /\ UNCHANGED <<early, madeFar, pgConnected, outside, server, route, queued, memory,
                   sends>>

-------------------------------------------------------------------------------
(* The route *)

\* findFirst of the sender, or the senders in memory if it gives up.
Lookup ==
    /\ request = "lookup"
    /\ \/ Answers /\ sender' = "row" /\ request' = "campaign"
       \/ GivesUp /\ sender' = "memory" /\ request' = "campaign"
       \/ (Answers \/ GivesUp) /\ request' = "refused" /\ UNCHANGED sender
    /\ UNCHANGED <<time, pgConnected, dbUp, redisUp, outages, restarts, server, created,
                   queued, memory, sends>>

\* emailCampaign.create, which a sender that is not in the database fails.
CreateCampaign ==
    /\ request = "campaign"
    /\ \/ Answers /\ request' = IF sender = "row" THEN "insert" ELSE "fallback"
       \/ GivesUp /\ request' = "fallback"
    /\ UNCHANGED <<time, pgConnected, dbUp, redisUp, outages, restarts, server, sender,
                   created, queued, memory, sends>>

\* createMany inserts all rows or none.
InsertAll == rows' = [r \in Recipients |-> "scheduled"]

\* createMany.
CreateMany ==
    /\ request = "insert"
    /\ \/ Answers /\ InsertAll /\ request' = "read" /\ UNCHANGED inserting
       \/ TimesOut /\ inserting' = TRUE /\ request' = "fallback" /\ UNCHANGED rows
       \/ Refuses /\ request' = "fallback" /\ UNCHANGED <<inserting, rows>>
    /\ UNCHANGED <<time, pgConnected, dbUp, redisUp, outages, restarts, server, sender,
                   created, queue, memory, sends>>

\* The createMany that was given up commits.
CommitLate ==
    /\ inserting /\ dbUp
    /\ inserting' = FALSE
    /\ InsertAll
    /\ UNCHANGED <<time, pgConnected, outside, server, route, queue, memory, sends>>

\* findMany of the rows just created.
ReadBack ==
    /\ request = "read"
    /\ \/ Answers /\ created' = Cardinality(Recipients) /\ request' = "enqueue"
       \/ GivesUp /\ request' = "fallback" /\ UNCHANGED created
    /\ UNCHANGED <<time, pgConnected, dbUp, redisUp, outages, restarts, server, sender,
                   queued, memory, sends>>

EnqueueAll == job' = [r \in Recipients |-> "queued"] /\ Started("jobs", JobDelay)

\* addBulk waits for Redis; Redis may reject it, applied or not.
AddBulk ==
    /\ request = "enqueue"
    /\ redisUp
    /\ \/ /\ EnqueueAll
          /\ request' = "queued" /\ UNCHANGED failures
       \/ /\ failures < MaxFailures
          /\ failures' = failures + 1
          /\ EnqueueAll \/ UNCHANGED <<job, early>>
          /\ request' = "fallback"
    /\ UNCHANGED <<pgConnected, dbUp, redisUp, outages, restarts, server, sender,
                   created, inserting, rows, attempts, stalled, work, memory, sends,
                   start, madeFar>>

\* Mutant: the catch block leaves out the recipients that have a row.
FallbackRecipients_Rowless == {r \in Recipients: rows[r] = "none"}

\* The recipients the catch block schedules in memory.
FallbackRecipients == Recipients

\* catch: an email and a timer in memory for each recipient, next to what
\* createdEmails already holds; the answer is the same 201.
Fallback ==
    /\ request = "fallback"
    /\ copies' = [r \in Recipients |-> IF r \in FallbackRecipients THEN "scheduled" ELSE "none"]
    /\ timers' = FallbackRecipients /\ Started("timers", TimerDelay)
    /\ madeFar' = (start = "far")
    /\ created' = created + Cardinality(FallbackRecipients)
    /\ request' = "inMemory"
    /\ UNCHANGED <<pgConnected, outside, server, sender, queued, running,
                   cancelling, sends, start>>

-------------------------------------------------------------------------------
(* What runs the emails *)

Deliver(r) == delivered' = [delivered EXCEPT ![r] = @ + 1]
LoseOutcome(r) == lost' = [lost EXCEPT ![r] = @ + 1]
Upset(r) == upset' = upset \union {r}

SetRow(r, s) == rows' = [rows EXCEPT ![r] = s]
SetJob(r, s) == job' = [job EXCEPT ![r] = s]
SetWork(r, at) == work' = [work EXCEPT ![r] = at]

\* What a step of a worker leaves alone.
WorkerKeeps ==
    UNCHANGED <<time, pgConnected, dbUp, redisUp, outages, restarts, server, route,
                inserting, stalled, memory>>

\* A statement of a worker, which knows no timeout, throws.
Throws ==
    \/ ~dbUp /\ UNCHANGED failures
    \/ dbUp /\ failures < MaxFailures /\ failures' = failures + 1

\* An update of the row of r to s throws, applied or not.
UpdateThrows(r, s) == Throws /\ (UNCHANGED rows \/ (dbUp /\ SetRow(r, s)))

\* A worker takes the job of r.
TakeJob(r) ==
    /\ server = "up" /\ redisUp
    /\ job[r] = "queued" /\ Due("jobs")
    /\ SetJob(r, "active") /\ SetWork(r, "claim")
    /\ UNCHANGED <<rows, attempts, sends, failures>>
    /\ WorkerKeeps

\* Mutant: a claim that also takes rows already sent.
Claimable_Sent == {"scheduled", "failed", "sent"}

\* The statuses from which an email may be claimed.
Claimable == {"scheduled", "failed"}

\* Step 1: the row becomes processing, or the job has nothing to do.
Claim(r) ==
    /\ work[r] = "claim"
    /\ \/ /\ dbUp /\ rows[r] \in Claimable
          /\ SetRow(r, "processing") /\ SetWork(r, "send") /\ UNCHANGED <<upset, failures>>
       \/ /\ dbUp /\ rows[r] \notin Claimable
          /\ SetWork(r, "resolve") /\ UNCHANGED <<rows, upset, failures>>
       \/ /\ IF rows[r] \in Claimable THEN UpdateThrows(r, "processing") ELSE Throws /\ UNCHANGED rows
          /\ SetWork(r, "reject") /\ Upset(r)
    /\ UNCHANGED <<job, attempts, delivered, lost>>
    /\ WorkerKeeps

\* The row cannot be read; or the limiter denies the email and it cannot be put
\* back.  Nothing catches that.
Abandon(r) ==
    /\ work[r] = "send"
    /\ UpdateThrows(r, "scheduled")
    /\ SetWork(r, "reject") /\ Upset(r)
    /\ UNCHANGED <<job, attempts, delivered, lost>>
    /\ WorkerKeeps

\* The limiter denies the email: row and job go back to where they were.
Postpone(r) ==
    /\ work[r] = "send" /\ dbUp /\ redisUp
    /\ SetRow(r, "scheduled") /\ SetJob(r, "queued") /\ SetWork(r, "no")
    /\ UNCHANGED <<attempts, sends, failures>>
    /\ WorkerKeeps

\* Step 4, admitted by the limiter: sendMail returns, or throws, perhaps after
\* the message was accepted.
SendMail(r) ==
    /\ work[r] = "send" /\ dbUp /\ redisUp
    /\ \/ Deliver(r) /\ SetWork(r, "record") /\ UNCHANGED lost
       \/ Deliver(r) /\ LoseOutcome(r) /\ SetWork(r, "fail")
       \/ SetWork(r, "fail") /\ UNCHANGED <<delivered, lost>>
    /\ UNCHANGED <<rows, job, attempts, upset, failures>>
    /\ WorkerKeeps

\* Step 5: after the SET of updateSenderLastSend the row becomes sent; an error
\* enters the same catch block as one of sendMail.
RecordSent(r) ==
    /\ work[r] = "record" /\ redisUp
    /\ \/ dbUp /\ SetRow(r, "sent") /\ SetWork(r, "resolve") /\ UNCHANGED <<lost, failures>>
       \/ UpdateThrows(r, "sent") /\ SetWork(r, "fail") /\ LoseOutcome(r)
    /\ UNCHANGED <<job, attempts, delivered, upset>>
    /\ WorkerKeeps

\* catch: the row becomes failed, and the error is thrown again.
RecordFailed(r) ==
    /\ work[r] = "fail"
    /\ \/ dbUp /\ SetRow(r, "failed") /\ UNCHANGED <<upset, failures>>
       \/ UpdateThrows(r, "failed") /\ Upset(r)
    /\ SetWork(r, "reject")
    /\ UNCHANGED <<job, attempts, delivered, lost>>
    /\ WorkerKeeps

\* The execution ended: the job is completed, or it is retried while attempts
\* remain.
LeaveJob(r) ==
    /\ redisUp
    /\ \/ work[r] = "resolve" /\ SetJob(r, "done") /\ UNCHANGED attempts
       \/ /\ work[r] = "reject"
          /\ attempts' = [attempts EXCEPT ![r] = @ + 1]
          /\ SetJob(r, IF attempts[r] + 1 < MaxAttempts THEN "queued" ELSE "done")
    /\ SetWork(r, "no")
    /\ UNCHANGED <<rows, sends, failures>>
    /\ WorkerKeeps

\* An active job of a process that is gone is found stalled: it is queued again,
\* once.
SweepStalled(r) ==
    /\ server = "up" /\ redisUp
    /\ job[r] = "active" /\ work[r] = "no"
    /\ SetJob(r, IF r \in stalled THEN "done" ELSE "queued")
    /\ stalled' = stalled \union {r}
    /\ UNCHANGED <<time, pgConnected, outside, server, route, inserting, rows, attempts,
                   work, memory, sends>>

SetCopy(r, s) == copies' = [copies EXCEPT ![r] = s]
SetRunning(r, at) == running' = [running EXCEPT ![r] = at]

\* The timer of r goes off; processJob looks for a row of that id.
FireTimer(r) ==
    /\ r \in timers /\ Due("timers") /\ running[r] = "no"
    /\ timers' = timers \ {r}
    /\ SetRunning(r, "lookup")
    /\ UNCHANGED <<time, pgConnected, outside, server, route, queued, copies,
                   cancelling, sends>>

\* There is none, or the query failed: the email in memory becomes
\* processing, whatever it is by now.
ProcessCopy(r) ==
    /\ running[r] = "lookup"
    /\ SetCopy(r, "processing")
    /\ SetRunning(r, "send")
    /\ UNCHANGED <<time, pgConnected, outside, server, route, queued, timers,
                   cancelling, sends>>

\* sendMail returned, or threw, perhaps after the message was accepted.
SendCopy(r) ==
    /\ running[r] = "send"
    /\ \/ SetCopy(r, "sent") /\ Deliver(r)
       \/ SetCopy(r, "failed") /\ (UNCHANGED delivered \/ Deliver(r))
    /\ SetRunning(r, "no")
    /\ UNCHANGED <<time, pgConnected, outside, server, route, queued, timers,
                   cancelling, lost, upset>>

-------------------------------------------------------------------------------
(* POST /api/emails/:id/cancel of an email in memory *)

\* The route only looks in memory when the database gives up (otherwise it
\* answers 404), and refuses an email already sent.
BeginCancel(r) ==
    /\ r \notin cancelling
    /\ copies[r] \notin {"none", "sent"}
    /\ GivesUp
    /\ cancelling' = cancelling \union {r}
    /\ UNCHANGED <<time, pgConnected, dbUp, redisUp, outages, restarts, server, route,
                   queued, copies, timers, running, sends>>

\* The update of a row of that id fails in any case; the timer stays.
FinishCancel(r) ==
    /\ r \in cancelling
    /\ cancelling' = cancelling \ {r}
    /\ SetCopy(r, "cancelled")
    /\ UNCHANGED <<time, pgConnected, outside, server, route, queued, timers, running,
                   sends>>

-------------------------------------------------------------------------------
(* The environment *)

LoseDatabase ==
    /\ dbUp /\ outages < MaxOutages
    /\ dbUp' = FALSE /\ outages' = outages + 1
    /\ inserting' = FALSE
    /\ UNCHANGED <<time, pgConnected, redisUp, failures, restarts, server, route, rows,
                   queue, memory, sends>>

DatabaseReturns ==
    /\ ~dbUp /\ dbUp' = TRUE
    /\ UNCHANGED <<time, pgConnected, redisUp, failures, outages, restarts, server,
                   route, queued, memory, sends>>

LoseRedis ==
    /\ redisUp /\ outages < MaxOutages
    /\ redisUp' = FALSE /\ outages' = outages + 1
    /\ UNCHANGED <<time, pgConnected, dbUp, failures, restarts, server, route, queued,
                   memory, sends>>

RedisReturns ==
    /\ ~redisUp /\ redisUp' = TRUE
    /\ UNCHANGED <<time, pgConnected, dbUp, failures, outages, restarts, server, route,
                   queued, memory, sends>>

\* The process dies with all it held in memory, and another one starts: it
\* connects to PostgreSQL if that is there now.  Its workers leave their jobs
\* active, their rows processing.
Restart ==
    /\ restarts < MaxRestarts
    /\ restarts' = restarts + 1
    /\ server' = "recovering"
    /\ pgConnected' = dbUp
    /\ request' = IF request \in Calls THEN "lost" ELSE request
    /\ copies' = NoCopies /\ timers' = {} /\ running' = NoneRunning
    /\ cancelling' = {}
    /\ early' = early \ {"timers"}
    /\ work' = NoneRunning
    /\ lost' = [r \in Recipients |-> IF work[r] = "record" THEN lost[r] + 1 ELSE lost[r]]
    /\ UNCHANGED <<start, madeFar, dbUp, redisUp, failures, outages, sender, created,
                   inserting, rows, job, attempts, stalled, delivered, upset>>

\* Mutant: only failed rows are recovered.
Recoverable_FailedOnly == {r \in Recipients: rows[r] = "failed"}

\* The rows recoverScheduledJobs looks for.
Recoverable == {r \in Recipients: rows[r] = "scheduled"}

\* recoverScheduledJobs adds the jobs that are missing, which waits for Redis
\* unless there is no row to look at; it gives up where a statement or command
\* fails.  Then the workers start.
Recover ==
    /\ server = "recovering" /\ server' = "up"
    /\ LET missing == {r \in Recoverable: job[r] = "none"} IN
       \E found \in SUBSET missing:
          /\ job' = [r \in Recipients |-> IF r \in found THEN "queued" ELSE job[r]]
          /\ IF found = {} THEN UNCHANGED early ELSE Started("jobs", JobDelay)
          /\ upset' = upset \union (missing \ found)
          /\ \/ dbUp /\ found = missing /\ (redisUp \/ Recoverable = {}) /\ UNCHANGED failures
             \/ Throws /\ (found # {} => dbUp /\ redisUp)
    /\ UNCHANGED <<pgConnected, dbUp, redisUp, outages, restarts, route, inserting, rows,
                   attempts, stalled, work, memory, delivered, lost, start, madeFar>>

-------------------------------------------------------------------------------
RouteStep ==
    \/ Lookup \/ CreateCampaign \/ CreateMany \/ ReadBack \/ AddBulk \/ Fallback

JobStep(r) ==
    \/ TakeJob(r) \/ Claim(r) \/ Abandon(r) \/ Postpone(r) \/ SendMail(r)
    \/ RecordSent(r) \/ RecordFailed(r) \/ LeaveJob(r) \/ SweepStalled(r)

CopyStep(r) == FireTimer(r) \/ ProcessCopy(r) \/ SendCopy(r)

Next ==
    \/ RouteStep \/ CommitLate
    \/ \E r \in Recipients: JobStep(r) \/ CopyStep(r) \/ BeginCancel(r) \/ FinishCancel(r)
    \/ LoseDatabase \/ DatabaseReturns \/ LoseRedis \/ RedisReturns
    \/ Restart \/ Recover \/ TimePasses

Spec == Init /\ [][Next]_vars

\* The process runs: it goes on with its request, its timers and its recovery,
\* and its workers with the jobs they can reach; the limiter does not deny an
\* email for ever.
Fairness ==
    /\ WF_vars(RouteStep) /\ WF_vars(Recover) /\ WF_vars(TimePasses)
    /\ \A r \in Recipients: WF_vars(JobStep(r)) /\ SF_vars(SendMail(r)) /\ WF_vars(CopyStep(r))

\* Outages end.
OutagesEnd == WF_vars(DatabaseReturns) /\ WF_vars(RedisReturns)

LiveSpec == Spec /\ Fairness

SettlingSpec == LiveSpec /\ OutagesEnd

-------------------------------------------------------------------------------
(* What the route promises *)

\* Something will still run the email of r, or has run it to its end.
Held(r) ==
    \/ job[r] \in {"queued", "active"}
    \/ r \in timers
    \/ running[r] # "no"
    \/ rows[r] \in {"sent", "failed"}
    \/ copies[r] \in {"sent", "failed", "cancelled"}

\* As long as the process lives, a request answered with 201 has left every
\* recipient with a job or a timer, at whatever call it gave up; and it is not
\* dropped before its end but by a worker whose statement failed.
AcceptedIsHeld ==
    Answered /\ restarts = 0 => \A r \in Recipients: Held(r) \/ r \in upset

\* A recipient gets one message for its row and one for its copy at most, and
\* one more for each delivery of a worker whose outcome was lost: restarts,
\* retries, late commits and recoveries add none.
OncePerStore ==
    \A r \in Recipients:
        delivered[r] <= (IF rows[r] = "sent" \/ work[r] = "record" THEN 1 ELSE 0)
                        + lost[r]
                        + (IF request = "inMemory" THEN 1 ELSE 0)

\* No email is sent before its time, whoever made its job and however often
\* the process was restarted, unless its timer was set when that was too far
\* away for setTimeout (inMemoryQueue.ts:21).
NotBeforeItsTime ==
    \A r \in Recipients: delivered[r] > 0 => start = "now" \/ madeFar

Settled(r) ==
    \/ rows[r] \in {"sent", "failed"}
    \/ copies[r] \in {"sent", "failed", "cancelled"}

\* A request is refused, or every recipient's email is run to its end, if the
\* outages end, no statement of its worker fails, and the process is not
\* restarted before.
RequestSettles ==
    request = "lookup" ~>
        request = "refused" \/ restarts > 0 \/ \A r \in Recipients: Settled(r) \/ r \in upset

\* A row whose job was lost track of, because the request gave up between its
\* insertion and its job, is run to its end by the next process that reads it,
\* unless a statement of its recovery or worker fails.
AbandonedRowSettles ==
    \A r \in Recipients:
        rows[r] = "scheduled" /\ server = "recovering" /\ dbUp ~>
            rows[r] \in {"sent", "failed"} \/ ~dbUp \/ r \in upset
===============================================================================
