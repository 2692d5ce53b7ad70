------------------------------ MODULE RateLimiter ------------------------------
(***************************************************************************)
(* DistributedRateLimiter (services/rateLimiter.ts) for one sender, with   *)
(* the executions of processEmailJob that call it and real time in ticks.  *)
(*                                                                         *)
(* What a call decides depends on a time it read before its command left   *)
(* the process.  Each process has one connection to Redis: its commands    *)
(* are executed in the order they were issued, any time later, and         *)
(* interleaved anyhow with those of other processes.  All clocks agree.    *)
(***************************************************************************)
EXTENDS Integers, Sequences, FiniteSets

CONSTANTS
    Workers, Processes, ProcessOf,
    Delays,          \* delayBetweenEmails of the sender's campaigns
    SlotTtlFactor,   \* a reservation expires after so many delays (10)
    Limit,           \* hourlyLimit
    Hour,            \* ticks of an hour
    HourTtl,         \* ttlSeconds of an hour's counter
    MinWait,         \* the floor of getMsUntilNextHour
    Day,             \* expiry of the time of the last send
    MaxFailures,     \* bound on the commands that fail
    MaxTime          \* bound on the clock

ASSUME ProcessOfAssumption == ProcessOf \in [Workers -> Processes]
ASSUME DelaysAssumption == Delays \subseteq Nat \ {0}
ASSUME TimesAssumption ==
    {SlotTtlFactor, Hour, HourTtl, MinWait, Day} \subseteq Nat \ {0}
ASSUME BoundsAssumption == {Limit, MaxFailures, MaxTime} \subseteq Nat

ASSUME WorkersAssumption == IsFiniteSet(Workers)

\* A counter outlives its hour, and a day the reservation of some campaign.
ASSUME HourTtlAssumption == HourTtl >= Hour
ASSUME DayAssumption == \E d \in Delays: Day >= SlotTtlFactor * d

VARIABLES
    now,
    exec,            \* each execution: where it is, its campaign's delay, and
                     \* the time its current call read
    pipe,            \* per process, the executions awaiting Redis, in order
    lastSend,        \* email:sender:{id}:last-send: its value and its expiry
    counter,         \* rate:{id}:{hour}: the count and the expiry of each hour
    failures,        \* commands that failed
    grant,           \* history: the latest reservation, while it matters
    mailed,          \* history: messages that went out in the present hour
    carried          \* history: executions that were past the hourly check, or
                     \* waiting for its answer, when the present hour began

redisVars == <<lastSend, counter, failures>>
history == <<grant, mailed, carried>>
vars == <<now, exec, pipe, redisVars, history>>

\* What an hour lets through.  Its first message finds no counter and is not
\* compared with the limit.
Quota == IF Limit = 0 THEN 1 ELSE Limit

Hours == 0..(MaxTime \div Hour)

PCs == {"idle", "reserve", "reserved", "count", "defer", "send", "sent", "touch"}

\* No key: it expired, or was never set.
NoKey == [value |-> 0, expires |-> 0]
NoGrant == [stamp |-> 0, at |-> 0, delay |-> 0]
Idle == [pc |-> "idle", delay |-> 0, stamp |-> 0]

TypeOK ==
    /\ now \in 0..MaxTime
    /\ exec \in [Workers -> [pc: PCs, delay: Delays \union {0}, stamp: 0..MaxTime]]
    /\ pipe \in [Processes -> Seq(Workers)]
    /\ lastSend \in [value: 0..MaxTime, expires: Nat]
    /\ counter \in [Hours -> [value: 0..Quota, expires: Nat]]
    /\ failures \in 0..MaxFailures
    /\ grant \in [stamp: 0..MaxTime, at: 0..MaxTime, delay: Delays \union {0}]
    /\ mailed \in Nat
    /\ carried \in 0..Cardinality(Workers)

Init ==
    /\ now = 0
    /\ exec = [w \in Workers |-> Idle]
    /\ pipe = [p \in Processes |-> <<>>]
    /\ lastSend = NoKey
    /\ counter = [h \in Hours |-> NoKey]
    /\ failures = 0
    /\ grant = NoGrant
    /\ mailed = 0
    /\ carried = 0

At(w, label) == exec[w].pc = label

Goto(w, label) == exec' = [exec EXCEPT ![w].pc = label]

Finish(w) == exec' = [exec EXCEPT ![w] = Idle]

-------------------------------------------------------------------------------
(* Calls to Redis *)

\* A call of w reads the time, and its command is queued behind those its
\* process issued before.
Issue(w, label, d) ==
    /\ exec' = [exec EXCEPT ![w] = [pc |-> label, delay |-> d, stamp |-> now]]
    /\ pipe' = [pipe EXCEPT ![ProcessOf[w]] = Append(@, w)]

\* The command of w is the next of its process to reach Redis.
Foremost(w) == pipe[ProcessOf[w]] # <<>> /\ Head(pipe[ProcessOf[w]]) = w

Answered(w) == Foremost(w) /\ pipe' = [pipe EXCEPT ![ProcessOf[w]] = Tail(@)]

\* A command rejects; every caller goes on as if it had been allowed.
Rejected ==
    /\ failures < MaxFailures
    /\ failures' = failures + 1
    /\ UNCHANGED <<lastSend, counter>>

\* PX of a reservation made with delay d.
SlotTtl(d) == SlotTtlFactor * d

\* Mutant: the boundary of the delay is taken one tick early.
SlotFree_OffByOne(w) ==
    lastSend = NoKey \/ exec[w].stamp - lastSend.value >= exec[w].delay - 1

\* MIN_DELAY_LUA: no time is recorded, or the one recorded is old enough.
SlotFree(w) ==
    lastSend = NoKey \/ exec[w].stamp - lastSend.value >= exec[w].delay

SetLastSend(w, ttl) == lastSend' = [value |-> exec[w].stamp, expires |-> now + ttl]

\* getHourWindowKey.
HourOf(t) == t \div Hour

\* Mutant: the limit is compared with > instead of >=.
Exhausted_Strict(h) == counter[h] # NoKey /\ counter[h].value > Limit

\* HOURLY_RATE_LIMIT_LUA: there is a counter and it has reached the limit.
Exhausted(h) == counter[h] # NoKey /\ counter[h].value >= Limit

\* INCR, and EXPIRE by the first.
Increment(h) ==
    counter' = [counter EXCEPT ![h] =
        [value |-> @.value + 1,
         expires |-> IF counter[h] = NoKey THEN now + HourTtl ELSE @.expires]]

\* Mutant: the wait is taken from the hour's length.
UntilNextHour_Elapsed(t) == IF t - HourOf(t) * Hour > MinWait THEN t - HourOf(t) * Hour ELSE MinWait

\* getMsUntilNextHour.
UntilNextHour(t) ==
    LET left == (HourOf(t) + 1) * Hour - t IN IF left > MinWait THEN left ELSE MinWait

-------------------------------------------------------------------------------
(* The executions *)

\* A job of a campaign with delay d calls reserveSenderSendSlot.
Start(w, d) ==
    /\ At(w, "idle")
    /\ Issue(w, "reserve", d)
    /\ UNCHANGED <<now, redisVars, history>>

\* Redis executes it.  A denied job is put off by what is left of its delay.
Reserve(w) ==
    /\ At(w, "reserve")
    /\ Answered(w)
    /\ \/ /\ SlotFree(w)
          /\ SetLastSend(w, SlotTtl(exec[w].delay))
          /\ grant' = [stamp |-> exec[w].stamp, at |-> now, delay |-> exec[w].delay]
          /\ Goto(w, "reserved")
          /\ UNCHANGED <<counter, failures>>
       \/ ~SlotFree(w) /\ Finish(w) /\ UNCHANGED <<redisVars, grant>>
       \/ Rejected /\ Goto(w, "reserved") /\ UNCHANGED grant
    /\ UNCHANGED <<now, mailed, carried>>

\* checkAndIncrementHourlyLimit is called.
Ask(w) ==
    /\ At(w, "reserved")
    /\ Issue(w, "count", exec[w].delay)
    /\ UNCHANGED <<now, redisVars, history>>

\* Redis executes it, on the counter of the hour the call was made in.
Count(w) ==
    /\ At(w, "count")
    /\ Answered(w)
    /\ LET h == HourOf(exec[w].stamp) IN
       \/ Exhausted(h) /\ Goto(w, "defer") /\ UNCHANGED redisVars
       \/ ~Exhausted(h) /\ Increment(h) /\ Goto(w, "send") /\ UNCHANGED <<lastSend, failures>>
       \/ Rejected /\ Goto(w, "send")
    /\ UNCHANGED <<now, history>>

\* Where a job denied by the hour is moved: Date.now() plus the wait that the
\* check computed, some awaits before.
ResumeTime(w) == now + UntilNextHour(exec[w].stamp)

Defer(w) ==
    /\ At(w, "defer")
    /\ Finish(w)
    /\ UNCHANGED <<now, pipe, redisVars, history>>

\* The SMTP server accepts the message, or sendMail throws.  Until the next
\* call the stamp tells when it was accepted.
Send(w) ==
    /\ At(w, "send")
    /\ \/ /\ exec' = [exec EXCEPT ![w] = [pc |-> "sent", delay |-> @.delay, stamp |-> now]]
          /\ mailed' = mailed + 1
       \/ Finish(w) /\ UNCHANGED mailed
    /\ UNCHANGED <<now, pipe, redisVars, grant, carried>>

\* updateSenderLastSend is called.
Report(w) ==
    /\ At(w, "sent")
    /\ Issue(w, "touch", exec[w].delay)
    /\ UNCHANGED <<now, redisVars, history>>

\* Redis executes it: SET, whatever is there.
Touch(w) ==
    /\ At(w, "touch")
    /\ Answered(w)
    /\ Finish(w)
    /\ \/ SetLastSend(w, Day) /\ UNCHANGED <<counter, failures>>
       \/ Rejected
    /\ UNCHANGED <<now, history>>

\* The connection breaks after Redis executed a script and before it answered:
\* the client sends the command again.
Resend(w) ==
    /\ Foremost(w)
    /\ failures < MaxFailures
    /\ failures' = failures + 1
    /\ \/ /\ At(w, "reserve") /\ SlotFree(w)
          /\ SetLastSend(w, SlotTtl(exec[w].delay))
          /\ UNCHANGED counter
       \/ /\ At(w, "count") /\ ~Exhausted(HourOf(exec[w].stamp))
          /\ Increment(HourOf(exec[w].stamp))
          /\ UNCHANGED lastSend
    /\ UNCHANGED <<now, exec, pipe, history>>

\* Time passes, and the keys whose time has come expire.
Tick ==
    /\ now < MaxTime
    /\ now' = now + 1
    /\ lastSend' = IF lastSend.expires <= now' THEN NoKey ELSE lastSend
    /\ counter' = [h \in Hours |-> IF counter[h].expires <= now' THEN NoKey ELSE counter[h]]
    /\ grant' = IF \A d \in Delays: now' - grant.at >= SlotTtl(d) THEN NoGrant ELSE grant
    /\ IF HourOf(now') = HourOf(now) THEN UNCHANGED <<mailed, carried>>
       ELSE mailed' = 0 /\ carried' = Cardinality({w \in Workers: exec[w].pc \in {"count", "send"}})
    /\ UNCHANGED <<exec, pipe, failures>>

WorkerStep(w) ==
    \/ \E d \in Delays: Start(w, d)
    \/ Reserve(w) \/ Ask(w) \/ Count(w) \/ Defer(w) \/ Send(w) \/ Report(w) \/ Touch(w)
    \/ Resend(w)

Next == Tick \/ \E w \in Workers: WorkerStep(w)

Spec == Init /\ [][Next]_vars

-------------------------------------------------------------------------------

Granted(w) == At(w, "reserve") /\ exec'[w].pc = "reserved" /\ failures' = failures

\* Two reservations in a row of one process are a delay apart by the times they
\* claim, unless the second was made after a reservation could have expired
\* since the first: neither the updates after a send nor a script that runs
\* twice shortens this.
GrantsAreSpaced ==
    [][\A w \in Workers: Granted(w) /\ grant # NoGrant =>
          \/ exec[w].stamp - grant.stamp >= exec[w].delay
          \/ \E d \in Delays: now - grant.at >= SlotTtl(d)]_vars

\* However late calls are answered and messages go out, an hour of the wall
\* clock sees its quota, those that were past the check when it began, and what
\* failures of Redis let through.
HourlyOverrunIsBounded == mailed <= Quota + carried + failures

\* A job deferred by the hourly limit resumes outside the hour that was full,
\* however late the answer and the move come.
DeferralLeavesTheHour ==
    [][\A w \in Workers: At(w, "defer") /\ exec'[w] = Idle =>
          HourOf(ResumeTime(w)) > HourOf(exec[w].stamp)]_vars
===============================================================================
