------------------------------- MODULE SlackAlert -------------------------------
(***************************************************************************)
(* SlackService.notifyRateLimitReached (integrations/slack/service.ts) for *)
(* one sender: the executions of processEmailJob that the hourly limit     *)
(* denied, each on its way to moveToDelayed.                               *)
(*                                                                         *)
(* The limiter reads the clock before it denies, the row is put back, and  *)
(* then the call reads the clock anew to name its hour, before its SET     *)
(* reaches Redis.  Time passes between any two steps.                      *)
(***************************************************************************)
EXTENDS Naturals

CONSTANTS
    Workers,
    Hour,            \* ticks of an hour
    Faults,          \* what can go wrong
    MaxTime          \* bound on the clock

(* "slack"  the message is refused                                         *)
(* "db"     the update of the row, or the query of the connection, throws  *)
(* "redis"  the SET rejects, or is sent again after its reply was lost     *)
(* "user"   the user connects and disconnects Slack meanwhile              *)
ASSUME FaultsAssumption == Faults \subseteq {"slack", "db", "redis", "user"}
ASSUME TimesAssumption == Hour \in Nat \ {0} /\ MaxTime \in Nat

VARIABLES
    now,
    exec,            \* each execution: where it is, and the hour of its denial,
                     \* then of its call
    expires,         \* slack-rate-limit-notified:{id}:{hour}: when each expires
    connection,      \* the user has a row in slack_connections
    denied,          \* history: hours in which the limit denied a job
    missed,          \* history: hours of denials no call named: the update of the
                     \* row threw, or the hour was over when it was done
    called,          \* history: hours that calls named
    late,            \* history: hours of calls Redis answered after their end
    failed,          \* history: hours of calls that failed or found no connection
    posted           \* history: messages in the channel, per hour of the call

history == <<denied, missed, called, late, failed, posted>>
vars == <<now, exec, expires, connection, history>>

\* The hour of a time.
HourOf(t) == t \div Hour

Hours == 0..HourOf(MaxTime)

PCs == {"idle", "revert", "set", "find", "post"}

Idle == [pc |-> "idle", hour |-> 0, key |-> 0]

TypeOK ==
    /\ now \in 0..MaxTime
    /\ exec \in [Workers -> [pc: PCs, hour: Hours, key: Hours]]
    /\ expires \in [Hours -> 0..MaxTime + Hour]
    /\ connection \in BOOLEAN
    /\ denied \in SUBSET Hours
    /\ missed \in SUBSET denied
    /\ called \in SUBSET Hours
    /\ late \in SUBSET called
    /\ failed \in SUBSET called
    /\ posted \in [Hours -> Nat]

Init ==
    /\ now = 0
    /\ exec = [w \in Workers |-> Idle]
    /\ expires = [h \in Hours |-> 0]
    /\ connection \in IF "user" \in Faults THEN BOOLEAN ELSE {TRUE}
    /\ denied = {} /\ missed = {} /\ called = {} /\ late = {} /\ failed = {}
    /\ posted = [h \in Hours |-> 0]

At(w, label) == exec[w].pc = label
Goto(w, label) == exec' = [exec EXCEPT ![w].pc = label]
Finish(w) == exec' = [exec EXCEPT ![w] = Idle]

\* Mutant: the key does not name the hour.
KeyHour_Constant(t) == 0

\* getHourWindowKey, in the dedupKey.
KeyHour(t) == HourOf(t)

\* Mutant: the key expires before the hour has passed.
KeyTtl_Short == Hour - 1

\* EX 3600.
KeyTtl == Hour

-------------------------------------------------------------------------------
\* The limit denies a job, by the hour that checkAndIncrementHourlyLimit read.
Deny(w) ==
    /\ At(w, "idle")
    /\ exec' = [exec EXCEPT ![w] = [pc |-> "revert", hour |-> HourOf(now), key |-> 0]]
    /\ denied' = denied \union {HourOf(now)}
    /\ UNCHANGED <<now, expires, connection, missed, called, late, failed, posted>>

\* The row is put back to scheduled, and notifyRateLimitReached reads the hour
\* anew; or the update throws, and nobody is told.
Notify(w) ==
    /\ At(w, "revert")
    /\ \/ /\ exec' = [exec EXCEPT ![w] = [pc |-> "set", hour |-> HourOf(now), key |-> KeyHour(now)]]
          /\ called' = called \union {HourOf(now)}
          /\ missed' = IF HourOf(now) # exec[w].hour THEN missed \union {exec[w].hour} ELSE missed
       \/ /\ "db" \in Faults
          /\ Finish(w)
          /\ missed' = missed \union {exec[w].hour}
          /\ UNCHANGED called
    /\ UNCHANGED <<now, expires, connection, denied, late, failed, posted>>

HasKey(k) == expires[k] > now

\* The call of w ends without an alert because something failed.
Fail(w) == Finish(w) /\ failed' = failed \union {exec[w].hour}

SetKey(k) == expires' = [expires EXCEPT ![k] = now + KeyTtl]

\* Redis executes SET ... NX.  A SET whose reply was lost is sent again, and
\* then finds the key it set itself.
SetNX(w) ==
    /\ At(w, "set")
    /\ LET k == exec[w].key IN
       \/ ~HasKey(k) /\ SetKey(k) /\ Goto(w, "find") /\ UNCHANGED failed
       \/ HasKey(k) /\ UNCHANGED expires /\ Finish(w) /\ UNCHANGED failed
       \/ "redis" \in Faults /\ ~HasKey(k) /\ SetKey(k) /\ Fail(w)
       \/ "redis" \in Faults /\ UNCHANGED expires /\ Fail(w)
    /\ late' = IF HourOf(now) # exec[w].hour THEN late \union {exec[w].hour} ELSE late
    /\ UNCHANGED <<now, connection, denied, missed, called, posted>>

\* The user's Slack connection is read.
FindConnection(w) ==
    /\ At(w, "find")
    /\ \/ connection /\ Goto(w, "post") /\ UNCHANGED failed
       \/ ~connection /\ Fail(w)
       \/ "db" \in Faults /\ Fail(w)
    /\ UNCHANGED <<now, expires, connection, denied, missed, called, late, posted>>

\* chat.postMessage: the message arrives, or an error is caught.  There is no
\* timeout.
Post(w) ==
    /\ At(w, "post")
    /\ \/ posted' = [posted EXCEPT ![exec[w].hour] = @ + 1] /\ Finish(w) /\ UNCHANGED failed
       \/ "slack" \in Faults /\ Fail(w) /\ UNCHANGED posted
    /\ UNCHANGED <<now, expires, connection, denied, missed, called, late>>

\* The user connects Slack, or disconnects it, as SlackConnection has it.
ToggleConnection ==
    /\ "user" \in Faults
    /\ connection' = ~connection
    /\ UNCHANGED <<now, exec, expires, history>>

Tick ==
    /\ now < MaxTime
    /\ now' = now + 1
    /\ UNCHANGED <<exec, expires, connection, history>>

Next ==
    \/ Tick \/ ToggleConnection
    \/ \E w \in Workers: Deny(w) \/ Notify(w) \/ SetNX(w) \/ FindConnection(w) \/ Post(w)

Spec == Init /\ [][Next]_vars

\* A call goes on until it is answered; that Slack answers is assumed.
Fairness ==
    \A w \in Workers:
        WF_vars(Notify(w)) /\ WF_vars(SetNX(w)) /\ WF_vars(FindConnection(w)) /\ WF_vars(Post(w))

LiveSpec == Spec /\ Fairness

-------------------------------------------------------------------------------

\* An hour is announced twice only if Redis executed a call of that hour after
\* its end: the key outlives its hour, whatever fails.
SecondAlertIsLate == \A h \in Hours: posted[h] > 1 => h \in late

\* An hour in which the limit denied a job is named by a call, unless the row
\* could not be put back or the hour was over by then; and an hour that a call
\* names is announced, unless a call of that very hour failed: no alert, and no
\* failure, of another hour hides it.
DeniedHourIsAlerted ==
    /\ \A h \in Hours: h \in denied ~> h \in called \union missed
    /\ \A h \in Hours: h \in called ~> posted[h] > 0 \/ h \in failed
===============================================================================
