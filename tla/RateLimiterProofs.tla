---------------------------- MODULE RateLimiterProofs ---------------------------
(***************************************************************************)
(* Proofs about RateLimiter, for any number of executions and processes,   *)
(* any delays, limits and hours, and any number of failures.  The spacing  *)
(* of the grants is proved for executions of one process.                  *)
(*                                                                         *)
(* What the steps need of the arithmetic of hours and of the life of a     *)
(* reservation is stated first, in HourTimes, HourOrder and SlotTtlType.   *)
(***************************************************************************)
EXTENDS RateLimiter, FiniteSetTheorems, TLAPS

\* A call has the delay of a campaign and a time that is not to come.
CallInv == \A w \in Workers:
    /\ exec[w].stamp <= now
    /\ exec[w].pc # "idle" => exec[w].delay \in Delays

\* A queue of commands holds executions that wait for Redis, each once, in the
\* order of the times they read.
Queue(e, q, p) == \A i, j \in 1..Len(q):
    /\ e[q[i]].pc \in {"reserve", "count", "touch"} /\ ProcessOf[q[i]] = p
    /\ i <= j => e[q[i]].stamp <= e[q[j]].stamp
    /\ i # j => q[i] # q[j]

PipeInv == \A p \in Processes: Queue(exec, pipe[p], p)

-------------------------------------------------------------------------------
(* The quotient that names an hour, of which the provers know too little *)

\* A quotient and the multiples around its dividend.
LEMMA DivFacts ==
  ASSUME NEW t \in Nat, NEW h \in Nat \ {0}
  PROVE  t \div h \in Nat /\ (t \div h) * h <= t /\ t < (t \div h) * h + h
<1>1. t \div h \in Int /\ t % h \in 0..h - 1
  OBVIOUS
<1>2. t % h = t - (t \div h) * h
  OBVIOUS
<1>3. t \div h \in Nat
  <2> DEFINE q == t \div h
  <2>1. q \in Int /\ t < q * h + h
    BY <1>1, <1>2
  <2> HIDE DEF q
  <2>2. SUFFICES ASSUME q < 0 PROVE FALSE
    BY <2>1 DEF q
  <2>3. (q + 1) * h <= 0 /\ (q + 1) * h = q * h + h
    BY <2>1, <2>2
  <2>4. QED
    BY <2>1, <2>3
<1>4. QED
  BY <1>1, <1>2, <1>3

\* Quotients are in the order of their dividends.
LEMMA DivMonotone ==
  ASSUME NEW s \in Nat, NEW t \in Nat, s <= t, NEW h \in Nat \ {0}
  PROVE  s \div h <= t \div h
<1> DEFINE p == s \div h
           q == t \div h
<1>1. p \in Nat /\ q \in Nat /\ p * h <= s /\ t < q * h + h
  BY DivFacts
<1> HIDE DEF p, q
<1>2. SUFFICES ASSUME q < p PROVE FALSE
  BY <1>1 DEF p, q
<1>3. (q + 1) * h <= p * h /\ (q + 1) * h = q * h + h
  BY <1>1, <1>2
<1>4. QED
  BY <1>1, <1>3

\* A quotient is at least what multiplies to no more than the dividend.
LEMMA DivAtLeast ==
  ASSUME NEW q \in Nat, NEW t \in Nat, NEW h \in Nat \ {0}, q * h <= t
  PROVE  q <= t \div h
<1> DEFINE p == t \div h
<1>1. p \in Nat /\ t < p * h + h
  BY DivFacts
<1> HIDE DEF p
<1>2. SUFFICES ASSUME p < q PROVE FALSE
  BY <1>1 DEF p
<1>3. (p + 1) * h <= q * h /\ (p + 1) * h = p * h + h
  BY <1>1, <1>2
<1>4. QED
  BY <1>1, <1>3

-------------------------------------------------------------------------------
(* Hours and reservations *)

\* The hour of a time.
LEMMA HourTimes ==
  ASSUME NEW t \in 0..MaxTime
  PROVE  /\ HourOf(t) \in Hours /\ Hours \subseteq Nat
         /\ HourOf(t) * Hour <= t /\ t < HourOf(t) * Hour + Hour
<1>1. t \in Nat /\ MaxTime \in Nat /\ t <= MaxTime /\ Hour \in Nat \ {0}
  BY TimesAssumption, BoundsAssumption
<1>2. t \div Hour \in Nat /\ (t \div Hour) * Hour <= t /\ t < (t \div Hour) * Hour + Hour
  BY <1>1, DivFacts
<1>3. t \div Hour <= MaxTime \div Hour /\ MaxTime \div Hour \in Nat
  BY <1>1, DivFacts, DivMonotone
<1> DEFINE q == t \div Hour
           last == MaxTime \div Hour
<1> HIDE DEF q, last
<1>4. q \in 0..last /\ 0..last \subseteq Nat
  BY <1>2, <1>3 DEF q, last
<1>5. QED
  BY <1>2, <1>4 DEF HourOf, Hours, q, last

\* Hours do not go back.
LEMMA HourOrder ==
  ASSUME NEW s \in 0..MaxTime, NEW t \in 0..MaxTime, s <= t
  PROVE  HourOf(s) <= HourOf(t)
  BY TimesAssumption, BoundsAssumption, DivMonotone DEF HourOf

\* A reservation lives for some time, and no longer than a day for one delay.
LEMMA SlotTtlType ==
  /\ \A d \in Delays: SlotTtl(d) \in Nat \ {0}
  /\ SlotTtl(0) = 0
  /\ \E d \in Delays: Day >= SlotTtl(d)
<1>1. ASSUME NEW d \in Delays PROVE SlotTtlFactor * d \in Nat \ {0}
  <2>1. d \in Nat \ {0} /\ SlotTtlFactor \in Nat \ {0}
    BY DelaysAssumption, TimesAssumption
  <2>2. QED
    BY <2>1
<1>2. QED
  BY <1>1, DayAssumption, TimesAssumption DEF SlotTtl

-------------------------------------------------------------------------------
(* Types, and the calls under way *)

\* A waiting execution is at the head of its connection.
LEMMA ForemostFacts ==
  ASSUME TypeOK, NEW w \in Workers, Foremost(w)
  PROVE  LET p == ProcessOf[w] IN
         /\ p \in Processes /\ pipe[p] \in Seq(Workers) /\ Len(pipe[p]) > 0 /\ pipe[p][1] = w
         /\ Tail(pipe[p]) \in Seq(Workers) /\ Len(Tail(pipe[p])) = Len(pipe[p]) - 1
         /\ \A i \in 1..Len(Tail(pipe[p])): Tail(pipe[p])[i] = pipe[p][i + 1]
<1> DEFINE p == ProcessOf[w]
<1>1. p \in Processes /\ pipe[p] \in Seq(Workers)
  BY ProcessOfAssumption DEF TypeOK
<1>2. pipe[p] # <<>> /\ Head(pipe[p]) = w
  BY DEF Foremost
<1> HIDE DEF p
<1>3. QED
  BY <1>1, <1>2 DEF p

\* What an hour lets through is a number, and it lets one message through at least.
LEMMA QuotaType == Quota \in Nat \ {0} /\ (Limit > 0 => Quota = Limit)
  BY BoundsAssumption DEF Quota

\* A reservation, a count and a report keep the types of the keys.
LEMMA KeyTypes ==
  ASSUME TypeOK, CallInv, NEW w \in Workers, exec[w].pc # "idle"
  PROVE  /\ SetLastSend(w, SlotTtl(exec[w].delay)) \/ SetLastSend(w, Day) =>
                lastSend' \in [value: 0..MaxTime, expires: Nat]
         /\ \A h \in Hours: ~Exhausted(h) /\ Increment(h) =>
                counter' \in [Hours -> [value: 0..Quota, expires: Nat]]
         /\ Rejected => failures' \in 0..MaxFailures /\ UNCHANGED <<lastSend, counter>>
<1>1. now \in Nat /\ exec[w].delay \in Delays /\ exec[w].stamp \in 0..MaxTime
  BY DEF TypeOK, CallInv
<1>2. ASSUME SetLastSend(w, SlotTtl(exec[w].delay)) \/ SetLastSend(w, Day)
      PROVE  lastSend' \in [value: 0..MaxTime, expires: Nat]
  <2>1. now + SlotTtl(exec[w].delay) \in Nat /\ now + Day \in Nat
    BY <1>1, SlotTtlType, TimesAssumption
  <2>2. QED
    BY <1>1, <1>2, <2>1 DEF SetLastSend
<1>3. ASSUME NEW h \in Hours, ~Exhausted(h), Increment(h)
      PROVE  counter' \in [Hours -> [value: 0..Quota, expires: Nat]]
  <2>1. counter[h] \in [value: 0..Quota, expires: Nat]
    BY DEF TypeOK
  <2>2. counter[h].value + 1 \in 0..Quota
    BY <1>3, <2>1, QuotaType, BoundsAssumption DEF Exhausted, NoKey, Quota
  <2>3. now + HourTtl \in Nat
    BY <1>1, TimesAssumption
  <2>4. QED
    BY <1>3, <2>1, <2>2, <2>3 DEF Increment, TypeOK
<1>4. Rejected => failures' \in 0..MaxFailures /\ UNCHANGED <<lastSend, counter>>
  BY BoundsAssumption DEF Rejected, TypeOK
<1>5. QED
  BY <1>2, <1>3, <1>4

Execs == [pc: PCs, delay: Delays \union {0}, stamp: 0..MaxTime]

\* An execution that goes on, or ends, is the only one to change.
LEMMA ExecFacts ==
  ASSUME TypeOK, NEW w \in Workers
  PROVE  /\ \A label \in PCs: Goto(w, label) =>
                /\ exec' \in [Workers -> Execs]
                /\ exec'[w] = [pc |-> label, delay |-> exec[w].delay, stamp |-> exec[w].stamp]
                /\ \A v \in Workers \ {w}: exec'[v] = exec[v]
         /\ Finish(w) =>
                /\ exec' \in [Workers -> Execs]
                /\ exec'[w] = Idle
                /\ \A v \in Workers \ {w}: exec'[v] = exec[v]
<1>1. 0 \in 0..MaxTime
  BY BoundsAssumption
<1>2. exec \in [Workers -> Execs]
  BY DEF TypeOK, Execs
<1>3. ASSUME NEW label \in PCs, Goto(w, label)
      PROVE  /\ exec' \in [Workers -> Execs]
             /\ exec'[w] = [pc |-> label, delay |-> exec[w].delay, stamp |-> exec[w].stamp]
             /\ \A v \in Workers \ {w}: exec'[v] = exec[v]
  <2>1. [exec[w] EXCEPT !.pc = label] =
            [pc |-> label, delay |-> exec[w].delay, stamp |-> exec[w].stamp]
    BY <1>2 DEF Execs
  <2>2. exec' = [exec EXCEPT ![w] =
            [pc |-> label, delay |-> exec[w].delay, stamp |-> exec[w].stamp]]
    BY <1>3, <2>1, <1>2 DEF Goto
  <2>3. [pc |-> label, delay |-> exec[w].delay, stamp |-> exec[w].stamp] \in Execs
    BY <1>2 DEF Execs
  <2>4. QED
    BY <1>2, <2>2, <2>3
<1>4. ASSUME Finish(w)
      PROVE  /\ exec' \in [Workers -> Execs]
             /\ exec'[w] = Idle
             /\ \A v \in Workers \ {w}: exec'[v] = exec[v]
  <2>1. Idle \in Execs
    BY <1>1 DEF Idle, Execs, PCs
  <2>2. QED
    BY <1>2, <1>4, <2>1 DEF Finish
<1>5. QED
  BY <1>3, <1>4

\* Each step of an execution keeps the types, and the call of its own.
LEMMA CallNext ==
  ASSUME TypeOK, CallInv, NEW w \in Workers, WorkerStep(w) PROVE TypeOK' /\ CallInv'
<1> USE BoundsAssumption
<1>1. CASE \E label \in {"reserve", "count", "touch"}, d \in Delays:
             Issue(w, label, d) /\ UNCHANGED <<now, redisVars, history>>
  <2>1. PICK label \in {"reserve", "count", "touch"}, d \in Delays:
             Issue(w, label, d) /\ UNCHANGED <<now, redisVars, history>>
    BY <1>1
  <2>2. exec' \in [Workers -> Execs]
    BY <2>1 DEF Issue, TypeOK, PCs, Execs
  <2>3. pipe' \in [Processes -> Seq(Workers)]
    <3>1. ProcessOf[w] \in Processes /\ pipe[ProcessOf[w]] \in Seq(Workers)
      BY ProcessOfAssumption DEF TypeOK
    <3>2. Append(pipe[ProcessOf[w]], w) \in Seq(Workers)
      BY <3>1
    <3>3. QED
      BY <2>1, <3>1, <3>2 DEF Issue, TypeOK
  <2>4. CallInv'
    BY <2>1 DEF Issue, TypeOK, CallInv
  <2>5. QED
    BY <2>1, <2>2, <2>3, <2>4 DEF TypeOK, Execs, redisVars, history
<1>2. CASE Reserve(w) \/ Count(w) \/ Touch(w)
  <2>1. exec[w].pc \in {"reserve", "count", "touch"} /\ Answered(w)
    BY <1>2 DEF Reserve, Count, Touch, At
  <2>2. pipe' \in [Processes -> Seq(Workers)]
    BY <2>1, ForemostFacts DEF Answered, TypeOK
  <2>3. /\ exec' \in [Workers -> Execs]
        /\ CallInv'
    <3>1. now' = now /\ 0 <= now
      BY <1>2 DEF Reserve, Count, Touch, TypeOK
    <3>2. CASE Finish(w)
      BY <3>1, <3>2, ExecFacts DEF CallInv, Idle
    <3>3. ASSUME NEW label \in {"reserved", "defer", "send"}, Goto(w, label)
          PROVE  exec' \in [Workers -> Execs] /\ CallInv'
      <4>1. /\ exec' \in [Workers -> Execs]
            /\ exec'[w] = [pc |-> label, delay |-> exec[w].delay, stamp |-> exec[w].stamp]
            /\ \A v \in Workers \ {w}: exec'[v] = exec[v]
        BY <3>3, ExecFacts DEF PCs
      <4>2. exec[w].delay \in Delays /\ exec[w].stamp <= now
        BY <2>1 DEF CallInv
      <4>3. QED
        BY <3>1, <4>1, <4>2 DEF CallInv
    <3>4. Finish(w) \/ \E label \in {"reserved", "defer", "send"}: Goto(w, label)
      BY <1>2 DEF Reserve, Count, Touch
    <3>5. QED
      BY <3>2, <3>3, <3>4
  <2>4. HourOf(exec[w].stamp) \in Hours
    BY HourTimes DEF TypeOK
  <2>5. lastSend' \in [value: 0..MaxTime, expires: Nat]
    BY <1>2, <2>1, KeyTypes DEF Reserve, Count, Touch, Rejected, redisVars, TypeOK
  <2>6. counter' \in [Hours -> [value: 0..Quota, expires: Nat]]
    BY <1>2, <2>1, <2>4, KeyTypes DEF Reserve, Count, Touch, Rejected, redisVars, TypeOK
  <2>7. failures' \in 0..MaxFailures
    BY <1>2, <2>1, KeyTypes DEF Reserve, Count, Touch, Rejected, redisVars, TypeOK
  <2>8. /\ now' = now /\ mailed' = mailed /\ carried' = carried
        /\ grant' \in {grant, [stamp |-> exec[w].stamp, at |-> now, delay |-> exec[w].delay]}
    BY <1>2 DEF Reserve, Count, Touch, history
  <2>9. grant' \in [stamp: 0..MaxTime, at: 0..MaxTime, delay: Delays \union {0}]
    BY <2>8 DEF TypeOK
  <2>10. QED
    BY <2>2, <2>3, <2>5, <2>6, <2>7, <2>8, <2>9 DEF TypeOK, Execs
<1>3. CASE Defer(w)
  BY <1>3 DEF Defer, Finish, Idle, PCs, TypeOK, CallInv, redisVars, history
<1>4. CASE Send(w)
  <2>1. /\ exec' \in [Workers -> Execs]
        /\ CallInv' /\ mailed' \in Nat
    <3>1. now' = now /\ now \in 0..MaxTime /\ exec[w].pc = "send" /\ mailed' \in Nat
      BY <1>4 DEF Send, At, TypeOK
    <3>2. CASE Finish(w)
      BY <3>1, <3>2, ExecFacts DEF CallInv, Execs, Idle
    <3>3. CASE exec' = [exec EXCEPT ![w] = [pc |-> "sent", delay |-> @.delay, stamp |-> now]]
      <4>1. exec \in [Workers -> Execs] /\ "sent" \in PCs
        BY DEF TypeOK, Execs, PCs
      <4>2. [pc |-> "sent", delay |-> exec[w].delay, stamp |-> now] \in Execs
        BY <3>1, <4>1 DEF Execs
      <4>3. QED
        BY <3>1, <3>3, <4>1, <4>2 DEF CallInv
    <3>4. QED
      BY <1>4, <3>2, <3>3 DEF Send
  <2>2. QED
    BY <1>4, <2>1 DEF Send, TypeOK, Execs, redisVars
<1>5. CASE Resend(w)
  <2>1. exec[w].pc \in {"reserve", "count"} /\ HourOf(exec[w].stamp) \in Hours
    BY <1>5, HourTimes DEF Resend, At, TypeOK
  <2>2. /\ lastSend' \in [value: 0..MaxTime, expires: Nat]
        /\ counter' \in [Hours -> [value: 0..Quota, expires: Nat]]
    BY <1>5, <2>1, KeyTypes DEF Resend, TypeOK
  <2>3. failures' \in 0..MaxFailures
    BY <1>5 DEF Resend, TypeOK
  <2>4. QED
    BY <1>5, <2>2, <2>3 DEF Resend, TypeOK, CallInv, history
<1>6. QED
  BY <1>1, <1>2, <1>3, <1>4, <1>5 DEF WorkerStep, Start, Ask, Report, At, CallInv

\* Time passing keeps them.
LEMMA TickNext ==
  ASSUME TypeOK, CallInv, Tick PROVE TypeOK' /\ CallInv'
<1>1. now' \in 0..MaxTime /\ now <= now'
  BY BoundsAssumption DEF TypeOK, Tick
<1>2. 0 \in 0..MaxTime /\ 0 \in 0..Quota
  BY BoundsAssumption, QuotaType
<1>3. /\ lastSend' \in [value: 0..MaxTime, expires: Nat]
      /\ grant' \in [stamp: 0..MaxTime, at: 0..MaxTime, delay: Delays \union {0}]
  BY <1>2 DEF TypeOK, Tick, NoKey, NoGrant
<1>4. counter' \in [Hours -> [value: 0..Quota, expires: Nat]]
  BY <1>2 DEF TypeOK, Tick, NoKey
<1>5. mailed' \in Nat /\ carried' \in 0..Cardinality(Workers)
  <2> DEFINE Past == {w \in Workers: exec[w].pc \in {"count", "send"}}
  <2>1. Cardinality(Past) \in 0..Cardinality(Workers)
    BY WorkersAssumption, FS_Subset, FS_CardinalityType
  <2>2. QED
    BY <2>1 DEF TypeOK, Tick
<1>6. CallInv'
  <2>1. exec' = exec /\ exec \in [Workers -> Execs] /\ now \in Int /\ now' \in Int
    BY <1>1 DEF Tick, TypeOK, Execs
  <2>2. QED
    BY <1>1, <2>1 DEF CallInv, Execs
<1>7. QED
  BY <1>1, <1>3, <1>4, <1>5, <1>6 DEF Tick, TypeOK

\* Every value has its type, a call its campaign's delay and a past time.
LEMMA CallsStay ==
  ASSUME TypeOK, CallInv, [Next]_vars PROVE TypeOK' /\ CallInv'
<1>1. CASE UNCHANGED vars
  BY <1>1 DEF TypeOK, CallInv, vars, redisVars, history
<1>2. QED
  BY <1>1, CallNext, TickNext DEF Next

\* Before the first call there is none.
LEMMA CallsStart == Init => TypeOK /\ CallInv
<1>1. 0 \in 0..MaxTime /\ 0 \in 0..Quota /\ 0 \in 0..MaxFailures /\ 0 \in 0..Cardinality(Workers)
  BY BoundsAssumption, QuotaType, WorkersAssumption, FS_CardinalityType
<1>2. SUFFICES ASSUME Init PROVE TypeOK /\ CallInv
  OBVIOUS
<1>3. pipe \in [Processes -> Seq(Workers)]
  BY <1>2 DEF Init
<1>4. QED
  BY <1>1, <1>2, <1>3 DEF Init, TypeOK, CallInv, Idle, NoKey, NoGrant, PCs

\* The variables keep their types, whatever the delays, the limits and the failures.
THEOREM LimiterTypeCorrect == Spec => []TypeOK
<1>1. TypeOK /\ CallInv /\ [Next]_vars => (TypeOK /\ CallInv)'
  BY CallsStay
<1>2. QED
  BY <1>1, CallsStart, PTL DEF Spec

-------------------------------------------------------------------------------
(* Deferral *)

\* Whoever is put off by a full hour resumes after it: its call was made no later
\* than now, and the wait covers what was left of that hour when it was made.
THEOREM DeferralLeavesTheHourHolds == Spec => DeferralLeavesTheHour
<1>1. ASSUME TypeOK, CallInv, NEW w \in Workers
      PROVE  HourOf(ResumeTime(w)) > HourOf(exec[w].stamp)
  <2> DEFINE s == exec[w].stamp
             h == HourOf(s)
  <2>1. s \in 0..MaxTime /\ s <= now /\ now \in Nat /\ Hour \in Nat \ {0} /\ MinWait \in Nat
    BY <1>1, TimesAssumption DEF TypeOK, CallInv
  <2>2. h \in Nat
    BY <2>1, HourTimes
  <2>3. s \in Nat
    BY <2>1, BoundsAssumption
  <2>4. (h + 1) * Hour \in Nat
    BY <2>1, <2>2
  <2> DEFINE next == (h + 1) * Hour
  <2>5. ResumeTime(w) = now + (IF next - s > MinWait THEN next - s ELSE MinWait)
    BY DEF ResumeTime, UntilNextHour
  <2> HIDE DEF next, s, h
  <2>6. ResumeTime(w) \in Nat /\ ResumeTime(w) >= next
    BY <2>1, <2>3, <2>4, <2>5 DEF next
  <2>7. ResumeTime(w) >= (h + 1) * Hour /\ h + 1 \in Nat
    BY <2>6, <2>2 DEF next
  <2>8. ResumeTime(w) \div Hour >= h + 1
    BY <2>1, <2>6, <2>7, DivAtLeast
  <2>9. ResumeTime(w) \div Hour \in Nat
    BY <2>1, <2>6, DivFacts
  <2>10. HourOf(ResumeTime(w)) > h
    BY <2>2, <2>8, <2>9 DEF HourOf
  <2>11. QED
    BY <2>10 DEF h, s
<1>2. TypeOK /\ CallInv /\ [Next]_vars => (TypeOK /\ CallInv)'
  BY CallsStay
<1>3. TypeOK /\ CallInv => \A w \in Workers: At(w, "defer") /\ exec'[w] = Idle =>
          HourOf(ResumeTime(w)) > HourOf(exec[w].stamp)
  BY <1>1
<1>4. QED
  BY <1>2, <1>3, CallsStart, PTL DEF Spec, DeferralLeavesTheHour

-------------------------------------------------------------------------------
(* What an hour sees *)

\* The executions that can still send in the present hour without having been
\* counted in it.
Passing == {w \in Workers: \/ exec[w].pc = "send"
                           \/ exec[w].pc = "count" /\ HourOf(exec[w].stamp) < HourOf(now)}

\* A counter lives at least to the end of its hour.
CounterInv == \A h \in Hours: counter[h] # NoKey => counter[h].expires >= h * Hour + HourTtl

\* A message of the present hour was counted in it, or was one of those carried
\* over, or a failure let it through; so will one that is past the check.
OverrunInv ==
    mailed + Cardinality(Passing) <= carried + failures + counter[HourOf(now)].value

\* A set that gains one member at most.
LEMMA OneMore ==
  ASSUME NEW A, NEW B, NEW w, IsFiniteSet(A), B \subseteq A \union {w}
  PROVE  Cardinality(B) \in Nat /\ Cardinality(A) \in Nat /\ Cardinality(B) <= Cardinality(A) + 1
<1>1. IsFiniteSet(A \union {w}) /\ Cardinality(A \union {w}) <= Cardinality(A) + 1
  <2>1. Cardinality(A) \in Nat
    BY FS_CardinalityType
  <2>2. QED
    BY <2>1, FS_AddElement
<1>2. Cardinality(B) <= Cardinality(A \union {w}) /\ Cardinality(B) \in Nat
  BY <1>1, FS_Subset, FS_CardinalityType
<1>3. QED
  BY <1>1, <1>2, FS_CardinalityType

\* A set that loses one member.
LEMMA OneLess ==
  ASSUME NEW A, NEW B, NEW w \in A, IsFiniteSet(A), B \subseteq A \ {w}
  PROVE  Cardinality(B) \in Nat /\ Cardinality(A) \in Nat /\ Cardinality(B) + 1 <= Cardinality(A)
<1>1. IsFiniteSet(A \ {w}) /\ Cardinality(A \ {w}) = Cardinality(A) - 1
  BY FS_RemoveElement
<1>2. Cardinality(B) <= Cardinality(A \ {w}) /\ Cardinality(B) \in Nat
  BY <1>1, FS_Subset, FS_CardinalityType
<1>3. QED
  BY <1>1, <1>2, FS_CardinalityType

\* The quantities of the bound.
LEMMA OverrunTypes ==
  ASSUME TypeOK
  PROVE  /\ IsFiniteSet(Passing) /\ Cardinality(Passing) \in Nat
         /\ mailed \in Nat /\ carried \in Nat /\ failures \in Nat
         /\ \A h \in Hours: counter[h].value \in Nat /\ counter[h].value <= Quota
         /\ HourOf(now) \in Hours /\ Quota \in Nat
<1>1. IsFiniteSet(Passing)
  BY WorkersAssumption, FS_Subset DEF Passing
<1>2. HourOf(now) \in Hours
  BY HourTimes DEF TypeOK
<1>3. QED
  BY <1>1, <1>2, QuotaType, FS_CardinalityType, WorkersAssumption, BoundsAssumption DEF TypeOK

\* A counter is made by a call of its hour, or a later time.
LEMMA CounterStays ==
  ASSUME TypeOK, CallInv, CounterInv, [Next]_vars PROVE CounterInv'
<1>1. ASSUME NEW w \in Workers, Increment(HourOf(exec[w].stamp)) PROVE CounterInv'
  <2> DEFINE k == HourOf(exec[w].stamp)
  <2>1. exec[w].stamp \in 0..MaxTime /\ exec[w].stamp <= now /\ now \in Nat
    BY DEF TypeOK, CallInv
  <2>2. k \in Hours /\ k * Hour <= exec[w].stamp /\ k \in Nat
    BY <2>1, HourTimes
  <2> HIDE DEF k
  <2>3. k * Hour \in Nat /\ exec[w].stamp \in Nat /\ HourTtl \in Nat
    BY <2>1, <2>2, TimesAssumption, BoundsAssumption
  <2>4. now + HourTtl >= k * Hour + HourTtl
    BY <2>1, <2>2, <2>3
  <2>5. Increment(k)
    BY <1>1 DEF k
  <2>6. QED
    BY <2>2, <2>4, <2>5 DEF Increment, CounterInv, TypeOK
<1>2. CASE Tick
  BY <1>2 DEF Tick, CounterInv, TypeOK
<1>3. CASE UNCHANGED counter
  BY <1>3 DEF CounterInv
<1>4. QED
  BY <1>1, <1>2, <1>3 DEF Next, WorkerStep, Start, Ask, Report, Reserve, Count, Touch, Defer, Send,
     Resend, Rejected, vars, redisVars

\* The bound survives each step of an execution.
LEMMA OverrunStays ==
  ASSUME TypeOK, CallInv, OverrunInv, NEW w \in Workers, WorkerStep(w)
  PROVE  OverrunInv'
<1> DEFINE k == HourOf(now)
           c == HourOf(exec[w].stamp)
<1>1. now' = now
  BY DEF WorkerStep, Start, Ask, Report, Reserve, Count, Touch, Defer, Send, Resend
<1>2. TypeOK' /\ CallInv'
  BY CallNext
<1>3. exec \in [Workers -> Execs] /\ exec' \in [Workers -> Execs]
  BY <1>2 DEF TypeOK, Execs
<1>4. c \in Hours /\ c \in Nat /\ k \in Hours /\ k \in Nat /\ c <= k
  BY HourTimes, HourOrder DEF TypeOK, CallInv
<1>5. \A v \in Workers \ {w}: exec'[v] = exec[v]
  BY <1>3, ExecFacts DEF WorkerStep, Start, Ask, Report, Issue, Reserve, Count, Touch, Defer, Finish, Goto,
     Send, Resend
<1>6. Passing \ {w} = Passing' \ {w}
  BY <1>1, <1>5 DEF Passing
<1>7. /\ IsFiniteSet(Passing) /\ IsFiniteSet(Passing')
      /\ Cardinality(Passing) \in Nat /\ Cardinality(Passing') \in Nat
      /\ counter[k].value \in Nat /\ counter'[k].value \in Nat
      /\ mailed \in Nat /\ carried \in Nat /\ failures \in Nat
      /\ mailed' \in Nat /\ carried' \in Nat /\ failures' \in Nat
  <2>1. Passing \in SUBSET Workers /\ Passing' \in SUBSET Workers
    BY DEF Passing
  <2>2. /\ IsFiniteSet(Passing) /\ IsFiniteSet(Passing')
        /\ Cardinality(Passing) \in Nat /\ Cardinality(Passing') \in Nat
        /\ Cardinality(Workers) \in Nat
    BY <2>1, WorkersAssumption, FS_Subset, FS_CardinalityType
  <2>3. /\ counter[k] \in [value: 0..Quota, expires: Nat]
        /\ counter'[k] \in [value: 0..Quota, expires: Nat]
    BY <1>2, <1>4 DEF TypeOK
  <2>4. counter[k].value \in Nat /\ counter'[k].value \in Nat
    BY <2>3, QuotaType
  <2>5. failures \in Nat /\ failures' \in Nat /\ carried \in Nat /\ carried' \in Nat
    BY <1>2, <2>2, BoundsAssumption DEF TypeOK
  <2>6. mailed \in Nat /\ mailed' \in Nat
    BY <1>2 DEF TypeOK
  <2>7. QED
    BY <2>2, <2>4, <2>5, <2>6
<1>8. mailed + Cardinality(Passing) <= carried + failures + counter[k].value
  BY DEF OverrunInv
<1>9. SUFFICES mailed' + Cardinality(Passing') <= carried' + failures' + counter'[k].value
  BY <1>1 DEF OverrunInv
<1> HIDE DEF k, c
<1>10. CASE Passing' \subseteq Passing /\ UNCHANGED <<mailed, carried, failures, counter>>
  <2>1. Cardinality(Passing') <= Cardinality(Passing)
    BY <1>7, <1>10, FS_Subset
  <2>2. QED
    BY <1>7, <1>8, <1>10, <2>1
<1>11. CASE Passing' \subseteq Passing \union {w} /\ failures' = failures + 1
            /\ counter'[k].value >= counter[k].value /\ UNCHANGED <<mailed, carried>>
  <2>2. Cardinality(Passing') <= Cardinality(Passing) + 1
    BY <1>7, <1>11, OneMore
  <2>3. QED
    BY <1>7, <1>8, <1>11, <2>2
<1>12. ASSUME w \notin Passing' PROVE Passing' \subseteq Passing /\ Passing' \subseteq Passing \union {w}
  BY <1>6, <1>12
<1>13. CASE (\E d \in Delays: Start(w, d)) \/ Ask(w) \/ Report(w)
  <2>1. PICK label \in {"reserve", "count", "touch"}, d \in Delays:
             Issue(w, label, d) /\ UNCHANGED <<now, redisVars, history>>
    BY <1>13 DEF Start, Ask, Report, At, CallInv
  <2>2. exec'[w].pc = label /\ exec'[w].stamp = now
    BY <1>3, <2>1 DEF Issue
  <2>3. w \notin Passing'
    BY <1>1, <1>4, <2>2 DEF Passing, k
  <2>4. QED
    BY <1>10, <1>12, <2>1, <2>3 DEF redisVars, history
<1>14. CASE Reserve(w) \/ Touch(w)
  <2>1. exec'[w].pc \in {"idle", "reserved"}
    BY <1>3, <1>14, ExecFacts DEF Reserve, Touch, PCs, Idle
  <2>2. w \notin Passing'
    BY <2>1 DEF Passing
  <2>3. /\ UNCHANGED <<mailed, carried, counter>>
        /\ failures' = failures \/ failures' = failures + 1
    BY <1>14 DEF Reserve, Touch, Rejected, redisVars, history
  <2>4. QED
    BY <1>7, <1>10, <1>11, <1>12, <2>2, <2>3
<1>15. CASE Count(w)
  <2>1. exec[w].pc = "count" /\ UNCHANGED <<mailed, carried>>
    BY <1>15 DEF Count, At, history
  <2>2. Passing' \subseteq Passing \union {w}
    BY <1>6
  <2>3. CASE Goto(w, "defer") /\ UNCHANGED redisVars
    <3>1. exec'[w].pc = "defer"
      BY <1>3, <2>3 DEF Goto, Execs
    <3>2. w \notin Passing'
      BY <3>1 DEF Passing
    <3>3. QED
      BY <1>10, <1>12, <2>1, <2>3, <3>2 DEF redisVars
  <2>4. CASE Increment(c) /\ UNCHANGED failures /\ c = k
    <3>1. counter'[k].value = counter[k].value + 1
      BY <1>4, <2>4 DEF Increment, TypeOK
    <3>2. Cardinality(Passing') <= Cardinality(Passing) + 1
      BY <1>7, <2>2, OneMore
    <3>3. QED
      BY <1>7, <1>8, <2>1, <2>4, <3>1, <3>2
  <2>5. CASE Increment(c) /\ UNCHANGED failures /\ c < k
    <3>1. counter'[k] = counter[k]
      BY <1>4, <2>5 DEF Increment, TypeOK
    <3>2. w \in Passing
      BY <2>1, <2>5 DEF Passing, k, c
    <3>3. Passing' \in SUBSET Passing
      BY <2>2, <3>2
    <3>4. Cardinality(Passing') <= Cardinality(Passing)
      BY <1>7, <3>3, FS_Subset
    <3>5. QED
      BY <1>7, <1>8, <2>1, <2>5, <3>1, <3>4
  <2>6. CASE Rejected
    BY <1>7, <1>11, <2>1, <2>2, <2>6 DEF Rejected
  <2>7. QED
    BY <1>4, <1>15, <2>3, <2>4, <2>5, <2>6 DEF Count, c
<1>16. CASE Defer(w)
  <2>1. exec'[w].pc = "idle"
    BY <1>16, ExecFacts DEF Defer, Idle
  <2>2. w \notin Passing'
    BY <2>1 DEF Passing
  <2>3. QED
    BY <1>10, <1>12, <1>16, <2>2 DEF Defer, redisVars, history
<1>17. CASE Send(w)
  <2>1. /\ exec[w].pc = "send" /\ exec'[w].pc \in {"idle", "sent"}
        /\ mailed' <= mailed + 1 /\ UNCHANGED <<carried, failures, counter>>
    BY <1>3, <1>7, <1>17, ExecFacts DEF Send, At, Idle, redisVars
  <2>2. w \in Passing /\ w \notin Passing'
    BY <2>1 DEF Passing
  <2>3. Passing' \subseteq Passing \ {w}
    BY <1>6, <2>2
  <2>4. Cardinality(Passing') + 1 <= Cardinality(Passing)
    BY <1>7, <2>2, <2>3, OneLess
  <2>5. QED
    BY <1>7, <1>8, <2>1, <2>4
<1>18. CASE Resend(w)
  <2>1. /\ exec' = exec /\ failures' = failures + 1 /\ UNCHANGED <<mailed, carried>>
        /\ counter' = counter \/ Increment(c)
    BY <1>18 DEF Resend, history, c
  <2>2. Passing' = Passing
    BY <1>1, <2>1 DEF Passing
  <2>3. counter'[k].value >= counter[k].value
    <3>1. CASE counter'[k] = counter[k]
      BY <1>7, <3>1
    <3>2. CASE counter'[k].value = counter[k].value + 1
      BY <1>7, <3>2
    <3>3. counter'[k] = counter[k] \/ counter'[k].value = counter[k].value + 1
      BY <1>4, <2>1 DEF Increment, TypeOK
    <3>4. QED
      BY <3>1, <3>2, <3>3
  <2>4. QED
    BY <1>11, <2>1, <2>2, <2>3
<1>19. QED
  BY <1>13, <1>14, <1>15, <1>16, <1>17, <1>18 DEF WorkerStep

\* It survives time: within the hour its counter cannot expire, and the next hour
\* begins with what it takes over.
LEMMA OverrunTicks ==
  ASSUME TypeOK, CallInv, CounterInv, OverrunInv, Tick
  PROVE  OverrunInv'
<1> DEFINE k == HourOf(now)
           Past == {w \in Workers: exec[w].pc \in {"count", "send"}}
<1>1. TypeOK'
  BY TickNext
<1>2. /\ now' = now + 1 /\ now \in 0..MaxTime /\ now' \in 0..MaxTime /\ now \in Nat
      /\ exec' = exec /\ failures' = failures
  BY <1>1, BoundsAssumption DEF Tick, TypeOK
<1>3. /\ k \in Hours /\ HourOf(now') \in Hours /\ k \in Nat /\ HourOf(now') \in Nat
      /\ k <= HourOf(now')
  BY <1>2, HourTimes, HourOrder
<1>4. /\ Cardinality(Passing) \in Nat /\ mailed \in Nat /\ carried \in Nat /\ failures \in Nat
  BY OverrunTypes
<1>5. CASE HourOf(now') = k
  <2>1. Passing' = Passing /\ UNCHANGED <<mailed, carried>>
    BY <1>2, <1>5 DEF Passing, Tick, k
  <2>2. counter'[k] = counter[k]
    <3>1. now' < k * Hour + Hour
      BY <1>2, <1>5, HourTimes
    <3>2. /\ counter[k].expires \in Nat /\ counter[k] \in [value: 0..Quota, expires: Nat]
          /\ HourTtl \in Nat /\ k * Hour \in Nat /\ Hour \in Nat
      <4>1. counter[k] \in [value: 0..Quota, expires: Nat]
        BY <1>3 DEF TypeOK
      <4>2. HourTtl \in Nat /\ Hour \in Nat
        BY TimesAssumption
      <4>3. k * Hour \in Nat
        BY <1>3, <4>2
      <4>4. QED
        BY <4>1, <4>2, <4>3
    <3>3. counter[k] # NoKey => counter[k].expires > now'
      <4>1. counter[k] # NoKey => counter[k].expires >= k * Hour + HourTtl
        BY <1>3 DEF CounterInv
      <4>2. QED
        BY <1>2, <3>1, <3>2, <4>1, HourTtlAssumption
    <3>4. QED
      BY <1>2, <1>3, <3>2, <3>3 DEF Tick
  <2>3. QED
    BY <1>2, <1>5, <2>1, <2>2 DEF OverrunInv
<1>6. CASE HourOf(now') # k
  <2>1. mailed' = 0 /\ carried' = Cardinality(Past)
    BY <1>6 DEF Tick
  <2>2. Passing' \in SUBSET Past
    BY <1>2 DEF Passing
  <2>3. IsFiniteSet(Past)
    BY WorkersAssumption, FS_Subset
  <2>4. Cardinality(Passing') <= Cardinality(Past) /\ Cardinality(Passing') \in Nat
        /\ Cardinality(Past) \in Nat
    BY <2>2, <2>3, FS_Subset, FS_CardinalityType
  <2>5. counter'[HourOf(now')] \in [value: 0..Quota, expires: Nat]
    BY <1>1, <1>3 DEF TypeOK
  <2>6. counter'[HourOf(now')].value \in Nat
    BY <2>5, QuotaType
  <2>7. QED
    BY <1>2, <1>4, <2>1, <2>4, <2>6 DEF OverrunInv
<1>7. QED
  BY <1>5, <1>6

\* An hour of the wall clock sees its quota, what was past the check when it
\* began, and one more for each failure.
THEOREM HourlyOverrunIsBoundedHolds == Spec => []HourlyOverrunIsBounded
<1> DEFINE Inv == TypeOK /\ CallInv /\ CounterInv /\ OverrunInv
<1>1. Init => Inv
  <2>1. SUFFICES ASSUME Init PROVE CounterInv /\ OverrunInv
    BY CallsStart
  <2>2. now \in 0..MaxTime /\ now = 0
    BY <2>1, CallsStart DEF Init, TypeOK
  <2>3. HourOf(now) \in Hours
    BY <2>2, HourTimes
  <2>4. Passing = {}
    BY <2>1 DEF Init, Idle, Passing
  <2>5. Cardinality(Passing) = 0
    BY <2>4, FS_EmptySet
  <2>6. counter[HourOf(now)].value = 0 /\ mailed = 0 /\ carried = 0 /\ failures = 0
    BY <2>1, <2>3 DEF Init, NoKey
  <2>7. QED
    BY <2>1, <2>5, <2>6 DEF Init, CounterInv, OverrunInv
<1>2. Inv /\ [Next]_vars => Inv'
  <2>1. SUFFICES ASSUME Inv, [Next]_vars PROVE OverrunInv'
    BY CallsStay, CounterStays
  <2>2. CASE UNCHANGED vars
    BY <2>1, <2>2 DEF OverrunInv, Passing, vars, redisVars, history
  <2>3. QED
    BY <2>1, <2>2, OverrunStays, OverrunTicks DEF Next
<1>3. Inv => HourlyOverrunIsBounded
  <2>1. SUFFICES ASSUME TypeOK, OverrunInv PROVE HourlyOverrunIsBounded
    OBVIOUS
  <2> DEFINE v == counter[HourOf(now)].value
             n == Cardinality(Passing)
  <2>2. v \in Nat /\ v <= Quota /\ n \in Nat /\ mailed \in Nat /\ carried \in Nat
        /\ failures \in Nat /\ Quota \in Nat
    BY <2>1, OverrunTypes
  <2>3. mailed + n <= carried + failures + v
    BY <2>1 DEF OverrunInv
  <2> HIDE DEF v, n
  <2>4. QED
    BY <2>2, <2>3 DEF HourlyOverrunIsBounded
<1>4. QED
  BY <1>1, <1>2, <1>3, PTL DEF Spec

-------------------------------------------------------------------------------
(* The spacing of grants *)

\* Every execution runs in the same process.
OneProcess == \A v, w \in Workers: ProcessOf[v] = ProcessOf[w]

\* After a grant: the calls under way read a later time, and until a reservation
\* could have expired the key holds the grant's time, or a later one.
GrantInv == grant # NoGrant =>
    /\ grant.stamp <= now /\ grant.at <= now
    /\ \A p \in Processes: \A i \in 1..Len(pipe[p]): exec[pipe[p][i]].stamp >= grant.stamp
    /\ \/ \E d \in Delays: now - grant.at >= SlotTtl(d)
       \/ /\ lastSend # NoKey /\ lastSend.value >= grant.stamp
          /\ \E d \in Delays: lastSend.expires >= grant.at + SlotTtl(d)

\* A queue that does not hold the execution that changes stays what it is.
LEMMA QueueSame ==
  ASSUME NEW e, NEW f, NEW p, NEW q \in Seq(Workers), NEW w, Queue(e, q, p),
         e[w].pc \notin {"reserve", "count", "touch"} \/ ProcessOf[w] # p,
         \A v \in Workers \ {w}: f[v] = e[v]
  PROVE  Queue(f, q, p)
<1>1. \A i \in 1..Len(q): q[i] \in Workers \ {w}
  BY DEF Queue
<1>2. \A i \in 1..Len(q): f[q[i]] = e[q[i]]
  BY <1>1
<1>3. QED
  BY <1>2 DEF Queue

\* A queue gets one more command, of an execution that did not wait.
LEMMA QueueAppend ==
  ASSUME NEW e, NEW f, NEW p, NEW q \in Seq(Workers), NEW w \in Workers, Queue(e, q, p),
         e[w].pc \notin {"reserve", "count", "touch"}, ProcessOf[w] = p,
         \A v \in Workers \ {w}: f[v] = e[v],
         f[w].pc \in {"reserve", "count", "touch"}, f[w].stamp \in Int,
         \A v \in Workers: e[v].stamp <= f[w].stamp
  PROVE  Queue(f, Append(q, w), p)
<1> DEFINE last == Len(q) + 1
           r == Append(q, w)
<1>1. /\ Len(q) \in Nat /\ Len(r) = last /\ r[last] = w
      /\ \A n \in 1..Len(q): r[n] = q[n] /\ q[n] \in Workers
  OBVIOUS
<1>2. \A n \in 1..Len(q): q[n] # w
  BY DEF Queue
<1>3. \A n \in 1..Len(q): /\ r[n] = q[n] /\ r[n] # w /\ f[r[n]] = e[q[n]]
                         /\ f[r[n]].stamp <= f[w].stamp
  BY <1>1, <1>2
<1> HIDE DEF r
<1>4. SUFFICES ASSUME NEW i \in 1..last, NEW j \in 1..last
      PROVE  /\ f[r[i]].pc \in {"reserve", "count", "touch"} /\ ProcessOf[r[i]] = p
             /\ i <= j => f[r[i]].stamp <= f[r[j]].stamp
             /\ i # j => r[i] # r[j]
  BY <1>1 DEF Queue, r
<1>5. (i = last \/ i \in 1..Len(q)) /\ (j = last \/ j \in 1..Len(q))
  BY <1>1
<1>6. CASE i \in 1..Len(q) /\ j \in 1..Len(q)
  BY <1>3, <1>6 DEF Queue
<1>7. CASE i \in 1..Len(q) /\ j = last
  BY <1>1, <1>3, <1>7 DEF Queue
<1>8. CASE i = last /\ j \in 1..Len(q)
  BY <1>1, <1>3, <1>8
<1>9. CASE i = last /\ j = last
  BY <1>1, <1>9
<1>10. QED
  BY <1>5, <1>6, <1>7, <1>8, <1>9

\* A queue loses its first command.
LEMMA QueueTail ==
  ASSUME NEW e, NEW f, NEW p, NEW q \in Seq(Workers), Len(q) > 0, Queue(e, q, p),
         \A v \in Workers \ {q[1]}: f[v] = e[v]
  PROVE  Queue(f, Tail(q), p)
<1> DEFINE r == Tail(q)
<1>1. /\ Len(q) \in Nat /\ Len(r) = Len(q) - 1
      /\ \A n \in 1..Len(r): r[n] = q[n + 1] /\ n + 1 \in 1..Len(q) /\ q[n + 1] \in Workers
  OBVIOUS
<1> HIDE DEF r
<1>2. \A n \in 1..Len(r): q[n + 1] # q[1]
  <2>1. 1 \in 1..Len(q) /\ \A n \in 1..Len(r): n + 1 # 1
    BY <1>1
  <2>2. QED
    BY <1>1, <2>1 DEF Queue
<1>3. \A n \in 1..Len(r): f[r[n]] = e[q[n + 1]]
  BY <1>1, <1>2
<1>4. SUFFICES ASSUME NEW i \in 1..Len(r), NEW j \in 1..Len(r)
      PROVE  /\ f[r[i]].pc \in {"reserve", "count", "touch"} /\ ProcessOf[r[i]] = p
             /\ i <= j => f[r[i]].stamp <= f[r[j]].stamp
             /\ i # j => r[i] # r[j]
  BY DEF Queue, r
<1>5. i + 1 \in 1..Len(q) /\ j + 1 \in 1..Len(q) /\ (i <= j => i + 1 <= j + 1) /\ (i # j => i + 1 # j + 1)
  BY <1>1
<1> DEFINE m == i + 1
           n == j + 1
<1>6. /\ m \in 1..Len(q) /\ n \in 1..Len(q) /\ (i <= j => m <= n) /\ (i # j => m # n)
      /\ r[i] = q[m] /\ r[j] = q[n] /\ f[r[i]] = e[q[m]] /\ f[r[j]] = e[q[n]]
  BY <1>1, <1>3, <1>5
<1> HIDE DEF m, n
<1>7. QED
  BY <1>6 DEF Queue

\* The connections keep their order.
LEMMA PipeStays ==
  ASSUME TypeOK, CallInv, PipeInv, [Next]_vars PROVE PipeInv'
<1>1. \A p \in Processes: pipe[p] \in Seq(Workers) /\ Queue(exec, pipe[p], p)
  BY DEF TypeOK, PipeInv
<1>2. ASSUME NEW w \in Workers, (\E d \in Delays: Start(w, d)) \/ Ask(w) \/ Report(w)
      PROVE  PipeInv'
  <2>1. PICK label \in {"reserve", "count", "touch"}, d \in Delays:
             Issue(w, label, d) /\ exec[w].pc \notin {"reserve", "count", "touch"}
    BY <1>2 DEF Start, Ask, Report, At, CallInv
  <2>2. /\ exec[w].pc \notin {"reserve", "count", "touch"}
        /\ \A v \in Workers \ {w}: exec'[v] = exec[v]
        /\ exec'[w].pc = label /\ exec'[w].stamp = now /\ now \in Int
    BY <2>1, BoundsAssumption DEF Issue, TypeOK
  <2>3. \A p \in Processes: pipe'[p] = IF p = ProcessOf[w] THEN Append(pipe[p], w) ELSE pipe[p]
    BY <2>1 DEF Issue, TypeOK
  <2>4. \A v \in Workers: exec[v].stamp <= exec'[w].stamp
    BY <2>2 DEF CallInv
  <2>5. SUFFICES ASSUME NEW p \in Processes PROVE Queue(exec', pipe'[p], p)
    BY DEF PipeInv, Queue
  <2>6. CASE p = ProcessOf[w]
    <3>1. pipe'[p] = Append(pipe[p], w)
      BY <2>3, <2>6
    <3>2. Queue(exec', Append(pipe[p], w), p)
      BY <1>1, <2>2, <2>4, <2>6, QueueAppend
    <3>3. QED
      BY <3>1, <3>2
  <2>7. CASE p # ProcessOf[w]
    BY <1>1, <2>2, <2>3, <2>7, QueueSame
  <2>8. QED
    BY <2>6, <2>7
<1>3. ASSUME NEW w \in Workers, Reserve(w) \/ Count(w) \/ Touch(w)
      PROVE  PipeInv'
  <2>1. Answered(w) /\ \A v \in Workers \ {w}: exec'[v] = exec[v]
    BY <1>3 DEF Reserve, Count, Touch, Goto, Finish, TypeOK
  <2>2. /\ ProcessOf[w] \in Processes
        /\ Len(pipe[ProcessOf[w]]) > 0 /\ pipe[ProcessOf[w]][1] = w
    BY <2>1, ForemostFacts DEF Answered
  <2>3. \A p \in Processes: pipe'[p] = IF p = ProcessOf[w] THEN Tail(pipe[p]) ELSE pipe[p]
    BY <2>1 DEF Answered, TypeOK
  <2>4. SUFFICES ASSUME NEW p \in Processes PROVE Queue(exec', pipe'[p], p)
    BY DEF PipeInv, Queue
  <2>5. CASE p = ProcessOf[w]
    <3>1. pipe'[p] = Tail(pipe[p])
      BY <2>3, <2>5
    <3>2. Queue(exec', Tail(pipe[p]), p)
      BY <1>1, <2>1, <2>2, <2>5, QueueTail
    <3>3. QED
      BY <3>1, <3>2
  <2>6. CASE p # ProcessOf[w]
    BY <1>1, <2>1, <2>3, <2>6, QueueSame
  <2>7. QED
    BY <2>5, <2>6
<1>4. ASSUME NEW w \in Workers, Defer(w) \/ Send(w) PROVE PipeInv'
  <2>1. /\ pipe' = pipe /\ exec[w].pc \notin {"reserve", "count", "touch"}
        /\ \A v \in Workers \ {w}: exec'[v] = exec[v]
    BY <1>4 DEF Defer, Send, At, Finish, TypeOK
  <2>2. SUFFICES ASSUME NEW p \in Processes PROVE Queue(exec', pipe[p], p)
    BY <2>1 DEF PipeInv, Queue
  <2>3. QED
    BY <1>1, <2>1, QueueSame
<1>5. CASE UNCHANGED <<exec, pipe>>
  BY <1>5 DEF PipeInv, Queue
<1>6. QED
  BY <1>2, <1>3, <1>4, <1>5 DEF Next, WorkerStep, Tick, Resend, vars

\* A grant, a report and a script that runs twice record the time of a call, and
\* the record lives at least as long as some reservation.
LEMMA Recorded ==
  ASSUME TypeOK, CallInv, NEW w \in Workers, exec[w].pc # "idle",
         SetLastSend(w, SlotTtl(exec[w].delay)) \/ SetLastSend(w, Day)
  PROVE  /\ lastSend'.value = exec[w].stamp /\ lastSend' # NoKey
         /\ \E d \in Delays: lastSend'.expires >= now + SlotTtl(d)
<1>1. now \in Nat /\ exec[w].delay \in Delays /\ Day \in Nat \ {0}
  BY TimesAssumption, BoundsAssumption DEF TypeOK, CallInv
<1>2. \A d \in Delays: SlotTtl(d) \in Nat \ {0}
  BY SlotTtlType
<1>3. PICK d \in Delays: Day >= SlotTtl(d)
  BY SlotTtlType
<1>4. CASE SetLastSend(w, SlotTtl(exec[w].delay))
  BY <1>1, <1>2, <1>4 DEF SetLastSend, NoKey
<1>5. CASE SetLastSend(w, Day)
  BY <1>1, <1>2, <1>3, <1>5 DEF SetLastSend, NoKey
<1>6. QED
  BY <1>4, <1>5

\* The executions that wait for Redis after a step waited before, or asked now.
LEMMA LaterStamps ==
  ASSUME TypeOK, CallInv, PipeInv, NEW g, g <= now, g \in Int,
         \A p \in Processes: \A i \in 1..Len(pipe[p]): exec[pipe[p][i]].stamp >= g,
         [Next]_vars
  PROVE  \A p \in Processes: \A i \in 1..Len(pipe'[p]): exec'[pipe'[p][i]].stamp >= g
<1>1. SUFFICES ASSUME NEW p \in Processes, NEW i \in 1..Len(pipe'[p])
               PROVE  exec'[pipe'[p][i]].stamp >= g
  OBVIOUS
<1>2. /\ pipe[p] \in Seq(Workers) /\ Len(pipe[p]) \in Nat
      /\ \A n \in 1..Len(pipe[p]): /\ pipe[p][n] \in Workers
                                  /\ exec[pipe[p][n]].pc \in {"reserve", "count", "touch"}
                                  /\ exec[pipe[p][n]].stamp >= g
  BY DEF TypeOK, PipeInv, Queue
<1>3. /\ pipe'[p] \in Seq(Workers) /\ pipe'[p][i] \in Workers
      /\ exec'[pipe'[p][i]].pc \in {"reserve", "count", "touch"}
  <2>1. TypeOK' /\ PipeInv'
    BY CallsStay, PipeStays
  <2>2. pipe'[p] \in Seq(Workers)
    BY <2>1 DEF TypeOK
  <2>3. exec'[pipe'[p][i]].pc \in {"reserve", "count", "touch"}
    BY <2>1 DEF PipeInv, Queue
  <2>4. QED
    BY <2>2, <2>3
<1>4. ASSUME NEW w \in Workers, (\E d \in Delays: Start(w, d)) \/ Ask(w) \/ Report(w)
      PROVE  exec'[pipe'[p][i]].stamp >= g
  <2>1. PICK label \in {"reserve", "count", "touch"}, d \in Delays:
             Issue(w, label, d) /\ exec[w].pc \notin {"reserve", "count", "touch"}
    BY <1>4 DEF Start, Ask, Report, At, CallInv
  <2>2. /\ \A v \in Workers \ {w}: exec'[v] = exec[v]
        /\ exec'[w].stamp = now
        /\ pipe'[p] = IF p = ProcessOf[w] THEN Append(pipe[p], w) ELSE pipe[p]
    BY <2>1 DEF Issue, TypeOK
  <2>3. pipe'[p][i] = w \/ \E n \in 1..Len(pipe[p]): pipe'[p][i] = pipe[p][n]
    <3>1. CASE p # ProcessOf[w]
      BY <2>2, <3>1
    <3>2. CASE p = ProcessOf[w]
      <4>1. pipe'[p] = Append(pipe[p], w)
        BY <2>2, <3>2
      <4>2. i \in 1..Len(pipe[p]) + 1
        BY <1>2, <4>1
      <4>3. CASE i \in 1..Len(pipe[p])
        BY <1>2, <4>1, <4>3
      <4>4. CASE i = Len(pipe[p]) + 1
        BY <1>2, <4>1, <4>4
      <4>5. QED
        BY <1>2, <4>2, <4>3, <4>4
    <3>3. QED
      BY <3>1, <3>2
  <2>4. QED
    BY <1>2, <2>1, <2>2, <2>3
<1>5. ASSUME NEW w \in Workers, Reserve(w) \/ Count(w) \/ Touch(w)
      PROVE  exec'[pipe'[p][i]].stamp >= g
  <2>1. Answered(w) /\ \A v \in Workers \ {w}: exec'[v] = exec[v]
    BY <1>5 DEF Reserve, Count, Touch, Goto, Finish, TypeOK
  <2>2. exec'[w].pc \in {"idle", "reserved", "defer", "send"}
    BY <1>5 DEF Reserve, Count, Touch, Goto, Finish, Idle, TypeOK
  <2>3. /\ Len(pipe[ProcessOf[w]]) > 0
        /\ pipe'[p] = IF p = ProcessOf[w] THEN Tail(pipe[p]) ELSE pipe[p]
    BY <2>1, ForemostFacts DEF Answered, TypeOK
  <2>4. \E n \in 1..Len(pipe[p]): pipe'[p][i] = pipe[p][n]
    BY <1>2, <2>3
  <2>5. pipe'[p][i] # w
    BY <1>3, <2>2
  <2>6. QED
    BY <1>2, <1>3, <2>1, <2>4, <2>5
<1>6. ASSUME NEW w \in Workers, Defer(w) \/ Send(w) PROVE exec'[pipe'[p][i]].stamp >= g
  <2>1. /\ pipe' = pipe /\ exec[w].pc \notin {"reserve", "count", "touch"}
        /\ \A v \in Workers \ {w}: exec'[v] = exec[v]
    BY <1>6 DEF Defer, Send, At, Finish, TypeOK
  <2>2. QED
    BY <1>2, <2>1
<1>7. CASE UNCHANGED <<exec, pipe>>
  BY <1>2, <1>7
<1>8. QED
  BY <1>4, <1>5, <1>6, <1>7 DEF Next, WorkerStep, Tick, Resend, vars

\* A grant that comes is recorded, and one that stands stays so.
LEMMA GrantStays ==
  ASSUME OneProcess, TypeOK, CallInv, PipeInv, GrantInv, [Next]_vars PROVE GrantInv'
<1>1. TypeOK' /\ CallInv' /\ PipeInv'
  BY CallsStay, PipeStays
<1>2. /\ now \in Nat /\ now' \in Nat /\ now <= now' /\ lastSend.value \in Int
      /\ grant.stamp \in Nat /\ grant.at \in Nat /\ lastSend.expires \in Nat
      /\ \A d \in Delays: SlotTtl(d) \in Nat \ {0}
  BY <1>1, SlotTtlType, BoundsAssumption DEF TypeOK, Next, Tick, vars, WorkerStep, Start, Ask, Report,
     Reserve, Count, Touch, Defer, Send, Resend
<1>3. ASSUME NEW w \in Workers, Foremost(w), exec[w].pc # "idle"
      PROVE  \A p \in Processes: \A i \in 1..Len(pipe[p]): exec[pipe[p][i]].stamp >= exec[w].stamp
  <2>1. SUFFICES ASSUME NEW p \in Processes, NEW i \in 1..Len(pipe[p])
                 PROVE  exec[pipe[p][i]].stamp >= exec[w].stamp
    OBVIOUS
  <2>2. pipe[p] \in Seq(Workers) /\ pipe[p][i] \in Workers /\ Queue(exec, pipe[p], p)
    BY DEF TypeOK, PipeInv
  <2>3. p = ProcessOf[w]
    BY <2>2 DEF Queue, OneProcess
  <2>4. pipe[p][1] = w /\ 1 \in 1..Len(pipe[p]) /\ 1 <= i
    BY <1>3, <2>2, <2>3, ForemostFacts
  <2>5. exec[w].stamp <= exec[pipe[p][i]].stamp
    BY <2>2, <2>4 DEF Queue
  <2>6. exec[w].stamp \in Int /\ exec[pipe[p][i]].stamp \in Int
    <3>1. \A v \in Workers: exec[v].stamp \in 0..MaxTime
      BY DEF TypeOK
    <3>2. QED
      BY <2>2, <3>1
  <2>7. QED
    BY <2>5, <2>6
<1>4. CASE grant' = grant /\ grant # NoGrant
  <2>1. /\ grant.stamp <= now' /\ grant.at <= now'
        /\ \A p \in Processes: \A i \in 1..Len(pipe'[p]): exec'[pipe'[p][i]].stamp >= grant.stamp
    <3>1. /\ grant.stamp <= now /\ grant.at <= now /\ grant.stamp \in Int
          /\ \A p \in Processes: \A i \in 1..Len(pipe[p]): exec[pipe[p][i]].stamp >= grant.stamp
      BY <1>2, <1>4 DEF GrantInv
    <3>2. \A p \in Processes: \A i \in 1..Len(pipe'[p]): exec'[pipe'[p][i]].stamp >= grant.stamp
      BY <3>1, LaterStamps
    <3>3. QED
      BY <1>2, <3>1, <3>2
  <2>2. ASSUME NEW w \in Workers, Foremost(w), exec[w].pc # "idle",
               SetLastSend(w, SlotTtl(exec[w].delay)) \/ SetLastSend(w, Day)
        PROVE  /\ lastSend' # NoKey /\ lastSend'.value >= grant.stamp
               /\ \E d \in Delays: lastSend'.expires >= grant.at + SlotTtl(d)
    <3>1. exec[w].stamp >= grant.stamp
      BY <1>4, <2>2, ForemostFacts DEF GrantInv
    <3>2. /\ lastSend'.value = exec[w].stamp /\ lastSend' # NoKey
      BY <2>2, Recorded
    <3>3. PICK d \in Delays: lastSend'.expires >= now + SlotTtl(d)
      BY <2>2, Recorded
    <3>4. lastSend'.expires \in Nat /\ grant.at <= now
      BY <1>1, <1>4 DEF TypeOK, GrantInv
    <3>5. lastSend'.expires >= grant.at + SlotTtl(d)
      BY <1>2, <3>3, <3>4
    <3>6. QED
      BY <3>1, <3>2, <3>5
  <2>3. CASE lastSend' = lastSend
    <3>1. \A d \in Delays: now - grant.at >= SlotTtl(d) => now' - grant.at >= SlotTtl(d)
      BY <1>2
    <3>2. QED
      BY <1>4, <2>1, <2>3, <3>1 DEF GrantInv
  <2>4. CASE Tick /\ lastSend' = NoKey /\ lastSend.expires <= now'
    <3>1. PICK d \in Delays: now - grant.at >= SlotTtl(d) \/ lastSend.expires >= grant.at + SlotTtl(d)
      BY <1>4 DEF GrantInv
    <3>2. now' - grant.at >= SlotTtl(d)
      BY <1>2, <2>4, <3>1
    <3>3. QED
      BY <1>4, <2>1, <3>2 DEF GrantInv
  <2>5. \/ lastSend' = lastSend
        \/ Tick /\ lastSend' = NoKey /\ lastSend.expires <= now'
        \/ \E w \in Workers: /\ Foremost(w) /\ exec[w].pc # "idle"
                             /\ SetLastSend(w, SlotTtl(exec[w].delay)) \/ SetLastSend(w, Day)
    BY DEF Next, WorkerStep, Tick, Start, Ask, Report, Reserve, Count, Touch, Defer, Send, Resend,
       Rejected, Answered, At, redisVars, vars
  <2>6. QED
    BY <1>4, <2>1, <2>2, <2>3, <2>4, <2>5 DEF GrantInv
<1>5. CASE grant' # grant /\ grant' # NoGrant
  <2>1. PICK w \in Workers: /\ Foremost(w) /\ exec[w].pc # "idle"
                           /\ SetLastSend(w, SlotTtl(exec[w].delay)) /\ now' = now
                           /\ grant' = [stamp |-> exec[w].stamp, at |-> now, delay |-> exec[w].delay]
    BY <1>5 DEF Next, WorkerStep, Tick, Start, Ask, Report, Reserve, Count, Touch, Defer, Send, Resend,
       Answered, At, history, vars
  <2>2. exec[w].stamp <= now /\ exec[w].stamp \in Int
    BY BoundsAssumption DEF CallInv, TypeOK
  <2>3. \A p \in Processes: \A i \in 1..Len(pipe'[p]): exec'[pipe'[p][i]].stamp >= exec[w].stamp
    BY <1>3, <2>1, <2>2, LaterStamps
  <2>4. /\ lastSend'.value = exec[w].stamp /\ lastSend' # NoKey
        /\ \E d \in Delays: lastSend'.expires >= now + SlotTtl(d)
    BY <2>1, Recorded
  <2>5. QED
    BY <1>2, <2>1, <2>2, <2>3, <2>4 DEF GrantInv
<1>6. QED
  BY <1>4, <1>5 DEF GrantInv

\* Two reservations in a row of one process are a delay apart by the times they
\* claim, unless one could have expired between them: calls reach Redis in the
\* order of those times, and until then nothing takes the recorded time back.
THEOREM GrantsAreSpacedHolds ==
  ASSUME OneProcess PROVE Spec => GrantsAreSpaced
<1> DEFINE Inv == TypeOK /\ CallInv /\ PipeInv /\ GrantInv
<1>1. Init => Inv
  <2>1. Init => PipeInv /\ GrantInv
    BY DEF Init, PipeInv, Queue, GrantInv
  <2>2. QED
    BY <2>1, CallsStart
<1>2. Inv /\ [Next]_vars => Inv'
  BY CallsStay, PipeStays, GrantStays
<1>3. ASSUME Inv, [Next]_vars, NEW w \in Workers, Granted(w), grant # NoGrant
      PROVE  \/ exec[w].stamp - grant.stamp >= exec[w].delay
             \/ \E d \in Delays: now - grant.at >= SlotTtl(d)
  <2>1. Reserve(w)
    <3>1. exec[w].pc = "reserve" /\ exec'[w].pc = "reserved" /\ exec'[w] # exec[w]
      BY <1>3 DEF Granted, At
    <3>2. PICK v \in Workers: WorkerStep(v)
      BY <1>3, <3>1 DEF Next, Tick, vars
    <3>3. CASE v = w
      BY <3>1, <3>2, <3>3 DEF WorkerStep, Start, Ask, Report, Count, Touch, Defer, Send, Resend, At
    <3>4. CASE v # w
      <4>1. exec'[w] = exec[w]
        BY <1>3, <3>2, <3>4 DEF TypeOK, WorkerStep, Start, Ask, Report, Issue, Reserve, Count, Touch,
           Defer, Send, Resend, Goto, Finish
      <4>2. QED
        BY <3>1, <4>1
    <3>5. QED
      BY <3>3, <3>4
  <2>2. SlotFree(w)
    <3>1. failures' = failures /\ failures \in Int /\ exec'[w].pc = "reserved"
      BY <1>3, BoundsAssumption DEF Granted, TypeOK
    <3>2. exec'[w].pc # "reserved" \/ ~Finish(w)
      BY <1>3 DEF Finish, Idle, TypeOK
    <3>3. QED
      BY <2>1, <3>1, <3>2 DEF Reserve, Rejected
  <2>3. exec[w].stamp \in Int /\ exec[w].delay \in Nat /\ lastSend.value \in Int /\ grant.stamp \in Int
    <3>1. exec[w].stamp \in 0..MaxTime /\ exec[w].delay \in Delays \union {0}
          /\ lastSend.value \in 0..MaxTime /\ grant.stamp \in 0..MaxTime
      BY <1>3 DEF TypeOK
    <3>2. exec[w].delay \in Nat
      <4>1. \A d \in Delays: d \in Nat
        BY DelaysAssumption
      <4>2. QED
        BY <3>1, <4>1
    <3>3. 0..MaxTime \subseteq Int
      BY BoundsAssumption
    <3>4. QED
      BY <3>1, <3>2, <3>3
  <2>4. CASE lastSend = NoKey
    BY <1>3, <2>4 DEF GrantInv
  <2>5. CASE lastSend # NoKey /\ lastSend.value >= grant.stamp
    BY <2>2, <2>3, <2>5 DEF SlotFree
  <2>6. QED
    BY <1>3, <2>4, <2>5 DEF GrantInv
<1>4. Inv /\ [Next]_vars => \A w \in Workers: Granted(w) /\ grant # NoGrant =>
          \/ exec[w].stamp - grant.stamp >= exec[w].delay
          \/ \E d \in Delays: now - grant.at >= SlotTtl(d)
  BY <1>3
<1>5. QED
  BY <1>1, <1>2, <1>4, PTL DEF Spec, GrantsAreSpaced
===============================================================================
