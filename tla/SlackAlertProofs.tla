---------------------------- MODULE SlackAlertProofs ----------------------------
(***************************************************************************)
(* Proofs about SlackAlert, for any number of executions, hours of any     *)
(* length and every set of faults.                                         *)
(*                                                                         *)
(* SecondAlertIsLate is about the distance of two times, for which the     *)
(* length of an hour is a factor: after PresentHour, HourOf is not         *)
(* expanded any more.                                                      *)
(***************************************************************************)
EXTENDS SlackAlert, Integers, TLAPS

\* A call of hour h holds the key and is about to post.
Alerting(w, h) == exec[w].pc \in {"find", "post"} /\ exec[w].hour = h

\* Every call uses the key of its own hour.
KeyInv == \A w \in Workers:
    /\ exec[w].pc = "revert" => exec[w].hour \in denied
    /\ exec[w].pc \in {"set", "find", "post"} => exec[w].key = exec[w].hour /\ exec[w].hour \in called

\* While no call of an hour is late, one of them at most has got the key, and
\* the key it set is there until the hour is over.
AlertInv == \A h \in Hours \ late:
    /\ posted[h] <= 1
    /\ posted[h] > 0 => \A w \in Workers: ~Alerting(w, h)
    /\ \A v, w \in Workers: Alerting(v, h) /\ Alerting(w, h) => v = w
    /\ posted[h] > 0 \/ (\E w \in Workers: Alerting(w, h)) => expires[h] >= h * Hour + Hour

AlertOK == TypeOK /\ KeyInv /\ AlertInv

-------------------------------------------------------------------------------
(* The quotient that names an hour, of which the provers know too little *)

\* A quotient and the multiples around its dividend.
LEMMA DivFacts ==
  ASSUME NEW t \in Nat, NEW h \in Nat \ {0}
  PROVE  t \div h \in Nat /\ (t \div h) * h <= t /\ t < (t \div h) * h + h
<1>1. t \div h \in Int /\ t % h \in 0..h - 1
  OBVIOUS
<1>2. t % h = t - (t \div h) * h
  OBVIOUS
<1>3. t \div h \in Nat
  <2> DEFINE q == t \div h
  <2>1. q \in Int /\ t < q * h + h
    BY <1>1, <1>2
  <2> HIDE DEF q
  <2>2. SUFFICES ASSUME q < 0 PROVE FALSE
    BY <2>1 DEF q
  <2>3. (q + 1) * h <= 0 /\ (q + 1) * h = q * h + h
    BY <2>1, <2>2
  <2>4. QED
    BY <2>1, <2>3
<1>4. QED
  BY <1>1, <1>2, <1>3

\* Quotients are in the order of their dividends.
LEMMA DivMonotone ==
  ASSUME NEW s \in Nat, NEW t \in Nat, s <= t, NEW h \in Nat \ {0}
  PROVE  s \div h <= t \div h
<1> DEFINE p == s \div h
           q == t \div h
<1>1. p \in Nat /\ q \in Nat /\ p * h <= s /\ t < q * h + h
  BY DivFacts
<1> HIDE DEF p, q
<1>2. SUFFICES ASSUME q < p PROVE FALSE
  BY <1>1 DEF p, q
<1>3. (q + 1) * h <= p * h /\ (q + 1) * h = q * h + h
  BY <1>1, <1>2
<1>4. QED
  BY <1>1, <1>3

-------------------------------------------------------------------------------
(* Hours *)

\* The present hour.
LEMMA PresentHour ==
  ASSUME now \in 0..MaxTime
  PROVE  /\ HourOf(now) \in Hours /\ Hours \subseteq Nat
         /\ HourOf(now) * Hour <= now /\ now < HourOf(now) * Hour + Hour
<1>1. now \in Nat /\ MaxTime \in Nat /\ now <= MaxTime /\ Hour \in Nat \ {0}
  BY TimesAssumption
<1>2. now \div Hour \in Nat /\ (now \div Hour) * Hour <= now /\ now < (now \div Hour) * Hour + Hour
  BY <1>1, DivFacts
<1>3. now \div Hour <= MaxTime \div Hour /\ MaxTime \div Hour \in Nat
  BY <1>1, DivFacts, DivMonotone
<1> DEFINE q == now \div Hour
           last == MaxTime \div Hour
<1> HIDE DEF q, last
<1>4. q \in 0..last /\ 0..last \subseteq Nat
  BY <1>2, <1>3 DEF q, last
<1>5. QED
  BY <1>2, <1>4 DEF HourOf, Hours, q, last

\* Time begins in an hour.
LEMMA ZeroHour == 0 \in Hours
<1>1. HourOf(MaxTime) \in Nat
  BY TimesAssumption, DivFacts DEF HourOf
<1>2. QED
  BY <1>1 DEF Hours

-------------------------------------------------------------------------------
\* The initial state satisfies the invariant.
LEMMA AlertInit == Init => AlertOK
<1> SUFFICES ASSUME Init PROVE AlertOK
  OBVIOUS
<1>1. 0 \in Hours
  BY ZeroHour
<1>2. TypeOK
  <2>1. connection \in BOOLEAN
    BY DEF Init
  <2>2. QED
    BY <1>1, <2>1, TimesAssumption DEF Init, TypeOK, Idle, PCs
<1>3. KeyInv /\ AlertInv
  BY DEF Init, KeyInv, AlertInv, Alerting, Idle
<1>4. QED
  BY <1>2, <1>3 DEF AlertOK

\* A call that ends, or goes on to post, is the only one to change.
LEMMA GotoFacts ==
  ASSUME TypeOK, NEW w \in Workers,
         \/ Finish(w) \/ Goto(w, "find") \/ Goto(w, "post")
  PROVE  /\ exec' \in [Workers -> [pc: PCs, hour: Hours, key: Hours]]
         /\ \A v \in Workers \ {w}: exec'[v] = exec[v]
         /\ exec'[w].pc # "idle" => exec'[w].hour = exec[w].hour /\ exec'[w].key = exec[w].key
         /\ Finish(w) => exec'[w].pc = "idle"
         /\ \A label \in {"find", "post"}: Goto(w, label) => exec'[w].pc = label
<1>1. 0 \in Hours
  BY ZeroHour
<1>2. QED
  BY <1>1 DEF TypeOK, Finish, Goto, Idle, PCs

\* A job is denied in the present hour.
LEMMA DenyStep == ASSUME AlertOK, NEW w \in Workers, Deny(w) PROVE AlertOK'
<1>1. HourOf(now) \in Hours /\ 0 \in Hours
  BY PresentHour, ZeroHour DEF AlertOK, TypeOK
<1>2. /\ exec' \in [Workers -> [pc: PCs, hour: Hours, key: Hours]]
      /\ exec'[w] = [pc |-> "revert", hour |-> HourOf(now), key |-> 0]
      /\ \A v \in Workers \ {w}: exec'[v] = exec[v]
  BY <1>1 DEF AlertOK, TypeOK, Deny, PCs
<1>3. TypeOK'
  BY <1>1, <1>2 DEF AlertOK, TypeOK, Deny
<1>4. KeyInv'
  BY <1>2 DEF AlertOK, KeyInv, Deny
<1>5. \A v \in Workers, h \in Hours: Alerting(v, h)' => Alerting(v, h)
  BY <1>2 DEF Alerting
<1>6. AlertInv'
  BY <1>5 DEF AlertOK, AlertInv, Deny
<1>7. QED
  BY <1>3, <1>4, <1>6 DEF AlertOK

\* A call is made: it has the key of the present hour still before it.
LEMMA NotifyStep == ASSUME AlertOK, NEW w \in Workers, Notify(w) PROVE AlertOK'
<1>1. HourOf(now) \in Hours /\ exec[w].hour \in denied
  BY PresentHour DEF AlertOK, TypeOK, KeyInv, Notify, At
<1>2. /\ exec' \in [Workers -> [pc: PCs, hour: Hours, key: Hours]]
      /\ \/ exec'[w].pc = "idle"
         \/ exec'[w] = [pc |-> "set", hour |-> HourOf(now), key |-> HourOf(now)] /\ HourOf(now) \in called'
      /\ \A v \in Workers \ {w}: exec'[v] = exec[v]
  <2>1. CASE Finish(w)
    BY <2>1, GotoFacts DEF AlertOK
  <2>2. CASE ~Finish(w)
    BY <1>1, <2>2 DEF AlertOK, TypeOK, Notify, KeyHour, PCs
  <2>3. QED
    BY <2>1, <2>2
<1>3. called \subseteq called' /\ called' \in SUBSET Hours /\ missed' \in SUBSET denied
  BY <1>1 DEF AlertOK, TypeOK, Notify
<1>4. TypeOK'
  BY <1>2, <1>3 DEF AlertOK, TypeOK, Notify
<1>5. KeyInv'
  BY <1>2, <1>3 DEF AlertOK, KeyInv, Notify
<1>6. \A v \in Workers, h \in Hours: Alerting(v, h)' => Alerting(v, h)
  BY <1>2 DEF Alerting
<1>7. AlertInv'
  BY <1>6 DEF AlertOK, AlertInv, Notify
<1>8. QED
  BY <1>4, <1>5, <1>7 DEF AlertOK

\* Redis answers a call: in time, it is the first one of its hour to get the key, or
\* it gets none.
LEMMA SetStep == ASSUME AlertOK, NEW w \in Workers, SetNX(w) PROVE AlertOK'
<1> DEFINE h == exec[w].hour
<1>1. /\ exec[w].pc = "set" /\ exec[w].key = h /\ h \in called /\ h \in Hours
      /\ \/ Finish(w) /\ expires' = expires
         \/ (Finish(w) \/ Goto(w, "find")) /\ ~HasKey(h) /\ SetKey(h)
      /\ failed' \in {failed, failed \union {h}}
      /\ UNCHANGED <<now, connection, denied, missed, called, posted>>
      /\ late' = IF HourOf(now) # h THEN late \union {h} ELSE late
  BY DEF AlertOK, TypeOK, KeyInv, SetNX, At, Fail
<1>2. /\ now \in Nat /\ Hour \in Nat \ {0} /\ now <= MaxTime
      /\ Hours \subseteq Nat
      /\ HourOf(now) * Hour <= now /\ now < HourOf(now) * Hour + Hour
  BY PresentHour, TimesAssumption DEF AlertOK, TypeOK
<1> HIDE DEF h
<1>3. /\ expires' \in [Hours -> 0..MaxTime + Hour]
      /\ \A g \in Hours: expires'[g] >= expires[g]
      /\ SetKey(h) => expires'[h] = now + Hour
  <2>1. /\ expires \in [Hours -> 0..MaxTime + Hour] /\ MaxTime \in Nat
        /\ now + Hour \in 0..MaxTime + Hour
    BY <1>2, TimesAssumption DEF AlertOK, TypeOK
  <2>2. \A g \in Hours: expires[g] \in Nat
    BY <2>1, <1>2
  <2>3. CASE expires' = expires
    BY <2>1, <2>2, <2>3, <1>1 DEF SetKey, KeyTtl
  <2>4. CASE ~HasKey(h) /\ SetKey(h)
    BY <2>1, <2>2, <2>4, <1>1, <1>2 DEF SetKey, HasKey, KeyTtl
  <2>5. QED
    BY <1>1, <2>3, <2>4
<1>4. /\ exec' \in [Workers -> [pc: PCs, hour: Hours, key: Hours]]
      /\ \A v \in Workers \ {w}: exec'[v] = exec[v]
      /\ exec'[w].pc \in {"idle", "find"}
      /\ exec'[w].pc # "idle" => exec'[w].hour = h /\ exec'[w].key = h
  BY <1>1, GotoFacts DEF AlertOK, h
<1>5. TypeOK'
  BY <1>1, <1>3, <1>4 DEF AlertOK, TypeOK
<1>6. KeyInv'
  BY <1>1, <1>4 DEF AlertOK, KeyInv
<1>7. ASSUME NEW g \in Hours, g \notin late'
      PROVE  /\ posted'[g] <= 1
             /\ posted'[g] > 0 => \A v \in Workers: ~Alerting(v, g)'
             /\ \A u, v \in Workers: Alerting(u, g)' /\ Alerting(v, g)' => u = v
             /\ posted'[g] > 0 \/ (\E v \in Workers: Alerting(v, g)')
                   => expires'[g] >= g * Hour + Hour
  <2>1. g \notin late
    BY <1>1, <1>7
  <2>2. \A v \in Workers \ {w}: Alerting(v, g)' <=> Alerting(v, g)
    BY <1>4 DEF Alerting
  <2>3. CASE ~Alerting(w, g)'
    <3>1. \A v \in Workers: Alerting(v, g)' => Alerting(v, g)
      BY <2>2, <2>3
    <3>2. expires[g] >= g * Hour + Hour => expires'[g] >= g * Hour + Hour
      BY <1>2, <1>3 DEF AlertOK, TypeOK
    <3>3. QED
      BY <1>1, <2>1, <3>1, <3>2 DEF AlertOK, AlertInv
  <2>4. CASE Alerting(w, g)'
    <3>1. g = h /\ HourOf(now) = h /\ ~HasKey(h) /\ SetKey(h)
      <4>1. g = h /\ exec'[w].pc = "find"
        BY <1>4, <2>4 DEF Alerting
      <4>2. ~Finish(w)
        BY <4>1, GotoFacts DEF AlertOK
      <4>3. QED
        BY <1>1, <1>7, <4>1, <4>2
    <3>2. ~(expires[g] >= g * Hour + Hour)
      BY <1>2, <3>1 DEF HasKey, AlertOK, TypeOK
    <3>3. posted[g] = 0 /\ \A v \in Workers: ~Alerting(v, g)
      BY <2>1, <3>2 DEF AlertOK, AlertInv, TypeOK
    <3>4. expires'[g] >= g * Hour + Hour
      BY <1>2, <1>3, <3>1
    <3>5. QED
      BY <1>1, <2>2, <3>3, <3>4
  <2>5. QED
    BY <2>3, <2>4
<1>8. AlertInv'
  BY <1>7 DEF AlertInv
<1>9. QED
  BY <1>5, <1>6, <1>8 DEF AlertOK

\* The connection is found, or the call fails.
LEMMA FindStep == ASSUME AlertOK, NEW w \in Workers, FindConnection(w) PROVE AlertOK'
<1>1. /\ exec[w].pc = "find" /\ exec[w].hour \in called
      /\ Finish(w) \/ Goto(w, "post")
      /\ failed' \in {failed, failed \union {exec[w].hour}}
  BY DEF AlertOK, KeyInv, FindConnection, At, Fail
<1>2. /\ exec' \in [Workers -> [pc: PCs, hour: Hours, key: Hours]]
      /\ \A v \in Workers \ {w}: exec'[v] = exec[v]
      /\ exec'[w].pc # "idle" => exec'[w].hour = exec[w].hour /\ exec'[w].key = exec[w].key
  BY <1>1, GotoFacts DEF AlertOK
<1>3. TypeOK' /\ KeyInv'
  <2>1. TypeOK'
    BY <1>1, <1>2 DEF AlertOK, TypeOK, FindConnection
  <2>2. exec'[w].pc \in {"idle", "post"} /\ called' = called /\ denied' = denied
    BY <1>1, GotoFacts DEF AlertOK, FindConnection
  <2>3. KeyInv'
    BY <1>1, <1>2, <2>2 DEF AlertOK, KeyInv
  <2>4. QED
    BY <2>1, <2>3
<1>4. \A v \in Workers, h \in Hours: Alerting(v, h)' => Alerting(v, h)
  BY <1>1, <1>2, GotoFacts DEF AlertOK, Alerting
<1>5. AlertInv'
  BY <1>4 DEF AlertOK, AlertInv, FindConnection
<1>6. QED
  BY <1>3, <1>5 DEF AlertOK

\* The one call that has got the key posts, and is done with it.
LEMMA PostStep == ASSUME AlertOK, NEW w \in Workers, Post(w) PROVE AlertOK'
<1> DEFINE h == exec[w].hour
<1>1. /\ exec[w].pc = "post" /\ h \in called /\ h \in Hours /\ Alerting(w, h)
      /\ Finish(w)
      /\ failed' \in {failed, failed \union {h}}
      /\ posted' \in {posted, [posted EXCEPT ![h] = @ + 1]}
      /\ UNCHANGED <<now, expires, connection, denied, missed, called, late>>
  BY DEF AlertOK, TypeOK, KeyInv, Post, At, Fail, Alerting
<1>2. /\ exec' \in [Workers -> [pc: PCs, hour: Hours, key: Hours]]
      /\ \A v \in Workers \ {w}: exec'[v] = exec[v]
      /\ exec'[w].pc = "idle"
  BY <1>1, GotoFacts DEF AlertOK
<1> HIDE DEF h
<1>3. TypeOK' /\ KeyInv'
  <2>1. failed' \in SUBSET called /\ posted' \in [Hours -> Nat]
    BY <1>1 DEF AlertOK, TypeOK
  <2>2. TypeOK'
    BY <1>1, <1>2, <2>1 DEF AlertOK, TypeOK
  <2>3. KeyInv'
    BY <1>1, <1>2 DEF AlertOK, KeyInv
  <2>4. QED
    BY <2>2, <2>3
<1>4. \A v \in Workers, g \in Hours: Alerting(v, g)' => Alerting(v, g) /\ v # w
  BY <1>2 DEF Alerting
<1>5. ASSUME NEW g \in Hours \ late
      PROVE  /\ posted'[g] <= 1
             /\ posted'[g] > 0 => \A v \in Workers: ~Alerting(v, g)'
             /\ \A u, v \in Workers: Alerting(u, g)' /\ Alerting(v, g)' => u = v
             /\ posted'[g] > 0 \/ (\E v \in Workers: Alerting(v, g)')
                   => expires[g] >= g * Hour + Hour
  <2>1. CASE posted'[g] = posted[g]
    BY <1>4, <2>1 DEF AlertOK, AlertInv
  <2>2. CASE posted'[g] # posted[g]
    <3>1. g = h /\ posted'[g] = posted[g] + 1
      BY <1>1, <2>2 DEF AlertOK, TypeOK
    <3>2. posted[g] = 0 /\ \A v \in Workers: Alerting(v, g) => v = w
      BY <1>1, <3>1 DEF AlertOK, AlertInv, TypeOK
    <3>3. QED
      BY <1>1, <1>4, <3>1, <3>2 DEF AlertOK, AlertInv
  <2>3. QED
    BY <2>1, <2>2
<1>6. AlertInv'
  BY <1>1, <1>5 DEF AlertInv
<1>7. QED
  BY <1>3, <1>6 DEF AlertOK

\* Every step preserves the invariant.
LEMMA AlertNext == AlertOK /\ [Next]_vars => AlertOK'
<1> SUFFICES ASSUME AlertOK, [Next]_vars PROVE AlertOK'
  OBVIOUS
<1>1. CASE Tick \/ ToggleConnection \/ UNCHANGED vars
  <2>1. UNCHANGED <<exec, expires, denied, missed, called, late, failed, posted>>
    BY <1>1 DEF Tick, ToggleConnection, vars, history
  <2>2. now' \in 0..MaxTime
    BY <1>1, TimesAssumption DEF AlertOK, TypeOK, Tick, ToggleConnection, vars
  <2>3. connection' \in BOOLEAN
    BY <1>1 DEF AlertOK, TypeOK, Tick, ToggleConnection, vars
  <2>4. QED
    BY <2>1, <2>2, <2>3 DEF AlertOK, TypeOK, KeyInv, AlertInv, Alerting
<1>2. CASE \E w \in Workers: Deny(w) \/ Notify(w) \/ SetNX(w) \/ FindConnection(w) \/ Post(w)
  BY <1>2, DenyStep, NotifyStep, SetStep, FindStep, PostStep
<1>3. QED
  BY <1>1, <1>2 DEF Next

\* The invariant holds of the specification.
LEMMA AlertInvariance == Spec => []AlertOK
  BY AlertInit, AlertNext, PTL DEF Spec

\* The variables of the alert keep their types.
THEOREM AlertTypeCorrect == Spec => []TypeOK
<1>1. AlertOK => TypeOK
  BY DEF AlertOK
<1>2. QED
  BY <1>1, AlertInvariance, PTL

\* However many executions are denied, and whatever fails, an hour is announced twice
\* only if Redis executed a call of it after its end (service.ts:107).
THEOREM SecondAlertIsLateHolds == Spec => []SecondAlertIsLate
<1>1. AlertOK => SecondAlertIsLate
  BY DEF AlertOK, TypeOK, AlertInv, SecondAlertIsLate
<1>2. QED
  BY <1>1, AlertInvariance, PTL
===============================================================================
