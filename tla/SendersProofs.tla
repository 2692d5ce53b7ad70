---------------------------- MODULE SendersProofs ----------------------------
(***************************************************************************)
(* Proofs about Senders, and with it Accounts, for any number of accounts, *)
(* requests, senders and failures.                                         *)
(*                                                                         *)
(* AccountInv says of each request for whom it acts and what it found,     *)
(* which another request can only overtake by crossing it; the senders do  *)
(* not occur in it.  DefaultInv and Holds rest on it, and are about the    *)
(* senders.                                                                *)
(***************************************************************************)
EXTENDS Senders, FiniteSetTheorems, TLAPS

AuthAts == {"session", "dev", "devCreate"}
SignInAts == {"find", "create", "update"}
RouteAts == {"route", "default", "memory", "memoryDefault"}

Outcomes == {"none", "unauthorized", "cookie", "error", "never", "listed", "deleted", "refused"}

RequestRecords ==
    [at: AuthAts \union SignInAts \union RouteAts \union {"idle", "answered"},
     op: SignIns \union {"none", "route", "create", "delete", "schedule"},
     token: Emails \union {Nobody}, header: Emails \union {Nobody},
     arg: Emails \union Profiles \union SenderIds \union {Nobody},
     who: Emails \union MemoryUsers \union {Nobody},
     result: Outcomes \union SenderIds,
     lapsed: BOOLEAN, crossed: BOOLEAN, clashed: BOOLEAN]

Statements ==
    [by: Requests, do: {"default", "create", "delete"}, user: Emails \union MemoryUsers,
     arg: SenderIds \union {Nobody}]

TypeInv ==
    /\ TypeOK
    /\ request \in [Requests -> RequestRecords]
    /\ late \subseteq Statements
    /\ \A s \in late: s.do # "delete" => s.user \in Emails

\* Where a request is says what it asks for, and whether it acts for someone.
PlaceInv(r) ==
    LET q == request[r] IN
    /\ q.at = "idle" => q = NoRequest
    /\ q.at # "answered" => q.result = "none"
    /\ q.at \in AuthAts => q.op = "route" /\ q.who = Nobody
    /\ q.at = "session" => q.token \in Emails
    /\ q.at \in {"dev", "devCreate"} =>
         (q.token = Nobody \/ q.lapsed) /\ (isProd => q.header # Nobody)
    /\ q.at \in RouteAts => q.op = "route" /\ q.who # Nobody
    /\ q.at \in SignInAts =>
         \/ q.op = "google" /\ q.arg \in Profiles
         \/ q.op = "devLogin" /\ q.arg \in Emails
    /\ q.at = "update" => q.op = "google" /\ q.who \in Emails

\* What a request found still is so, unless another one crossed it.
FoundInv(r) ==
    LET q == request[r] IN
    ~q.crossed =>
        /\ q.at = "devCreate" => users[Dev(r)] = "none"
        /\ q.at = "create" => Matching(r) = {}
        /\ q.at = "update" =>
             \/ \A e \in Emails \ {q.who}: users[e] # q.arg.id
             \/ q.who = q.arg.email /\ Split(q.arg)

\* What ActsForItsAccount and SignInSucceeds say of one request.
ActsFor(r) ==
    LET q == request[r] IN
    q.op \notin SignIns /\ q.who # Nobody =>
        \/ q.who = Own(r)
        \/ q.who = Memory[Own(r)] /\ q.lapsed
        \/ q.who = Memory[Own(r)] /\ q.token = Nobody /\ (q.crossed \/ q.clashed)
        \/ q.lapsed /\ q.who \in {Dev(r), Memory[Dev(r)]} /\ (isProd => q.header # Nobody)

Succeeds(r) ==
    request[r].op \in SignIns /\ request[r].result \in {"error", "never"} =>
        \/ request[r].lapsed \/ request[r].crossed
        \/ request[r].op = "google" /\ Split(request[r].arg)
        \/ request[r].op = "devLogin" /\ request[r].clashed

RequestInv(r) == PlaceInv(r) /\ FoundInv(r) /\ ActsFor(r) /\ Succeeds(r)

\* No two accounts have one of Google's ids.
IdsInv == \A e, f \in Emails: users[e] \in GoogleIds /\ users[f] = users[e] => e = f

AccountInv == IdsInv /\ \A r \in Requests: RequestInv(r)

DefaultOf(u, x) == x \in Kept("db", u) /\ senders[x].default

\* About to create the default of u.
Making(u, r) == At(r, "default") /\ request[r].who = u

\* As long as no creations overlapped, an account has a default or one request
\* that is about to create it.
DefaultInv ==
    \A u \in Emails \ overlapped:
        /\ \A x, y \in SenderIds: DefaultOf(u, x) /\ DefaultOf(u, y) => x = y
        /\ \A r \in Requests: Making(u, r) =>
             /\ \A x \in SenderIds: ~DefaultOf(u, x)
             /\ \A s \in Requests: Making(u, s) => s = r
        /\ \A s \in late: s.do = "default" => s.user # u

-------------------------------------------------------------------------------
(* Types *)

\* Every record that a step makes of a request is one.
LEMMA RecordTypes ==
  ASSUME TypeInv, NEW r \in Requests
  PROVE  /\ NoRequest \in RequestRecords
         /\ \A label \in AuthAts \union SignInAts \union RouteAts: Moved(r, label) \in RequestRecords
         /\ \A u \in Emails \union MemoryUsers: Acting(r, u) \in RequestRecords
         /\ \A x \in Outcomes \union SenderIds:
              Answered(r, x) \in RequestRecords /\ Created(r, x) \in RequestRecords
         /\ \A e \in Emails: SignedIn(r, e) \in RequestRecords
         /\ \A new \in RequestRecords:
              Lapsed(new) \in RequestRecords /\ Clashed(new) \in RequestRecords
<1>1. request[r] \in RequestRecords
  BY DEF TypeInv
<1>2. ASSUME NEW new \in RequestRecords
      PROVE  Lapsed(new) \in RequestRecords /\ Clashed(new) \in RequestRecords
  <2>1. Lapsed(new) \in RequestRecords
    BY DEF Lapsed, RequestRecords
  <2>2. Clashed(new) \in RequestRecords
    BY DEF Clashed, RequestRecords
  <2>3. QED
    BY <2>1, <2>2
<1>3. ASSUME NEW label \in AuthAts \union SignInAts \union RouteAts
      PROVE  Moved(r, label) \in RequestRecords
  BY <1>1 DEF Moved, RequestRecords
<1>4. NoRequest \in RequestRecords
  BY DEF NoRequest, RequestRecords, Outcomes
<1>5. ASSUME NEW u \in Emails \union MemoryUsers PROVE Acting(r, u) \in RequestRecords
  BY <1>1 DEF Acting, RequestRecords, RouteAts
<1>6. ASSUME NEW x \in Outcomes \union SenderIds
      PROVE  Answered(r, x) \in RequestRecords /\ Created(r, x) \in RequestRecords
  <2>1. Answered(r, x) \in RequestRecords
    BY <1>1 DEF Answered, RequestRecords
  <2>2. QED
    BY <2>1 DEF Created, RequestRecords
<1>7. ASSUME NEW e \in Emails PROVE SignedIn(r, e) \in RequestRecords
  <2>1. Answered(r, "cookie") \in RequestRecords
    BY <1>6 DEF Outcomes
  <2>2. QED
    BY <2>1 DEF SignedIn, RequestRecords
<1>8. QED
  BY <1>2, <1>3, <1>4, <1>5, <1>6, <1>7

\* A request becomes another, and no other request does.
LEMMA BecomeStep ==
  ASSUME TypeInv, NEW r \in Requests, NEW new \in RequestRecords, Become(r, new)
  PROVE  /\ request' \in [Requests -> RequestRecords] /\ request'[r] = new
         /\ \A s \in Requests \ {r}: request'[s] = request[s]
  BY DEF TypeInv, Become

\* A write of an account changes its row and what the others are told of it.
LEMMA WriteStep ==
  ASSUME TypeInv, NEW r \in Requests, NEW new \in RequestRecords, NEW e \in Emails,
         NEW g \in GoogleIds \union MadeUp, WriteUser(r, e, g, new)
  PROVE  /\ request' \in [Requests -> RequestRecords] /\ request'[r] = new
         /\ \A s \in Requests \ {r}:
              request'[s] = [request[s] EXCEPT !.crossed = @ \/ After(s, e, g)]
         /\ users' \in [Emails -> GoogleIds \union MadeUp \union {"none"}]
         /\ users'[e] = g /\ \A f \in Emails \ {e}: users'[f] = users[f]
<1>1. \A s \in Requests:
        [request[s] EXCEPT !.crossed = @ \/ After(s, e, g)] \in RequestRecords
  <2> SUFFICES ASSUME NEW s \in Requests
               PROVE  [request[s] EXCEPT !.crossed = @ \/ After(s, e, g)] \in RequestRecords
    OBVIOUS
  <2> DEFINE c == request[s].crossed \/ After(s, e, g)
  <2>1. c \in BOOLEAN /\ request[s] \in RequestRecords
    BY DEF TypeInv
  <2> HIDE DEF c
  <2>2. [request[s] EXCEPT !.crossed = c] \in RequestRecords
    BY <2>1 DEF RequestRecords
  <2>3. QED
    BY <2>2 DEF c
<1>2. QED
  BY <1>1 DEF WriteUser, TypeInv, TypeOK, AccountsTypeOK

\* Memory forgets no user, and has one for an email only.
MemoryGrows == remembered \subseteq remembered' /\ remembered' \subseteq Emails

\* The accounts' variables keep their types.
LEMMA AccountTypes ==
  ASSUME TypeInv, request' \in [Requests -> RequestRecords],
         users' \in [Emails -> GoogleIds \union MadeUp \union {"none"}],
         UNCHANGED isProd, UNCHANGED failures \/ Throws, MemoryGrows,
         UNCHANGED <<isPostgresConnected, senderVars>>
  PROVE  TypeInv'
<1>1. failures' \in 0..MaxFailures
  BY FailuresAssumption DEF TypeInv, TypeOK, AccountsTypeOK, Throws
<1>2. \A s \in Requests:
        /\ {request'[s].token, request'[s].header} \subseteq Emails \union {Nobody}
        /\ request'[s].who \in Emails \union MemoryUsers \union {Nobody}
        /\ {request'[s].lapsed, request'[s].crossed, request'[s].clashed} \subseteq BOOLEAN
  BY DEF RequestRecords
<1>3. AccountsTypeOK'
  BY <1>1, <1>2 DEF TypeInv, TypeOK, AccountsTypeOK, MemoryGrows
<1>4. QED
  BY <1>3 DEF TypeInv, TypeOK, senderVars, Kept

-------------------------------------------------------------------------------
(* Accounts *)

\* The initial state satisfies the invariant of accounts.
LEMMA AccountInit == Init => TypeInv /\ AccountInv
<1> SUFFICES ASSUME Init PROVE TypeInv /\ AccountInv
  OBVIOUS
<1>1. NoRequest \in RequestRecords
  BY DEF NoRequest, RequestRecords, Outcomes
<1>2. TypeOK
  BY <1>1, FailuresAssumption, SendersAssumption, DemoAssumption
  DEF Init, AccountsInit, TypeOK, AccountsTypeOK, RequestRecords, Sender, Unborn, Stores, MemoryUsers
<1>3. TypeInv
  BY <1>1, <1>2 DEF Init, AccountsInit, TypeInv
<1>4. IdsInv
  BY GoogleIdsAssumption DEF Init, AccountsInit, IdsInv
<1>5. ASSUME NEW r \in Requests PROVE RequestInv(r)
  BY <1>5
  DEF Init, AccountsInit, RequestInv, PlaceInv, FoundInv, ActsFor, Succeeds, NoRequest,
      AuthAts, RouteAts, SignInAts, SignIns
<1>6. QED
  BY <1>3, <1>4, <1>5 DEF AccountInv

\* If no account is written, only the request that goes on has to be looked at.
LEMMA OthersStay ==
  ASSUME AccountInv, NEW r \in Requests, \A s \in Requests \ {r}: request'[s] = request[s],
         UNCHANGED <<isProd, users>>, RequestInv(r)'
  PROVE  AccountInv'
<1>1. ASSUME NEW s \in Requests \ {r} PROVE RequestInv(s)'
  BY <1>1
  DEF AccountInv, RequestInv, PlaceInv, FoundInv, ActsFor, Succeeds, Matching, Split, Own, Dev
<1>2. QED
  BY <1>1 DEF AccountInv, IdsInv

\* A write leaves what the other requests found as it was, or crosses them.
LEMMA OthersCross ==
  ASSUME TypeInv, AccountInv, AllAnswered, NEW r \in Requests, NEW e \in Emails,
         NEW g \in GoogleIds \union MadeUp,
         g \in MadeUp \/ \A f \in Emails \ {e}: users[f] # g,
         users' \in [Emails -> GoogleIds \union MadeUp \union {"none"}],
         users'[e] = g, \A f \in Emails \ {e}: users'[f] = users[f],
         \A s \in Requests \ {r}:
             request'[s] = [request[s] EXCEPT !.crossed = @ \/ After(s, e, g)],
         UNCHANGED isProd, RequestInv(r)'
  PROVE  AccountInv'
<1>1. IdsInv'
  BY GoogleIdsAssumption DEF AccountInv, IdsInv, MadeUp
<1>2. ASSUME NEW s \in Requests \ {r} PROVE RequestInv(s)'
  <2> DEFINE q == request[s]
             c == q.crossed \/ After(s, e, g)
  <2>1. /\ request[s] \in RequestRecords /\ RequestInv(s) /\ q.at # "answered" /\ c \in BOOLEAN
        /\ request'[s] = [q EXCEPT !.crossed = c]
    BY DEF TypeInv, AccountInv, AllAnswered, At
  <2>2. q.at = "idle" => ~c /\ q = NoRequest
    BY <2>1 DEF RequestInv, PlaceInv, After, NoRequest
  <2> HIDE DEF c
  <2>3. /\ request'[s].at = q.at /\ request'[s].op = q.op /\ request'[s].token = q.token
        /\ request'[s].arg = q.arg /\ request'[s].who = q.who /\ request'[s].result = q.result
        /\ request'[s].lapsed = q.lapsed /\ request'[s].crossed = c
        /\ request'[s].clashed = q.clashed /\ request'[s].header = q.header
    BY <2>1 DEF RequestRecords
  <2>4. PlaceInv(s)'
    <3>1. q.at = "idle" => request'[s] = NoRequest
      <4> SUFFICES ASSUME q.at = "idle" PROVE request'[s] = NoRequest
        OBVIOUS
      <4>1. c = FALSE /\ q = NoRequest
        BY <2>1, <2>2
      <4>2. request'[s] = [NoRequest EXCEPT !.crossed = FALSE]
        BY <2>1, <4>1
      <4>3. QED
        BY <4>2 DEF NoRequest
    <3>2. QED
      BY <2>1, <2>3, <3>1 DEF RequestInv, PlaceInv
  <2>5. FoundInv(s)'
    <3> SUFFICES ASSUME ~c
                 PROVE  /\ q.at = "devCreate" => users'[Dev(s)] = "none"
                        /\ q.at = "create" => Matching(s)' = {}
                        /\ q.at = "update" =>
                             \/ \A f \in Emails \ {q.who}: users'[f] # q.arg.id
                             \/ q.who = q.arg.email /\ Split(q.arg)'
      BY <2>3 DEF FoundInv, Dev
    <3>1. ~q.crossed /\ ~After(s, e, g) /\ FoundInv(s) /\ PlaceInv(s)
      BY <2>1 DEF c, RequestInv
    <3>2. ASSUME q.at = "devCreate" PROVE users'[Dev(s)] = "none"
      <4>1. Dev(s) \in Emails /\ Dev(s) # e /\ users[Dev(s)] = "none"
        BY <2>1, <3>1, <3>2, DemoAssumption DEF FoundInv, After, Dev, RequestRecords
      <4>2. QED
        BY <4>1
    <3>3. ASSUME q.at = "create", q.op = "google" PROVE Matching(s)' = {}
      <4>1. q.arg \in Profiles /\ q.arg.email # e /\ q.arg.id # g /\ Matching(s) = {}
        BY <3>1, <3>3 DEF FoundInv, PlaceInv, After, SignInAts
      <4>2. \A f \in Emails: users[f] # q.arg.id /\ (f = q.arg.email => users[f] = "none")
        BY <3>3, <4>1 DEF Matching
      <4>3. \A f \in Emails: users'[f] # q.arg.id /\ (f = q.arg.email => users'[f] = "none")
        BY <4>1, <4>2
      <4>4. QED
        BY <2>3, <3>3, <4>3 DEF Matching
    <3>4. ASSUME q.at = "create", q.op = "devLogin" PROVE Matching(s)' = {}
      <4>1. q.arg \in Emails /\ q.arg # e /\ Matching(s) = {}
        BY <3>1, <3>4 DEF FoundInv, PlaceInv, After, SignInAts
      <4>2. users[q.arg] = "none"
        BY <3>4, <4>1 DEF Matching
      <4>3. users'[q.arg] = "none"
        BY <4>1, <4>2
      <4>4. QED
        BY <2>3, <3>4, <4>1, <4>3 DEF Matching
    <3>5. ASSUME q.at = "update"
          PROVE  \/ \A f \in Emails \ {q.who}: users'[f] # q.arg.id
                 \/ q.who = q.arg.email /\ Split(q.arg)'
      <4>1. /\ q.arg \in Profiles /\ q.who \in Emails /\ q.arg.email # e /\ q.arg.id # g
            /\ \/ \A f \in Emails \ {q.who}: users[f] # q.arg.id
               \/ q.who = q.arg.email /\ Split(q.arg)
        BY <3>1, <3>5 DEF FoundInv, PlaceInv, After, SignInAts
      <4>2. q.arg.id \in GoogleIds /\ q.arg.email \in Emails
        BY <4>1, ProfilesAssumption
      <4>3. CASE \A f \in Emails \ {q.who}: users[f] # q.arg.id
        BY <3>5, <4>1, <4>3
      <4>4. CASE q.who = q.arg.email /\ Split(q.arg)
        <5>1. PICK f \in Emails \ {q.who}: users[f] = q.arg.id
          BY <4>4 DEF Split
        <5>2. \A h \in Emails \ {f}: users[h] # q.arg.id
          BY <4>2, <5>1 DEF AccountInv, IdsInv
        <5>3. CASE f = e
          BY <3>5, <4>1, <5>2, <5>3
        <5>4. CASE f # e
          <6>1. users'[q.arg.email] \notin {"none", q.arg.id} /\ users'[f] = q.arg.id
            BY <4>1, <4>2, <4>4, <5>1, <5>4 DEF Split
          <6>2. QED
            BY <2>3, <4>4, <5>1, <6>1 DEF Split
        <5>5. QED
          BY <5>3, <5>4
      <4>5. QED
        BY <4>1, <4>3, <4>4
    <3>6. q.at = "create" => q.op \in {"google", "devLogin"}
      BY <3>1 DEF PlaceInv, SignInAts
    <3>7. QED
      BY <3>2, <3>3, <3>4, <3>5, <3>6
  <2>6. ActsFor(s)'
    BY <2>1, <2>3 DEF c, RequestInv, ActsFor, Own, Dev
  <2>7. Succeeds(s)'
    BY <2>1, <2>3 DEF RequestInv, PlaceInv, Succeeds
  <2>8. QED
    BY <2>4, <2>5, <2>6, <2>7 DEF RequestInv
<1>3. QED
  BY <1>1, <1>2 DEF AccountInv

\* A request that a step of requireAuth or of a sign-in moves on, and nothing else.
LEMMA MovesOn ==
  ASSUME TypeInv, AccountInv, NEW r \in Requests, NEW new \in RequestRecords, Become(r, new),
         UNCHANGED <<isProd, users>>, UNCHANGED failures \/ Throws, MemoryGrows,
         UNCHANGED <<isPostgresConnected, senderVars>>, RequestInv(r)'
  PROVE  TypeInv' /\ AccountInv'
<1>1. request' \in [Requests -> RequestRecords] /\ \A s \in Requests \ {r}: request'[s] = request[s]
  BY BecomeStep
<1>2. TypeInv'
  BY <1>1, AccountTypes DEF TypeInv, TypeOK, AccountsTypeOK
<1>3. AccountInv'
  BY <1>1, OthersStay
<1>4. QED
  BY <1>2, <1>3

\* A request that writes an account.
LEMMA Writes ==
  ASSUME TypeInv, AccountInv, AllAnswered, NEW r \in Requests, NEW new \in RequestRecords,
         NEW e \in Emails, NEW g \in GoogleIds \union MadeUp,
         g \in MadeUp \/ \A f \in Emails \ {e}: users[f] # g, WriteUser(r, e, g, new),
         UNCHANGED isProd, UNCHANGED failures \/ Throws, MemoryGrows,
         UNCHANGED <<isPostgresConnected, senderVars>>, RequestInv(r)'
  PROVE  TypeInv' /\ AccountInv'
<1>1. /\ request' \in [Requests -> RequestRecords]
      /\ \A s \in Requests \ {r}:
           request'[s] = [request[s] EXCEPT !.crossed = @ \/ After(s, e, g)]
      /\ users' \in [Emails -> GoogleIds \union MadeUp \union {"none"}]
      /\ users'[e] = g /\ \A f \in Emails \ {e}: users'[f] = users[f]
  BY WriteStep
<1>2. TypeInv'
  BY <1>1, AccountTypes
<1>3. AccountInv'
  BY <1>1, OthersCross
<1>4. QED
  BY <1>2, <1>3

\* A request without a session is refused, or goes on for a named account.
LEMMA FallbackStep ==
  ASSUME NEW q \in RequestRecords, NEW header \in Headers \union {Nobody}, NEW new,
         new = DevFallback(q, header)
  PROVE  /\ new \in RequestRecords
         /\ new.op = q.op /\ new.token = q.token /\ new.who = q.who /\ new.lapsed = q.lapsed
         /\ new.crossed = q.crossed
         /\ \/ new.at = "answered" /\ new.result = "unauthorized"
            \/ new.at = "dev" /\ new.result = q.result /\ (isProd => new.header # Nobody)
<1>1. header \in Emails \union {Nobody}
  BY HeadersAssumption
<1>2. CASE isProd /\ header = Nobody
  <2>1. new = [q EXCEPT !.at = "answered", !.result = "unauthorized"]
    BY <1>2 DEF DevFallback
  <2>2. QED
    BY <2>1 DEF RequestRecords, Outcomes
<1>3. CASE ~(isProd /\ header = Nobody)
  <2>1. new = [q EXCEPT !.at = "dev", !.header = header]
    BY <1>3 DEF DevFallback
  <2>2. new \in RequestRecords /\ new.header = header
    BY <1>1, <2>1 DEF RequestRecords, AuthAts
  <2>3. QED
    BY <1>3, <2>1, <2>2 DEF RequestRecords
<1>4. QED
  BY <1>2, <1>3

\* Each step of requireAuth gives the request its own account, or the one it may
\* take it for.
LEMMA AuthStepOK ==
  ASSUME TypeInv, AccountInv, AllAnswered, NEW r \in Requests, AuthStep(r),
         UNCHANGED <<isPostgresConnected, senderVars>>
  PROVE  TypeInv' /\ AccountInv'
<1> DEFINE q == request[r]
<1>1. q \in RequestRecords /\ RequestInv(r) /\ Nobody \notin Emails
  BY DemoAssumption DEF TypeInv, AccountInv
<1>2. UNCHANGED remembered => MemoryGrows
  BY DEF TypeInv, TypeOK, AccountsTypeOK, MemoryGrows
<1>3. Dev(r) \in Emails /\ Memory[Dev(r)] \in MemoryUsers /\ (Remember(r) => MemoryGrows)
  <2>1. Dev(r) \in Emails
    BY <1>1, DemoAssumption DEF Dev, RequestRecords
  <2>2. QED
    BY <2>1 DEF MemoryUsers, Remember, MemoryGrows, TypeInv, TypeOK, AccountsTypeOK
<1>4. \A e \in Emails: e # Nobody /\ Memory[e] # Nobody
  BY DemoAssumption, MemoryAssumption
<1> USE DEF SignIns, AuthAts, SignInAts, RouteAts
<1>5. ASSUME NEW token \in Emails \union {Nobody}, NEW header \in Headers \union {Nobody},
             Arrive(r, token, header)
      PROVE  TypeInv' /\ AccountInv'
  <2> DEFINE arriving == [NoRequest EXCEPT !.op = "route", !.token = token]
  <2>1. arriving \in RequestRecords
    BY DEF NoRequest, RequestRecords, Outcomes
  <2>2. /\ arriving.op = "route" /\ arriving.token = token /\ arriving.who = Nobody
        /\ arriving.result = "none" /\ arriving.crossed = FALSE
    BY DEF NoRequest
  <2>3. PICK new: /\ Become(r, new) /\ UNCHANGED accountVars
                  /\ \/ token = Nobody /\ new = DevFallback(arriving, header)
                     \/ token # Nobody /\ new = [arriving EXCEPT !.at = "session"]
    BY <1>5 DEF Arrive
  <2> HIDE DEF arriving
  <2>4. /\ new \in RequestRecords
        /\ new.op = "route" /\ new.token = token /\ new.who = Nobody
        /\ \/ new.at = "answered" /\ new.result = "unauthorized"
           \/ /\ new.at = "dev" /\ new.result = "none" /\ token = Nobody
              /\ isProd => new.header # Nobody
           \/ new.at = "session" /\ new.result = "none" /\ token # Nobody
    <3>1. CASE token = Nobody /\ new = DevFallback(arriving, header)
      BY <2>1, <2>2, <3>1, FallbackStep
    <3>2. CASE token # Nobody /\ new = [arriving EXCEPT !.at = "session"]
      BY <2>1, <2>2, <3>2 DEF RequestRecords
    <3>3. QED
      BY <2>3, <3>1, <3>2
  <2>5. request'[r] = new /\ UNCHANGED isProd
    BY <2>3, <2>4, BecomeStep DEF accountVars
  <2>6. RequestInv(r)'
    BY <2>4, <2>5 DEF RequestInv, PlaceInv, FoundInv, ActsFor, Succeeds
  <2>7. QED
    BY <1>2, <2>3, <2>4, <2>6, MovesOn DEF accountVars
<1> USE DEF RequestInv, PlaceInv, FoundInv, ActsFor, Succeeds
<1>6. ASSUME NEW header \in Headers \union {Nobody}, FindSession(r, header)
      PROVE  TypeInv' /\ AccountInv'
  <2>1. /\ q.at = "session" /\ q.token \in Emails /\ q.op = "route" /\ q.who = Nobody
        /\ q.result = "none" /\ UNCHANGED <<isProd, users, remembered>>
    BY <1>1, <1>6 DEF FindSession, At
  <2>2. CASE Become(r, Acting(r, q.token)) /\ UNCHANGED failures
    <3>1. Acting(r, q.token) \in RequestRecords
      BY <2>1, RecordTypes
    <3>2. request'[r] = Acting(r, q.token)
      BY <2>2, <3>1, BecomeStep
    <3>3. RequestInv(r)'
      BY <1>1, <2>1, <3>2 DEF Acting, Own, RequestRecords
    <3>4. QED
      BY <1>2, <2>1, <2>2, <3>1, <3>3, MovesOn
  <2>3. CASE Throws /\ Become(r, Lapsed(SessionFallback(r, header)))
    <3> DEFINE fallback == SessionFallback(r, header)
               new == Lapsed(fallback)
    <3>1. /\ fallback \in RequestRecords
          /\ fallback.op = "route" /\ fallback.token = q.token
          /\ \/ fallback.at = "route" /\ fallback.who = Memory[q.token] /\ fallback.result = "none"
             \/ /\ fallback.at = "answered" /\ fallback.who = Nobody
                /\ fallback.result = "unauthorized"
             \/ /\ fallback.at = "dev" /\ fallback.who = Nobody /\ fallback.result = "none"
                /\ isProd => fallback.header # Nobody
      <4>1. CASE q.token \in remembered
        <5>1. fallback = Acting(r, Memory[q.token]) /\ Memory[q.token] \in MemoryUsers
          BY <2>1, <4>1 DEF SessionFallback, MemoryUsers
        <5>2. fallback \in RequestRecords
          BY <5>1, RecordTypes
        <5>3. QED
          BY <1>1, <2>1, <5>1, <5>2 DEF Acting, RequestRecords
      <4>2. CASE q.token \notin remembered
        <5>1. fallback = DevFallback(q, header)
          BY <4>2 DEF SessionFallback
        <5>2. QED
          BY <1>1, <2>1, <5>1, FallbackStep
      <4>3. QED
        BY <4>1, <4>2
    <3> HIDE DEF fallback
    <3>2. new \in RequestRecords
      BY <3>1, RecordTypes
    <3>3. request'[r] = new
      BY <2>3, <3>2, BecomeStep DEF fallback
    <3>4. /\ new.op = "route" /\ new.token = q.token /\ new.lapsed
          /\ new.at = fallback.at /\ new.who = fallback.who /\ new.result = fallback.result
          /\ new.header = fallback.header
      BY <3>1 DEF Lapsed, RequestRecords
    <3> HIDE DEF new
    <3>5. RequestInv(r)'
      BY <1>4, <2>1, <3>1, <3>3, <3>4 DEF Own
    <3>6. QED
      BY <1>2, <2>1, <2>3, <3>2, <3>5, MovesOn DEF new, fallback
  <2>4. QED
    BY <1>6, <2>2, <2>3 DEF FindSession
<1>7. CASE FindDev(r)
  <2>1. /\ q.at = "dev" /\ q.op = "route" /\ q.who = Nobody /\ q.result = "none"
        /\ q.token = Nobody \/ q.lapsed
        /\ isProd => q.header # Nobody
        /\ UNCHANGED <<isProd, users>>
    BY <1>1, <1>7 DEF FindDev, At
  <2>2. PICK new:
          /\ Become(r, new) /\ (UNCHANGED failures \/ Throws)
          /\ UNCHANGED remembered \/ Remember(r)
          /\ \/ new = Moved(r, "devCreate") /\ users[Dev(r)] = "none"
             \/ new = Acting(r, Dev(r))
             \/ new = Lapsed(AsMemory(r))
    <3>1. CASE users[Dev(r)] = "none"
      BY <1>7, <3>1 DEF FindDev
    <3>2. CASE users[Dev(r)] # "none"
      BY <1>7, <3>2 DEF FindDev
    <3>3. QED
      BY <3>1, <3>2
  <2>3. new \in RequestRecords
    BY <1>3, <2>2, RecordTypes DEF AsMemory
  <2>4. request'[r] = new
    BY <2>2, <2>3, BecomeStep
  <2>5. /\ new.op = "route" /\ new.token = q.token /\ new.header = q.header
        /\ (q.lapsed => new.lapsed) /\ new.result = "none"
        /\ \/ new.at = "devCreate" /\ new.who = Nobody /\ users[Dev(r)] = "none"
           \/ new.at = "route" /\ new.who = Dev(r)
           \/ new.at = "route" /\ new.who = Memory[Dev(r)] /\ new.lapsed
    <3>1. CASE new = Moved(r, "devCreate") /\ users[Dev(r)] = "none"
      BY <1>1, <2>1, <3>1 DEF Moved, RequestRecords
    <3>2. CASE new = Acting(r, Dev(r))
      BY <1>1, <2>1, <3>2 DEF Acting, RequestRecords
    <3>3. CASE new = Lapsed(AsMemory(r))
      BY <1>1, <2>1, <3>3 DEF Lapsed, AsMemory, Acting, RequestRecords
    <3>4. QED
      BY <2>2, <3>1, <3>2, <3>3
  <2>6. Dev(r)' = Dev(r) /\ Own(r)' = IF q.token = Nobody THEN Dev(r) ELSE q.token
    BY <2>4, <2>5 DEF Dev, Own
  <2>7. RequestInv(r)'
    BY <1>3, <1>4, <2>1, <2>4, <2>5, <2>6
  <2>8. QED
    BY <1>2, <1>3, <2>1, <2>2, <2>3, <2>7, MovesOn
<1>8. CASE CreateDev(r)
  <2>1. /\ q.at = "devCreate" /\ q.op = "route" /\ q.who = Nobody /\ q.result = "none"
        /\ q.token = Nobody \/ q.lapsed
        /\ isProd => q.header # Nobody
        /\ q.crossed \/ users[Dev(r)] = "none"
        /\ UNCHANGED isProd /\ (UNCHANGED failures \/ Throws) /\ MemoryGrows
    BY <1>1, <1>2, <1>3, <1>8 DEF CreateDev, At
  <2>2. PICK new:
          /\ \/ WriteUser(r, Dev(r), "dev-google", new)
             \/ Become(r, new) /\ UNCHANGED users
          /\ \/ new = Acting(r, Dev(r))
             \/ new = AsMemory(r) /\ users[Dev(r)] # "none"
             \/ new = Clashed(AsMemory(r))
             \/ new = Lapsed(AsMemory(r))
    BY <1>8 DEF CreateDev
  <2>3. new \in RequestRecords
    BY <1>3, <2>2, RecordTypes DEF AsMemory
  <2>4. request'[r] = new
    BY <1>3, <2>2, <2>3, BecomeStep, WriteStep DEF MadeUp
  <2>5. /\ new.op = "route" /\ new.token = q.token /\ new.header = q.header
        /\ (q.lapsed => new.lapsed) /\ new.result = "none" /\ new.at = "route"
        /\ new.crossed = q.crossed
        /\ \/ new.who = Dev(r)
           \/ /\ new.who = Memory[Dev(r)]
              /\ new.lapsed \/ users[Dev(r)] # "none" \/ new.clashed
    <3>1. CASE new = Acting(r, Dev(r))
      BY <1>1, <2>1, <3>1 DEF Acting, RequestRecords
    <3>2. CASE new = AsMemory(r) /\ users[Dev(r)] # "none"
      BY <1>1, <2>1, <3>2 DEF AsMemory, Acting, RequestRecords
    <3>3. CASE new = Clashed(AsMemory(r))
      BY <1>1, <2>1, <3>3 DEF Clashed, AsMemory, Acting, RequestRecords
    <3>4. CASE new = Lapsed(AsMemory(r))
      BY <1>1, <2>1, <3>4 DEF Lapsed, AsMemory, Acting, RequestRecords
    <3>5. QED
      BY <2>2, <3>1, <3>2, <3>3, <3>4
  <2>6. Dev(r)' = Dev(r) /\ Own(r)' = IF q.token = Nobody THEN Dev(r) ELSE q.token
    BY <2>4, <2>5 DEF Dev, Own
  <2>7. RequestInv(r)'
    BY <1>3, <1>4, <2>1, <2>4, <2>5, <2>6
  <2>8. CASE WriteUser(r, Dev(r), "dev-google", new)
    BY <1>3, <2>1, <2>3, <2>7, <2>8, Writes DEF MadeUp
  <2>9. CASE Become(r, new) /\ UNCHANGED users
    BY <2>1, <2>3, <2>7, <2>9, MovesOn
  <2>10. QED
    BY <2>2, <2>8, <2>9
<1>9. QED
  BY <1>5, <1>6, <1>7, <1>8 DEF AuthStep

\* The answer of a sign-in leaves nothing open, if an error has its reason.
LEMMA SignInAnswered ==
  ASSUME TypeInv, AccountInv, NEW r \in Requests, request[r].at \in SignInAts,
         NEW new,
         \/ \E e \in Emails: new = SignedIn(r, e)
         \/ new = SignInError(r) /\
              (request[r].crossed \/ (request[r].op = "google" /\ Split(request[r].arg)))
         \/ new = Clashed(SignInError(r)) /\ request[r].op = "devLogin"
         \/ new = Lapsed(SignInError(r)),
         request'[r] = new, UNCHANGED users \/ \E e \in Emails: new = SignedIn(r, e)
                                            \/ new = Lapsed(SignInError(r))
  PROVE  new \in RequestRecords /\ RequestInv(r)'
<1> DEFINE q == request[r]
<1>1. q \in RequestRecords /\ q.op \in SignIns
  BY DEF TypeInv, AccountInv, RequestInv, PlaceInv, SignIns
<1>2. new \in RequestRecords
  BY RecordTypes DEF SignInError, Outcomes
<1>3. /\ new.at = "answered" /\ new.op = q.op /\ new.arg = q.arg
      /\ \/ new.result = "cookie"
         \/ new.lapsed
         \/ UNCHANGED users /\ (new.crossed \/ (new.op = "google" /\ Split(new.arg)))
         \/ new.op = "devLogin" /\ new.clashed
  <2>1. CASE \E e \in Emails: new = SignedIn(r, e)
    BY <1>1, <2>1 DEF SignedIn, Answered, RequestRecords
  <2>2. CASE new = SignInError(r) /\
               (request[r].crossed \/ (request[r].op = "google" /\ Split(request[r].arg)))
    <3>1. UNCHANGED users \/ new.result = "cookie" \/ new.lapsed
      <4>1. ASSUME NEW e \in Emails, new = SignedIn(r, e) PROVE new.result = "cookie"
        BY <1>1, <4>1 DEF SignedIn, Answered, RequestRecords
      <4>2. ASSUME new = Lapsed(SignInError(r)) PROVE new.lapsed
        BY <1>1, <4>2 DEF SignInError, Answered, Lapsed, RequestRecords
      <4>3. QED
        BY <4>1, <4>2
    <3>2. QED
      BY <1>1, <2>2, <3>1 DEF SignInError, Answered, RequestRecords
  <2>3. CASE new = Clashed(SignInError(r)) /\ request[r].op = "devLogin"
    BY <1>1, <2>3 DEF SignInError, Answered, Clashed, RequestRecords
  <2>4. CASE new = Lapsed(SignInError(r))
    BY <1>1, <2>4 DEF SignInError, Answered, Lapsed, RequestRecords
  <2>5. QED
    BY <2>1, <2>2, <2>3, <2>4
<1> HIDE DEF q
<1>4. PlaceInv(r)' /\ FoundInv(r)'
  BY <1>3 DEF PlaceInv, FoundInv, AuthAts, SignInAts, RouteAts
<1>5. ActsFor(r)' /\ Succeeds(r)'
  BY <1>1, <1>3 DEF ActsFor, Succeeds, Split
<1>6. QED
  BY <1>2, <1>4, <1>5 DEF RequestInv

\* A sign-in that writes its account, or may not because another has Google's id.
LEMMA UpsertOK ==
  ASSUME TypeInv, AccountInv, AllAnswered, NEW r \in Requests, request[r].at \in SignInAts,
         NEW e \in Emails, NEW g \in GoogleIds \union MadeUp, Upsert(r, e, g),
         \/ g \in MadeUp \/ \A f \in Emails \ {e}: users[f] # g
         \/ request[r].crossed
         \/ request[r].op = "google" /\ Split(request[r].arg),
         g \in MadeUp => request[r].op = "devLogin",
         UNCHANGED <<isProd, remembered, isPostgresConnected, senderVars>>
  PROVE  TypeInv' /\ AccountInv'
<1> DEFINE free == g \in MadeUp \/ \A f \in Emails \ {e}: users[f] # g
<1>0. MemoryGrows
  BY DEF TypeInv, TypeOK, AccountsTypeOK, MemoryGrows
<1>1. PICK new:
        /\ \/ new = SignedIn(r, e)
           \/ new = SignInError(r) /\ ~free /\ UNCHANGED users
           \/ new = Clashed(SignInError(r)) /\ g \in MadeUp /\ UNCHANGED users
           \/ new = Lapsed(SignInError(r))
        /\ \/ free /\ WriteUser(r, e, g, new)
           \/ Become(r, new) /\ UNCHANGED users
        /\ UNCHANGED failures \/ Throws
  BY DEF Upsert, Free, Taken
<1>2. /\ \/ \E f \in Emails: new = SignedIn(r, f)
         \/ new = SignInError(r) /\
              (request[r].crossed \/ (request[r].op = "google" /\ Split(request[r].arg)))
         \/ new = Clashed(SignInError(r)) /\ request[r].op = "devLogin"
         \/ new = Lapsed(SignInError(r))
      /\ \/ UNCHANGED users \/ \E f \in Emails: new = SignedIn(r, f)
         \/ new = Lapsed(SignInError(r))
  BY <1>1
<1>3. new \in RequestRecords
  BY <1>1, RecordTypes DEF SignInError, Outcomes
<1>4. request'[r] = new
  BY <1>1, <1>3, BecomeStep, WriteStep
<1>5. RequestInv(r)'
  BY <1>2, <1>4, SignInAnswered
<1>6. CASE free /\ WriteUser(r, e, g, new)
  BY <1>0, <1>1, <1>3, <1>5, <1>6, Writes
<1>7. CASE Become(r, new) /\ UNCHANGED users
  BY <1>0, <1>1, <1>3, <1>5, <1>7, MovesOn
<1>8. QED
  BY <1>1, <1>6, <1>7

\* Each step of a sign-in: where it fails, a query threw, another request wrote
\* the account, or two accounts are meant.
LEMMA SignInStepOK ==
  ASSUME TypeInv, AccountInv, AllAnswered, NEW r \in Requests, SignInStep(r),
         UNCHANGED <<isPostgresConnected, senderVars>>
  PROVE  TypeInv' /\ AccountInv'
<1> DEFINE q == request[r]
<1>1. /\ q \in RequestRecords /\ RequestInv(r) /\ Nobody \notin Emails
      /\ UNCHANGED remembered => MemoryGrows
  BY DemoAssumption DEF TypeInv, AccountInv, TypeOK, AccountsTypeOK, MemoryGrows
<1>2. ASSUME NEW op \in SignIns, NEW arg \in Emails \union Profiles,
             \/ op = "google" /\ arg \in Profiles
             \/ op = "devLogin" /\ arg \in Emails,
             SignIn(r, op, arg)
      PROVE  TypeInv' /\ AccountInv'
  <2> DEFINE new == [NoRequest EXCEPT !.at = "find", !.op = op, !.arg = arg]
  <2>1. new \in RequestRecords
    BY <1>2 DEF NoRequest, RequestRecords, Outcomes, SignIns, SignInAts
  <2>2. /\ new.at = "find" /\ new.op = op /\ new.arg = arg /\ new.who = Nobody
        /\ new.result = "none"
    BY DEF NoRequest
  <2>3. Become(r, new) /\ UNCHANGED accountVars
    BY <1>2 DEF SignIn
  <2> HIDE DEF new
  <2>4. request'[r] = new
    BY <2>1, <2>3, BecomeStep
  <2>5. RequestInv(r)'
    BY <1>2, <2>2, <2>4
    DEF RequestInv, PlaceInv, FoundInv, ActsFor, Succeeds, AuthAts, SignInAts, RouteAts
  <2>6. QED
    BY <2>1, <2>3, <2>5, <1>1, MovesOn DEF accountVars
<1>3. ASSUME q.at \in SignInAts
      PROVE  /\ \/ q.op = "google" /\ q.arg \in Profiles /\ q.arg.id \in GoogleIds
                                   /\ q.arg.email \in Emails
                \/ q.op = "devLogin" /\ q.arg \in Emails
             /\ q.result = "none"
  BY <1>1, <1>3, ProfilesAssumption DEF RequestInv, PlaceInv, SignInAts
<1>4. CASE FindAccount(r)
  <2>1. q.at = "find" /\ q.at \in SignInAts /\ UNCHANGED <<isProd, users, remembered>>
    BY <1>4 DEF FindAccount, At, SignInAts
  <2>2. CASE Matching(r) = {} /\ Become(r, Moved(r, "create")) /\ UNCHANGED failures
    <3> DEFINE new == Moved(r, "create")
    <3>1. new \in RequestRecords
      BY RecordTypes DEF SignInAts
    <3>2. request'[r] = new
      BY <2>2, <3>1, BecomeStep
    <3>3. new.at = "create" /\ new.op = q.op /\ new.arg = q.arg /\ new.result = "none"
      BY <1>1, <1>3, <2>1 DEF Moved, RequestRecords
    <3> HIDE DEF new
    <3>4. Matching(r)' = {}
      BY <2>1, <2>2, <3>2, <3>3 DEF Matching
    <3>5. RequestInv(r)'
      BY <1>3, <2>1, <3>2, <3>3, <3>4
      DEF RequestInv, PlaceInv, FoundInv, ActsFor, Succeeds, AuthAts, SignInAts, RouteAts, SignIns
    <3>6. QED
      BY <1>1, <2>1, <2>2, <3>1, <3>5, MovesOn DEF new
  <2>3. ASSUME NEW e \in Matching(r), q.op = "devLogin", Become(r, SignedIn(r, e)),
               UNCHANGED failures
        PROVE  TypeInv' /\ AccountInv'
    <3>1. e \in Emails
      BY <1>3, <2>1, <2>3 DEF Matching
    <3>2. SignedIn(r, e) \in RequestRecords
      BY <3>1, RecordTypes
    <3>3. request'[r] = SignedIn(r, e)
      BY <2>3, <3>2, BecomeStep
    <3>4. RequestInv(r)'
      BY <2>1, <3>1, <3>3, SignInAnswered
    <3>5. QED
      BY <1>1, <2>1, <2>3, <3>2, <3>4, MovesOn
  <2>4. ASSUME NEW e \in Matching(r), q.op # "devLogin",
               Become(r, [Moved(r, "update") EXCEPT !.who = e]), UNCHANGED failures
        PROVE  TypeInv' /\ AccountInv'
    <3> DEFINE new == [Moved(r, "update") EXCEPT !.who = e]
    <3>1. q.op = "google" /\ e \in Emails
      BY <1>3, <2>1, <2>4 DEF Matching
    <3>2. new \in RequestRecords
      BY <1>1, <3>1 DEF Moved, RequestRecords, SignInAts
    <3>3. request'[r] = new
      BY <2>4, <3>2, BecomeStep
    <3>4. /\ new.at = "update" /\ new.op = "google" /\ new.arg = q.arg /\ new.who = e
          /\ new.result = "none"
      BY <1>1, <1>3, <2>1, <3>1 DEF Moved, RequestRecords
    <3> HIDE DEF new
    <3>5. \/ \A f \in Emails \ {e}: users[f] # q.arg.id
          \/ e = q.arg.email /\ Split(q.arg)
      <4>1. users[e] = q.arg.id \/ (e = q.arg.email /\ users[e] # "none")
        BY <2>4, <3>1 DEF Matching
      <4>2. CASE users[e] = q.arg.id
        BY <1>3, <2>1, <3>1, <4>2 DEF AccountInv, IdsInv
      <4>3. CASE users[e] # q.arg.id
        BY <4>1, <4>3 DEF Split
      <4>4. QED
        BY <4>2, <4>3
    <3>6. \/ \A f \in Emails \ {e}: users'[f] # q.arg.id
          \/ e = q.arg.email /\ Split(request[r].arg)'
      BY <2>1, <3>3, <3>4, <3>5 DEF Split
    <3>7. RequestInv(r)'
      BY <1>3, <2>1, <3>1, <3>3, <3>4, <3>6
      DEF RequestInv, PlaceInv, FoundInv, ActsFor, Succeeds, AuthAts, SignInAts, RouteAts, SignIns,
          Split
    <3>8. QED
      BY <1>1, <2>1, <2>4, <3>2, <3>7, MovesOn DEF new
  <2>5. CASE Throws /\ Become(r, Lapsed(SignInError(r)))
    <3>1. Lapsed(SignInError(r)) \in RequestRecords
      BY RecordTypes DEF SignInError, Outcomes
    <3>2. request'[r] = Lapsed(SignInError(r))
      BY <2>5, <3>1, BecomeStep
    <3>3. RequestInv(r)'
      BY <2>1, <3>2, SignInAnswered
    <3>4. QED
      BY <1>1, <2>1, <2>5, <3>1, <3>3, MovesOn
  <2>6. QED
    BY <1>4, <2>2, <2>3, <2>4, <2>5 DEF FindAccount
<1>5. CASE CreateAccount(r)
  <2> DEFINE e == IF q.op = "google" THEN q.arg.email ELSE q.arg
             g == IF q.op = "google" THEN q.arg.id ELSE "google-id"
  <2>1. q.at = "create" /\ q.at \in SignInAts /\ UNCHANGED <<isProd, remembered>>
    BY <1>5 DEF CreateAccount, At, SignInAts
  <2>2. /\ e \in Emails /\ g \in GoogleIds \union MadeUp
        /\ g \in MadeUp => q.op = "devLogin"
    BY <1>3, <2>1, GoogleIdsAssumption DEF MadeUp
  <2>3. ~q.crossed =>
          users[e] = "none" /\ (g \in MadeUp \/ \A f \in Emails \ {e}: users[f] # g)
    <3> SUFFICES ASSUME ~q.crossed
                 PROVE  users[e] = "none" /\ (g \in MadeUp \/ \A f \in Emails \ {e}: users[f] # g)
      OBVIOUS
    <3>1. Matching(r) = {}
      BY <1>1, <2>1 DEF RequestInv, FoundInv
    <3>2. CASE q.op = "google"
      <4>1. \A f \in Emails: users[f] # g /\ (f = e => users[f] = "none")
        BY <3>1, <3>2 DEF Matching
      <4>2. QED
        BY <2>2, <4>1
    <3>3. CASE q.op # "google"
      BY <1>3, <2>1, <3>1, <3>3 DEF Matching, MadeUp
    <3>4. QED
      BY <3>2, <3>3
  <2>4. CASE Upsert(r, e, g)
    BY <1>5, <2>1, <2>2, <2>3, <2>4, UpsertOK
  <2>5. CASE users[e] # "none" /\ Become(r, SignInError(r)) /\ UNCHANGED <<users, failures>>
    <3>1. SignInError(r) \in RequestRecords
      BY RecordTypes DEF SignInError, Outcomes
    <3>2. request'[r] = SignInError(r)
      BY <2>5, <3>1, BecomeStep
    <3>3. RequestInv(r)'
      BY <2>1, <2>3, <2>5, <3>2, SignInAnswered
    <3>4. QED
      BY <1>1, <2>1, <2>5, <3>1, <3>3, MovesOn
  <2>6. QED
    BY <1>5, <2>4, <2>5 DEF CreateAccount
<1>6. CASE UpdateAccount(r)
  <2>1. /\ q.at = "update" /\ q.at \in SignInAts /\ UNCHANGED <<isProd, remembered>>
        /\ Upsert(r, q.who, q.arg.id)
    BY <1>6 DEF UpdateAccount, At, SignInAts
  <2>2. q.op = "google" /\ q.who \in Emails /\ q.arg.id \in GoogleIds \ MadeUp
    BY <1>1, <1>3, <2>1, GoogleIdsAssumption DEF RequestInv, PlaceInv, MadeUp
  <2>3. \/ \A f \in Emails \ {q.who}: users[f] # q.arg.id
        \/ q.crossed
        \/ q.op = "google" /\ Split(q.arg)
    BY <1>1, <2>1, <2>2 DEF RequestInv, FoundInv
  <2>4. QED
    BY <2>1, <2>2, <2>3, UpsertOK
<1>7. ASSUME NEW p \in Profiles, SignIn(r, "google", p) PROVE TypeInv' /\ AccountInv'
  BY <1>2, <1>7 DEF SignIns
<1>8. ASSUME NEW e \in Emails, SignIn(r, "devLogin", e) PROVE TypeInv' /\ AccountInv'
  BY <1>2, <1>8 DEF SignIns
<1>9. QED
  BY <1>4, <1>5, <1>6, <1>7, <1>8 DEF SignInStep

-------------------------------------------------------------------------------
(* The routes of the senders *)

SenderRecords == [store: Stores, user: Emails \union MemoryUsers \union {Nobody}, default: BOOLEAN]

\* An insertion takes an id that was never used, and leaves the other senders.
LEMMA InsertStep ==
  ASSUME TypeInv, Unused # {}, NEW store \in {"db", "memory"}, NEW u \in Emails \union MemoryUsers,
         store = "db" => u \in Emails, NEW default \in BOOLEAN, Insert(store, u, default)
  PROVE  /\ NewId \in SenderIds /\ senders[NewId].store = "none"
         /\ senders' \in [SenderIds -> SenderRecords]
         /\ \A x \in SenderIds: senders'[x].store = "db" => senders'[x].user \in Emails
         /\ senders'[NewId] = Sender(store, u, default)
         /\ \A x \in SenderIds \ {NewId}: senders'[x] = senders[x]
<1>1. NewId \in SenderIds /\ senders[NewId].store = "none"
  BY DEF NewId, Unused
<1>2. Sender(store, u, default) \in SenderRecords
  BY DEF Sender, SenderRecords, Stores
<1>3. senders \in [SenderIds -> SenderRecords]
  BY DEF TypeInv, TypeOK, SenderRecords
<1>4. /\ senders' \in [SenderIds -> SenderRecords]
      /\ senders'[NewId] = Sender(store, u, default)
      /\ \A x \in SenderIds \ {NewId}: senders'[x] = senders[x]
  BY <1>1, <1>2, <1>3 DEF Insert
<1>5. \A x \in SenderIds: senders'[x].store = "db" => senders'[x].user \in Emails
  BY <1>4 DEF Sender, TypeInv, TypeOK
<1>6. QED
  BY <1>1, <1>4, <1>5

\* A deletion leaves every other sender, and the ids of the deleted ones in use.
LEMMA DeleteStep ==
  ASSUME TypeInv, NEW D,
         senders' = [x \in SenderIds |-> IF x \in D THEN Gone ELSE senders[x]]
  PROVE  /\ senders' \in [SenderIds -> SenderRecords]
         /\ \A x \in SenderIds: senders'[x].store = "db" => senders'[x].user \in Emails
         /\ \A x \in SenderIds: senders'[x] = IF x \in D THEN Gone ELSE senders[x]
  BY DEF TypeInv, TypeOK, SenderRecords, Stores, Gone, Sender

\* A query that is given up leaves its statement behind, or nothing.
LEMMA GivesUpStep ==
  ASSUME NEW S, GivesUp(S)
  PROVE  (UNCHANGED failures \/ Throws) /\ (UNCHANGED late \/ late' = late \union S)
  BY DEF GivesUp

\* A request that found its sender still is a record of one.
LEMMA FoundRecord ==
  ASSUME NEW q \in RequestRecords, NEW x \in SenderIds, NEW y \in Outcomes \union SenderIds,
         NEW lapsed \in BOOLEAN
  PROVE  [q EXCEPT !.at = "answered", !.op = "schedule", !.arg = x, !.result = y,
                   !.lapsed = lapsed] \in RequestRecords
  BY ZenonT(60) DEF RequestRecords

\* A request of a route keeps its account, and what it lapsed.
LEMMA RouteMoves ==
  ASSUME TypeInv, AccountInv, NEW r \in Requests, request[r].at \in RouteAts,
         NEW new \in RequestRecords, Become(r, new), new.at \in RouteAts \union {"answered"},
         new.at \in RouteAts => new.op = "route" /\ new.result = "none", new.op \notin SignIns,
         new.token = request[r].token, new.header = request[r].header, new.who = request[r].who,
         new.crossed = request[r].crossed, new.clashed = request[r].clashed,
         request[r].lapsed => new.lapsed,
         UNCHANGED <<isProd, users, remembered, isPostgresConnected>>, UNCHANGED failures \/ Throws,
         senders' \in [SenderIds -> SenderRecords],
         \A x \in SenderIds: senders'[x].store = "db" => senders'[x].user \in Emails,
         late' \subseteq Statements, \A s \in late': s.do # "delete" => s.user \in Emails,
         overlapped' \subseteq Emails
  PROVE  TypeInv' /\ AccountInv'
<1>1. /\ request' \in [Requests -> RequestRecords] /\ request'[r] = new
      /\ \A s \in Requests \ {r}: request'[s] = request[s]
  BY BecomeStep
<1>2. TypeInv'
  <2>1. failures' \in 0..MaxFailures
    BY FailuresAssumption DEF TypeInv, TypeOK, AccountsTypeOK, Throws
  <2>2. \A s \in Requests:
          /\ {request'[s].token, request'[s].header} \subseteq Emails \union {Nobody}
          /\ request'[s].who \in Emails \union MemoryUsers \union {Nobody}
          /\ {request'[s].lapsed, request'[s].crossed, request'[s].clashed} \subseteq BOOLEAN
    BY <1>1 DEF RequestRecords
  <2>3. AccountsTypeOK'
    BY <2>1, <2>2 DEF TypeInv, TypeOK, AccountsTypeOK
  <2>4. \A s \in late': s.by \in Requests /\ s.do \in {"default", "create", "delete"}
    BY DEF Statements
  <2>5. QED
    BY <1>1, <2>3, <2>4 DEF TypeInv, TypeOK, SenderRecords
<1>3. RequestInv(r)
  BY DEF AccountInv
<1>4. PlaceInv(r)' /\ FoundInv(r)'
  BY <1>1, <1>3 DEF RequestInv, PlaceInv, FoundInv, AuthAts, SignInAts, RouteAts
<1>5. ActsFor(r)' /\ Succeeds(r)'
  BY <1>1, <1>3
  DEF RequestInv, PlaceInv, ActsFor, Succeeds, Own, Dev, AuthAts, SignInAts, RouteAts, SignIns
<1>6. AccountInv'
  BY <1>1, <1>4, <1>5, OthersStay DEF RequestInv
<1>7. QED
  BY <1>2, <1>6

\* Each step of a route.
LEMMA RouteStepOK ==
  ASSUME TypeInv, AccountInv, NEW r \in Requests, RouteStep(r)
  PROVE  TypeInv' /\ AccountInv'
<1> DEFINE q == request[r]
           u == request[r].who
<1>1. q \in RequestRecords /\ PlaceInv(r)
  BY DEF TypeInv, AccountInv, RequestInv
<1>2. /\ senders \in [SenderIds -> SenderRecords]
      /\ \A x \in SenderIds: senders[x].store = "db" => senders[x].user \in Emails
      /\ late \subseteq Statements /\ \A s \in late: s.do # "delete" => s.user \in Emails
      /\ overlapped \subseteq Emails
  BY DEF TypeInv, TypeOK, SenderRecords
<1>3. q.at \in RouteAts =>
        q.op = "route" /\ u \in Emails \union MemoryUsers /\ q.result = "none"
  BY <1>1 DEF PlaceInv, RequestRecords, AuthAts, RouteAts
<1> DEFINE Goes(new) ==
             /\ new \in RequestRecords /\ new.token = q.token /\ new.header = q.header
             /\ new.who = q.who /\ new.crossed = q.crossed /\ new.clashed = q.clashed
             /\ (q.lapsed => new.lapsed)
<1>4. ASSUME NEW label \in RouteAts
      PROVE  /\ Goes(Moved(r, label)) /\ Goes(Lapsed(Moved(r, label)))
             /\ Moved(r, label).at = label /\ Lapsed(Moved(r, label)).at = label
             /\ Moved(r, label).op = q.op /\ Lapsed(Moved(r, label)).op = q.op
             /\ Moved(r, label).result = q.result /\ Lapsed(Moved(r, label)).result = q.result
  <2>1. Moved(r, label) \in RequestRecords /\ Lapsed(Moved(r, label)) \in RequestRecords
    BY RecordTypes
  <2>2. QED
    BY <1>1, <2>1 DEF Moved, Lapsed, RequestRecords
<1>5. ASSUME NEW x \in {"listed"} \union SenderIds
      PROVE  /\ Goes(Answered(r, x)) /\ Answered(r, x).at = "answered"
             /\ Goes(Created(r, x)) /\ Created(r, x).at = "answered"
             /\ Goes(Lapsed(Created(r, x))) /\ Lapsed(Created(r, x)).at = "answered"
             /\ Answered(r, x).op = q.op
             /\ Created(r, x).op = "create" /\ Lapsed(Created(r, x)).op = "create"
  <2>1. /\ Answered(r, x) \in RequestRecords /\ Created(r, x) \in RequestRecords
        /\ Lapsed(Created(r, x)) \in RequestRecords
    BY RecordTypes DEF Outcomes
  <2>2. QED
    BY <1>1, <2>1 DEF Answered, Created, Lapsed, RequestRecords
<1>6. \A do \in {"default", "create"}:
        u \in Emails => /\ Statement(r, do, u, Nobody) \in Statements
                        /\ Statement(r, do, u, Nobody).user \in Emails
  BY DEF Statement, Statements
<1>7. CASE ListSenders(r)
  <2>1. q.at \in RouteAts
    BY <1>7 DEF ListSenders, At, RouteAts
  <2>2. PICK new: /\ \/ new = Answered(r, "listed")
                     \/ new = Moved(r, "default")
                     \/ new = Lapsed(Moved(r, "memory"))
                  /\ Become(r, new)
    BY <1>7 DEF ListSenders
  <2>3. /\ UNCHANGED <<isProd, users, remembered, isPostgresConnected, senders, late>>
        /\ UNCHANGED failures \/ Throws
        /\ overlapped' \subseteq Emails
    BY <1>2, <1>7 DEF ListSenders, InTime, GivesUp
  <2>4. /\ new \in RequestRecords /\ new.at \in RouteAts \union {"answered"} /\ new.op = q.op
        /\ new.token = q.token /\ new.header = q.header /\ new.who = q.who
        /\ new.crossed = q.crossed /\ new.clashed = q.clashed
        /\ q.lapsed => new.lapsed
        /\ new.at \in RouteAts => new.result = q.result
    <3>1. CASE new = Answered(r, "listed")
      BY <1>1, <1>5, <2>1, <3>1 DEF Answered, RouteAts, RequestRecords
    <3>2. CASE new \in {Moved(r, "default"), Lapsed(Moved(r, "memory"))}
      BY <1>4, <3>2 DEF RouteAts
    <3>3. QED
      BY <2>2, <3>1, <3>2
  <2>5. QED
    BY <1>2, <1>3, <2>1, <2>2, <2>3, <2>4, RouteMoves DEF SignIns
<1>8. CASE CreateDefault(r)
  <2>1. q.at \in RouteAts /\ Unused # {}
    BY <1>8 DEF CreateDefault, At, RouteAts
  <2>2. UNCHANGED <<isProd, users, remembered, isPostgresConnected>> /\ (UNCHANGED failures \/ Throws)
    BY <1>8 DEF CreateDefault, InTime, GivesUp
  <2>3. CASE InTime /\ HasUser(u) /\ Insert("db", u, TRUE) /\ Become(r, Answered(r, "listed"))
             /\ UNCHANGED overlapped
    <3>1. /\ senders' \in [SenderIds -> SenderRecords]
          /\ \A x \in SenderIds: senders'[x].store = "db" => senders'[x].user \in Emails
      BY <2>1, <2>3, InsertStep DEF HasUser
    <3>2. UNCHANGED late
      BY <2>3 DEF InTime
    <3>3. QED
      BY <1>2, <1>3, <1>5, <2>1, <2>2, <2>3, <3>1, <3>2, RouteMoves DEF SignIns, RouteAts
  <2>4. CASE InTime /\ ~HasUser(u) /\ Become(r, Moved(r, "memory"))
             /\ UNCHANGED <<senders, overlapped>>
    <3>1. UNCHANGED late
      BY <2>4 DEF InTime
    <3>2. QED
      BY <1>2, <1>3, <1>4, <2>1, <2>2, <2>4, <3>1, RouteMoves DEF SignIns, RouteAts
  <2>5. CASE /\ GivesUp(IF HasUser(u) THEN {Statement(r, "default", u, Nobody)} ELSE {})
             /\ Become(r, Lapsed(Moved(r, "memory")))
             /\ overlapped' = overlapped \union ({u} \intersect Emails)
             /\ UNCHANGED senders
    <3>1. /\ late' \subseteq Statements
          /\ \A s \in late': s.do # "delete" => s.user \in Emails
      BY <1>2, <1>6, <2>5, GivesUpStep DEF HasUser
    <3>2. overlapped' \subseteq Emails
      BY <1>2, <2>5
    <3>3. QED
      BY <1>2, <1>3, <1>4, <2>1, <2>2, <2>5, <3>1, <3>2, RouteMoves DEF SignIns, RouteAts
  <2>6. QED
    BY <1>8, <2>3, <2>4, <2>5 DEF CreateDefault
<1>9. CASE ListFromMemory(r)
  <2>1. /\ q.at \in RouteAts /\ UNCHANGED <<accountVars, isPostgresConnected, senderVars>>
        /\ Become(r, Moved(r, "memoryDefault")) \/ Become(r, Answered(r, "listed"))
    <3>1. CASE Kept("memory", u) = {}
      BY <1>9, <3>1 DEF ListFromMemory, At, RouteAts
    <3>2. CASE Kept("memory", u) # {}
      BY <1>9, <3>2 DEF ListFromMemory, At, RouteAts
    <3>3. QED
      BY <3>1, <3>2
  <2>2. UNCHANGED <<isProd, users, remembered, failures, isPostgresConnected, senders, late, overlapped>>
    BY <2>1 DEF accountVars, senderVars
  <2>3. CASE Become(r, Moved(r, "memoryDefault"))
    BY <1>2, <1>3, <1>4, <2>1, <2>2, <2>3, RouteMoves DEF SignIns, RouteAts
  <2>4. CASE Become(r, Answered(r, "listed"))
    BY <1>2, <1>3, <1>5, <2>1, <2>2, <2>4, RouteMoves DEF SignIns, RouteAts
  <2>5. QED
    BY <2>1, <2>3, <2>4
<1>10. CASE CreateMemoryDefault(r)
  <2>1. /\ q.at \in RouteAts /\ Unused # {} /\ Become(r, Answered(r, "listed"))
        /\ Insert("memory", u, FALSE)
        /\ UNCHANGED <<isProd, users, remembered, failures, isPostgresConnected, late, overlapped>>
    BY <1>10 DEF CreateMemoryDefault, At, RouteAts, accountVars
  <2>2. /\ senders' \in [SenderIds -> SenderRecords]
        /\ \A x \in SenderIds: senders'[x].store = "db" => senders'[x].user \in Emails
    BY <1>3, <2>1, InsertStep
  <2>3. QED
    BY <1>2, <1>3, <1>5, <2>1, <2>2, RouteMoves DEF SignIns, RouteAts
<1>11. CASE CreateSender(r)
  <2>1. /\ q.at \in RouteAts /\ Unused # {}
        /\ UNCHANGED <<isProd, users, remembered, isPostgresConnected, overlapped>>
        /\ UNCHANGED failures \/ Throws
    BY <1>11 DEF CreateSender, At, RouteAts, InTime, GivesUp
  <2>2. PICK new: /\ new = Created(r, NewId) \/ new = Lapsed(Created(r, NewId))
                  /\ Become(r, new)
    BY <1>11 DEF CreateSender
  <2>3. PICK store \in {"db", "memory"}: Insert(store, u, FALSE) /\ (store = "db" => u \in Emails)
    BY <1>11 DEF CreateSender, HasUser
  <2>4. /\ NewId \in SenderIds /\ senders' \in [SenderIds -> SenderRecords]
        /\ \A x \in SenderIds: senders'[x].store = "db" => senders'[x].user \in Emails
    BY <1>3, <2>1, <2>3, InsertStep
  <2>5. /\ late' \subseteq Statements
        /\ \A s \in late': s.do # "delete" => s.user \in Emails
    <3>1. UNCHANGED late \/ GivesUp(IF HasUser(u) THEN {Statement(r, "create", u, Nobody)} ELSE {})
      BY <1>11 DEF CreateSender, InTime
    <3>2. QED
      BY <1>2, <1>6, <3>1, GivesUpStep DEF HasUser
  <2>6. /\ new \in RequestRecords /\ new.at = "answered" /\ new.op \in {"route", "create"}
        /\ new.token = q.token /\ new.header = q.header /\ new.who = q.who
        /\ new.crossed = q.crossed /\ new.clashed = q.clashed
        /\ q.lapsed => new.lapsed
    <3>1. NewId \in {"listed"} \union SenderIds
      BY <2>4
    <3>2. CASE new = Created(r, NewId)
      BY <1>5, <3>1, <3>2
    <3>3. CASE new = Lapsed(Created(r, NewId))
      BY <1>5, <3>1, <3>3
    <3>4. QED
      BY <2>2, <3>2, <3>3
  <2>7. QED
    BY <1>2, <2>1, <2>2, <2>4, <2>5, <2>6, RouteMoves DEF SignIns, RouteAts
<1>12. ASSUME NEW x \in SenderIds, DeleteSender(r, x) PROVE TypeInv' /\ AccountInv'
  <2> DEFINE answer == [Answered(r, "deleted") EXCEPT !.op = "delete", !.arg = x]
  <2>1. /\ q.at \in RouteAts /\ UNCHANGED <<isProd, users, remembered, isPostgresConnected, overlapped>>
        /\ UNCHANGED failures \/ Throws
    BY <1>12 DEF DeleteSender, At, RouteAts, InTime, GivesUp
  <2>2. PICK new: (new = answer \/ new = Lapsed(answer)) /\ Become(r, new)
    BY <1>12 DEF DeleteSender
  <2>3. PICK store \in {"db", "memory"}: Delete(r, store, x)
    BY <1>12 DEF DeleteSender
  <2>4. /\ senders' \in [SenderIds -> SenderRecords]
        /\ \A y \in SenderIds: senders'[y].store = "db" => senders'[y].user \in Emails
    BY <2>3, DeleteStep DEF Delete
  <2>5. /\ late' \subseteq Statements
        /\ \A s \in late': s.do # "delete" => s.user \in Emails
    <3>1. Statement(r, "delete", u, x) \in Statements /\ Statement(r, "delete", u, x).do = "delete"
      BY <1>3, <2>1 DEF Statement, Statements
    <3>2. UNCHANGED late \/ GivesUp({Statement(r, "delete", u, x)})
      BY <1>12 DEF DeleteSender, InTime
    <3>3. QED
      BY <1>2, <3>1, <3>2, GivesUpStep
  <2>6. /\ new \in RequestRecords /\ new.at = "answered" /\ new.op = "delete"
        /\ new.token = q.token /\ new.header = q.header /\ new.who = q.who
        /\ new.crossed = q.crossed /\ new.clashed = q.clashed
        /\ q.lapsed => new.lapsed
    <3>1. Answered(r, "deleted") \in RequestRecords
      BY RecordTypes DEF Outcomes
    <3>2. answer \in RequestRecords
      BY <1>12, <3>1 DEF RequestRecords
    <3>3. /\ answer.at = "answered" /\ answer.op = "delete" /\ answer.token = q.token
          /\ answer.header = q.header /\ answer.who = q.who /\ answer.crossed = q.crossed
          /\ answer.clashed = q.clashed /\ answer.lapsed = q.lapsed
      BY <1>1 DEF Answered, RequestRecords
    <3> HIDE DEF answer
    <3>4. CASE new = answer
      BY <3>2, <3>3, <3>4
    <3>5. CASE new = Lapsed(answer)
      BY <3>2, <3>3, <3>5, RecordTypes DEF Lapsed, RequestRecords
    <3>6. QED
      BY <2>2, <3>4, <3>5
  <2>7. QED
    BY <1>2, <2>1, <2>2, <2>4, <2>5, <2>6, RouteMoves DEF SignIns, RouteAts
<1>13. ASSUME NEW x \in SenderIds, FindSender(r, x) PROVE TypeInv' /\ AccountInv'
  <2>1. /\ q.at \in RouteAts
        /\ UNCHANGED <<isProd, users, remembered, isPostgresConnected, senders, late, overlapped>>
        /\ UNCHANGED failures \/ Throws
    BY <1>13 DEF FindSender, At, RouteAts, InTime, GivesUp
  <2>2. PICK found \in SUBSET SenderIds, lapsed \in BOOLEAN:
          UseOneOf(r, x, found, lapsed) /\ (q.lapsed => lapsed)
    <3>1. OwnSender(r, x) \subseteq SenderIds /\ MemorySender(r, x) \subseteq SenderIds
      BY <1>13 DEF OwnSender, MemorySender, Kept
    <3>2. q.lapsed \in BOOLEAN
      BY <1>1 DEF RequestRecords
    <3>3. QED
      BY <1>13, <3>1, <3>2 DEF FindSender
  <2>3. PICK y \in {"refused"} \union found:
          request' = [request EXCEPT ![r].at = "answered", ![r].op = "schedule", ![r].arg = x,
                                     ![r].result = y, ![r].lapsed = lapsed]
    BY <2>2 DEF UseOneOf
  <2> DEFINE new == [q EXCEPT !.at = "answered", !.op = "schedule", !.arg = x, !.result = y,
                              !.lapsed = lapsed]
  <2>4. Become(r, new)
    BY <2>3 DEF Become, TypeInv
  <2>5. /\ new \in RequestRecords /\ new.at = "answered" /\ new.op = "schedule"
        /\ new.token = q.token /\ new.header = q.header /\ new.who = q.who
        /\ new.crossed = q.crossed /\ new.clashed = q.clashed
        /\ q.lapsed => new.lapsed
    <3>1. y \in Outcomes \union SenderIds /\ x \in SenderIds /\ lapsed \in BOOLEAN
      BY <1>13, <2>2, <2>3 DEF Outcomes
    <3>2. new \in RequestRecords
      BY <1>1, <3>1, FoundRecord
    <3>3. new.lapsed = lapsed
      BY <1>1 DEF RequestRecords
    <3>4. q.lapsed => new.lapsed
      BY <2>2, <3>3, Zenon
    <3>5. QED
      BY <1>1, <3>2, <3>4 DEF RequestRecords
  <2> HIDE DEF new
  <2>6. QED
    BY <1>2, <2>1, <2>4, <2>5, RouteMoves DEF SignIns, RouteAts
<1>14. Listed(r) \subseteq SenderIds
  BY DEF Listed
<1>15. QED
  BY <1>7, <1>8, <1>9, <1>10, <1>11, <1>12, <1>13, <1>14 DEF RouteStep

\* A statement that was given up writes no account and no request.
LEMMA RunLateOK ==
  ASSUME TypeInv, AccountInv, RunLate
  PROVE  TypeInv' /\ AccountInv'
<1>1. PICK s \in late:
        /\ late' = late \ {s}
        /\ \/ senders' = [x \in SenderIds |->
                 IF x \in Kept("db", s.user) \intersect {s.arg} THEN Gone ELSE senders[x]]
           \/ s.do # "delete" /\ Unused # {} /\ Insert("db", s.user, s.do = "default")
  BY DEF RunLate
<1>2. UNCHANGED <<isProd, users, remembered, failures, request, isPostgresConnected, overlapped>>
  BY DEF RunLate, accountVars
<1>3. /\ senders' \in [SenderIds -> SenderRecords]
      /\ \A x \in SenderIds: senders'[x].store = "db" => senders'[x].user \in Emails
  <2>1. s.do # "delete" => s.user \in Emails
    BY <1>1 DEF TypeInv
  <2>2. (s.do = "default") \in BOOLEAN
    OBVIOUS
  <2>3. QED
    BY <1>1, <2>1, <2>2, InsertStep, DeleteStep
<1>4. TypeInv'
  BY <1>1, <1>2, <1>3 DEF TypeInv, TypeOK, AccountsTypeOK, SenderRecords
<1>5. AccountInv'
  BY <1>2
  DEF AccountInv, IdsInv, RequestInv, PlaceInv, FoundInv, ActsFor, Succeeds, Matching, Split, Own,
      Dev
<1>6. QED
  BY <1>4, <1>5

\* Every step keeps the invariant of accounts.
LEMMA AccountNext ==
  ASSUME TypeInv, AccountInv, [Next]_vars
  PROVE  TypeInv' /\ AccountInv'
<1>1. CASE UNCHANGED vars
  <2>1. UNCHANGED <<isProd, users, remembered, failures, request, isPostgresConnected, senders,
                    late, overlapped>>
    BY <1>1 DEF vars, accountVars, senderVars
  <2>2. TypeInv'
    BY <2>1 DEF TypeInv, TypeOK, AccountsTypeOK
  <2>3. AccountInv'
    BY <2>1
    DEF AccountInv, IdsInv, RequestInv, PlaceInv, FoundInv, ActsFor, Succeeds, Matching, Split, Own,
        Dev
  <2>4. QED
    BY <2>2, <2>3
<1>2. ASSUME NEW r \in Requests, End(r), UNCHANGED <<isPostgresConnected, senderVars>>
      PROVE  TypeInv' /\ AccountInv'
  <2>1. Become(r, NoRequest) /\ UNCHANGED <<isProd, users, remembered, failures>> /\ MemoryGrows
    BY <1>2 DEF End, accountVars, MemoryGrows, TypeInv, TypeOK, AccountsTypeOK
  <2>2. NoRequest \in RequestRecords
    BY RecordTypes
  <2>3. request'[r] = NoRequest
    BY <2>1, <2>2, BecomeStep
  <2>4. RequestInv(r)'
    BY <2>3
    DEF NoRequest, RequestInv, PlaceInv, FoundInv, ActsFor, Succeeds, AuthAts, SignInAts, RouteAts,
        SignIns
  <2>5. QED
    BY <1>2, <2>1, <2>2, <2>4, MovesOn
<1>3. ASSUME AllAnswered, NEW r \in Requests, AccountStep(r) PROVE TypeInv' /\ AccountInv'
  BY <1>3, AuthStepOK, SignInStepOK DEF AccountStep
<1>4. QED
  BY <1>1, <1>2, <1>3, RunLateOK, RouteStepOK DEF Next

\* Every state of every behaviour has its types, and each account's and request's
\* invariant.
THEOREM SendersTypeCorrect == Spec => [](TypeInv /\ AccountInv)
<1>1. Init => TypeInv /\ AccountInv
  BY AccountInit
<1>2. TypeInv /\ AccountInv /\ [Next]_vars => (TypeInv /\ AccountInv)'
  BY AccountNext
<1>3. QED
  BY <1>1, <1>2, PTL DEF Spec

\* A request acts for its own account, with the exceptions that requireAuth makes
\* (middleware/auth.ts:50, 84).
THEOREM ActsForItsAccountHolds == Spec => []ActsForItsAccount
<1>1. AccountInv => ActsForItsAccount
  BY DEF AccountInv, RequestInv, ActsFor, ActsForItsAccount
<1>2. QED
  BY <1>1, SendersTypeCorrect, PTL

\* A sign-in that fails has a reason: a query threw, another request wrote the
\* account, two accounts are meant, or the id of a dev-login was made up in the
\* same millisecond as another's (routes/auth.ts:71, 117, 122).
THEOREM SignInSucceedsHolds == Spec => []SignInSucceeds
<1>1. AccountInv => SignInSucceeds
  BY DEF AccountInv, RequestInv, Succeeds, SignInSucceeds
<1>2. QED
  BY <1>1, SendersTypeCorrect, PTL

-------------------------------------------------------------------------------
(* The default sender *)

\* No default, creation or late creation that was not there before: what was so
\* of an account stays so.
LEMMA DefaultStays ==
  ASSUME DefaultInv, overlapped \subseteq overlapped',
         \A u \in Emails \ overlapped: \A x \in SenderIds: DefaultOf(u, x)' => DefaultOf(u, x),
         \A r \in Requests: request'[r].at = "default" =>
             request[r].at = "default" /\ request'[r].who = request[r].who,
         \A s \in late': s.do = "default" => s \in late \/ s.user \in overlapped'
  PROVE  DefaultInv'
<1> SUFFICES ASSUME NEW u \in Emails \ overlapped'
             PROVE  /\ \A x, y \in SenderIds: DefaultOf(u, x)' /\ DefaultOf(u, y)' => x = y
                    /\ \A r \in Requests: Making(u, r)' =>
                         /\ \A x \in SenderIds: ~DefaultOf(u, x)'
                         /\ \A s \in Requests: Making(u, s)' => s = r
                    /\ \A s \in late': s.do = "default" => s.user # u
  BY DEF DefaultInv
<1>1. u \in Emails \ overlapped
  OBVIOUS
<1>2. \A x \in SenderIds: DefaultOf(u, x)' => DefaultOf(u, x)
  BY <1>1
<1>3. \A r \in Requests: Making(u, r)' => Making(u, r)
  BY DEF Making, At
<1>4. /\ \A x, y \in SenderIds: DefaultOf(u, x) /\ DefaultOf(u, y) => x = y
      /\ \A r \in Requests: Making(u, r) =>
           /\ \A x \in SenderIds: ~DefaultOf(u, x)
           /\ \A s \in Requests: Making(u, s) => s = r
      /\ \A s \in late: s.do = "default" => s.user # u
  BY <1>1 DEF DefaultInv
<1>5. \A s \in late': s.do = "default" => s.user # u
  BY <1>4
<1>6. QED
  BY <1>2, <1>3, <1>4, <1>5

\* The steps of requireAuth and of a sign-in stay away from the routes.
LEMMA AccountStepStays ==
  ASSUME TypeInv, AccountInv, NEW r \in Requests, AccountStep(r)
  PROVE  /\ request'[r].at # "default" /\ request'[r].op \in SignIns \union {"route"}
         /\ \A s \in Requests \ {r}:
              request'[s].at = request[s].at /\ request'[s].who = request[s].who
<1> DEFINE q == request[r]
           Fits(new) == new.at # "default" /\ new.op \in SignIns \union {"route"}
<1>1. q \in RequestRecords /\ PlaceInv(r)
  BY DEF TypeInv, AccountInv, RequestInv
<1>2. q.at \in AuthAts \union SignInAts => q.op \in SignIns \union {"route"}
  BY <1>1 DEF PlaceInv, SignIns
<1>3. ASSUME q.op \in SignIns \union {"route"}
      PROVE  /\ \A label \in {"dev", "devCreate", "create", "update"}: Fits(Moved(r, label))
             /\ \A u: /\ Fits(Acting(r, u)) /\ Fits(Lapsed(Acting(r, u)))
                      /\ Fits(Clashed(Acting(r, u))) /\ Fits(SignedIn(r, u))
             /\ \A u: Fits([Moved(r, "update") EXCEPT !.who = u])
             /\ Fits(SignInError(r)) /\ Fits(Lapsed(SignInError(r))) /\ Fits(Clashed(SignInError(r)))
             /\ \A header: Fits(Lapsed(DevFallback(q, header)))
  BY <1>1, <1>3
  DEF RequestRecords, Moved, Acting, Answered, Lapsed, Clashed, SignedIn, SignInError, DevFallback
<1>4. ASSUME NEW new, Fits(new),
             Become(r, new) \/ (\E e \in Emails, g \in GoogleIds \union MadeUp:
                                    WriteUser(r, e, g, new))
      PROVE  /\ Fits(request'[r])
             /\ \A s \in Requests \ {r}:
                  request'[s].at = request[s].at /\ request'[s].who = request[s].who
  <2>1. CASE Become(r, new)
    BY <1>4, <2>1 DEF Become, TypeInv
  <2>2. ASSUME NEW e \in Emails, NEW g \in GoogleIds \union MadeUp, WriteUser(r, e, g, new)
        PROVE  /\ Fits(request'[r])
               /\ \A s \in Requests \ {r}:
                    request'[s].at = request[s].at /\ request'[s].who = request[s].who
    <3>1. /\ request'[r] = new
          /\ \A s \in Requests \ {r}:
               request'[s] = [request[s] EXCEPT !.crossed = @ \/ After(s, e, g)]
      BY <2>2 DEF WriteUser
    <3>2. \A s \in Requests: request[s] \in RequestRecords
      BY DEF TypeInv
    <3>3. QED
      BY <1>4, <3>1, <3>2 DEF RequestRecords
  <2>3. QED
    BY <1>4, <2>1, <2>2
<1> HIDE DEF Fits
<1>5. ASSUME NEW token, NEW header, Arrive(r, token, header)
      PROVE  /\ Fits(request'[r])
             /\ \A s \in Requests \ {r}:
                  request'[s].at = request[s].at /\ request'[s].who = request[s].who
  <2> DEFINE arriving == [NoRequest EXCEPT !.op = "route", !.token = token]
  <2>1. Fits([arriving EXCEPT !.at = "session"]) /\ Fits(DevFallback(arriving, header))
    BY DEF Fits, NoRequest, DevFallback
  <2>2. CASE token = Nobody
    BY <1>4, <1>5, <2>1, <2>2 DEF Arrive
  <2>3. CASE token # Nobody
    BY <1>4, <1>5, <2>1, <2>3 DEF Arrive
  <2>4. QED
    BY <2>2, <2>3
<1>6. ASSUME NEW header, FindSession(r, header)
      PROVE  /\ Fits(request'[r])
             /\ \A s \in Requests \ {r}:
                  request'[s].at = request[s].at /\ request'[s].who = request[s].who
  <2>1. q.at \in AuthAts
    BY <1>6 DEF FindSession, At, AuthAts
  <2>2. Fits(Lapsed(SessionFallback(r, header)))
    BY <1>2, <1>3, <2>1 DEF SessionFallback
  <2>3. QED
    BY <1>2, <1>3, <1>4, <1>6, <2>1, <2>2 DEF FindSession
<1>7. CASE FindDev(r)
  BY <1>2, <1>3, <1>4, <1>7 DEF FindDev, AsMemory, At, AuthAts, Fits
<1>8. CASE CreateDev(r)
  <2>1. q.at \in AuthAts /\ Dev(r) \in Emails
    BY <1>1, <1>8, DemoAssumption DEF CreateDev, At, AuthAts, Dev, RequestRecords
  <2>2. PICK new: /\ WriteUser(r, Dev(r), "dev-google", new) \/ Become(r, new)
                  /\ \/ new = Acting(r, Dev(r)) \/ new = AsMemory(r)
                     \/ new = Clashed(AsMemory(r)) \/ new = Lapsed(AsMemory(r))
    BY <1>8 DEF CreateDev
  <2>3. Fits(new)
    BY <1>2, <1>3, <2>1, <2>2 DEF AsMemory
  <2>4. QED
    BY <1>4, <2>1, <2>2, <2>3 DEF MadeUp, Fits
<1>9. ASSUME NEW op \in SignIns, NEW arg, SignIn(r, op, arg)
      PROVE  /\ Fits(request'[r])
             /\ \A s \in Requests \ {r}:
                  request'[s].at = request[s].at /\ request'[s].who = request[s].who
  <2>1. Fits([NoRequest EXCEPT !.at = "find", !.op = op, !.arg = arg])
    BY DEF Fits, NoRequest
  <2>2. QED
    BY <1>4, <1>9, <2>1 DEF SignIn
<1>10. CASE FindAccount(r)
  BY <1>2, <1>3, <1>4, <1>10 DEF FindAccount, At, SignInAts, Fits
<1>11. ASSUME NEW e \in Emails, NEW g \in GoogleIds \union MadeUp, Upsert(r, e, g),
              q.at \in SignInAts
       PROVE  /\ Fits(request'[r])
              /\ \A s \in Requests \ {r}:
                   request'[s].at = request[s].at /\ request'[s].who = request[s].who
  BY <1>2, <1>3, <1>4, <1>11 DEF Upsert
<1>12. q.at \in SignInAts =>
         \/ q.op = "google" /\ q.arg.id \in GoogleIds /\ q.arg.email \in Emails
         \/ q.op = "devLogin" /\ q.arg \in Emails
  BY <1>1, ProfilesAssumption DEF PlaceInv
<1>13. CASE CreateAccount(r)
  <2>1. q.at \in SignInAts
    BY <1>13 DEF CreateAccount, At, SignInAts
  <2>2. Become(r, SignInError(r)) \/ \E e \in Emails, g \in GoogleIds \union MadeUp: Upsert(r, e, g)
    <3>1. CASE q.op = "google"
      BY <1>12, <1>13, <2>1, <3>1 DEF CreateAccount
    <3>2. CASE q.op # "google"
      BY <1>12, <1>13, <2>1, <3>2 DEF CreateAccount, MadeUp
    <3>3. QED
      BY <3>1, <3>2
  <2>3. QED
    BY <1>2, <1>3, <1>4, <1>11, <2>1, <2>2 DEF Fits
<1>14. CASE UpdateAccount(r)
  <2>1. q.at = "update" /\ q.at \in SignInAts
    BY <1>14 DEF UpdateAccount, At, SignInAts
  <2>2. q.who \in Emails /\ q.arg.id \in GoogleIds
    BY <1>1, <1>12, <2>1 DEF PlaceInv
  <2>3. QED
    BY <1>11, <1>14, <2>1, <2>2 DEF UpdateAccount, Fits
<1>15. QED
  BY <1>5, <1>6, <1>7, <1>8, <1>9, <1>10, <1>13, <1>14
  DEF AccountStep, AuthStep, SignInStep, SignIns, Fits

\* A route's request that moves on, without becoming one that creates a default.
LEMMA DefaultMoves ==
  ASSUME TypeInv, DefaultInv, NEW r \in Requests, NEW new, new.at # "default", Become(r, new),
         overlapped \subseteq overlapped',
         \A u \in Emails: \A x \in SenderIds: DefaultOf(u, x)' => DefaultOf(u, x),
         \A s \in late': s.do = "default" => s \in late \/ s.user \in overlapped'
  PROVE  DefaultInv'
<1>1. request'[r] = new /\ \A s \in Requests \ {r}: request'[s] = request[s]
  BY DEF Become, TypeInv
<1>2. \A s \in Requests: request'[s].at = "default" =>
        request[s].at = "default" /\ request'[s].who = request[s].who
  BY <1>1
<1>3. QED
  BY <1>2, DefaultStays

\* An inserted sender that is not a default, or not a row, makes no default.
LEMMA NoDefaultInserted ==
  ASSUME TypeInv, Unused # {}, NEW store \in {"db", "memory"}, NEW u \in Emails \union MemoryUsers,
         store = "db" => u \in Emails, Insert(store, u, FALSE)
  PROVE  \A v \in Emails: \A x \in SenderIds: DefaultOf(v, x)' => DefaultOf(v, x)
<1>1. /\ NewId \in SenderIds /\ senders'[NewId] = Sender(store, u, FALSE)
      /\ \A x \in SenderIds \ {NewId}: senders'[x] = senders[x]
  BY InsertStep
<1>2. ~senders'[NewId].default
  BY <1>1 DEF Sender
<1>3. QED
  BY <1>1, <1>2 DEF DefaultOf, Kept

\* A deletion makes no default.
LEMMA NoDefaultDeleted ==
  ASSUME TypeInv, NEW D,
         senders' = [x \in SenderIds |-> IF x \in D THEN Gone ELSE senders[x]]
  PROVE  \A v \in Emails: \A x \in SenderIds: DefaultOf(v, x)' => DefaultOf(v, x)
<1>1. \A x \in SenderIds: senders'[x] = IF x \in D THEN Gone ELSE senders[x]
  BY DeleteStep
<1>2. Gone.store = "gone"
  BY DEF Gone, Sender
<1>3. QED
  BY <1>1, <1>2 DEF DefaultOf, Kept

\* Each step of a route: the one that finds no sender, and the one that inserts
\* the default, are those that matter.
LEMMA DefaultRoute ==
  ASSUME TypeInv, AccountInv, DefaultInv, NEW r \in Requests, RouteStep(r)
  PROVE  DefaultInv'
<1> DEFINE u == request[r].who
           same == \A v \in Emails: \A x \in SenderIds: DefaultOf(v, x)' => DefaultOf(v, x)
<1>1. request[r] \in RequestRecords /\ PlaceInv(r)
  BY DEF TypeInv, AccountInv, RequestInv
<1>2. \A label \in {"memory", "memoryDefault"}:
        Moved(r, label).at = label /\ Lapsed(Moved(r, label)).at = label
  BY <1>1 DEF Moved, Lapsed, RequestRecords
<1>3. \A x: /\ Answered(r, x).at = "answered" /\ Created(r, x).at = "answered"
            /\ Lapsed(Created(r, x)).at = "answered"
  BY <1>1 DEF Answered, Created, Lapsed, RequestRecords
<1>4. request[r].at \in RouteAts => u \in Emails \union MemoryUsers
  BY <1>1 DEF PlaceInv, RequestRecords, AuthAts, RouteAts
<1>5. UNCHANGED senders => same
  BY DEF DefaultOf, Kept
<1>6. CASE ListSenders(r)
  <2>1. /\ request[r].at = "route" /\ UNCHANGED <<senders, late>>
        /\ overlapped \subseteq overlapped' /\ same
    BY <1>5, <1>6 DEF ListSenders, At, InTime, GivesUp
  <2>2. CASE Become(r, Answered(r, "listed")) \/ Become(r, Lapsed(Moved(r, "memory")))
    BY <1>2, <1>3, <2>1, <2>2, DefaultMoves
  <2>3. CASE /\ Found(r) = {} /\ Become(r, Moved(r, "default"))
             /\ overlapped' = overlapped \union (IF Creating(r) THEN {u} \intersect Emails ELSE {})
    <3>1. /\ request'[r].who = u /\ request'[r].at = "default"
          /\ \A s \in Requests \ {r}: request'[s] = request[s]
      BY <1>1, <2>3 DEF Become, Moved, TypeInv, RequestRecords
    <3>2. SUFFICES ASSUME NEW v \in Emails \ overlapped'
                   PROVE  /\ \A x, y \in SenderIds: DefaultOf(v, x)' /\ DefaultOf(v, y)' => x = y
                          /\ \A t \in Requests: Making(v, t)' =>
                               /\ \A x \in SenderIds: ~DefaultOf(v, x)'
                               /\ \A s \in Requests: Making(v, s)' => s = t
                          /\ \A s \in late': s.do = "default" => s.user # v
      BY DEF DefaultInv
    <3>3. /\ v \in Emails \ overlapped
          /\ \A x, y \in SenderIds: DefaultOf(v, x) /\ DefaultOf(v, y) => x = y
          /\ \A t \in Requests: Making(v, t) =>
               /\ \A x \in SenderIds: ~DefaultOf(v, x)
               /\ \A s \in Requests: Making(v, s) => s = t
          /\ \A s \in late: s.do = "default" => s.user # v
      BY <2>3, <3>2 DEF DefaultInv
    <3>4. \A x \in SenderIds: DefaultOf(v, x)' => DefaultOf(v, x)
      BY <2>1
    <3>5. v = u => /\ \A x \in SenderIds: ~DefaultOf(v, x)
                   /\ \A s \in Requests \ {r}: ~Making(v, s)
      BY <2>3, <3>2 DEF Found, DefaultOf, Kept, Creating, Making, At
    <3>6. \A s \in Requests: Making(v, s)' => Making(v, s) \/ (s = r /\ v = u)
      BY <3>1 DEF Making, At
    <3>7. \A t \in Requests: Making(v, t)' =>
            /\ \A x \in SenderIds: ~DefaultOf(v, x)'
            /\ \A s \in Requests: Making(v, s)' => s = t
      BY <3>3, <3>4, <3>5, <3>6
    <3>8. QED
      BY <2>1, <3>3, <3>4, <3>7
  <2>4. QED
    BY <1>6, <2>2, <2>3 DEF ListSenders
<1>7. CASE CreateDefault(r)
  <2>1. request[r].at = "default" /\ request[r].at \in RouteAts /\ Unused # {}
    BY <1>7 DEF CreateDefault, At, RouteAts
  <2>2. CASE InTime /\ HasUser(u) /\ Insert("db", u, TRUE) /\ Become(r, Answered(r, "listed"))
             /\ UNCHANGED overlapped
    <3>1. /\ NewId \in SenderIds /\ senders'[NewId] = Sender("db", u, TRUE)
          /\ \A x \in SenderIds \ {NewId}: senders'[x] = senders[x]
      BY <2>1, <2>2, InsertStep DEF HasUser
    <3>2. /\ request'[r].at = "answered" /\ UNCHANGED late
          /\ \A s \in Requests \ {r}: request'[s] = request[s]
      BY <1>3, <2>2 DEF Become, TypeInv, InTime
    <3>3. SUFFICES ASSUME NEW v \in Emails \ overlapped'
                   PROVE  /\ \A x, y \in SenderIds: DefaultOf(v, x)' /\ DefaultOf(v, y)' => x = y
                          /\ \A t \in Requests: Making(v, t)' =>
                               /\ \A x \in SenderIds: ~DefaultOf(v, x)'
                               /\ \A s \in Requests: Making(v, s)' => s = t
                          /\ \A s \in late': s.do = "default" => s.user # v
      BY DEF DefaultInv
    <3>4. /\ \A x, y \in SenderIds: DefaultOf(v, x) /\ DefaultOf(v, y) => x = y
          /\ \A t \in Requests: Making(v, t) =>
               /\ \A x \in SenderIds: ~DefaultOf(v, x)
               /\ \A s \in Requests: Making(v, s) => s = t
          /\ \A s \in late: s.do = "default" => s.user # v
      BY <2>2, <3>3 DEF DefaultInv
    <3>5. \A x \in SenderIds: DefaultOf(v, x)' => DefaultOf(v, x) \/ (v = u /\ x = NewId)
      BY <3>1 DEF DefaultOf, Kept, Sender
    <3>6. v = u => /\ \A x \in SenderIds: ~DefaultOf(v, x)
                   /\ \A s \in Requests \ {r}: ~Making(v, s)
      BY <2>1, <3>4 DEF Making, At
    <3>7. \A s \in Requests: Making(v, s)' => Making(v, s) /\ s # r
      BY <3>2 DEF Making, At
    <3>8. QED
      BY <3>2, <3>4, <3>5, <3>6, <3>7
  <2>3. CASE InTime /\ ~HasUser(u) /\ Become(r, Moved(r, "memory"))
             /\ UNCHANGED <<senders, overlapped>>
    BY <1>2, <1>5, <2>3, DefaultMoves DEF InTime
  <2>4. CASE /\ GivesUp(IF HasUser(u) THEN {Statement(r, "default", u, Nobody)} ELSE {})
             /\ Become(r, Lapsed(Moved(r, "memory")))
             /\ overlapped' = overlapped \union ({u} \intersect Emails)
             /\ UNCHANGED senders
    <3>1. HasUser(u) => Statement(r, "default", u, Nobody).user \in overlapped'
      BY <2>4 DEF HasUser, Statement
    <3>2. \A s \in late': s.do = "default" => s \in late \/ s.user \in overlapped'
      BY <2>4, <3>1, GivesUpStep
    <3>3. QED
      BY <1>2, <1>5, <2>4, <3>2, DefaultMoves
  <2>5. QED
    BY <1>7, <2>2, <2>3, <2>4 DEF CreateDefault
<1>8. CASE ListFromMemory(r)
  <2>1. Become(r, Moved(r, "memoryDefault")) \/ Become(r, Answered(r, "listed"))
    <3>1. CASE Kept("memory", u) = {}
      BY <1>8, <3>1 DEF ListFromMemory
    <3>2. CASE Kept("memory", u) # {}
      BY <1>8, <3>2 DEF ListFromMemory
    <3>3. QED
      BY <3>1, <3>2
  <2>2. UNCHANGED <<senders, late, overlapped>>
    BY <1>8 DEF ListFromMemory, senderVars
  <2>3. QED
    BY <1>2, <1>3, <1>5, <2>1, <2>2, DefaultMoves
<1>9. CASE CreateMemoryDefault(r)
  <2>1. /\ request[r].at \in RouteAts /\ Unused # {} /\ Insert("memory", u, FALSE)
        /\ Become(r, Answered(r, "listed")) /\ UNCHANGED <<late, overlapped>>
    BY <1>9 DEF CreateMemoryDefault, At, RouteAts
  <2>2. same
    BY <1>4, <2>1, NoDefaultInserted
  <2>3. QED
    BY <1>3, <2>1, <2>2, DefaultMoves
<1>10. CASE CreateSender(r)
  <2>1. request[r].at \in RouteAts /\ Unused # {} /\ UNCHANGED overlapped
    BY <1>10 DEF CreateSender, At, RouteAts
  <2>2. PICK new: /\ new = Created(r, NewId) \/ new = Lapsed(Created(r, NewId))
                  /\ Become(r, new)
    BY <1>10 DEF CreateSender
  <2>3. PICK store \in {"db", "memory"}: Insert(store, u, FALSE) /\ (store = "db" => u \in Emails)
    BY <1>10 DEF CreateSender, HasUser
  <2>4. same
    BY <1>4, <2>1, <2>3, NoDefaultInserted
  <2>5. \A s \in late': s.do = "default" => s \in late
    <3>1. UNCHANGED late \/ GivesUp(IF HasUser(u) THEN {Statement(r, "create", u, Nobody)} ELSE {})
      BY <1>10 DEF CreateSender, InTime
    <3>2. Statement(r, "create", u, Nobody).do = "create"
      BY DEF Statement
    <3>3. QED
      BY <3>1, <3>2, GivesUpStep
  <2>6. QED
    BY <1>3, <2>1, <2>2, <2>4, <2>5, DefaultMoves
<1>11. ASSUME NEW x \in SenderIds, DeleteSender(r, x) PROVE DefaultInv'
  <2> DEFINE answer == [Answered(r, "deleted") EXCEPT !.op = "delete", !.arg = x]
  <2>1. PICK new: (new = answer \/ new = Lapsed(answer)) /\ Become(r, new)
    BY <1>11 DEF DeleteSender
  <2>2. PICK store \in {"db", "memory"}: Delete(r, store, x)
    BY <1>11 DEF DeleteSender
  <2>3. same
    BY <2>2, NoDefaultDeleted DEF Delete
  <2>4. \A s \in late': s.do = "default" => s \in late
    <3>1. UNCHANGED late \/ GivesUp({Statement(r, "delete", u, x)})
      BY <1>11 DEF DeleteSender, InTime
    <3>2. Statement(r, "delete", u, x).do = "delete"
      BY DEF Statement
    <3>3. QED
      BY <3>1, <3>2, GivesUpStep
  <2>5. new.at = "answered" /\ UNCHANGED overlapped
    BY <1>1, <1>11, <2>1 DEF DeleteSender, Answered, Lapsed, RequestRecords
  <2>6. QED
    BY <2>1, <2>3, <2>4, <2>5, DefaultMoves
<1>12. ASSUME NEW x \in SenderIds, FindSender(r, x) PROVE DefaultInv'
  <2>1. UNCHANGED <<senders, late, overlapped>>
    BY <1>12 DEF FindSender, InTime, GivesUp
  <2>2. /\ request'[r].at = "answered"
        /\ \A s \in Requests \ {r}: request'[s] = request[s]
    <3>1. PICK y, lapsed: request' = [request EXCEPT ![r].at = "answered", ![r].op = "schedule",
                                      ![r].arg = x, ![r].result = y, ![r].lapsed = lapsed]
      BY <1>12 DEF FindSender, UseOneOf
    <3>2. QED
      BY <1>1, <3>1 DEF TypeInv, RequestRecords
  <2>3. QED
    BY <1>5, <2>1, <2>2, DefaultStays
<1>13. Listed(r) \subseteq SenderIds
  BY DEF Listed
<1>14. QED
  BY <1>6, <1>7, <1>8, <1>9, <1>10, <1>11, <1>12, <1>13 DEF RouteStep

\* There is no default sender at first, and nobody to make one.
LEMMA DefaultInit == Init => DefaultInv
BY DEF Init, AccountsInit, DefaultInv, DefaultOf, Kept, Making, At, NoRequest, Unborn, Sender

\* Every step keeps the invariant of the default senders.
LEMMA DefaultNext ==
  ASSUME TypeInv, AccountInv, DefaultInv, [Next]_vars
  PROVE  DefaultInv'
<1>1. CASE UNCHANGED vars
  BY <1>1 DEF vars, senderVars, DefaultInv, DefaultOf, Kept, Making, At
<1>2. ASSUME NEW r \in Requests, End(r), UNCHANGED senderVars PROVE DefaultInv'
  <2>1. Become(r, NoRequest) /\ NoRequest.at # "default" /\ UNCHANGED <<senders, late, overlapped>>
    BY <1>2 DEF End, NoRequest, senderVars
  <2>2. QED
    BY <2>1, DefaultMoves DEF DefaultOf, Kept
<1>3. ASSUME NEW r \in Requests, AccountStep(r) PROVE DefaultInv'
  <2>1. UNCHANGED <<senders, late, overlapped>>
    BY <1>3 DEF AccountStep, senderVars
  <2>2. \A s \in Requests: request'[s].at = "default" =>
          request[s].at = "default" /\ request'[s].who = request[s].who
    BY <1>3, AccountStepStays
  <2>3. QED
    BY <2>1, <2>2, DefaultStays DEF DefaultOf, Kept
<1>4. CASE RunLate
  <2>1. PICK s \in late:
          /\ late' = late \ {s}
          /\ \/ s.do = "delete" /\ senders' = [x \in SenderIds |->
                    IF x \in Kept("db", s.user) \intersect {s.arg} THEN Gone ELSE senders[x]]
             \/ s.do # "delete" /\ Unused # {} /\ Insert("db", s.user, s.do = "default")
    BY <1>4 DEF RunLate
  <2>2. UNCHANGED <<request, overlapped>>
    BY <1>4 DEF RunLate
  <2>3. s.do = "delete" =>
          \A v \in Emails: \A x \in SenderIds: DefaultOf(v, x)' => DefaultOf(v, x)
    BY <2>1, NoDefaultDeleted
  <2>4. s.do # "delete" => s.user \in Emails
    BY DEF TypeInv
  <2>5. s.do \notin {"delete", "default"} =>
          \A v \in Emails: \A x \in SenderIds: DefaultOf(v, x)' => DefaultOf(v, x)
    <3> SUFFICES ASSUME s.do \notin {"delete", "default"}
                 PROVE  \A v \in Emails: \A x \in SenderIds: DefaultOf(v, x)' => DefaultOf(v, x)
      OBVIOUS
    <3>1. Insert("db", s.user, FALSE) /\ Unused # {}
      BY <2>1 DEF Insert
    <3>2. QED
      BY <2>4, <3>1, NoDefaultInserted
  <2>6. s.do = "default" =>
          \A v \in Emails \ overlapped: \A x \in SenderIds: DefaultOf(v, x)' => DefaultOf(v, x)
    <3> SUFFICES ASSUME s.do = "default", NEW v \in Emails \ overlapped, NEW x \in SenderIds,
                        DefaultOf(v, x)'
                 PROVE  DefaultOf(v, x)
      OBVIOUS
    <3>1. s.user # v
      BY DEF DefaultInv
    <3>2. Insert("db", s.user, TRUE) /\ Unused # {}
      BY <2>1 DEF Insert
    <3>3. /\ senders'[NewId] = Sender("db", s.user, TRUE)
          /\ \A y \in SenderIds \ {NewId}: senders'[y] = senders[y]
      BY <2>4, <3>2, InsertStep
    <3>4. QED
      BY <3>1, <3>3 DEF DefaultOf, Kept, Sender
  <2>7. QED
    BY <2>1, <2>2, <2>3, <2>5, <2>6, DefaultStays
<1>5. QED
  BY <1>1, <1>2, <1>3, <1>4, DefaultRoute DEF Next

\* An account gets a second default sender only if two creations of it overlapped
\* (routes/senders.ts:28).
THEOREM OneDefaultHolds == Spec => []OneDefault
<1>1. ASSUME DefaultInv PROVE OneDefault
  <2> SUFFICES ASSUME NEW u \in Emails \ overlapped
               PROVE  Cardinality({x \in Kept("db", u): senders[x].default})
                        + Cardinality({r \in Requests: At(r, "default") /\ request[r].who = u}) <= 1
    BY DEF OneDefault
  <2> DEFINE D == {x \in Kept("db", u): senders[x].default}
             C == {r \in Requests: At(r, "default") /\ request[r].who = u}
  <2>1. /\ \A x, y \in D: x = y
        /\ C # {} => D = {}
        /\ \A r, s \in C: r = s
    BY <1>1 DEF DefaultInv, DefaultOf, Making, Kept
  <2> HIDE DEF D, C
  <2>2. ASSUME NEW S, \A x, y \in S: x = y
        PROVE  Cardinality(S) = IF S = {} THEN 0 ELSE 1
    <3>1. CASE S = {}
      BY <3>1, FS_EmptySet
    <3>2. CASE S # {}
      <4>1. PICK x \in S: S = {x}
        BY <2>2, <3>2
      <4>2. QED
        BY <3>2, <4>1, FS_Singleton
    <3>3. QED
      BY <3>1, <3>2
  <2>3. /\ Cardinality(D) = IF D = {} THEN 0 ELSE 1
        /\ Cardinality(C) = IF C = {} THEN 0 ELSE 1
    BY <2>1, <2>2
  <2>4. Cardinality(D) + Cardinality(C) <= 1
    BY <2>1, <2>3
  <2>5. QED
    BY <2>4 DEF D, C
<1>2. Init => TypeInv /\ AccountInv /\ DefaultInv
  BY AccountInit, DefaultInit
<1>3. TypeInv /\ AccountInv /\ DefaultInv /\ [Next]_vars => (TypeInv /\ AccountInv /\ DefaultInv)'
  BY AccountNext, DefaultNext
<1>4. QED
  BY <1>1, <1>2, <1>3, PTL DEF Spec

-------------------------------------------------------------------------------
(* The answers *)

\* What AnswersHold says of one request.
Holds(r) ==
    LET own == {x \in SenderIds: senders[x] = Gone \/ senders[x].user = Own(r)}
    IN At(r, "answered") /\ ~(request[r].lapsed \/ request[r].crossed \/ request[r].clashed) =>
         /\ request[r].op = "delete" => request[r].arg \notin Kept("db", Own(r))
         /\ request[r].op = "create" /\ request[r].result \in SenderIds =>
                request[r].result \in own /\ senders[request[r].result].store # "memory"
         /\ request[r].op = "schedule" /\ request[r].result \in SenderIds =>
                request[r].result \in own /\ request[r].result = request[r].arg

\* A request of which no query went wrong acts for its own account, which is in
\* the table, on every route.
LEMMA OwnAccount ==
  ASSUME TypeInv, AccountInv, NEW r \in Requests, request[r].at \in RouteAts,
         ~request[r].lapsed, ~request[r].crossed, ~request[r].clashed
  PROVE  request[r].who = Own(r) /\ Own(r) \in Emails
<1>1. request[r] \in RequestRecords /\ PlaceInv(r) /\ ActsFor(r)
  BY DEF TypeInv, AccountInv, RequestInv
<1>2. request[r].who = Own(r)
  BY <1>1 DEF PlaceInv, ActsFor, SignIns
<1>3. Own(r) \in Emails
  BY <1>1, DemoAssumption DEF Own, Dev, RequestRecords
<1>4. QED
  BY <1>2, <1>3

\* An answer of a route holds when it is given.
LEMMA RouteAnswers ==
  ASSUME TypeInv, AccountInv, NEW r \in Requests, RouteStep(r)
  PROVE  Holds(r)' /\ \A s \in Requests \ {r}: request'[s] = request[s]
<1> DEFINE q == request[r]
           u == request[r].who
           others == \A s \in Requests \ {r}: request'[s] = request[s]
           inOwn(x) == x \in SenderIds /\ (senders'[x] = Gone \/ senders'[x].user = Own(r)')
<1>1. q \in RequestRecords /\ PlaceInv(r) /\ request \in [Requests -> RequestRecords]
  BY DEF TypeInv, AccountInv, RequestInv
<1>2. ASSUME NEW new, Become(r, new), new.at # "answered" \/ new.op = "route"
      PROVE  Holds(r)' /\ others
  BY <1>1, <1>2 DEF Become, Holds, At
<1>3. q.at \in RouteAts => q.op = "route" /\ u \in Emails \union MemoryUsers
  BY <1>1 DEF PlaceInv, RequestRecords, AuthAts, RouteAts
<1>4. /\ \A label \in RouteAts: /\ Moved(r, label).at # "answered"
                                /\ Lapsed(Moved(r, label)).at # "answered"
      /\ \A x: Answered(r, x).op = q.op
  BY <1>1 DEF Moved, Lapsed, Answered, RequestRecords, RouteAts
<1>5. CASE ListSenders(r)
  <2>1. q.op = "route"
    BY <1>3, <1>5 DEF ListSenders, At, RouteAts
  <2>2. QED
    BY <1>2, <1>4, <1>5, <2>1 DEF ListSenders, RouteAts
<1>6. CASE CreateDefault(r)
  <2>1. q.op = "route"
    BY <1>3, <1>6 DEF CreateDefault, At, RouteAts
  <2>2. QED
    BY <1>2, <1>4, <1>6, <2>1 DEF CreateDefault, RouteAts
<1>7. CASE ListFromMemory(r)
  <2>1. q.op = "route"
    BY <1>3, <1>7 DEF ListFromMemory, At, RouteAts
  <2>2. CASE Kept("memory", u) = {}
    BY <1>2, <1>4, <1>7, <2>2 DEF ListFromMemory, RouteAts
  <2>3. CASE Kept("memory", u) # {}
    BY <1>2, <1>4, <1>7, <2>1, <2>3 DEF ListFromMemory
  <2>4. QED
    BY <2>2, <2>3
<1>8. CASE CreateMemoryDefault(r)
  <2>1. q.op = "route"
    BY <1>3, <1>8 DEF CreateMemoryDefault, At, RouteAts
  <2>2. QED
    BY <1>2, <1>4, <1>8, <2>1 DEF CreateMemoryDefault
<1>9. CASE CreateSender(r)
  <2>1. q.at \in RouteAts /\ Unused # {}
    BY <1>9 DEF CreateSender, At, RouteAts
  <2>2. PICK new: /\ \/ new = Created(r, NewId) /\
                         \/ HasUser(u) /\ Insert("db", u, FALSE)
                         \/ ~HasUser(u)
                     \/ new = Lapsed(Created(r, NewId))
                  /\ Become(r, new)
    BY <1>9 DEF CreateSender
  <2>3. request'[r] = new /\ others
    BY <1>1, <2>2 DEF Become
  <2>4. /\ new.op = "create" /\ new.result = NewId /\ new.token = q.token
        /\ new.header = q.header /\ new.crossed = q.crossed /\ new.clashed = q.clashed
        /\ new.lapsed \/ (new.lapsed = q.lapsed /\ (HasUser(u) => Insert("db", u, FALSE)))
    BY <1>1, <2>2 DEF Created, Answered, Lapsed, RequestRecords
  <2>5. CASE new.lapsed \/ new.crossed \/ new.clashed
    BY <2>3, <2>5 DEF Holds
  <2>6. CASE ~new.lapsed /\ ~new.crossed /\ ~new.clashed
    <3>1. ~q.lapsed /\ ~q.crossed /\ ~q.clashed /\ (HasUser(u) => Insert("db", u, FALSE))
      BY <2>4, <2>6
    <3>2. u = Own(r) /\ Own(r) \in Emails
      BY <2>1, <3>1, OwnAccount
    <3>3. Insert("db", u, FALSE) /\ u \in Emails
      BY <3>1, <3>2 DEF HasUser
    <3>4. NewId \in SenderIds /\ senders'[NewId] = Sender("db", u, FALSE)
      BY <2>1, <3>3, InsertStep
    <3>5. Own(r)' = Own(r)
      BY <2>3, <2>4 DEF Own, Dev
    <3>6. /\ request'[r].op = "create" /\ request'[r].result = NewId
          /\ senders'[NewId].user = Own(r)' /\ senders'[NewId].store = "db"
      BY <2>3, <2>4, <3>2, <3>4, <3>5 DEF Sender
    <3>7. Holds(r)'
      BY <3>4, <3>6 DEF Holds
    <3>8. QED
      BY <2>3, <3>7
  <2>7. QED
    BY <2>3, <2>5, <2>6
<1>10. ASSUME NEW x \in SenderIds, DeleteSender(r, x) PROVE Holds(r)' /\ others
  <2> DEFINE answer == [Answered(r, "deleted") EXCEPT !.op = "delete", !.arg = x]
  <2>1. q.at \in RouteAts
    BY <1>10 DEF DeleteSender, At, RouteAts
  <2>2. PICK new: /\ (new = answer /\ Delete(r, "db", x)) \/ new = Lapsed(answer)
                  /\ Become(r, new)
    BY <1>10 DEF DeleteSender
  <2>3. request'[r] = new /\ others
    BY <1>1, <2>2 DEF Become
  <2>4. /\ new.op = "delete" /\ new.arg = x /\ new.token = q.token
        /\ new.header = q.header /\ new.crossed = q.crossed /\ new.clashed = q.clashed
        /\ new.lapsed \/ (new.lapsed = q.lapsed /\ Delete(r, "db", x))
    BY <1>1, <2>2 DEF Answered, Lapsed, RequestRecords
  <2>5. CASE new.lapsed \/ new.crossed \/ new.clashed
    BY <2>3, <2>5 DEF Holds
  <2>6. CASE ~new.lapsed /\ ~new.crossed /\ ~new.clashed
    <3>1. u = Own(r) /\ Own(r)' = Own(r)
      BY <2>1, <2>3, <2>4, <2>6, OwnAccount DEF Own, Dev
    <3>2. \A y \in SenderIds: senders'[y] = IF y \in Deleted(r, "db", x) THEN Gone ELSE senders[y]
      BY <2>4, <2>6, DeleteStep DEF Delete
    <3>3. x \notin Kept("db", Own(r))'
      <4>1. CASE x \in Kept("db", u)
        <5>1. senders'[x] = Gone /\ Gone.store = "gone"
          BY <3>2, <4>1 DEF Deleted, Gone, Sender
        <5>2. QED
          BY <5>1 DEF Kept
      <4>2. CASE x \notin Kept("db", u)
        <5>1. senders'[x] = senders[x]
          BY <3>2, <4>2 DEF Deleted
        <5>2. QED
          BY <3>1, <4>2, <5>1 DEF Kept
      <4>3. QED
        BY <4>1, <4>2
    <3>4. request'[r].op = "delete" /\ request'[r].arg = x
      BY <2>3, <2>4
    <3>5. Holds(r)'
      BY <3>3, <3>4 DEF Holds
    <3>6. QED
      BY <2>3, <3>5
  <2>7. QED
    BY <2>3, <2>5, <2>6
<1>11. ASSUME NEW x \in SenderIds, FindSender(r, x) PROVE Holds(r)' /\ others
  <2>1. q.at \in RouteAts /\ UNCHANGED senders
    BY <1>11 DEF FindSender, At, RouteAts
  <2>2. CASE UseOneOf(r, x, OwnSender(r, x), q.lapsed)
    <3>1. PICK y \in IF OwnSender(r, x) = {} THEN {"refused"} ELSE OwnSender(r, x):
            request' = [request EXCEPT ![r].at = "answered", ![r].op = "schedule", ![r].arg = x,
                                       ![r].result = y, ![r].lapsed = q.lapsed]
      BY <2>2 DEF UseOneOf
    <3>2. /\ request'[r].op = "schedule" /\ request'[r].arg = x /\ request'[r].result = y
          /\ request'[r].lapsed = q.lapsed /\ request'[r].crossed = q.crossed
          /\ request'[r].token = q.token /\ request'[r].header = q.header
          /\ request'[r].clashed = q.clashed /\ others
      BY <1>1, <3>1 DEF RequestRecords
    <3>3. CASE q.lapsed \/ q.crossed \/ q.clashed
      BY <3>2, <3>3 DEF Holds
    <3>4. CASE ~q.lapsed /\ ~q.crossed /\ ~q.clashed
      <4>1. u = Own(r) /\ Own(r)' = Own(r)
        BY <2>1, <3>2, <3>4, OwnAccount DEF Own, Dev
      <4>2. y \in SenderIds => y = x /\ senders'[x].user = Own(r)'
        BY <2>1, <3>1, <4>1, SendersAssumption DEF OwnSender, Kept
      <4>3. Holds(r)'
        BY <3>2, <4>2 DEF Holds
      <4>4. QED
        BY <3>2, <4>3
    <3>5. QED
      BY <3>3, <3>4
  <2>3. CASE UseOneOf(r, x, MemorySender(r, x), TRUE)
    <3>1. request'[r].lapsed /\ others
      BY <1>1, <2>3 DEF UseOneOf, RequestRecords
    <3>2. QED
      BY <3>1 DEF Holds
  <2>4. QED
    BY <1>11, <2>2, <2>3 DEF FindSender
<1>12. Listed(r) \subseteq SenderIds
  BY DEF Listed
<1>13. QED
  BY <1>5, <1>6, <1>7, <1>8, <1>9, <1>10, <1>11, <1>12 DEF RouteStep

\* Answers hold until their request ends, before which nothing else happens.
LEMMA AnswersNext ==
  ASSUME TypeInv, AccountInv, \A r \in Requests: Holds(r), [Next]_vars
  PROVE  \A r \in Requests: Holds(r)'
<1>1. CASE UNCHANGED vars
  BY <1>1 DEF vars, accountVars, senderVars, Holds, At, Own, Dev, Kept
<1>2. ASSUME NEW r \in Requests, End(r), UNCHANGED senderVars, NEW s \in Requests PROVE Holds(s)'
  <2>1. UNCHANGED senders /\ request'[r] = NoRequest
        /\ \A t \in Requests \ {r}: request'[t] = request[t]
    BY <1>2 DEF End, Become, senderVars, TypeInv
  <2>2. CASE s = r
    BY <2>1, <2>2 DEF Holds, At, NoRequest
  <2>3. CASE s # r
    BY <2>1, <2>3 DEF Holds, At, Own, Dev, Kept
  <2>4. QED
    BY <2>2, <2>3
<1>3. ASSUME AllAnswered, NEW r \in Requests, AccountStep(r), NEW s \in Requests PROVE Holds(s)'
  <2>1. /\ request'[r].op \in SignIns \union {"route"}
        /\ \A t \in Requests \ {r}: request'[t].at = request[t].at
    BY <1>3, AccountStepStays
  <2>2. QED
    BY <1>3, <2>1 DEF Holds, At, AllAnswered, SignIns
<1>4. ASSUME AllAnswered, NEW r \in Requests, RouteStep(r), NEW s \in Requests PROVE Holds(s)'
  BY <1>4, RouteAnswers DEF Holds, At, AllAnswered
<1>5. ASSUME AllAnswered, RunLate, NEW s \in Requests PROVE Holds(s)'
  BY <1>5 DEF RunLate, Holds, At, AllAnswered
<1>6. QED
  BY <1>1, <1>2, <1>3, <1>4, <1>5 DEF Next

\* What the routes answer is so, in the request's own account
\* (routes/senders.ts:61, 97 and routes/emails.ts:66).
THEOREM AnswersHoldHolds == Spec => []AnswersHold
<1>1. (\A r \in Requests: Holds(r)) => AnswersHold
  BY DEF Holds, AnswersHold
<1>2. Init => TypeInv /\ AccountInv /\ \A r \in Requests: Holds(r)
  <2>1. ASSUME Init, NEW r \in Requests PROVE Holds(r)
    BY <2>1 DEF Init, AccountsInit, Holds, At, NoRequest
  <2>2. QED
    BY <2>1, AccountInit
<1>3. TypeInv /\ AccountInv /\ (\A r \in Requests: Holds(r)) /\ [Next]_vars =>
        (TypeInv /\ AccountInv /\ \A r \in Requests: Holds(r))'
  BY AccountNext, AnswersNext
<1>4. QED
  BY <1>1, <1>2, <1>3, PTL DEF Spec
===============================================================================
