-------------------------------- MODULE Senders --------------------------------
(***************************************************************************)
(* The senders of an account (routes/senders.ts), in PostgreSQL and in the *)
(* InMemoryStore, and the sender that POST /api/emails/schedule finds for  *)
(* a campaign.  Every route runs for the account that requireAuth gave its *)
(* request (Accounts).                                                     *)
(*                                                                         *)
(* A query that withDbTimeout gives up may still be executed, any time     *)
(* later.  The Ethereal account of a new sender is awaited before its      *)
(* insertion, and nothing else depends on it.                              *)
(***************************************************************************)
EXTENDS Accounts

CONSTANTS
    SenderIds,
    SeededSender     \* the sender that memory is seeded with

ASSUME SendersAssumption ==
    SeededSender \in SenderIds /\ SenderIds \intersect (Emails \union {"refused"}) = {}

VARIABLES
    isPostgresConnected,
    senders,         \* each sender: where it is, and whose
    late,            \* statements that go on after withDbTimeout gave them up
    overlapped       \* history: accounts for which one request found no sender
                     \* while another, or a late one, was creating it

senderVars == <<senders, late, overlapped>>
vars == <<accountVars, request, isPostgresConnected, senderVars>>

Stores == {"none", "db", "memory", "gone"}
Sender(store, user, default) == [store |-> store, user |-> user, default |-> default]
Unborn == Sender("none", Nobody, FALSE)
Gone == Sender("gone", Nobody, FALSE)

\* What a late statement does: insert a sender, or delete one, for a user.
Statement(r, do, user, arg) == [by |-> r, do |-> do, user |-> user, arg |-> arg]

TypeOK ==
    /\ AccountsTypeOK
    /\ isPostgresConnected \in BOOLEAN
    /\ senders \in [SenderIds -> [store: Stores, user: Emails \union MemoryUsers \union {Nobody},
                                  default: BOOLEAN]]
    /\ \A x \in SenderIds: senders[x].store = "db" => senders[x].user \in Emails
    /\ \A s \in late: s.by \in Requests /\ s.do \in {"default", "create", "delete"}
    /\ overlapped \subseteq Emails

Init ==
    /\ AccountsInit
    /\ isPostgresConnected \in BOOLEAN
    /\ senders = [x \in SenderIds |->
          IF x = SeededSender THEN Sender("memory", Memory[Demo], FALSE) ELSE Unborn]
    /\ late = {}
    /\ overlapped = {}

Kept(store, u) == {x \in SenderIds: senders[x].store = store /\ senders[x].user = u}

\* A new id.
Unused == {x \in SenderIds: senders[x].store = "none"}
NewId == CHOOSE x \in Unused: TRUE

Insert(store, u, default) == senders' = [senders EXCEPT ![NewId] = Sender(store, u, default)]

\* A sender's row refers to its user, who is in the table or not.
HasUser(u) == u \in Emails

-------------------------------------------------------------------------------
(* withDbTimeout *)

InTime == isPostgresConnected /\ UNCHANGED <<failures, late>>

\* Not tried, tried in vain, or given up: then the statement is left behind.
GivesUp(statements) ==
    \/ ~isPostgresConnected /\ UNCHANGED <<failures, late>>
    \/ isPostgresConnected /\ Throws /\ (UNCHANGED late \/ late' = late \union statements)

\* A statement left behind is executed.
RunLate ==
    /\ \E s \in late:
         /\ late' = late \ {s}
         /\ \/ s.do = "delete" /\ senders' =
                  [x \in SenderIds |->
                      IF x \in Kept("db", s.user) \intersect {s.arg} THEN Gone ELSE senders[x]]
            \/ s.do # "delete" /\ Unused # {} /\ Insert("db", s.user, s.do = "default")
    /\ UNCHANGED <<accountVars, request, isPostgresConnected, overlapped>>

-------------------------------------------------------------------------------
(* GET /api/senders *)

\* Mutant: only senders that the user added are looked for.
Found_Added(r) == {x \in Kept("db", request[r].who): ~senders[x].default}

\* findMany.
Found(r) == Kept("db", request[r].who)

\* Another request of the account is about to create the default.
Creating(r) == \E s \in Requests \ {r}:
    At(s, "default") /\ request[s].who = request[r].who

ListSenders(r) ==
    /\ At(r, "route")
    /\ \/ InTime /\ Found(r) # {} /\ Become(r, Answered(r, "listed")) /\ UNCHANGED overlapped
       \/ /\ InTime /\ Found(r) = {}
          /\ Become(r, Moved(r, "default"))
          /\ overlapped' = overlapped \union
                 (IF Creating(r) THEN {request[r].who} \intersect Emails ELSE {})
       \/ GivesUp({}) /\ Become(r, Lapsed(Moved(r, "memory"))) /\ UNCHANGED overlapped
    /\ UNCHANGED <<isProd, users, remembered, isPostgresConnected, senders>>

\* An account without senders gets one.
CreateDefault(r) ==
    LET u == request[r].who IN
    /\ At(r, "default") /\ Unused # {}
    /\ \/ /\ InTime /\ HasUser(u)
          /\ Insert("db", u, TRUE)
          /\ Become(r, Answered(r, "listed"))
          /\ UNCHANGED overlapped
       \/ InTime /\ ~HasUser(u) /\ Become(r, Moved(r, "memory")) /\ UNCHANGED <<senders, overlapped>>
       \/ /\ GivesUp(IF HasUser(u) THEN {Statement(r, "default", u, Nobody)} ELSE {})
          /\ Become(r, Lapsed(Moved(r, "memory")))
          /\ overlapped' = overlapped \union ({u} \intersect Emails)
          /\ UNCHANGED senders
    /\ UNCHANGED <<isProd, users, remembered, isPostgresConnected>>

\* catch: the senders in memory, or a default one there.
ListFromMemory(r) ==
    LET u == request[r].who IN
    /\ At(r, "memory")
    /\ Become(r, IF Kept("memory", u) = {} THEN Moved(r, "memoryDefault") ELSE Answered(r, "listed"))
    /\ UNCHANGED <<accountVars, isPostgresConnected, senderVars>>

CreateMemoryDefault(r) ==
    /\ At(r, "memoryDefault") /\ Unused # {}
    /\ Insert("memory", request[r].who, FALSE)
    /\ Become(r, Answered(r, "listed"))
    /\ UNCHANGED <<accountVars, isPostgresConnected, late, overlapped>>

-------------------------------------------------------------------------------
Created(r, x) == [Answered(r, x) EXCEPT !.op = "create"]

\* POST /api/senders.  What PostgreSQL does not take goes to memory.
CreateSender(r) ==
    LET u == request[r].who IN
    /\ At(r, "route") /\ Unused # {}
    /\ \/ InTime /\ HasUser(u) /\ Insert("db", u, FALSE) /\ Become(r, Created(r, NewId))
       \/ InTime /\ ~HasUser(u) /\ Insert("memory", u, FALSE) /\ Become(r, Created(r, NewId))
       \/ /\ GivesUp(IF HasUser(u) THEN {Statement(r, "create", u, Nobody)} ELSE {})
          /\ Insert("memory", u, FALSE)
          /\ Become(r, Lapsed(Created(r, NewId)))
    /\ UNCHANGED <<isProd, users, remembered, isPostgresConnected, overlapped>>

\* Mutant: the row is taken for its copy in memory.
Deleted_MemoryOnly(r, store, x) == Kept("memory", request[r].who) \intersect {x}

\* deleteMany by id and user, or what memory deletes.
Deleted(r, store, x) == Kept(store, request[r].who) \intersect {x}

Delete(r, store, x) ==
    senders' = [y \in SenderIds |-> IF y \in Deleted(r, store, x) THEN Gone ELSE senders[y]]

\* DELETE /api/senders/:id.  The answer is the same whatever was deleted.
DeleteSender(r, x) ==
    LET answer == [Answered(r, "deleted") EXCEPT !.op = "delete", !.arg = x] IN
    /\ At(r, "route")
    /\ \/ InTime /\ Delete(r, "db", x) /\ Become(r, answer)
       \/ /\ GivesUp({Statement(r, "delete", request[r].who, x)})
          /\ Delete(r, "memory", x)
          /\ Become(r, Lapsed(answer))
    /\ UNCHANGED <<isProd, users, remembered, isPostgresConnected, overlapped>>

-------------------------------------------------------------------------------
(* The sender of a campaign, POST /api/emails/schedule *)

\* findFirst by id and user.
OwnSender(r, x) == Kept("db", request[r].who) \intersect {x}

\* catch: the sender of that id in memory, whoever has it, or else one of the
\* user's there.
MemorySender(r, x) ==
    IF senders[x].store = "memory" THEN {x} ELSE Kept("memory", request[r].who)

\* The campaign for which x was chosen gets one of found, or is refused.
UseOneOf(r, x, found, lapsed) ==
    \E y \in IF found = {} THEN {"refused"} ELSE found:
        request' = [request EXCEPT ![r].at = "answered", ![r].op = "schedule", ![r].arg = x,
                                   ![r].result = y, ![r].lapsed = lapsed]

FindSender(r, x) ==
    /\ At(r, "route")
    /\ \/ InTime /\ UseOneOf(r, x, OwnSender(r, x), request[r].lapsed)
       \/ GivesUp({}) /\ UseOneOf(r, x, MemorySender(r, x), TRUE)
    /\ UNCHANGED <<isProd, users, remembered, isPostgresConnected, senders, overlapped>>

-------------------------------------------------------------------------------
\* What a client may have listed: the senders of its own account, of the one that
\* its requests act for when its session falls back, and of both in memory.
Listed(r) ==
    LET accounts == IF isProd /\ request[r].header = Nobody THEN {Own(r)} ELSE {Own(r), Dev(r)}
    IN {x \in SenderIds: \/ senders[x] = Gone
                         \/ senders[x].user \in accounts \union {Memory[e]: e \in accounts}}

RouteStep(r) ==
    \/ ListSenders(r) \/ CreateDefault(r) \/ ListFromMemory(r) \/ CreateMemoryDefault(r)
    \/ CreateSender(r)
    \/ \E x \in Listed(r): DeleteSender(r, x) \/ FindSender(r, x)

AccountStep(r) ==
    (AuthStep(r) \/ SignInStep(r)) /\ UNCHANGED <<isPostgresConnected, senderVars>>

\* An answer ends its request before anything else happens: nobody reads it.
Next ==
    \/ \E r \in Requests: End(r) /\ UNCHANGED <<isPostgresConnected, senderVars>>
    \/ AllAnswered /\ (RunLate \/ \E r \in Requests: AccountStep(r) \/ RouteStep(r))

Spec == Init /\ [][Next]_vars

-------------------------------------------------------------------------------

\* An account has one default sender, or one request that is about to create it,
\* unless one request found none while another was creating it, or its creation
\* was given up (routes/senders.ts:28).
OneDefault ==
    \A u \in Emails \ overlapped:
        LET defaults == {x \in Kept("db", u): senders[x].default}
            creating == {r \in Requests: At(r, "default") /\ request[r].who = u}
        IN Cardinality(defaults) + Cardinality(creating) <= 1

\* What the routes answer is so, in the account the request belongs to: a deleted
\* row is gone, a created sender is a row, a campaign has the sender the user
\* chose.  Exceptions are requests of which a query went wrong, be it in
\* requireAuth, and those that overlapped or clashed with the creation of an
\* account.
AnswersHold ==
    \A r \in Requests:
        LET result == request[r].result
            own == {x \in SenderIds: senders[x] = Gone \/ senders[x].user = Own(r)}
        IN At(r, "answered") /\ ~(request[r].lapsed \/ request[r].crossed \/ request[r].clashed) =>
             /\ request[r].op = "delete" => request[r].arg \notin Kept("db", Own(r))
             /\ request[r].op = "create" /\ result \in SenderIds =>
                    result \in own /\ senders[result].store # "memory"
             /\ request[r].op = "schedule" /\ result \in SenderIds =>
                    result \in own /\ result = request[r].arg
===============================================================================
