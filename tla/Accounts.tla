-------------------------------- MODULE Accounts -------------------------------
(***************************************************************************)
(* Accounts: the users table, signing in (routes/auth.ts), and whom a      *)
(* request acts for (requireAuth, middleware/auth.ts).                     *)
(*                                                                         *)
(* The queries here are awaited without withDbTimeout: they are answered,  *)
(* or throw.  When one throws, requireAuth turns to the InMemoryStore,     *)
(* which is seeded with the demo user and gets another for every email     *)
(* that requireAuth would have looked up in vain.  An account is known by  *)
(* its email, which no update changes and no route deletes.                *)
(***************************************************************************)
EXTENDS Naturals, FiniteSets

CONSTANTS
    Emails,
    Demo,            \* demo@reachinbox.ai
    Memory,          \* for an email, the user in memory, an account of its own
    Nobody,
    Headers,         \* emails that a header x-dev-user-email may name
    GoogleIds,
    Profiles,        \* what Google may say of its users: an id and an email
    Requests,        \* requests that may be under way at the same time
    MaxFailures      \* bound on queries that throw or take too long

ASSUME DemoAssumption == Demo \in Emails /\ Nobody \notin Emails
ASSUME MemoryAssumption == \A e \in Emails: Memory[e] \notin Emails \union {Nobody}
ASSUME HeadersAssumption == Headers \subseteq Emails
ASSUME ProfilesAssumption == Profiles \subseteq [id: GoogleIds, email: Emails]
ASSUME GoogleIdsAssumption == GoogleIds \intersect {"none", "google-id", "dev-google"} = {}
ASSUME FailuresAssumption == MaxFailures \in Nat

VARIABLES
    isProd,
    users,           \* each account's googleId; "none" before the account
    remembered,      \* the emails whose user is in memory
    request,         \* each request: where it is, what it asks for and for whom
    failures

accountVars == <<isProd, users, remembered, failures>>

SignIns == {"google", "devLogin"}
MemoryUsers == {Memory[e]: e \in Emails}

\* A googleId that the code makes up: a prefix and the millisecond, which only
\* the unique index tells apart from another of that prefix.
MadeUp == {"google-id", "dev-google"}

\* lapsed, crossed and clashed are history: a query of the request went wrong;
\* another request wrote the account that it is after; the id it made up was
\* another account's.
NoRequest == [at |-> "idle", op |-> "none", token |-> Nobody, header |-> Nobody, arg |-> Nobody,
              who |-> Nobody, result |-> "none",
              lapsed |-> FALSE, crossed |-> FALSE, clashed |-> FALSE]

AccountsTypeOK ==
    /\ isProd \in BOOLEAN
    /\ users \in [Emails -> GoogleIds \union MadeUp \union {"none"}]
    /\ Demo \in remembered /\ remembered \subseteq Emails
    /\ \A r \in Requests:
         /\ {request[r].token, request[r].header} \subseteq Emails \union {Nobody}
         /\ request[r].who \in Emails \union MemoryUsers \union {Nobody}
         /\ {request[r].lapsed, request[r].crossed, request[r].clashed} \subseteq BOOLEAN
    /\ failures \in 0..MaxFailures

AccountsInit ==
    /\ isProd \in BOOLEAN
    /\ users = [e \in Emails |-> "none"]
    /\ remembered = {Demo}
    /\ request = [r \in Requests |-> NoRequest]
    /\ failures = 0

At(r, label) == request[r].at = label

Become(r, new) == request' = [request EXCEPT ![r] = new]

\* r goes on at a step, acts for an account from now on, or is answered.
Moved(r, label) == [request[r] EXCEPT !.at = label]
Acting(r, account) == [request[r] EXCEPT !.at = "route", !.who = account]
Answered(r, result) == [request[r] EXCEPT !.at = "answered", !.result = result]

Lapsed(new) == [new EXCEPT !.lapsed = TRUE]
Clashed(new) == [new EXCEPT !.clashed = TRUE]

\* The account that a request without a session acts for.
Dev(r) == IF request[r].header = Nobody THEN Demo ELSE request[r].header

\* A query throws.
Throws == failures < MaxFailures /\ failures' = failures + 1

\* The request is after the account e, or another with Google's id g.
After(r, e, g) ==
    \/ request[r].op = "google" /\ (request[r].arg.email = e \/ request[r].arg.id = g)
    \/ request[r].op = "devLogin" /\ request[r].arg = e
    \/ request[r].at \in {"dev", "devCreate"} /\ e = Dev(r)

\* Another account than e has the googleId g, or may have it if g is made up.
Taken(e, g) == \E f \in Emails \ {e}: users[f] = g

\* The row of e may get the googleId g.
Free(e, g) == g \in MadeUp \/ ~Taken(e, g)

\* r writes the row of e and becomes new.
WriteUser(r, e, g, new) ==
    /\ users' = [users EXCEPT ![e] = g]
    /\ request' = [s \in Requests |->
          IF s = r THEN new
          ELSE [request[s] EXCEPT !.crossed = @ \/ After(s, e, g)]]

-------------------------------------------------------------------------------
(* requireAuth *)

\* Without a session the request q goes on as the account that its header
\* x-dev-user-email names, or as the demo user, which production refuses.
DevFallback(q, header) ==
    IF isProd /\ header = Nobody THEN [q EXCEPT !.at = "answered", !.result = "unauthorized"]
    ELSE [q EXCEPT !.at = "dev", !.header = header]

\* A request arrives with the cookie of an account, or with none.  Its header is
\* chosen when it is read, what it asks for when its route runs.
Arrive(r, token, header) ==
    LET q == [NoRequest EXCEPT !.op = "route", !.token = token]
    IN /\ At(r, "idle")
       /\ token # Nobody => users[token] # "none"
       /\ Become(r, IF token = Nobody THEN DevFallback(q, header) ELSE [q EXCEPT !.at = "session"])
       /\ UNCHANGED accountVars

\* Mutant: without the database every session falls back to development's user.
SessionFallback_Dev(r, header) == [Moved(r, "dev") EXCEPT !.header = header]

\* A session goes on as the user in memory of its email, or as without it.
SessionFallback(r, header) ==
    IF request[r].token \in remembered THEN Acting(r, Memory[request[r].token])
    ELSE DevFallback(request[r], header)

\* The user of the cookie is looked up.
FindSession(r, header) ==
    /\ At(r, "session")
    /\ \/ Become(r, Acting(r, request[r].token)) /\ UNCHANGED failures
       \/ Throws /\ Become(r, Lapsed(SessionFallback(r, header)))
    /\ UNCHANGED <<isProd, users, remembered>>

\* catch: the user in memory, who is made there if need be.
Remember(r) == remembered' = remembered \union {Dev(r)}
AsMemory(r) == Acting(r, Memory[Dev(r)])

\* The user of the header's email, or the demo user, is looked up.
FindDev(r) ==
    /\ At(r, "dev")
    /\ \/ /\ Become(r, IF users[Dev(r)] = "none" THEN Moved(r, "devCreate") ELSE Acting(r, Dev(r)))
          /\ UNCHANGED <<failures, remembered>>
       \/ Throws /\ Become(r, Lapsed(AsMemory(r))) /\ Remember(r)
    /\ UNCHANGED <<isProd, users>>

\* It is created.  That throws if the user exists by now, if the id was made up
\* in the same millisecond as another's, or otherwise.
CreateDev(r) ==
    LET e == Dev(r)
        create(new) == users[e] = "none" /\ WriteUser(r, e, "dev-google", new)
        leave(new) == Become(r, new) /\ UNCHANGED users
    IN /\ At(r, "devCreate")
       /\ \/ create(Acting(r, e)) /\ UNCHANGED <<failures, remembered>>
          \/ users[e] # "none" /\ leave(AsMemory(r)) /\ Remember(r) /\ UNCHANGED failures
          \/ /\ users[e] = "none" /\ Taken(e, "dev-google")
             /\ leave(Clashed(AsMemory(r))) /\ Remember(r)
             /\ UNCHANGED failures
          \/ /\ Throws /\ Remember(r)
             /\ create(Lapsed(AsMemory(r))) \/ leave(Lapsed(AsMemory(r)))
       /\ UNCHANGED isProd

-------------------------------------------------------------------------------
(* Signing in *)

\* Google calls back with a profile, or a user signs in by an email.
SignIn(r, op, arg) ==
    /\ At(r, "idle")
    /\ Become(r, [NoRequest EXCEPT !.at = "find", !.op = op, !.arg = arg])
    /\ UNCHANGED accountVars

\* Mutant: the account is looked up by Google's id only.
Matching_IdOnly(r) ==
    IF request[r].op = "google" THEN {e \in Emails: users[e] = request[r].arg.id}
    ELSE {request[r].arg} \ {e \in Emails: users[e] = "none"}

\* The accounts the sign-in may mean.
Matching(r) ==
    IF request[r].op = "google"
    THEN {e \in Emails: \/ users[e] = request[r].arg.id
                        \/ e = request[r].arg.email /\ users[e] # "none"}
    ELSE {request[r].arg} \ {e \in Emails: users[e] = "none"}

SignedIn(r, e) == [Answered(r, "cookie") EXCEPT !.who = e]

\* Google's callback redirects to an error.  An error of dev-login, which has no
\* handler, leaves the request without an answer.
SignInError(r) == Answered(r, IF request[r].op = "google" THEN "error" ELSE "never")

\* findFirst takes any of the accounts, or none is there.
FindAccount(r) ==
    /\ At(r, "find")
    /\ \/ /\ \/ Matching(r) = {} /\ Become(r, Moved(r, "create"))
             \/ \E e \in Matching(r):
                  Become(r, IF request[r].op = "devLogin" THEN SignedIn(r, e)
                            ELSE [Moved(r, "update") EXCEPT !.who = e])
          /\ UNCHANGED failures
       \/ Throws /\ Become(r, Lapsed(SignInError(r)))
    /\ UNCHANGED <<isProd, users, remembered>>

\* The row of e gets the googleId g, which no other row may have.
Upsert(r, e, g) ==
    \/ Free(e, g) /\ WriteUser(r, e, g, SignedIn(r, e)) /\ UNCHANGED failures
    \/ /\ Taken(e, g)
       /\ Become(r, IF g \in MadeUp THEN Clashed(SignInError(r)) ELSE SignInError(r))
       /\ UNCHANGED <<users, failures>>
    \/ /\ Throws
       /\ \/ Free(e, g) /\ WriteUser(r, e, g, Lapsed(SignInError(r)))
          \/ Become(r, Lapsed(SignInError(r))) /\ UNCHANGED users

CreateAccount(r) ==
    LET e == IF request[r].op = "google" THEN request[r].arg.email ELSE request[r].arg
        g == IF request[r].op = "google" THEN request[r].arg.id ELSE "google-id"
    IN /\ At(r, "create")
       /\ \/ users[e] = "none" /\ Upsert(r, e, g)
          \/ users[e] # "none" /\ Become(r, SignInError(r)) /\ UNCHANGED <<users, failures>>
       /\ UNCHANGED <<isProd, remembered>>

\* The found account takes over Google's id.
UpdateAccount(r) ==
    /\ At(r, "update")
    /\ Upsert(r, request[r].who, request[r].arg.id)
    /\ UNCHANGED <<isProd, remembered>>

AllAnswered == \A r \in Requests: ~At(r, "answered")

\* The answer reaches the page, or a user who waits in vain leaves it.
End(r) ==
    /\ At(r, "answered")
    /\ Become(r, NoRequest)
    /\ UNCHANGED accountVars

-------------------------------------------------------------------------------
AuthStep(r) ==
    \/ \E header \in Headers \union {Nobody}:
          FindSession(r, header) \/ \E token \in Emails \union {Nobody}: Arrive(r, token, header)
    \/ FindDev(r) \/ CreateDev(r)

SignInStep(r) ==
    \/ \E p \in Profiles: SignIn(r, "google", p)
    \/ \E e \in Emails: SignIn(r, "devLogin", e)
    \/ FindAccount(r) \/ CreateAccount(r) \/ UpdateAccount(r)

-------------------------------------------------------------------------------

\* The account the request should act for.
Own(r) == IF request[r].token = Nobody THEN Dev(r) ELSE request[r].token

\* A request acts for the account of its session, or without one for the account
\* that its header names, and in development for the demo user without a header.
\* Else it acts for that account's copy in memory, because a query of it threw,
\* or because it had no session and the creation of its account was overtaken or
\* clashed with another (middleware/auth.ts:50, 84); or the lookup of its session
\* threw and it goes on as without one, which in production takes a header.
ActsForItsAccount ==
    \A r \in Requests:
        LET q == request[r] IN
        q.op \notin SignIns /\ q.who # Nobody =>
            \/ q.who = Own(r)
            \/ q.who = Memory[Own(r)] /\ q.lapsed
            \/ q.who = Memory[Own(r)] /\ q.token = Nobody /\ (q.crossed \/ q.clashed)
            \/ q.lapsed /\ q.who \in {Dev(r), Memory[Dev(r)]} /\ (isProd => q.header # Nobody)

\* Google's id belongs to one account, and its email to another.
Split(p) ==
    users[p.email] \notin {"none", p.id} /\ \E e \in Emails \ {p.email}: users[e] = p.id

\* A sign-in is answered with a cookie, unless a query threw, another request
\* wrote the account meanwhile, Google's id and email lead to two accounts, or a
\* dev-login made up the id of another account (routes/auth.ts:71, 117, 122).
SignInSucceeds ==
    \A r \in Requests: request[r].op \in SignIns /\ request[r].result \in {"error", "never"} =>
        \/ request[r].lapsed \/ request[r].crossed
        \/ request[r].op = "google" /\ Split(request[r].arg)
        \/ request[r].op = "devLogin" /\ request[r].clashed
===============================================================================
