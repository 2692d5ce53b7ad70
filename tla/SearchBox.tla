------------------------------- MODULE SearchBox -------------------------------
(***************************************************************************)
(* The search box of the dashboard (frontend/pages/DashboardPage.tsx,      *)
(* "Debounced Elasticsearch Search").                                      *)
(*                                                                         *)
(* Each change of the query starts a timer, and clears the one of the      *)
(* query before.  A timer that runs out asks for the query it was started  *)
(* with, and nothing takes a request back: whichever answer comes last is  *)
(* what the page shows.  What an answer holds is in SearchIndex; here it   *)
(* is known by the query it answers.                                       *)
(***************************************************************************)
EXTENDS Naturals

CONSTANTS
    Queries,         \* what the user types, besides nothing
    NoQuery,         \* nothing, or spaces; and no results
    Requests,        \* searches that may be under way at the same time
    MaxFailures      \* bound on searches that fail

ASSUME NoQueryAssumption == NoQuery \notin Queries
ASSUME FailuresAssumption == MaxFailures \in Nat

VARIABLES
    searchQuery,
    isSearching,
    searchResults,   \* the query they answer
    timers,          \* the queries whose timers run
    request,         \* each request: the query it asks for, NoQuery for none
    missed,          \* history: why searchQuery may have no answer on the page
    failures

vars == <<searchQuery, isSearching, searchResults, timers, request, missed, failures>>

QueriesAndNone == Queries \union {NoQuery}

\* old is history: searchQuery has changed since the request was sent.
NoRequest == [query |-> NoQuery, old |-> FALSE]

TypeOK ==
    /\ searchQuery \in QueriesAndNone
    /\ isSearching \in BOOLEAN
    /\ searchResults \in QueriesAndNone
    /\ timers \subseteq Queries
    /\ request \in [Requests -> [query: QueriesAndNone, old: BOOLEAN]]
    /\ missed \subseteq {"failed", "overtaken"}
    /\ failures \in 0..MaxFailures

Init ==
    /\ searchQuery = NoQuery
    /\ isSearching = FALSE
    /\ searchResults = NoQuery
    /\ timers = {}
    /\ request = [r \in Requests |-> NoRequest]
    /\ missed = {}
    /\ failures = 0

Open(r) == request[r].query # NoQuery

\* searchQuery has a timer or a request that will see to it.
AskedFor(q) == q \in timers \/ \E r \in Requests: Open(r) /\ request[r].query = q

-------------------------------------------------------------------------------
\* Mutant: the effect does not clear its timer.
TimersKept_All == timers

\* What the cleanup of the effect leaves of the timers.
TimersKept == {}

\* The timer that the effect starts.
TimerFor(q) == {q} \ {NoQuery}

\* The user changes the query, and the effect runs.  Without a query the results
\* go; otherwise they stay until the next answer.
Type(q) ==
    /\ q # searchQuery
    /\ searchQuery' = q
    /\ isSearching' = (q # NoQuery)
    /\ searchResults' = IF q = NoQuery THEN NoQuery ELSE searchResults
    /\ timers' = TimersKept \union TimerFor(q)
    /\ request' = [r \in Requests |-> [request[r] EXCEPT !.old = Open(r)]]
    /\ missed' = {}
    /\ UNCHANGED failures

\* A timer runs out.
Ask(q, r) ==
    /\ q \in timers /\ ~Open(r)
    /\ timers' = timers \ {q}
    /\ request' = [request EXCEPT ![r] = [query |-> q, old |-> FALSE]]
    /\ UNCHANGED <<searchQuery, isSearching, searchResults, missed, failures>>

Close(r) == request' = [request EXCEPT ![r] = NoRequest]

\* An answer is shown, whatever the query is by now.
Answer(r) ==
    /\ Open(r)
    /\ searchResults' = request[r].query
    /\ isSearching' = FALSE
    /\ missed' = IF request[r].query = searchQuery THEN {}
                 ELSE IF request[r].old THEN missed \union {"overtaken"} ELSE missed
    /\ Close(r)
    /\ UNCHANGED <<searchQuery, timers, failures>>

\* Mutant: only an answer ends the search.
SearchingAfterError_Still == isSearching

\* The finally block runs after an error as well.
SearchingAfterError == FALSE

\* A request fails: the results stay.
Fail(r) ==
    /\ Open(r)
    /\ failures < MaxFailures /\ failures' = failures + 1
    /\ isSearching' = SearchingAfterError
    /\ missed' = IF request[r].query = searchQuery THEN missed \union {"failed"} ELSE missed
    /\ Close(r)
    /\ UNCHANGED <<searchQuery, searchResults, timers>>

-------------------------------------------------------------------------------
Next ==
    \/ \E q \in QueriesAndNone: Type(q)
    \/ \E q \in Queries, r \in Requests: Ask(q, r)
    \/ \E r \in Requests: Answer(r) \/ Fail(r)

Spec == Init /\ [][Next]_vars

-------------------------------------------------------------------------------

\* When nothing sees to the query any more, the page does not say that it is
\* searching, and its results answer the query, or there are none without one,
\* unless the search of that query failed or an answer to an older query came
\* late: a timer that was cleared, and a request whose query was typed again
\* since, do no harm.
ResultsAnswerTheQuery ==
    ~AskedFor(searchQuery) =>
        /\ ~isSearching
        /\ missed = {} => searchResults = searchQuery
===============================================================================
