------------------------------- MODULE Dashboard -------------------------------
(***************************************************************************)
(* The lists of emails on the dashboard (frontend/pages/DashboardPage.tsx) *)
(* and the routes that answer them, GET /api/emails/scheduled and          *)
(* GET /api/emails/sent.                                                   *)
(*                                                                         *)
(* Every three seconds, and after each cancel, submission and deletion, a  *)
(* poll asks for both lists.  Each route reads the rows at an instant of   *)
(* its own, a slow poll goes on while later ones run, and the poll that is *)
(* answered last sets the lists.                                           *)
(*                                                                         *)
(* A server process connects to PostgreSQL once, when it starts, and       *)
(* whether that went well stays its answer to every later query            *)
(* (utils/db.ts): a process that did not get through answers from its own  *)
(* memory until it is restarted.                                           *)
(*                                                                         *)
(* Rows change as the worker, recovery and the cancel and sender routes    *)
(* change them, which EmailScheduler models in detail.                     *)
(***************************************************************************)
EXTENDS Naturals

CONSTANTS
    Emails,
    Polls,           \* polls that may be under way at the same time
    MaxPollFailures, \* bound on reads and requests that go wrong
    MaxRestarts      \* bound on restarts of the server

ASSUME PollFailuresAssumption == MaxPollFailures \in Nat
ASSUME RestartsAssumption == MaxRestarts \in Nat

VARIABLES
    status,          \* the row's status; "none" before it, "deleted" after it
    poll,            \* each poll: under way or not, the lists it has by now
    shown,           \* scheduledEmails and sentEmails
    loading,
    startup,         \* the server process: how its connection to PostgreSQL went
    pollFailures,
    restarts

serverVars == <<startup, restarts>>
listVars == <<status, poll, shown, loading, pollFailures, serverVars>>

Statuses == {"scheduled", "processing", "sent", "failed", "cancelled"}
RowStates == Statuses \union {"none", "deleted"}
Lists == {"scheduled", "sent"}

Item(e, s) == [email |-> e, status |-> s]
Items == [email: Emails, status: Statuses]

NoLists == [l \in {} |-> {}]

\* stale is history: the emails whose row changed while the poll was under way,
\* or all of them when another poll was too or memory answered.
NoPoll == [open |-> FALSE, lists |-> NoLists, stale |-> {}]

ListsTypeOK ==
    /\ status \in [Emails -> RowStates]
    /\ \A p \in Polls:
         /\ poll[p].open \in BOOLEAN /\ poll[p].stale \subseteq Emails
         /\ DOMAIN poll[p].lists \subseteq Lists
         /\ \A l \in DOMAIN poll[p].lists: poll[p].lists[l] \subseteq Items
         /\ ~poll[p].open => poll[p] = NoPoll
    /\ shown \in [Lists -> SUBSET Items]
    /\ loading \in BOOLEAN
    /\ startup \in {"pending", "connected", "refused"}
    /\ pollFailures \in 0..MaxPollFailures /\ restarts \in 0..MaxRestarts

ListsInit ==
    /\ status = [e \in Emails |-> "none"]
    /\ poll = [p \in Polls |-> NoPoll]
    /\ shown = [l \in Lists |-> {}]
    /\ loading = TRUE
    /\ startup = "pending"
    /\ pollFailures = 0 /\ restarts = 0

UnderWay(p) == poll[p].open

PollFault == pollFailures < MaxPollFailures /\ pollFailures' = pollFailures + 1

-------------------------------------------------------------------------------
(* Rows *)

\* How a row goes on.  It leaves sent or cancelled only for a write that was
\* decided before.
NextStates ==
    [none |-> {"scheduled"},
     scheduled |-> {"processing", "cancelled", "deleted"},
     processing |-> {"scheduled", "sent", "failed", "cancelled", "deleted"},
     sent |-> {"cancelled", "failed", "deleted"},
     failed |-> {"processing", "cancelled", "deleted"},
     cancelled |-> {"sent", "failed", "scheduled", "deleted"},
     deleted |-> {}]

ChangeRow(e) ==
    /\ \E s \in NextStates[status[e]]: status' = [status EXCEPT ![e] = s]
    /\ poll' = [p \in Polls |->
          IF UnderWay(p) THEN [poll[p] EXCEPT !.stale = @ \union {e}] ELSE poll[p]]
    /\ UNCHANGED <<shown, loading, pollFailures, serverVars>>

-------------------------------------------------------------------------------
(* A poll *)

\* fetchData calls Promise.all.
StartPoll(p) ==
    /\ ~UnderWay(p)
    /\ poll' = [q \in Polls |->
          IF q = p THEN [NoPoll EXCEPT !.open = TRUE,
                                       !.stale = IF \E r \in Polls: UnderWay(r) THEN Emails ELSE {}]
          ELSE IF UnderWay(q) THEN [poll[q] EXCEPT !.stale = Emails]
          ELSE poll[q]]
    /\ UNCHANGED <<status, shown, loading, pollFailures, serverVars>>

\* Mutant: the sent list leaves cancelled emails out.
ListedIn_NoCancelled(l) ==
    IF l = "scheduled" THEN {"scheduled", "processing"} ELSE {"sent", "failed"}

\* The statuses each route asks for.
ListedIn(l) ==
    IF l = "scheduled" THEN {"scheduled", "processing"} ELSE {"sent", "failed", "cancelled"}

RowsOf(l) == {Item(e, status[e]): e \in {f \in Emails: status[f] \in ListedIn(l)}}

\* p has got list l, with these items, which miss these emails.
Receive(p, l, items, missing) ==
    poll' = [poll EXCEPT
        ![p].lists = [k \in DOMAIN @ \union {l} |-> IF k = l THEN items ELSE @[k]],
        ![p].stale = @ \union missing]

isPostgresConnected == startup = "connected"

\* A route reads its list; or the query fails or takes too long, or the process
\* counts as not connected, and the route answers from memory, which holds none
\* of these rows.
ReadList(p, l) ==
    /\ UnderWay(p) /\ l \notin DOMAIN poll[p].lists
    /\ \/ isPostgresConnected /\ Receive(p, l, RowsOf(l), {}) /\ UNCHANGED pollFailures
       \/ isPostgresConnected /\ PollFault /\ Receive(p, l, {}, Emails)
       \/ ~isPostgresConnected /\ Receive(p, l, {}, Emails) /\ UNCHANGED pollFailures
    /\ UNCHANGED <<status, shown, loading, serverVars>>

ClosePoll(p) == poll' = [poll EXCEPT ![p] = NoPoll]

\* Promise.all has every answer.
Complete(p) == DOMAIN poll[p].lists = Lists

\* Both lists are set.
ShowLists(p) ==
    /\ UnderWay(p) /\ Complete(p)
    /\ shown' = poll[p].lists
    /\ loading' = FALSE
    /\ ClosePoll(p)
    /\ UNCHANGED <<status, pollFailures, serverVars>>

\* Mutant: without an answer the lists are emptied.
AfterError_Cleared == [l \in Lists |-> {}]

\* What a failed poll leaves on the page.
AfterError == shown

\* One of the requests fails: the poll ends at once, whatever the others bring.
FailPoll(p) ==
    /\ UnderWay(p) /\ PollFault
    /\ shown' = AfterError
    /\ loading' = FALSE
    /\ ClosePoll(p)
    /\ UNCHANGED <<status, serverVars>>

-------------------------------------------------------------------------------
(* The server process *)

\* prisma.$connect has ended, well or not.
EndConnect ==
    /\ startup = "pending"
    /\ startup' \in {"connected", "refused"}
    /\ UNCHANGED <<status, poll, shown, loading, pollFailures, restarts>>

\* The process stops and another starts; the requests it had not answered fail.
RestartServer ==
    /\ restarts < MaxRestarts /\ restarts' = restarts + 1
    /\ startup' = "pending"
    /\ poll' = [p \in Polls |-> IF Complete(p) THEN poll[p] ELSE NoPoll]
    /\ shown' = AfterError
    /\ loading' = (loading /\ \A p \in Polls: UnderWay(p) => Complete(p))
    /\ UNCHANGED <<status, pollFailures>>

-------------------------------------------------------------------------------
ListsNext ==
    \/ \E e \in Emails: ChangeRow(e)
    \/ \E p \in Polls:
         StartPoll(p) \/ ShowLists(p) \/ FailPoll(p) \/ \E l \in Lists: ReadList(p, l)
    \/ EndConnect \/ RestartServer

ListsSpec == ListsInit /\ [][ListsNext]_listVars

(***************************************************************************)
(* Fairness.  The interval keeps starting polls, every request is answered *)
(* in the end, and an answered poll sets its lists; the attempt to connect *)
(* ends.                                                                   *)
(***************************************************************************)
ListsFairness ==
    /\ WF_listVars(\E p \in Polls: StartPoll(p))
    /\ WF_listVars(EndConnect)
    /\ \A p \in Polls:
         WF_listVars(ShowLists(p)) /\ \A l \in Lists: WF_listVars(ReadList(p, l))

LiveListsSpec == ListsSpec /\ ListsFairness

-------------------------------------------------------------------------------

\* The statuses under which e is on the page.
Seen(e) == {s \in Statuses: \E l \in Lists: Item(e, s) \in shown[l]}

\* A row that rests is on the page at last under its status and no other, and a
\* row that is gone is not, whatever polls overtook each other before, if the
\* process that answers in the end has connected to PostgreSQL when it started.
\* One that has not shows none of its rows, though utils/db.ts:17 logs that it
\* will retry on demand.
PageConverges ==
    \A e \in Emails, s \in RowStates:
        <>[](status[e] = s /\ isPostgresConnected) => <>[](Seen(e) = {s} \intersect Statuses)

\* What the page shows rightly of an email stays, but for the end of a poll that
\* overlapped another, was answered from memory, or ran while the row changed: a
\* poll that fails takes nothing away (DashboardPage.tsx, fetchData).
ShownStaysTrue ==
    [][\A e \in Emails:
         Seen(e) = {status[e]} /\ Seen(e)' # Seen(e) =>
            \E p \in Polls: UnderWay(p) /\ ~UnderWay(p)' /\ e \in poll[p].stale]_listVars
===============================================================================
