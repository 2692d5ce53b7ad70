------------------------------ MODULE SearchIndex ------------------------------
(***************************************************************************)
(* The index of emails in Elasticsearch (integrations/elasticsearch/       *)
(* client.ts), what writes it, and GET /api/emails/search, which joins it  *)
(* with the rows in PostgreSQL.                                            *)
(*                                                                         *)
(* The schedule route indexes a new email without waiting for it, the      *)
(* worker indexes an email it has recorded as sent, an administrator       *)
(* reindexes everything.  Nothing else does: a row that is claimed, fails  *)
(* or is cancelled keeps its document, and so does a row that is deleted.  *)
(* Writes carry no version: the last one to arrive stays.                  *)
(*                                                                         *)
(* A document counts as written when a search can see it.  The emails are  *)
(* those that match one query; the index and the rows agree on which ones  *)
(* that are.                                                               *)
(***************************************************************************)
EXTENDS Naturals, FiniteSets

CONSTANTS
    Emails,          \* the emails that match the query, indexed or not
    MaxFailures      \* bound on requests to Elasticsearch or PostgreSQL that go wrong

ASSUME EmailsAssumption == IsFiniteSet(Emails)
ASSUME FailuresAssumption == MaxFailures \in Nat

VARIABLES
    status,          \* the row's status; "none" before it, "deleted" after it
    docs,            \* the status in the email's document; "none" without one
    calls,           \* calls of indexEmail under way
    snapshot,        \* rows a reindex has read and not yet written
    reindexing,
    search,          \* where the search request is; between two, the last answer
    failures,
    everSent,        \* history: rows recorded as sent at some time
    lost,            \* history: rows a call for which failed
    overtaken,       \* history: rows whose document said sent until it was overwritten
    disturbed        \* history: the reindex is not alone, or items of it failed

indexVars == <<docs, calls>>
reindexVars == <<snapshot, reindexing>>
history == <<everSent, lost, overtaken, disturbed>>
vars == <<status, indexVars, reindexVars, search, failures, history>>

\* processing, failed and cancelled are alike to the index: only a reindex
\* writes them.
Statuses == {"scheduled", "other", "sent"}
Filters == {"any", "sent"}

Call(e, s) == [email |-> e, status |-> s]
NoRows == [e \in Emails |-> "none"]
Answered(ids, threw) == [at |-> "idle", ids |-> ids, threw |-> threw]
NoSearch == Answered({}, FALSE)
Searches == [at: {"ask", "join"}, filter: Filters, ids: SUBSET Emails, settled: SUBSET Emails]

\* Rows that cascades and requests have left in PostgreSQL.
RowExists(e) == status[e] \notin {"none", "deleted"}

TypeOK ==
    /\ status \in [Emails -> Statuses \union {"none", "deleted"}]
    /\ docs \in [Emails -> Statuses \union {"none"}]
    /\ calls \subseteq {Call(e, s): e \in Emails, s \in {"scheduled", "sent"}}
    /\ snapshot \in [Emails -> Statuses \union {"none"}]
    /\ reindexing \in BOOLEAN
    /\ search \in Searches \union [at: {"idle"}, ids: SUBSET Emails, threw: BOOLEAN]
    /\ failures \in 0..MaxFailures
    /\ everSent \subseteq Emails /\ lost \subseteq Emails /\ overtaken \subseteq Emails
    /\ disturbed \in BOOLEAN

Init ==
    /\ status = NoRows /\ docs = NoRows
    /\ calls = {}
    /\ snapshot = NoRows /\ reindexing = FALSE
    /\ search = NoSearch
    /\ failures = 0
    /\ everSent = {} /\ lost = {} /\ overtaken = {} /\ disturbed = FALSE

Fault == failures < MaxFailures /\ failures' = failures + 1

-------------------------------------------------------------------------------
(* Rows *)

Disturb == disturbed' = reindexing

\* Mutant: new emails are not indexed.
NewCalls_None(e) == {}

\* The call that follows the creation of a row.
NewCalls(e) == {Call(e, "scheduled")}

\* The route has created the row and its job, and calls indexEmail; or gives
\* up before it gets there.
Schedule(e) ==
    /\ status[e] = "none"
    /\ status' = [status EXCEPT ![e] = "scheduled"]
    /\ \/ calls' = calls \union NewCalls(e) /\ UNCHANGED <<failures, lost>>
       \/ Fault /\ lost' = lost \union {e} /\ UNCHANGED calls
    /\ Disturb
    /\ UNCHANGED <<docs, reindexVars, search, everSent, overtaken>>

\* Mutants: every update is indexed as sent; none is indexed.
CallsAfter_Any(e, s) == {Call(e, "sent")}
CallsAfter_None(e, s) == {}

\* The calls that follow the worker's update of a row to s.
CallsAfter(e, s) == IF s = "sent" THEN {Call(e, "sent")} ELSE {}

\* The worker or the cancel route updates a row, and the worker's call may
\* never come: its process dies, or the answer of the update is lost.  A row
\* leaves sent only for a cancel that read it before, or for that lost answer.
UpdateRow(e, s) ==
    /\ RowExists(e)
    /\ \/ status[e] = "scheduled" /\ s = "other"
       \/ status[e] = "other"
       \/ status[e] = "sent" /\ s = "other"
    /\ status' = [status EXCEPT ![e] = s]
    /\ \/ calls' = calls \union CallsAfter(e, s) /\ UNCHANGED <<failures, lost>>
       \/ CallsAfter(e, s) # {} /\ Fault /\ lost' = lost \union {e} /\ UNCHANGED calls
    /\ everSent' = IF s = "sent" THEN everSent \union {e} ELSE everSent
    /\ Disturb
    /\ UNCHANGED <<docs, reindexVars, search, overtaken>>

\* The row goes with its sender; its document stays.
DeleteRow(e) ==
    /\ RowExists(e)
    /\ status' = [status EXCEPT ![e] = "deleted"]
    /\ everSent' = everSent \ {e} /\ lost' = lost \ {e} /\ overtaken' = overtaken \ {e}
    /\ Disturb
    /\ UNCHANGED <<indexVars, reindexVars, search, failures>>

-------------------------------------------------------------------------------
(* indexEmail *)

\* The document of e now says s, whatever it said.
Write(e, s) ==
    /\ docs' = [docs EXCEPT ![e] = s]
    /\ overtaken' = CASE s = "sent" -> overtaken \ {e}
                      [] s # "sent" /\ docs[e] = "sent" /\ RowExists(e) -> overtaken \union {e}
                      [] OTHER -> overtaken

NoWrite == UNCHANGED <<docs, overtaken>>

\* The document is written; or the request fails, and is logged; or its
\* connection breaks with the document written, and the client sends it again.
IndexEmail(c) ==
    /\ c \in calls
    /\ \/ /\ Write(c.email, c.status)
          /\ calls' = calls \ {c}
          /\ UNCHANGED <<failures, lost>>
       \/ Fault /\ calls' = calls \ {c} /\ NoWrite
          /\ lost' = IF RowExists(c.email) THEN lost \union {c.email} ELSE lost
       \/ Fault /\ Write(c.email, c.status) /\ UNCHANGED <<calls, lost>>
    /\ Disturb
    /\ UNCHANGED <<status, reindexVars, search, everSent>>

-------------------------------------------------------------------------------
(* POST /api/admin/emails/reindex *)

\* Mutant: only the rows the comment of reindexAll names.
Snapshot_ScheduledAndSent ==
    [e \in Emails |-> IF status[e] \in {"scheduled", "sent"} THEN status[e] ELSE "none"]

\* What findMany returns.
Snapshot == [e \in Emails |-> IF RowExists(e) THEN status[e] ELSE "none"]

ReadRows ==
    /\ ~reindexing
    /\ snapshot' = Snapshot
    /\ reindexing' = TRUE
    /\ disturbed' = FALSE
    /\ UNCHANGED <<status, indexVars, search, failures, everSent, lost, overtaken>>

Done(e) == snapshot' = [snapshot EXCEPT ![e] = "none"]

\* One item of the bulk request is written, and will be again if the client
\* has to send the request again; or it fails, which nobody looks at.
BulkItem(e) ==
    /\ reindexing /\ snapshot[e] # "none"
    /\ \/ Done(e) /\ Write(e, snapshot[e]) /\ UNCHANGED <<failures, disturbed>>
       \/ Fault /\ Write(e, snapshot[e]) /\ UNCHANGED <<snapshot, disturbed>>
       \/ Fault /\ Done(e) /\ Disturb /\ NoWrite
    /\ UNCHANGED <<status, calls, reindexing, search, everSent, lost>>

\* The request is answered, at once if there are no rows; or it fails as a
\* whole, with what was written so far.
FinishReindex ==
    /\ reindexing
    /\ reindexing' = FALSE
    /\ snapshot' = NoRows
    /\ disturbed' = FALSE
    /\ \/ snapshot = NoRows /\ UNCHANGED failures
       \/ Fault
    /\ UNCHANGED <<status, indexVars, search, everSent, lost, overtaken>>

-------------------------------------------------------------------------------
(* GET /api/emails/search *)

\* Every call for the email has ended, and none failed.
Settled(e) ==
    /\ RowExists(e)
    /\ e \notin lost
    /\ \A c \in calls: c.email # e

\* The request comes in; which emails are settled by then is noted where a
\* property asks for it.
StartSearch(filter) ==
    /\ search.at = "idle"
    /\ search' = [at |-> "ask", filter |-> filter, ids |-> {},
                  settled |-> {e \in Emails: filter = "any" /\ Settled(e)}]
    /\ UNCHANGED <<status, indexVars, reindexVars, failures, history>>

\* The documents that match, by the status they carry.
Hits(filter) == {e \in Emails: docs[e] # "none" /\ filter \in {"any", docs[e]}}

\* searchEmails: an error counts as no hit.
AskIndex ==
    /\ search.at = "ask"
    /\ \/ search' = [search EXCEPT !.at = "join", !.ids = Hits(search.filter)]
          /\ UNCHANGED failures
       \/ Fault /\ search' = [search EXCEPT !.at = "join"]
    /\ UNCHANGED <<status, indexVars, reindexVars, history>>

\* The rows that match, found without the index.
RowsMatching(filter) == {e \in Emails: RowExists(e) /\ filter \in {"any", status[e]}}

\* The rows of the hits, whatever their status is by now, or without a hit all
\* rows that match.
Answer ==
    IF search.ids # {} THEN {e \in search.ids: RowExists(e)}
    ELSE RowsMatching(search.filter)

\* The rows are read and the request is answered; or findMany throws and the
\* answer is what memory holds, which is none of these emails.
Join ==
    /\ search.at = "join"
    /\ \/ search' = Answered(Answer, FALSE) /\ UNCHANGED failures
       \/ Fault /\ search' = Answered({}, TRUE)
    /\ UNCHANGED <<status, indexVars, reindexVars, history>>

-------------------------------------------------------------------------------
Next ==
    \/ \E e \in Emails: Schedule(e) \/ DeleteRow(e) \/ BulkItem(e)
    \/ \E e \in Emails, s \in Statuses: UpdateRow(e, s)
    \/ \E c \in calls: IndexEmail(c)
    \/ ReadRows \/ FinishReindex
    \/ (\E filter \in Filters: StartSearch(filter)) \/ AskIndex \/ Join

Spec == Init /\ [][Next]_vars

-------------------------------------------------------------------------------

\* A search for sent emails is never answered with one that has not been sent,
\* however old the documents are that it found (routes/emails.ts, GET /search).
SentSearchIsTruthful ==
    [][search.at = "join" /\ search'.at = "idle" /\ search.filter = "sent" =>
          search'.ids \subseteq everSent]_vars

\* An email is in the answer if its index calls had ended well when the search
\* began, whatever reindex, late call or failing request to Elasticsearch comes
\* in between.  The exception is an answer from memory, after rows could not be
\* read, of which the page is not told.
SettledIsFound ==
    [][search.at = "join" /\ search'.at = "idle" /\ search.filter = "any" /\ ~search'.threw =>
          \A e \in search.settled: RowExists(e) => e \in search'.ids]_vars

\* A reindex that nothing else wrote beside, and no item of which failed, has
\* brought every document in line with its row, whatever was lost before.
ReindexRepairs ==
    [][reindexing /\ ~reindexing' /\ snapshot = NoRows /\ ~disturbed =>
          \A e \in Emails: RowExists(e) => docs[e] = status[e]]_vars

\* An email recorded as sent is indexed as sent once its calls have ended well,
\* unless an older call or a reindex overwrote what its own call wrote.
SentIsIndexed ==
    \A e \in Emails: status[e] = "sent" /\ Settled(e) => docs[e] = "sent" \/ e \in overtaken
===============================================================================
