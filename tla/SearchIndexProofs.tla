----------------------------- MODULE SearchIndexProofs -----------------------------
(***************************************************************************)
(* Proofs about SearchIndex, for any number of emails and failures.        *)
(***************************************************************************)
EXTENDS SearchIndex, TLAPS

Sent(e) == e \in everSent \/ status[e] = "deleted"

\* Whatever says "sent" of an email says it of one that was sent, or deleted.
TruthInv ==
    \A e \in Emails:
        /\ status[e] = "sent" => e \in everSent
        /\ docs[e] = "sent" \/ snapshot[e] = "sent" \/ Call(e, "sent") \in calls => Sent(e)

\* A search for sent emails holds such only.
HitInv == search \in Searches /\ search.filter = "sent" => \A e \in search.ids: Sent(e)

\* A row has a document, or a call for it is under way or was lost.
DocInv ==
    /\ \A e \in Emails: RowExists(e) => docs[e] # "none" \/ ~Settled(e)
    /\ \A e \in Emails: status[e] = "sent" /\ e \notin lost /\ Call(e, "sent") \notin calls =>
          docs[e] = "sent" \/ e \in overtaken

\* The settled emails of a search have documents, which its hits hold.
FoundInv ==
    search \in Searches /\ search.filter = "any" =>
        /\ \A e \in search.settled: docs[e] # "none"
        /\ search.at = "ask" => search.ids = {}
        /\ search.at = "join" => search.ids = {} \/ search.settled \subseteq search.ids

\* While nothing else writes, each row is still to be written or agrees with its
\* document.
ReindexInv ==
    reindexing /\ ~disturbed => \A e \in Emails:
        /\ snapshot[e] \in {"none", status[e]}
        /\ RowExists(e) => docs[e] = status[e] \/ snapshot[e] = status[e]

IndexInv == TypeOK /\ TruthInv /\ HitInv /\ DocInv /\ FoundInv /\ ReindexInv

-------------------------------------------------------------------------------
\* The initial state satisfies IndexInv.
LEMMA IndexInit == Init => IndexInv
<1> SUFFICES ASSUME Init PROVE IndexInv
  OBVIOUS
<1>1. TypeOK
  <2>1. reindexing \in BOOLEAN /\ disturbed \in BOOLEAN
    BY DEF Init
  <2>2. search \in [at: {"idle"}, ids: SUBSET Emails, threw: BOOLEAN]
    BY DEF Init, NoSearch, Answered
  <2> QED BY <2>1, <2>2, FailuresAssumption DEF Init, TypeOK, NoRows, Statuses
<1>2. NoSearch \notin Searches
  BY DEF NoSearch, Answered, Searches
<1>3. TruthInv /\ DocInv
  BY DEF Init, TruthInv, DocInv, Sent, RowExists, NoRows
<1>4. HitInv /\ FoundInv /\ ReindexInv
  BY <1>2 DEF Init, HitInv, FoundInv, ReindexInv
<1> QED BY <1>1, <1>3, <1>4 DEF IndexInv

\* Write leaves a document, and the history that goes with it.
LEMMA WriteStep ==
    ASSUME TypeOK, NEW e \in Emails, NEW s \in Statuses, Write(e, s)
    PROVE  /\ docs' \in [Emails -> Statuses \union {"none"}]
           /\ docs'[e] = s
           /\ \A f \in Emails \ {e}: docs'[f] = docs[f]
           /\ overtaken' \subseteq Emails
           /\ \A f \in Emails \ {e}: f \in overtaken' <=> f \in overtaken
           /\ docs[e] = "sent" /\ s # "sent" /\ RowExists(e) => e \in overtaken'
           /\ s # "sent" /\ e \in overtaken => e \in overtaken'
BY DEF TypeOK, Write, Statuses

\* A call, and the rows it is for.
LEMMA CallFacts ==
    ASSUME NEW e \in Emails, NEW s \in {"scheduled", "sent"}
    PROVE  /\ Call(e, s).email = e /\ Call(e, s).status = s
           /\ Call(e, s) \in {Call(f, u): f \in Emails, u \in {"scheduled", "sent"}}
BY DEF Call

\* Failures stay within their bound.
LEMMA FaultStep == ASSUME TypeOK, Fault PROVE failures' \in 0..MaxFailures
BY FailuresAssumption DEF TypeOK, Fault

\* The types after a step that writes a row.
LEMMA RowTypes ==
    ASSUME TypeOK, NEW e \in Emails,
           Schedule(e) \/ DeleteRow(e) \/ \E s \in Statuses: UpdateRow(e, s)
    PROVE  TypeOK'
<1>1. disturbed' \in BOOLEAN
  BY DEF Schedule, DeleteRow, UpdateRow, Disturb, TypeOK
<1>2. calls' \subseteq {Call(f, u): f \in Emails, u \in {"scheduled", "sent"}}
  <2>1. \A c \in calls': c \in calls \/ c = Call(e, "scheduled") \/ c = Call(e, "sent")
    BY DEF Schedule, DeleteRow, UpdateRow, NewCalls, CallsAfter, indexVars
  <2> QED BY <2>1, CallFacts DEF TypeOK
<1>3. failures' \in 0..MaxFailures
  BY FaultStep DEF Schedule, DeleteRow, UpdateRow, TypeOK
<1>4. status' \in [Emails -> Statuses \union {"none", "deleted"}]
  BY DEF Schedule, DeleteRow, UpdateRow, TypeOK, Statuses
<1>5. everSent' \subseteq Emails /\ lost' \subseteq Emails /\ overtaken' \subseteq Emails
  BY DEF Schedule, DeleteRow, UpdateRow, TypeOK
<1>6. UNCHANGED <<docs, snapshot, reindexing, search>>
  BY DEF Schedule, DeleteRow, UpdateRow, indexVars, reindexVars
<1> QED BY <1>1, <1>2, <1>3, <1>4, <1>5, <1>6 DEF TypeOK

\* A new row has a call under way, or lost.
LEMMA ScheduleStep == ASSUME IndexInv, NEW e \in Emails, Schedule(e) PROVE IndexInv'
<1>1. TypeOK'
  BY RowTypes DEF IndexInv
<1>2. /\ status[e] = "none" /\ status' = [status EXCEPT ![e] = "scheduled"]
      /\ \/ calls' = calls \union {Call(e, "scheduled")} /\ lost' = lost
         \/ calls' = calls /\ lost' = lost \union {e}
      /\ UNCHANGED <<docs, snapshot, reindexing, search, everSent, overtaken>>
      /\ disturbed' = reindexing
  BY DEF Schedule, NewCalls, Disturb, reindexVars
<1>3. \A f \in Emails: Call(f, "sent") # Call(e, "scheduled")
  BY DEF Call
<1>4. \A f \in Emails: Sent(f) => Sent(f)'
  BY <1>2 DEF IndexInv, TypeOK, Sent
<1>5. TruthInv'
  BY <1>2, <1>3, <1>4 DEF IndexInv, TypeOK, TruthInv
<1>6. HitInv' /\ FoundInv'
  BY <1>2, <1>4 DEF IndexInv, TypeOK, HitInv, FoundInv, Searches
<1>7. DocInv'
  <2>1. ASSUME NEW f \in Emails, RowExists(f)' PROVE docs'[f] # "none" \/ ~Settled(f)'
    <3>1. CASE f = e
      <4>1. Call(e, "scheduled").email = e
        BY CallFacts
      <4> QED BY <1>2, <3>1, <4>1 DEF Settled
    <3>2. CASE f # e
      <4>1. RowExists(f) /\ docs'[f] = docs[f] /\ (f \in lost => f \in lost') /\ calls \subseteq calls'
        BY <1>2, <2>1, <3>2 DEF RowExists, IndexInv, TypeOK
      <4> QED BY <4>1, <2>1 DEF Settled, IndexInv, DocInv
    <3> QED BY <3>1, <3>2
  <2>2. ASSUME NEW f \in Emails, status'[f] = "sent", f \notin lost', Call(f, "sent") \notin calls'
        PROVE  docs'[f] = "sent" \/ f \in overtaken'
    BY <1>2, <2>2 DEF IndexInv, TypeOK, DocInv
  <2> QED BY <2>1, <2>2 DEF DocInv
<1>8. ReindexInv'
  BY <1>2 DEF ReindexInv
<1> QED BY <1>1, <1>5, <1>6, <1>7, <1>8 DEF IndexInv

\* A row that becomes sent has a call under way, or lost.
LEMMA UpdateRowStep ==
    ASSUME IndexInv, NEW e \in Emails, NEW s \in Statuses, UpdateRow(e, s) PROVE IndexInv'
<1>1. TypeOK'
  BY RowTypes DEF IndexInv
<1>2. /\ RowExists(e) /\ status' = [status EXCEPT ![e] = s]
      /\ everSent' = IF s = "sent" THEN everSent \union {e} ELSE everSent
      /\ UNCHANGED <<docs, snapshot, reindexing, search, overtaken>>
      /\ disturbed' = reindexing
  BY DEF UpdateRow, Disturb, reindexVars
<1>3. /\ calls \subseteq calls' /\ lost \subseteq lost'
      /\ \A c \in calls': c \in calls \/ (s = "sent" /\ c = Call(e, "sent"))
      /\ s = "sent" => Call(e, "sent") \in calls' \/ e \in lost'
  <2>1. \/ calls' = calls \union CallsAfter(e, s) /\ lost' = lost
        \/ calls' = calls /\ lost' = lost \union {e}
    BY DEF UpdateRow
  <2>2. \A c \in CallsAfter(e, s): s = "sent" /\ c = Call(e, "sent")
    BY DEF CallsAfter
  <2>3. s = "sent" => Call(e, "sent") \in CallsAfter(e, s)
    BY DEF CallsAfter
  <2> QED BY <2>1, <2>2, <2>3
<1>4. \A f \in Emails: Sent(f) => Sent(f)'
  BY <1>2 DEF IndexInv, TypeOK, Sent, RowExists
<1>5. TruthInv'
  <2>1. \A f \in Emails: Call(f, "sent") = Call(e, "sent") => f = e
    BY DEF Call
  <2>2. \A f \in Emails: status'[f] = "sent" => f \in everSent'
    BY <1>2 DEF IndexInv, TypeOK, TruthInv
  <2>3. \A f \in Emails: Call(f, "sent") \in calls' => Sent(f)'
    BY <1>2, <1>3, <1>4, <2>1 DEF IndexInv, TruthInv, Sent
  <2>4. \A f \in Emails: docs'[f] = "sent" \/ snapshot'[f] = "sent" => Sent(f)'
    BY <1>2, <1>4 DEF IndexInv, TruthInv
  <2> QED BY <2>2, <2>3, <2>4 DEF TruthInv
<1>6. HitInv' /\ FoundInv'
  BY <1>2, <1>4 DEF IndexInv, TypeOK, HitInv, FoundInv, Searches
<1>7. DocInv'
  <2>1. ASSUME NEW f \in Emails, RowExists(f)' PROVE docs'[f] # "none" \/ ~Settled(f)'
    <3>1. RowExists(f) /\ docs'[f] = docs[f]
      BY <1>2, <2>1 DEF RowExists, IndexInv, TypeOK
    <3> QED BY <1>3, <2>1, <3>1 DEF Settled, IndexInv, DocInv
  <2>2. ASSUME NEW f \in Emails, status'[f] = "sent", f \notin lost', Call(f, "sent") \notin calls'
        PROVE  docs'[f] = "sent" \/ f \in overtaken'
    BY <1>2, <1>3, <2>2 DEF IndexInv, TypeOK, DocInv
  <2> QED BY <2>1, <2>2 DEF DocInv
<1>8. ReindexInv'
  BY <1>2 DEF ReindexInv
<1> QED BY <1>1, <1>5, <1>6, <1>7, <1>8 DEF IndexInv

\* A deleted row counts as sent: nothing returns it.
LEMMA DeleteRowStep == ASSUME IndexInv, NEW e \in Emails, DeleteRow(e) PROVE IndexInv'
<1>1. TypeOK'
  BY RowTypes DEF IndexInv
<1>2. /\ status' = [status EXCEPT ![e] = "deleted"]
      /\ everSent' = everSent \ {e} /\ lost' = lost \ {e} /\ overtaken' = overtaken \ {e}
      /\ UNCHANGED <<docs, calls, snapshot, reindexing, search>>
      /\ disturbed' = reindexing
  BY DEF DeleteRow, Disturb, indexVars, reindexVars
<1>3. \A f \in Emails: Sent(f) => Sent(f)'
  BY <1>2 DEF IndexInv, TypeOK, Sent
<1>4. TruthInv'
  BY <1>2, <1>3 DEF IndexInv, TypeOK, TruthInv
<1>5. HitInv' /\ FoundInv'
  BY <1>2, <1>3 DEF IndexInv, TypeOK, HitInv, FoundInv, Searches
<1>6. DocInv'
  <2>1. ASSUME NEW f \in Emails, RowExists(f)' PROVE docs'[f] # "none" \/ ~Settled(f)'
    <3>1. f # e /\ RowExists(f) /\ docs'[f] = docs[f]
      BY <1>2, <2>1 DEF RowExists, IndexInv, TypeOK
    <3> QED BY <1>2, <2>1, <3>1 DEF Settled, IndexInv, DocInv
  <2>2. ASSUME NEW f \in Emails, status'[f] = "sent", f \notin lost', Call(f, "sent") \notin calls'
        PROVE  docs'[f] = "sent" \/ f \in overtaken'
    BY <1>2, <2>2 DEF IndexInv, TypeOK, DocInv
  <2> QED BY <2>1, <2>2 DEF DocInv
<1>7. ReindexInv'
  BY <1>2 DEF ReindexInv
<1> QED BY <1>1, <1>4, <1>5, <1>6, <1>7 DEF IndexInv

-------------------------------------------------------------------------------
\* A document that is written says what an invariant holds of: the row was sent,
\* if it says so.
LEMMA WriteKeeps ==
    ASSUME IndexInv, NEW e \in Emails, NEW s \in Statuses, Write(e, s),
           s = "sent" => Sent(e),
           UNCHANGED <<status, everSent, search>>
    PROVE  /\ \A f \in Emails: docs'[f] = "sent" => Sent(f)'
           /\ HitInv' /\ FoundInv'
           /\ \A f \in Emails: docs[f] # "none" => docs'[f] # "none"
           /\ \A f \in Emails: RowExists(f) /\ (docs[f] = "sent" \/ f \in overtaken) =>
                  docs'[f] = "sent" \/ f \in overtaken'
<1>0. /\ docs'[e] = s
      /\ \A f \in Emails \ {e}: docs'[f] = docs[f] /\ (f \in overtaken' <=> f \in overtaken)
      /\ docs[e] = "sent" /\ s # "sent" /\ RowExists(e) => e \in overtaken'
      /\ s # "sent" /\ e \in overtaken => e \in overtaken'
  BY WriteStep DEF IndexInv
<1>1. \A f \in Emails: docs'[f] = "sent" => Sent(f)'
  BY <1>0 DEF IndexInv, TruthInv, Sent
<1>2. \A f \in Emails: docs[f] # "none" => docs'[f] # "none"
  BY <1>0 DEF Statuses
<1>3. HitInv'
  BY DEF IndexInv, HitInv, Sent
<1>4. FoundInv'
  BY <1>2 DEF IndexInv, FoundInv, Searches
<1>5. \A f \in Emails: RowExists(f) /\ (docs[f] = "sent" \/ f \in overtaken) =>
          docs'[f] = "sent" \/ f \in overtaken'
  BY <1>0
<1> QED BY <1>1, <1>2, <1>3, <1>4, <1>5

\* A call is executed, once more, or fails.
LEMMA IndexEmailStep == ASSUME IndexInv, NEW c \in calls, IndexEmail(c) PROVE IndexInv'
<1> DEFINE e == c.email
           s == c.status
<1>0. PICK f \in Emails, u \in {"scheduled", "sent"}: c = Call(f, u)
  BY DEF IndexInv, TypeOK
<1>1. e \in Emails /\ s \in Statuses /\ c = Call(e, s)
  <2>1. Call(f, u).email = f /\ Call(f, u).status = u
    BY DEF Call
  <2>2. e = f /\ s = u
    BY <1>0, <2>1
  <2> QED BY <1>0, <2>2 DEF Statuses
<1>2. s = "sent" => Sent(e)
  BY <1>1 DEF IndexInv, TruthInv
<1>3. /\ UNCHANGED <<status, snapshot, reindexing, search, everSent>>
      /\ disturbed' = reindexing
  BY DEF IndexEmail, Disturb, reindexVars
<1>4. calls' \subseteq calls /\ lost \subseteq lost'
  BY DEF IndexEmail
<1>5. CASE Write(e, s)
  <2>1. TypeOK'
    <3>1. failures' \in 0..MaxFailures
      BY FaultStep DEF IndexEmail, IndexInv, TypeOK
    <3>2. docs' \in [Emails -> Statuses \union {"none"}] /\ overtaken' \subseteq Emails
      BY <1>1, <1>5, WriteStep DEF IndexInv
    <3>3. lost' \subseteq Emails
      BY <1>1 DEF IndexEmail, IndexInv, TypeOK
    <3>4. disturbed' \in BOOLEAN
      BY <1>3 DEF IndexInv, TypeOK
    <3> QED BY <1>3, <1>4, <3>1, <3>2, <3>3, <3>4 DEF IndexInv, TypeOK
  <2>2. /\ \A g \in Emails: docs'[g] = "sent" => Sent(g)'
        /\ HitInv' /\ FoundInv'
        /\ \A g \in Emails: docs[g] # "none" => docs'[g] # "none"
        /\ \A g \in Emails: RowExists(g) /\ (docs[g] = "sent" \/ g \in overtaken) =>
               docs'[g] = "sent" \/ g \in overtaken'
    BY <1>1, <1>2, <1>3, <1>5, WriteKeeps
  <2>3. TruthInv'
    BY <1>3, <1>4, <2>2 DEF IndexInv, TruthInv, Sent
  <2>4. docs'[e] = s /\ s # "none"
    BY <1>1, <1>5, WriteStep DEF IndexInv, Statuses
  <2>5. \A d \in calls: d \in calls' \/ d = c
    BY DEF IndexEmail
  <2>6. DocInv'
    <3>1. ASSUME NEW g \in Emails, RowExists(g)' PROVE docs'[g] # "none" \/ ~Settled(g)'
      <4>1. CASE g = e
        BY <2>4, <4>1
      <4>2. CASE g # e
        <5>1. RowExists(g)
          BY <1>3, <3>1 DEF RowExists
        <5>2. docs[g] # "none" \/ g \in lost \/ \E d \in calls: d.email = g
          BY <5>1 DEF IndexInv, DocInv, Settled
        <5>3. ASSUME NEW d \in calls, d.email = g PROVE d \in calls'
          BY <2>5, <4>2, <5>3
        <5> QED BY <1>4, <2>2, <5>2, <5>3 DEF Settled
      <4> QED BY <4>1, <4>2
    <3>2. ASSUME NEW g \in Emails, status'[g] = "sent", g \notin lost', Call(g, "sent") \notin calls'
          PROVE  docs'[g] = "sent" \/ g \in overtaken'
      <4>1. CASE c = Call(g, "sent")
        <5>1. Call(g, "sent").email = g /\ Call(g, "sent").status = "sent"
          BY CallFacts
        <5>2. e = g /\ s = "sent"
          BY <4>1, <5>1
        <5> QED BY <2>4, <5>2
      <4>2. CASE c # Call(g, "sent")
        <5>1. RowExists(g) /\ status[g] = "sent"
          BY <1>3, <3>2 DEF RowExists
        <5>2. docs[g] = "sent" \/ g \in overtaken
          BY <1>4, <2>5, <3>2, <4>2, <5>1 DEF IndexInv, DocInv
        <5> QED BY <2>2, <5>1, <5>2
      <4> QED BY <4>1, <4>2
    <3> QED BY <3>1, <3>2 DEF DocInv
  <2>7. ReindexInv'
    BY <1>3 DEF ReindexInv
  <2> QED BY <2>1, <2>2, <2>3, <2>6, <2>7 DEF IndexInv
<1>6. CASE Fault /\ calls' = calls \ {c} /\ NoWrite /\ (RowExists(e) => e \in lost')
  <2>0. docs' = docs /\ overtaken' = overtaken
    BY <1>6 DEF NoWrite
  <2>1. TypeOK'
    <3>1. failures' \in 0..MaxFailures
      BY <1>6, FaultStep DEF IndexInv
    <3>2. lost' \subseteq Emails
      BY <1>1 DEF IndexEmail, IndexInv, TypeOK
    <3>3. disturbed' \in BOOLEAN
      BY <1>3 DEF IndexInv, TypeOK
    <3> QED BY <1>3, <1>4, <2>0, <3>1, <3>2, <3>3 DEF IndexInv, TypeOK
  <2>2. TruthInv' /\ HitInv' /\ FoundInv'
    BY <1>3, <1>4, <2>0 DEF IndexInv, TruthInv, HitInv, FoundInv, Sent
  <2>3. DocInv'
    <3>1. ASSUME NEW g \in Emails, RowExists(g)' PROVE docs'[g] # "none" \/ ~Settled(g)'
      <4>1. RowExists(g)
        BY <1>3, <3>1 DEF RowExists
      <4>2. docs[g] # "none" \/ g \in lost \/ \E d \in calls: d.email = g
        BY <4>1 DEF IndexInv, DocInv, Settled
      <4>3. ASSUME NEW d \in calls, d.email = g PROVE d \in calls' \/ g \in lost'
        BY <1>6, <4>1, <4>3
      <4> QED BY <1>4, <2>0, <4>2, <4>3 DEF Settled
    <3>2. ASSUME NEW g \in Emails, status'[g] = "sent", g \notin lost', Call(g, "sent") \notin calls'
          PROVE  docs'[g] = "sent" \/ g \in overtaken'
      <4>1. RowExists(g) /\ status[g] = "sent"
        BY <1>3, <3>2 DEF RowExists
      <4>2. c # Call(g, "sent")
        <5>1. Call(g, "sent").email = g
          BY CallFacts
        <5>2. c = Call(g, "sent") => e = g
          BY <5>1
        <5> QED BY <1>6, <3>2, <4>1, <5>2
      <4> QED BY <1>4, <1>6, <2>0, <3>2, <4>1, <4>2 DEF IndexInv, DocInv
    <3> QED BY <3>1, <3>2 DEF DocInv
  <2>4. ReindexInv'
    BY <1>3 DEF ReindexInv
  <2> QED BY <2>1, <2>2, <2>3, <2>4 DEF IndexInv
<1> QED BY <1>5, <1>6 DEF IndexEmail

\* A reindex reads every row that exists.
LEMMA ReadRowsStep == ASSUME IndexInv, ReadRows PROVE IndexInv'
<1>1. /\ \A e \in Emails: snapshot'[e] = IF RowExists(e) THEN status[e] ELSE "none"
      /\ reindexing' = TRUE /\ disturbed' = FALSE
      /\ UNCHANGED <<status, docs, calls, search, failures, everSent, lost, overtaken>>
  BY DEF ReadRows, Snapshot, indexVars
<1>2. TypeOK'
  <2>1. snapshot' \in [Emails -> Statuses \union {"none"}]
    BY DEF ReadRows, Snapshot, RowExists, IndexInv, TypeOK, Statuses
  <2>2. reindexing' \in BOOLEAN /\ disturbed' \in BOOLEAN
    BY <1>1
  <2> QED BY <1>1, <2>1, <2>2 DEF IndexInv, TypeOK
<1>3. TruthInv'
  BY <1>1 DEF IndexInv, TruthInv, Sent
<1>4. HitInv' /\ DocInv' /\ FoundInv'
  BY <1>1 DEF IndexInv, HitInv, DocInv, FoundInv, Sent, RowExists, Settled
<1>5. ReindexInv'
  BY <1>1 DEF ReindexInv, RowExists
<1> QED BY <1>2, <1>3, <1>4, <1>5 DEF IndexInv

\* An item of the reindex is written, once more, or fails.
LEMMA BulkItemStep == ASSUME IndexInv, NEW e \in Emails, BulkItem(e) PROVE IndexInv'
<1>1. /\ reindexing /\ snapshot[e] # "none" /\ snapshot[e] \in Statuses
      /\ UNCHANGED <<status, calls, reindexing, search, everSent, lost>>
      /\ snapshot' = snapshot \/ Done(e)
  BY DEF BulkItem, IndexInv, TypeOK
<1>2. /\ snapshot' \in [Emails -> Statuses \union {"none"}]
      /\ \A f \in Emails: snapshot'[f] \in {snapshot[f], "none"}
      /\ \A f \in Emails \ {e}: snapshot'[f] = snapshot[f]
  BY <1>1 DEF Done, IndexInv, TypeOK
<1>3. failures' \in 0..MaxFailures /\ disturbed' \in BOOLEAN
  <2>1. failures' \in 0..MaxFailures
    BY FaultStep DEF BulkItem, IndexInv, TypeOK
  <2>2. disturbed' \in {disturbed, reindexing}
    BY DEF BulkItem, Disturb
  <2> QED BY <2>1, <2>2 DEF IndexInv, TypeOK
<1>4. CASE Write(e, snapshot[e]) /\ disturbed' = disturbed
  <2>1. /\ docs' \in [Emails -> Statuses \union {"none"}] /\ overtaken' \subseteq Emails
        /\ docs'[e] = snapshot[e] /\ \A f \in Emails \ {e}: docs'[f] = docs[f]
    BY <1>1, <1>4, WriteStep DEF IndexInv
  <2>2. snapshot[e] = "sent" => Sent(e)
    BY DEF IndexInv, TruthInv
  <2>3. /\ \A f \in Emails: docs'[f] = "sent" => Sent(f)'
        /\ HitInv' /\ FoundInv'
        /\ \A f \in Emails: docs[f] # "none" => docs'[f] # "none"
        /\ \A f \in Emails: RowExists(f) /\ (docs[f] = "sent" \/ f \in overtaken) =>
               docs'[f] = "sent" \/ f \in overtaken'
    BY <1>1, <1>4, <2>2, WriteKeeps
  <2>4. TypeOK'
    BY <1>1, <1>2, <1>3, <2>1 DEF IndexInv, TypeOK
  <2>5. TruthInv'
    BY <1>1, <1>2, <2>3 DEF IndexInv, TruthInv, Sent
  <2>6. DocInv'
    BY <1>1, <2>3 DEF IndexInv, DocInv, RowExists, Settled
  <2>7. ReindexInv'
    BY <1>1, <1>2, <1>4, <2>1 DEF IndexInv, ReindexInv, RowExists
  <2> QED BY <2>3, <2>4, <2>5, <2>6, <2>7 DEF IndexInv
<1>5. CASE NoWrite /\ disturbed' = reindexing
  <2>1. docs' = docs /\ overtaken' = overtaken
    BY <1>5 DEF NoWrite
  <2>2. TypeOK'
    BY <1>1, <1>2, <1>3, <2>1 DEF IndexInv, TypeOK
  <2>3. TruthInv'
    BY <1>1, <1>2, <2>1 DEF IndexInv, TruthInv, Sent
  <2>4. HitInv' /\ DocInv' /\ FoundInv'
    BY <1>1, <2>1 DEF IndexInv, HitInv, DocInv, FoundInv, Sent, RowExists, Settled
  <2>5. ReindexInv'
    BY <1>1, <1>5 DEF ReindexInv
  <2> QED BY <2>2, <2>3, <2>4, <2>5 DEF IndexInv
<1> QED BY <1>4, <1>5 DEF BulkItem, Disturb

\* A reindex ends, whatever it has written.
LEMMA FinishReindexStep == ASSUME IndexInv, FinishReindex PROVE IndexInv'
<1>1. /\ snapshot' = NoRows /\ reindexing' = FALSE /\ disturbed' = FALSE
      /\ UNCHANGED <<status, docs, calls, search, everSent, lost, overtaken>>
  BY DEF FinishReindex, indexVars
<1>2. TypeOK'
  <2>1. failures' \in 0..MaxFailures
    BY FaultStep DEF FinishReindex, IndexInv, TypeOK
  <2>2. reindexing' \in BOOLEAN /\ disturbed' \in BOOLEAN
    BY <1>1
  <2> QED BY <1>1, <2>1, <2>2 DEF IndexInv, TypeOK, NoRows
<1>3. TruthInv'
  BY <1>1 DEF IndexInv, TruthInv, Sent, NoRows
<1>4. HitInv' /\ DocInv' /\ FoundInv' /\ ReindexInv'
  BY <1>1 DEF IndexInv, HitInv, DocInv, FoundInv, ReindexInv, Sent, RowExists, Settled
<1> QED BY <1>2, <1>3, <1>4 DEF IndexInv

\* A search begins, asks the index, or is answered.
LEMMA SearchStep ==
    ASSUME IndexInv, (\E filter \in Filters: StartSearch(filter)) \/ AskIndex \/ Join
    PROVE  IndexInv'
<1>1. UNCHANGED <<status, docs, calls, snapshot, reindexing, everSent, lost, overtaken, disturbed>>
  BY DEF StartSearch, AskIndex, Join, indexVars, reindexVars, history
<1>2. failures' \in 0..MaxFailures
  <2>1. UNCHANGED failures \/ Fault
    BY DEF StartSearch, AskIndex, Join
  <2> QED BY <2>1, FaultStep DEF IndexInv, TypeOK
<1>3. TruthInv' /\ DocInv' /\ ReindexInv'
  BY <1>1 DEF IndexInv, TruthInv, DocInv, ReindexInv, Sent, RowExists, Settled
<1>4. search.at # "idle" => search \in Searches
  BY DEF IndexInv, TypeOK
<1>5. /\ search' \in Searches \union [at: {"idle"}, ids: SUBSET Emails, threw: BOOLEAN]
      /\ HitInv' /\ FoundInv'
  <2>1. ASSUME NEW filter \in Filters, StartSearch(filter)
        PROVE  search' \in Searches /\ HitInv' /\ FoundInv'
    <3>1. /\ search' \in Searches /\ search'.at = "ask" /\ search'.filter = filter
          /\ search'.ids = {}
          /\ search'.settled = {e \in Emails: filter = "any" /\ Settled(e)}
      BY <2>1 DEF StartSearch, Searches
    <3>2. \A e \in Emails: Settled(e) => docs[e] # "none"
      BY DEF IndexInv, DocInv, Settled
    <3> QED BY <1>1, <3>1, <3>2 DEF HitInv, FoundInv
  <2>2. CASE AskIndex
    <3>1. search \in Searches
      BY <1>4, <2>2 DEF AskIndex, IndexInv, TypeOK
    <3>2. /\ search' \in Searches /\ search'.at = "join" /\ search'.filter = search.filter
          /\ search'.settled = search.settled
          /\ search'.ids \in {search.ids, Hits(search.filter)}
      BY <2>2, <3>1 DEF AskIndex, Searches, Hits
    <3>3. search.at = "ask"
      BY <2>2 DEF AskIndex
    <3>4. HitInv'
      <4>1. \A e \in Hits("sent"): Sent(e)
        BY DEF Hits, IndexInv, TruthInv
      <4> QED BY <1>1, <3>1, <3>2, <4>1 DEF IndexInv, HitInv, Sent
    <3>5. FoundInv'
      <4>1. \A e \in Emails: docs[e] # "none" => e \in Hits("any")
        BY DEF Hits
      <4>2. search.settled \subseteq Emails
        BY <3>1 DEF Searches
      <4> QED BY <1>1, <3>1, <3>2, <3>3, <4>1, <4>2 DEF IndexInv, FoundInv
    <3> QED BY <3>2, <3>4, <3>5
  <2>3. CASE Join
    <3>1. search \in Searches
      BY <1>4, <2>3 DEF Join
    <3>2. Answer \subseteq Emails
      BY <3>1 DEF Answer, RowsMatching, Searches
    <3>3. search'.at = "idle" /\ search' \in [at: {"idle"}, ids: SUBSET Emails, threw: BOOLEAN]
      <4>1. ASSUME NEW ids \in SUBSET Emails, NEW threw \in BOOLEAN
            PROVE  /\ Answered(ids, threw).at = "idle"
                   /\ Answered(ids, threw) \in [at: {"idle"}, ids: SUBSET Emails, threw: BOOLEAN]
        BY DEF Answered
      <4>2. search' = Answered(Answer, FALSE) \/ search' = Answered({}, TRUE)
        BY <2>3 DEF Join
      <4>3. Answer \in SUBSET Emails /\ {} \in SUBSET Emails /\ TRUE \in BOOLEAN /\ FALSE \in BOOLEAN
        BY <3>2
      <4>4. CASE search' = Answered(Answer, FALSE)
        BY <4>1, <4>3, <4>4
      <4>5. CASE search' = Answered({}, TRUE)
        BY <4>1, <4>3, <4>5
      <4> QED BY <4>2, <4>4, <4>5
    <3>4. search' \notin Searches
      BY <3>3 DEF Searches
    <3> QED BY <3>3, <3>4 DEF HitInv, FoundInv
  <2> QED BY <2>1, <2>2, <2>3
<1>6. TypeOK'
  BY <1>1, <1>2, <1>5 DEF IndexInv, TypeOK
<1> QED BY <1>3, <1>5, <1>6 DEF IndexInv

\* Every step keeps IndexInv.
LEMMA IndexNext == IndexInv /\ [Next]_vars => IndexInv'
<1> SUFFICES ASSUME IndexInv, [Next]_vars PROVE IndexInv'
  OBVIOUS
<1>1. CASE \E e \in Emails: Schedule(e) \/ DeleteRow(e) \/ BulkItem(e)
  BY <1>1, ScheduleStep, DeleteRowStep, BulkItemStep
<1>2. CASE \E e \in Emails, s \in Statuses: UpdateRow(e, s)
  BY <1>2, UpdateRowStep
<1>3. CASE \E c \in calls: IndexEmail(c)
  BY <1>3, IndexEmailStep
<1>4. CASE ReadRows \/ FinishReindex
  BY <1>4, ReadRowsStep, FinishReindexStep
<1>5. CASE (\E filter \in Filters: StartSearch(filter)) \/ AskIndex \/ Join
  BY <1>5, SearchStep
<1>6. CASE UNCHANGED vars
  <2>1. TypeOK'
    BY <1>6 DEF IndexInv, TypeOK, vars, indexVars, reindexVars, history
  <2>2. TruthInv' /\ HitInv' /\ DocInv' /\ FoundInv' /\ ReindexInv'
    BY <1>6 DEF IndexInv, TruthInv, HitInv, DocInv, FoundInv, ReindexInv, Sent, RowExists, Settled,
                vars, indexVars, reindexVars, history
  <2> QED BY <2>1, <2>2 DEF IndexInv
<1> QED BY <1>1, <1>2, <1>3, <1>4, <1>5, <1>6 DEF Next

\* IndexInv is inductive.
LEMMA IndexInvariance == Spec => []IndexInv
BY IndexInit, IndexNext, PTL DEF Spec

\* The types of the index, its writers and its search (client.ts, emails.ts).
THEOREM IndexTypeCorrect == Spec => []TypeOK
<1>1. IndexInv => TypeOK
  BY DEF IndexInv
<1> QED BY <1>1, IndexInvariance, PTL

\* Only Join answers a search.
LEMMA AnswerStep ==
    ASSUME IndexInv, [Next]_vars, search.at = "join", search'.at = "idle"
    PROVE  search \in Searches /\ Join
<1>1. search \in Searches
  BY DEF IndexInv, TypeOK
<1>2. ASSUME UNCHANGED search PROVE FALSE
  BY <1>2
<1>3. ASSUME NEW e \in Emails, Schedule(e) \/ DeleteRow(e) \/ BulkItem(e) PROVE UNCHANGED search
  BY <1>3 DEF Schedule, DeleteRow, BulkItem
<1>4. ASSUME NEW e \in Emails, NEW s \in Statuses, UpdateRow(e, s) PROVE UNCHANGED search
  BY <1>4 DEF UpdateRow
<1>5. ASSUME NEW c \in calls, IndexEmail(c) PROVE UNCHANGED search
  BY <1>5 DEF IndexEmail
<1>6. ASSUME ReadRows \/ FinishReindex \/ UNCHANGED vars PROVE UNCHANGED search
  BY <1>6 DEF ReadRows, FinishReindex, vars
<1>7. ~AskIndex /\ \A filter \in Filters: ~StartSearch(filter)
  BY DEF AskIndex, StartSearch
<1> QED BY <1>1, <1>2, <1>3, <1>4, <1>5, <1>6, <1>7 DEF Next

\* A search for sent emails is answered with sent emails only (routes/emails.ts,
\* GET /search), whatever the documents say of rows that have changed or gone.
THEOREM SentSearchIsTruthfulHolds == Spec => SentSearchIsTruthful
<1>1. IndexInv /\ [Next]_vars =>
        [search.at = "join" /\ search'.at = "idle" /\ search.filter = "sent" =>
            search'.ids \subseteq everSent]_vars
  <2> SUFFICES ASSUME IndexInv, [Next]_vars, search.at = "join", search'.at = "idle",
                      search.filter = "sent"
               PROVE  search'.ids \subseteq everSent
    OBVIOUS
  <2>1. search \in Searches /\ Join
    BY AnswerStep
  <2>2. search.ids \subseteq Emails
    BY <2>1 DEF Searches
  <2>3. Answer \subseteq everSent
    BY <2>1, <2>2 DEF IndexInv, TruthInv, HitInv, Answer, RowsMatching, RowExists, Sent
  <2>4. search'.ids \in {Answer, {}}
    BY <2>1 DEF Join, Answered
  <2> QED BY <2>3, <2>4
<1> QED BY <1>1, IndexInvariance, PTL DEF Spec, SentSearchIsTruthful

\* What was settled when a search began is in its answer, unless the rows could
\* not be read (routes/emails.ts:255-282).
THEOREM SettledIsFoundHolds == Spec => SettledIsFound
<1>1. IndexInv /\ [Next]_vars =>
        [search.at = "join" /\ search'.at = "idle" /\ search.filter = "any" /\ ~search'.threw =>
            \A e \in search.settled: RowExists(e) => e \in search'.ids]_vars
  <2> SUFFICES ASSUME IndexInv, [Next]_vars, search.at = "join", search'.at = "idle",
                      search.filter = "any", ~search'.threw,
                      NEW e \in search.settled, RowExists(e)
               PROVE  e \in search'.ids
    OBVIOUS
  <2>1. search \in Searches /\ Join
    BY AnswerStep
  <2>2. e \in Emails
    BY <2>1 DEF Searches
  <2>3. search'.ids = Answer
    BY <2>1 DEF Join, Answered
  <2> QED BY <2>1, <2>2, <2>3 DEF IndexInv, FoundInv, Answer, RowsMatching
<1> QED BY <1>1, IndexInvariance, PTL DEF Spec, SettledIsFound

\* A row that says sent has a document that says so, but for what SentIsIndexed
\* excepts (client.ts:64).
THEOREM SentIsIndexedHolds == Spec => []SentIsIndexed
<1>1. IndexInv => SentIsIndexed
  <2> SUFFICES ASSUME IndexInv, NEW e \in Emails, status[e] = "sent", Settled(e)
               PROVE  docs[e] = "sent" \/ e \in overtaken
    BY DEF SentIsIndexed
  <2>1. Call(e, "sent").email = e
    BY CallFacts
  <2>2. e \notin lost /\ Call(e, "sent") \notin calls
    BY <2>1 DEF Settled
  <2> QED BY <2>2 DEF IndexInv, DocInv
<1> QED BY <1>1, IndexInvariance, PTL

\* A reindex that nothing wrote beside leaves documents that agree with their
\* rows (client.ts, reindexAll).
THEOREM ReindexRepairsHolds == Spec => ReindexRepairs
<1>1. IndexInv /\ [Next]_vars =>
        [reindexing /\ ~reindexing' /\ snapshot = NoRows /\ ~disturbed =>
            \A e \in Emails: RowExists(e) => docs[e] = status[e]]_vars
  <2> SUFFICES ASSUME IndexInv, reindexing, snapshot = NoRows, ~disturbed, NEW e \in Emails, RowExists(e)
               PROVE  docs[e] = status[e]
    OBVIOUS
  <2>1. snapshot[e] = "none"
    BY DEF NoRows
  <2>2. status[e] # "none"
    BY DEF RowExists
  <2> QED BY <2>1, <2>2 DEF IndexInv, ReindexInv
<1> QED BY <1>1, IndexInvariance, PTL DEF Spec, ReindexRepairs
===============================================================================
