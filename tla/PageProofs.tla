------------------------------- MODULE PageProofs -------------------------------
(***************************************************************************)
(* Proofs about Page, for any set of queries, any number of requests and   *)
(* calls under way, and any number of failures; and about the lists of     *)
(* Dashboard on it, for any number of emails and polls.                    *)
(***************************************************************************)
EXTENDS Page, Dashboard, TLAPS

-------------------------------------------------------------------------------
(* The search box *)

\* Only the query that is typed has a timer, and a request that is not old is
\* for it: what makes an answer to another query show in missed.
AskedInv ==
    /\ timers \subseteq {searchQuery}
    /\ \A r \in Requests: Open(r) /\ ~request[r].old => request[r].query = searchQuery

SearchInv == TypeOK /\ AskedInv /\ ResultsAnswerTheQuery

\* The initial state satisfies SearchInv.
LEMMA SearchInit == Init => SearchInv
<1> SUFFICES ASSUME Init PROVE SearchInv
  OBVIOUS
<1>1. TypeOK
  <2>1. NoRequest \in [query: QueriesAndNone, old: BOOLEAN]
    BY DEF NoRequest, QueriesAndNone
  <2>2. isSearching \in BOOLEAN
    BY DEF Init
  <2> QED BY <2>1, <2>2, FailuresAssumption DEF Init, TypeOK, QueriesAndNone
<1>2. AskedInv /\ ResultsAnswerTheQuery
  BY DEF Init, AskedInv, ResultsAnswerTheQuery, AskedFor, Open, NoRequest
<1> QED BY <1>1, <1>2 DEF SearchInv

\* Every step of the search box keeps SearchInv (DashboardPage.tsx, the effect
\* with the timer).
LEMMA SearchNext == ASSUME SearchInv, Next PROVE SearchInv'
<1>1. ASSUME NEW q \in QueriesAndNone, Type(q) PROVE SearchInv'
  <2>1. TypeOK'
    BY <1>1, NoQueryAssumption
       DEF SearchInv, TypeOK, Type, TimersKept, TimerFor, QueriesAndNone, Open
  <2>2. AskedInv'
    BY <1>1 DEF SearchInv, TypeOK, AskedInv, Type, TimersKept, TimerFor, QueriesAndNone, Open
  <2>3. ResultsAnswerTheQuery'
    BY <1>1, NoQueryAssumption
       DEF SearchInv, TypeOK, ResultsAnswerTheQuery, AskedFor, Type, TimersKept, TimerFor, Open
  <2> QED BY <2>1, <2>2, <2>3 DEF SearchInv
<1>2. ASSUME NEW q \in Queries, NEW r \in Requests, Ask(q, r) PROVE SearchInv'
  <2>1. TypeOK' /\ AskedInv'
    BY <1>2 DEF SearchInv, TypeOK, AskedInv, Ask, QueriesAndNone, Open
  <2>2. AskedFor(searchQuery)' <=> AskedFor(searchQuery)
    BY <1>2, NoQueryAssumption DEF SearchInv, TypeOK, AskedInv, AskedFor, Ask, QueriesAndNone, Open
  <2>3. ResultsAnswerTheQuery'
    BY <1>2, <2>2 DEF SearchInv, ResultsAnswerTheQuery, Ask
  <2> QED BY <2>1, <2>3 DEF SearchInv
<1>3. ASSUME NEW r \in Requests, Answer(r) \/ Fail(r) PROVE SearchInv'
  <2>1. TypeOK'
    <3>1. isSearching' \in BOOLEAN
      BY <1>3 DEF Answer, Fail, SearchingAfterError
    <3>2. request' \in [Requests -> [query: QueriesAndNone, old: BOOLEAN]]
      <4>1. NoRequest \in [query: QueriesAndNone, old: BOOLEAN]
        BY DEF NoRequest, QueriesAndNone
      <4> QED BY <1>3, <4>1 DEF SearchInv, TypeOK, Answer, Fail, Close
    <3>4. failures' \in 0..MaxFailures
      BY <1>3, FailuresAssumption DEF SearchInv, TypeOK, Answer, Fail
    <3>5. missed' \subseteq {"failed", "overtaken"}
      BY <1>3 DEF SearchInv, TypeOK, Answer, Fail
    <3>3. /\ searchQuery' = searchQuery /\ timers' = timers
          /\ searchResults' \in {searchResults, request[r].query}
      BY <1>3 DEF Answer, Fail
    <3> QED BY <3>1, <3>2, <3>3, <3>4, <3>5 DEF SearchInv, TypeOK
  <2>2. AskedInv'
    BY <1>3 DEF SearchInv, TypeOK, AskedInv, Answer, Fail, Close, NoRequest, Open
  <2>3. request[r].query # searchQuery => (AskedFor(searchQuery)' <=> AskedFor(searchQuery))
    BY <1>3 DEF SearchInv, TypeOK, AskedFor, Answer, Fail, Close, NoRequest, Open
  <2>4. ResultsAnswerTheQuery'
    BY <1>3, <2>3
       DEF SearchInv, TypeOK, AskedInv, ResultsAnswerTheQuery, Answer, Fail, Open,
           SearchingAfterError
  <2> QED BY <2>1, <2>2, <2>4 DEF SearchInv
<1> QED BY <1>1, <1>2, <1>3 DEF Next

-------------------------------------------------------------------------------
(* The header *)

\* While nothing has overlapped or gone wrong there is one call at most, the page
\* that made it is not gone, and what it is about to show is so.
CallInv ==
    ~doubt =>
        /\ \A c, d \in CallsOpen: c = d
        /\ \A c \in CallsOpen: call[c].left => place # "page"
        /\ \A c \in Calls: call[c].at = "done" =>
              /\ Doing(c, "status") \/ Doing(c, "refresh") => call[c].answer = connection
              /\ Doing(c, "disconnect") => ~connection

HeaderInv == SlackTypeOK /\ CallInv /\ HeaderTellsTheRow

\* The initial state satisfies HeaderInv.
LEMMA HeaderInit == SlackInit => HeaderInv
<1> SUFFICES ASSUME SlackInit PROVE HeaderInv
  OBVIOUS
<1>1. SlackTypeOK
  <2>1. NoCall \in CallRecords
    BY DEF NoCall, CallRecords
  <2>2. NewHeader \in [isConnected: BOOLEAN, connecting: BOOLEAN]
    BY DEF NewHeader
  <2>3. doubt \in BOOLEAN
    BY DEF SlackInit
  <2> QED BY <2>1, <2>2, <2>3, LapsesAssumption DEF SlackInit, SlackTypeOK
<1>2. CallInv /\ HeaderTellsTheRow
  BY DEF SlackInit, CallInv, HeaderTellsTheRow, CallsOpen, Doing, NoCall
<1> QED BY <1>1, <1>2 DEF HeaderInv

\* The values a call takes.
LEMMA CallValues ==
    ASSUME SlackTypeOK, NEW c \in Calls
    PROVE  /\ NoCall \in CallRecords
           /\ \A do \in {"status", "connect", "refresh", "disconnect"}: Send(do) \in CallRecords
           /\ \A answer \in BOOLEAN: Done(c, answer) \in CallRecords
           /\ [call[c] EXCEPT !.at = "never"] \in CallRecords
           /\ [call[c] EXCEPT !.left = TRUE] \in CallRecords
<1>1. NoCall \in CallRecords
  BY DEF NoCall, CallRecords
<1>2. call[c] \in CallRecords
  BY DEF SlackTypeOK
<1>3. \A do \in {"status", "connect", "refresh", "disconnect"}: Send(do) \in CallRecords
  BY DEF Send, NoCall, CallRecords
<1>4. \A answer \in BOOLEAN: Done(c, answer) \in CallRecords
  BY <1>2 DEF Done, CallRecords
<1>5. /\ [call[c] EXCEPT !.at = "never"] \in CallRecords
      /\ [call[c] EXCEPT !.left = TRUE] \in CallRecords
  BY <1>2 DEF CallRecords
<1> QED BY <1>1, <1>3, <1>4, <1>5

\* What StartCall, Reply and LeftCalls leave are calls.
LEMMA CallSteps ==
    ASSUME SlackTypeOK, NEW c \in Calls
    PROVE  /\ \A do \in {"status", "connect", "refresh", "disconnect"}:
                StartCall(c, do) => call' \in [Calls -> CallRecords] /\ doubt' \in BOOLEAN
           /\ \A new \in CallRecords: Reply(c, new) => call' \in [Calls -> CallRecords]
           /\ Ended(c) => call' \in [Calls -> CallRecords]
           /\ \A kept \in SUBSET Calls: LeftCalls(kept) \in [Calls -> CallRecords]
<1>1. \A d \in Calls: NoCall \in CallRecords /\ [call[d] EXCEPT !.left = TRUE] \in CallRecords
  BY CallValues
<1>2. ASSUME NEW do \in {"status", "connect", "refresh", "disconnect"}, StartCall(c, do)
      PROVE  call' \in [Calls -> CallRecords] /\ doubt' \in BOOLEAN
  <2>1. Send(do) \in CallRecords
    BY CallValues
  <2>2. doubt' \in BOOLEAN
    BY <1>2 DEF StartCall
  <2> QED BY <1>2, <2>1, <2>2 DEF StartCall, SlackTypeOK
<1>3. ASSUME NEW new \in CallRecords, Reply(c, new) PROVE call' \in [Calls -> CallRecords]
  BY <1>1, <1>3 DEF Reply, SlackTypeOK
<1>4. Ended(c) => call' \in [Calls -> CallRecords]
  BY <1>1 DEF Ended, SlackTypeOK
<1>5. \A kept \in SUBSET Calls: LeftCalls(kept) \in [Calls -> CallRecords]
  BY <1>1 DEF LeftCalls
<1> QED BY <1>2, <1>3, <1>4, <1>5

\* What the header is set to.
LEMMA HeaderSteps ==
    ASSUME SlackTypeOK, NEW c \in Calls
    PROVE  /\ NewHeader \in [isConnected: BOOLEAN, connecting: BOOLEAN]
           /\ \A answer, ok \in BOOLEAN: SetStatus(c, answer, ok)
                => /\ header' \in [isConnected: BOOLEAN, connecting: BOOLEAN]
                   /\ header'.isConnected = answer
<1>1. NewHeader \in [isConnected: BOOLEAN, connecting: BOOLEAN]
  BY DEF NewHeader
<1>2. ASSUME NEW answer \in BOOLEAN, NEW ok \in BOOLEAN, SetStatus(c, answer, ok)
      PROVE  /\ header' \in [isConnected: BOOLEAN, connecting: BOOLEAN]
             /\ header'.isConnected = answer
  <2>1. ConnectingAfter(c, ok) \in BOOLEAN
    BY DEF ConnectingAfter
  <2> QED BY <1>2, <2>1 DEF SetStatus
<1> QED BY <1>1, <1>2

\* The types after each action of the header and its routes.
LEMMA SlackTypes ==
    ASSUME SlackTypeOK, NEW c \in Calls, SlackStep(c) \/ Mount(c) \/ Callback(c) \/ FailConnect(c)
    PROVE  SlackTypeOK'
<1> USE CallSteps, HeaderSteps, CallValues
<1> DEFINE HeaderRecords == [isConnected: BOOLEAN, connecting: BOOLEAN]
<1>0. ASSUME Lapse PROVE lapses' \in 0..MaxLapses /\ doubt' \in BOOLEAN
  BY <1>0, LapsesAssumption DEF Lapse, SlackTypeOK
<1>1. CASE Mount(c) \/ Callback(c)
  <2>1. StartCall(c, "status") /\ header' = NewHeader /\ lapses' = lapses /\ place' = "page"
    BY <1>1 DEF Mount, Callback
  <2>2. connection' \in BOOLEAN
    BY <1>1 DEF Mount, Callback, SlackTypeOK
  <2> QED BY <2>1, <2>2 DEF SlackTypeOK
<1>2. CASE ToggleSlack(c)
  <2>1. StartCall(c, "disconnect") \/ StartCall(c, "connect")
    BY <1>2 DEF ToggleSlack
  <2>2. header' \in HeaderRecords
    BY <1>2 DEF ToggleSlack, SlackTypeOK
  <2>3. connection' = connection /\ place' = place /\ lapses' = lapses
    BY <1>2 DEF ToggleSlack
  <2> QED BY <2>1, <2>2, <2>3 DEF SlackTypeOK
<1>3. CASE GetStatus(c) \/ MockConnect(c) \/ DisconnectSlack(c)
  <2>1. call' \in [Calls -> CallRecords]
    <3>1. connection \in BOOLEAN /\ TRUE \in BOOLEAN /\ FALSE \in BOOLEAN
      BY DEF SlackTypeOK
    <3> QED BY <1>3, <3>1 DEF GetStatus, MockConnect, DisconnectSlack
  <2>2. connection' \in BOOLEAN
    BY <1>3 DEF GetStatus, MockConnect, DisconnectSlack, Disconnected, SlackTypeOK
  <2>3. lapses' \in 0..MaxLapses /\ doubt' \in BOOLEAN
    BY <1>3, <1>0 DEF GetStatus, MockConnect, DisconnectSlack, NoLapse, SlackTypeOK
  <2>4. header' = header /\ place' = place
    BY <1>3 DEF GetStatus, MockConnect, DisconnectSlack
  <2> QED BY <2>1, <2>2, <2>3, <2>4 DEF SlackTypeOK
<1>4. CASE ReceiveAnswer(c)
  <2>1. call' \in [Calls -> CallRecords]
    BY <1>4 DEF ReceiveAnswer, SlackTypeOK
  <2>2. header' \in HeaderRecords
    <3>1. call[c].answer \in BOOLEAN
      BY DEF SlackTypeOK, CallRecords
    <3> QED BY <1>4, <3>1 DEF ReceiveAnswer, SlackTypeOK
  <2>3. UNCHANGED <<connection, place, doubt, lapses>>
    BY <1>4 DEF ReceiveAnswer
  <2> QED BY <2>1, <2>2, <2>3 DEF SlackTypeOK
<1>5. CASE FailCall(c)
  <2>1. call' \in [Calls -> CallRecords]
    BY <1>5 DEF FailCall, SlackTypeOK
  <2>2. header' \in HeaderRecords
    BY <1>5 DEF FailCall, SlackTypeOK
  <2>3. lapses' \in 0..MaxLapses /\ doubt' \in BOOLEAN
    BY <1>5, <1>0 DEF FailCall
  <2>4. connection' = connection /\ place' = place
    BY <1>5 DEF FailCall
  <2> QED BY <2>1, <2>2, <2>3, <2>4 DEF SlackTypeOK
<1>6. CASE FailConnect(c)
  <2>1. call' \in [Calls -> CallRecords]
    <3>1. /\ {d \in Calls: call[d].at = "sent"} \in SUBSET Calls
          /\ {d \in Calls \ {c}: call[d].at = "sent"} \in SUBSET Calls
      OBVIOUS
    <3> QED BY <1>6, <3>1 DEF FailConnect
  <2>2. lapses' \in 0..MaxLapses /\ doubt' \in BOOLEAN
    BY <1>6, <1>0 DEF FailConnect
  <2>3. connection' = connection /\ header' = header /\ place' = "slack"
    BY <1>6 DEF FailConnect
  <2> QED BY <2>1, <2>2, <2>3 DEF SlackTypeOK
<1> QED BY <1>1, <1>2, <1>3, <1>4, <1>5, <1>6 DEF SlackStep, AnswerStep, ServerStep

\* A call that starts has the page to itself, or is in doubt.
LEMMA StartCallHeader ==
    ASSUME SlackTypeOK, NEW c \in Calls,
           NEW do \in {"status", "connect", "disconnect"}, StartCall(c, do), place' = "page"
    PROVE  CallInv' /\ HeaderTellsTheRow'
<1>1. Send(do).do = do /\ Send(do).at = "sent" /\ Send(do).left = FALSE
  BY DEF Send, NoCall
<1>2. call'[c] = Send(do) /\ \A d \in Calls \ {c}: call'[d] = call[d]
  BY DEF StartCall, SlackTypeOK
<1>3. c \in CallsOpen'
  BY <1>1, <1>2 DEF CallsOpen, Doing
<1>4. CASE CallsOpen = {}
  <2>1. CallsOpen' = {c}
    BY <1>2, <1>3, <1>4 DEF CallsOpen, Doing
  <2>2. \A d \in Calls: call'[d].at = "done" => call'[d].do = "none"
    BY <1>1, <1>2, <1>4 DEF CallsOpen, Doing
  <2> QED BY <1>1, <1>2, <2>1, <2>2 DEF CallInv, HeaderTellsTheRow, Doing
<1>5. CASE CallsOpen # {}
  BY <1>3, <1>5 DEF StartCall, CallInv, HeaderTellsTheRow
<1> QED BY <1>4, <1>5

\* Once something is in doubt nothing is claimed.
LEMMA InDoubt == doubt' = TRUE => CallInv' /\ HeaderTellsTheRow'
BY DEF CallInv, HeaderTellsTheRow

\* A route executes its call, or its query throws.
LEMMA RouteHeader ==
    ASSUME HeaderInv, NEW c \in Calls, ServerStep(c)
    PROVE  CallInv' /\ HeaderTellsTheRow'
<1>1. CASE doubt' = TRUE
  BY <1>1, InDoubt
<1>2. CASE doubt' # TRUE
  <2>1. ~doubt /\ doubt' = doubt /\ place' = place /\ header' = header
    BY <1>2 DEF ServerStep, GetStatus, MockConnect, DisconnectSlack, Lapse, NoLapse, HeaderInv, SlackTypeOK
  <2>2. call[c].at = "sent" /\ ~Doing(c, "none")
    BY DEF ServerStep, GetStatus, MockConnect, DisconnectSlack, Doing
  <2>3. PICK answer \in BOOLEAN:
          /\ Reply(c, Done(c, answer))
          /\ Doing(c, "status") \/ Doing(c, "refresh") => answer = connection'
          /\ Doing(c, "disconnect") => ~connection'
    <3>1. CASE GetStatus(c)
      <4>1. Reply(c, Done(c, connection)) /\ connection' = connection
        BY <1>2, <3>1 DEF GetStatus, Lapse
      <4>2. connection \in BOOLEAN /\ ~Doing(c, "disconnect")
        BY <3>1 DEF GetStatus, Doing, HeaderInv, SlackTypeOK
      <4> QED BY <4>1, <4>2
    <3>2. CASE MockConnect(c)
      <4>1. Reply(c, Done(c, TRUE))
        BY <1>2, <3>2 DEF MockConnect, Lapse
      <4>2. Doing(c, "connect")
        BY <3>2 DEF MockConnect
      <4> QED BY <4>1, <4>2 DEF Doing
    <3>3. CASE DisconnectSlack(c)
      <4>1. Reply(c, Done(c, TRUE)) /\ connection' = FALSE
        BY <1>2, <3>3 DEF DisconnectSlack, Lapse, Disconnected
      <4>2. Doing(c, "disconnect")
        BY <3>3 DEF DisconnectSlack
      <4> QED BY <4>1, <4>2 DEF Doing
    <3> QED BY <3>1, <3>2, <3>3 DEF ServerStep
  <2>4. \A d \in CallsOpen: d = c
    BY <2>1, <2>2 DEF HeaderInv, CallInv, CallsOpen
  <2>5. \A d \in Calls \ {c}: call'[d] = call[d] /\ call[d].do = "none"
    BY <2>3, <2>4 DEF Reply, HeaderInv, SlackTypeOK, CallsOpen, Doing
  <2>6. CASE call[c].left
    <3>1. call'[c] = NoCall
      BY <2>3, <2>6 DEF Reply, HeaderInv, SlackTypeOK
    <3>2. CallsOpen' = {} /\ place' # "page"
      BY <2>1, <2>2, <2>5, <2>6, <3>1 DEF HeaderInv, CallInv, CallsOpen, Doing, NoCall
    <3> QED BY <2>5, <3>1, <3>2 DEF CallInv, HeaderTellsTheRow, Doing, NoCall
  <2>7. CASE ~call[c].left
    <3>1. call'[c] = Done(c, answer)
      BY <2>3, <2>7 DEF Reply, HeaderInv, SlackTypeOK
    <3>2. /\ call'[c].do = call[c].do /\ call'[c].left = call[c].left
          /\ call'[c].answer = answer
      BY <3>1 DEF Done, HeaderInv, SlackTypeOK, CallRecords
    <3>3. CallsOpen' = {c}
      BY <2>2, <2>5, <3>2 DEF CallsOpen, Doing
    <3> QED BY <2>3, <2>5, <2>7, <3>2, <3>3 DEF CallInv, HeaderTellsTheRow, Doing
  <2>8. call[c].left \in BOOLEAN
    BY DEF HeaderInv, SlackTypeOK, CallRecords
  <2> QED BY <2>6, <2>7, <2>8
<1>3. doubt' \in BOOLEAN
  BY DEF ServerStep, GetStatus, MockConnect, DisconnectSlack, Lapse, NoLapse, HeaderInv, SlackTypeOK
<1> QED BY <1>1, <1>2, <1>3

\* An answer is shown: it is the only one under way, or in doubt.
LEMMA AnswerHeader ==
    ASSUME HeaderInv, NEW c \in Calls, ReceiveAnswer(c)
    PROVE  CallInv' /\ HeaderTellsTheRow'
<1>1. CASE doubt
  BY <1>1 DEF ReceiveAnswer, CallInv, HeaderTellsTheRow
<1>2. CASE ~doubt
  <2>1. /\ call[c].at = "done" /\ ~Doing(c, "none")
        /\ connection' = connection /\ place' = place /\ doubt' = doubt
    BY DEF ReceiveAnswer, Doing
  <2>2. \A d \in Calls \ {c}: call'[d] = call[d] /\ call[d].do = "none"
    BY <1>2, <2>1 DEF ReceiveAnswer, Ended, HeaderInv, SlackTypeOK, CallInv, CallsOpen, Doing
  <2>3. CASE Doing(c, "connect")
    <3>1. call'[c] = Send("refresh")
      BY <2>3 DEF ReceiveAnswer, Doing, HeaderInv, SlackTypeOK
    <3>2. /\ call'[c].do = "refresh" /\ call'[c].at = "sent" /\ call'[c].left = FALSE
      BY <3>1 DEF Send, NoCall
    <3>3. CallsOpen' = {c}
      BY <2>2, <3>2 DEF CallsOpen, Doing
    <3> QED BY <2>2, <3>2, <3>3 DEF CallInv, HeaderTellsTheRow, Doing
  <2>4. CASE ~Doing(c, "connect")
    <3>1. call'[c] = NoCall
      BY <2>4 DEF ReceiveAnswer, Ended, HeaderInv, SlackTypeOK
    <3>2. CallsOpen' = {}
      BY <2>2, <3>1 DEF CallsOpen, Doing, NoCall
    <3>3. header'.isConnected = connection
      <4>1. CASE Doing(c, "status") \/ Doing(c, "refresh")
        <5>1. SetStatus(c, call[c].answer, TRUE)
          BY <4>1 DEF ReceiveAnswer, Doing
        <5>2. call[c].answer = connection
          BY <1>2, <2>1, <4>1 DEF HeaderInv, CallInv
        <5> QED BY <5>1, <5>2 DEF SetStatus
      <4>2. CASE Doing(c, "disconnect")
        <5>1. SetStatus(c, FALSE, TRUE)
          BY <4>2 DEF ReceiveAnswer, Doing
        <5>2. connection = FALSE
          BY <1>2, <2>1, <4>2 DEF HeaderInv, CallInv, SlackTypeOK
        <5> QED BY <5>1, <5>2 DEF SetStatus
      <4> QED BY <2>4, <4>1, <4>2 DEF ReceiveAnswer
    <3> QED BY <2>1, <2>2, <3>1, <3>2, <3>3 DEF CallInv, HeaderTellsTheRow, Doing, NoCall
  <2> QED BY <2>3, <2>4
<1> QED BY <1>1, <1>2

\* The page is gone: what it waited for is dropped, and what the server has not
\* answered is left.
LEMMA LeaveHeader ==
    ASSUME HeaderInv, LeavePage
    PROVE  HeaderInv'
<1>1. SlackTypeOK'
  <2>1. {d \in Calls: call[d].at = "sent"} \in SUBSET Calls
    OBVIOUS
  <2>2. call' \in [Calls -> CallRecords]
    <3>1. \A d \in Calls: NoCall \in CallRecords /\ [call[d] EXCEPT !.left = TRUE] \in CallRecords
      BY CallValues DEF HeaderInv
    <3> QED BY <3>1 DEF LeavePage, LeftCalls
  <2> QED BY <2>2 DEF LeavePage, HeaderInv, SlackTypeOK
<1>2. \A c \in Calls:
        \/ call'[c] = NoCall
        \/ call'[c] = [call[c] EXCEPT !.left = TRUE] /\ call[c].at = "sent"
  BY DEF LeavePage, LeftCalls
<1>3. \A c \in Calls: call[c] \in CallRecords
  BY DEF HeaderInv, SlackTypeOK
<1>4. \A c \in Calls: call'[c].at # "done" /\ (c \in CallsOpen' => c \in CallsOpen)
  <2> SUFFICES ASSUME NEW c \in Calls
               PROVE  call'[c].at # "done" /\ (c \in CallsOpen' => c \in CallsOpen)
    OBVIOUS
  <2>1. CASE call'[c] = NoCall
    BY <2>1 DEF NoCall, CallsOpen, Doing
  <2>2. CASE call'[c] = [call[c] EXCEPT !.left = TRUE] /\ call[c].at = "sent"
    <3>1. call'[c].do = call[c].do /\ call'[c].at = call[c].at
      BY <1>3, <2>2 DEF CallRecords
    <3> QED BY <2>2, <3>1 DEF CallsOpen, Doing
  <2> QED BY <1>2, <2>1, <2>2
<1>5. place' # "page" /\ doubt' = doubt
  BY DEF LeavePage
<1>6. CallsOpen' \subseteq CallsOpen
  BY <1>4 DEF CallsOpen
<1>7. CallInv' /\ HeaderTellsTheRow'
  BY <1>4, <1>5, <1>6 DEF HeaderInv, CallInv, HeaderTellsTheRow
<1> QED BY <1>1, <1>7 DEF HeaderInv

\* Every step of the header and its routes keeps HeaderInv (Header.tsx,
\* routes/slack.ts).
LEMMA HeaderNext ==
    ASSUME HeaderInv, NEW c \in Calls, SlackStep(c) \/ Mount(c) \/ Callback(c) \/ FailConnect(c)
    PROVE  HeaderInv'
<1>1. SlackTypeOK'
  BY SlackTypes DEF HeaderInv
<1>2. CallInv' /\ HeaderTellsTheRow'
  <2>1. CASE Mount(c) \/ Callback(c) \/ ToggleSlack(c)
    <3>1. place' = "page" /\ \E do \in {"status", "connect", "disconnect"}: StartCall(c, do)
      BY <2>1 DEF Mount, Callback, ToggleSlack
    <3> QED BY <3>1, StartCallHeader DEF HeaderInv
  <2>2. CASE ServerStep(c)
    BY <2>2, RouteHeader
  <2>3. CASE ReceiveAnswer(c)
    BY <2>3, AnswerHeader
  <2>4. CASE FailCall(c) \/ FailConnect(c)
    BY <2>4, InDoubt DEF FailCall, FailConnect, Lapse
  <2> QED BY <2>1, <2>2, <2>3, <2>4 DEF SlackStep, AnswerStep
<1> QED BY <1>1, <1>2 DEF HeaderInv

-------------------------------------------------------------------------------
(* The page *)

PageInv == SearchInv /\ HeaderInv

\* The invariant of each part survives the steps of the other.
LEMMA PageStutter ==
    /\ SearchInv /\ UNCHANGED vars => SearchInv'
    /\ HeaderInv /\ UNCHANGED slackVars => HeaderInv'
<1>1. SearchInv /\ UNCHANGED vars => SearchInv'
  <2> SUFFICES ASSUME SearchInv, UNCHANGED vars PROVE SearchInv'
    OBVIOUS
  <2>1. TypeOK' /\ AskedInv'
    BY DEF SearchInv, TypeOK, AskedInv, Open, vars
  <2>2. ResultsAnswerTheQuery'
    BY Zenon DEF SearchInv, ResultsAnswerTheQuery, AskedFor, Open, vars
  <2> QED BY <2>1, <2>2 DEF SearchInv
<1>2. HeaderInv /\ UNCHANGED slackVars => HeaderInv'
  <2> SUFFICES ASSUME HeaderInv, UNCHANGED slackVars PROVE HeaderInv'
    OBVIOUS
  <2>1. SlackTypeOK'
    BY DEF HeaderInv, SlackTypeOK, slackVars
  <2>2. CallInv' /\ HeaderTellsTheRow'
    BY Zenon DEF HeaderInv, CallInv, HeaderTellsTheRow, CallsOpen, Doing, slackVars
  <2> QED BY <2>1, <2>2 DEF HeaderInv
<1> QED BY <1>1, <1>2

\* A page that is left has no search.
LEMMA CloseSearchStep == ASSUME SearchInv, CloseSearch PROVE SearchInv'
<1>1. NoRequest \in [query: QueriesAndNone, old: BOOLEAN]
  BY DEF NoRequest, QueriesAndNone
<1>2. isSearching' \in BOOLEAN
  BY DEF CloseSearch
<1>3. TypeOK'
  BY <1>1, <1>2 DEF SearchInv, TypeOK, CloseSearch, QueriesAndNone
<1>4. AskedInv' /\ ResultsAnswerTheQuery'
  BY DEF CloseSearch, AskedInv, ResultsAnswerTheQuery, AskedFor, Open, NoRequest
<1> QED BY <1>3, <1>4 DEF SearchInv

\* PageInv is inductive.
LEMMA PageInvariance == PageSpec => []PageInv
<1>1. PageInit => PageInv
  BY SearchInit, HeaderInit DEF PageInit, PageInv
<1>2. PageInv /\ [PageNext]_pageVars => PageInv'
  <2> SUFFICES ASSUME PageInv, [PageNext]_pageVars PROVE PageInv'
    OBVIOUS
  <2>1. CASE Leave
    <3>1. SearchInv'
      BY <2>1, CloseSearchStep DEF Leave, PageInv
    <3>2. HeaderInv'
      BY <2>1, LeaveHeader, HeaderNext DEF Leave, PageInv
    <3> QED BY <3>1, <3>2 DEF PageInv
  <2>2. CASE Load
    BY <2>2, HeaderNext, PageStutter DEF Load, PageInv
  <2>3. CASE Next /\ UNCHANGED slackVars
    BY <2>3, SearchNext, PageStutter DEF PageInv
  <2>4. CASE (\E c \in Calls: SlackStep(c)) /\ UNCHANGED vars
    BY <2>4, HeaderNext, PageStutter DEF PageInv
  <2>5. CASE UNCHANGED pageVars
    BY <2>5, PageStutter DEF PageInv, pageVars
  <2> QED BY <2>1, <2>2, <2>3, <2>4, <2>5 DEF PageNext
<1> QED BY <1>1, <1>2, PTL DEF PageSpec

\* Whatever requests fail or overtake each other and whenever the page is left,
\* the results on it answer the query as ResultsAnswerTheQuery says
\* (DashboardPage.tsx, "Debounced Elasticsearch Search").
THEOREM ResultsAnswerTheQueryHolds == PageSpec => []ResultsAnswerTheQuery
<1>1. PageInv => ResultsAnswerTheQuery
  BY DEF PageInv, SearchInv
<1> QED BY <1>1, PageInvariance, PTL

\* However many calls there are, the header tells the row as HeaderTellsTheRow
\* says (Header.tsx, routes/slack.ts).
THEOREM HeaderTellsTheRowHolds == PageSpec => []HeaderTellsTheRow
<1>1. PageInv => HeaderTellsTheRow
  BY DEF PageInv, HeaderInv
<1> QED BY <1>1, PageInvariance, PTL

\* The page's variables keep their types.
THEOREM PageTypeCorrect == PageSpec => []PageTypeOK
<1>1. PageInv => PageTypeOK
  BY DEF PageInv, SearchInv, HeaderInv, PageTypeOK
<1> QED BY <1>1, PageInvariance, PTL

-------------------------------------------------------------------------------
(* The lists of emails *)

\* What a poll has got: some of the lists.
Answers == UNION {[K -> SUBSET Items]: K \in SUBSET Lists}
PollRecords == [open: BOOLEAN, lists: Answers, stale: SUBSET Emails]

\* A list that holds what a read of l would now return of e.
Tells(items, l, e) ==
    \A s \in Statuses: Item(e, s) \in items <=> s = status[e] /\ s \in ListedIn(l)

\* Of an email that is not stale, every list of a poll is what a read would
\* return now.
FreshInv ==
    \A p \in Polls: \A e \in Emails \ poll[p].stale: \A l \in DOMAIN poll[p].lists:
        Tells(poll[p].lists[l], l, e)

ListsInv == ListsTypeOK /\ poll \in [Polls -> PollRecords] /\ FreshInv

-------------------------------------------------------------------------------

\* A read returns the items of its statuses, and they tell of every email.
LEMMA RowsTell ==
  ASSUME ListsTypeOK, NEW l \in Lists
  PROVE  RowsOf(l) \subseteq Items /\ \A e \in Emails: Tells(RowsOf(l), l, e)
<1>1. ListedIn(l) \subseteq Statuses
  BY DEF ListedIn, Statuses, Lists
<1>2. RowsOf(l) \subseteq Items
  BY <1>1 DEF RowsOf, Items, Item
<1>3. ASSUME NEW e \in Emails, NEW s \in Statuses
      PROVE  Item(e, s) \in RowsOf(l) <=> s = status[e] /\ s \in ListedIn(l)
  <2>1. ASSUME NEW f \in Emails, Item(e, s) = Item(f, status[f]) PROVE f = e /\ s = status[e]
    <3>1. /\ Item(e, s).email = Item(f, status[f]).email
          /\ Item(e, s).status = Item(f, status[f]).status
      BY <2>1
    <3>2. QED
      BY <3>1 DEF Item
  <2>2. QED
    BY <2>1 DEF RowsOf
<1>4. QED
  BY <1>2, <1>3 DEF Tells

\* A poll without lists tells nothing wrong.
LEMMA NoPollFresh ==
  NoPoll \in PollRecords /\ DOMAIN NoPoll.lists = {} /\ NoPoll.open = FALSE
<1>1. NoLists \in [{} -> SUBSET Items] /\ DOMAIN NoLists = {}
  BY DEF NoLists
<1>2. NoLists \in Answers
  BY <1>1 DEF Answers
<1>3. QED
  BY <1>1, <1>2 DEF NoPoll, PollRecords

\* The lists that a poll has.
LEMMA PollLists ==
  ASSUME poll \in [Polls -> PollRecords], NEW p \in Polls
  PROVE  \E K \in SUBSET Lists: poll[p].lists \in [K -> SUBSET Items]
<1>1. poll[p].lists \in Answers
  BY DEF PollRecords
<1>2. QED
  BY <1>1 DEF Answers

\* The polls' records have their types whenever their state is told by open.
LEMMA PollTypes ==
  ASSUME status' \in [Emails -> RowStates], poll' \in [Polls -> PollRecords],
         \A p \in Polls: ~poll'[p].open => poll'[p] = NoPoll,
         shown' \in [Lists -> SUBSET Items], loading' \in BOOLEAN,
         pollFailures' \in 0..MaxPollFailures,
         startup' \in {"pending", "connected", "refused"}, restarts' \in 0..MaxRestarts
  PROVE  ListsTypeOK'
<1>1. ASSUME NEW p \in Polls
      PROVE  /\ poll'[p].open \in BOOLEAN /\ poll'[p].stale \subseteq Emails
             /\ DOMAIN poll'[p].lists \subseteq Lists
             /\ \A l \in DOMAIN poll'[p].lists: poll'[p].lists[l] \subseteq Items
  <2>1. PICK K \in SUBSET Lists: poll'[p].lists \in [K -> SUBSET Items]
    BY DEF PollRecords, Answers
  <2>2. QED
    BY <2>1 DEF PollRecords
<1>2. QED
  BY <1>1 DEF ListsTypeOK

\* The initial state satisfies the invariant.
LEMMA ListsInvInit == ListsInit => ListsInv
<1> SUFFICES ASSUME ListsInit PROVE ListsInv
  OBVIOUS
<1>1. poll = [p \in Polls |-> NoPoll] /\ poll \in [Polls -> PollRecords]
  BY NoPollFresh DEF ListsInit
<1>2. FreshInv
  BY <1>1, NoPollFresh DEF FreshInv
<1>3. ListsTypeOK
  <2>1. ASSUME NEW p \in Polls
        PROVE  /\ poll[p].open \in BOOLEAN /\ poll[p].stale \subseteq Emails
               /\ DOMAIN poll[p].lists \subseteq Lists
               /\ \A l \in DOMAIN poll[p].lists: poll[p].lists[l] \subseteq Items
    BY <1>1, NoPollFresh DEF PollRecords
  <2>2. QED
    BY <1>1, <2>1, PollFailuresAssumption, RestartsAssumption DEF ListsInit, ListsTypeOK, RowStates
<1>4. QED
  BY <1>1, <1>2, <1>3 DEF ListsInv

\* Every step keeps it: a change of a row makes its email stale in every poll
\* under way, and a read tells of the rows as they are.
LEMMA ListsInvNext == ListsInv /\ [ListsNext]_listVars => ListsInv'
<1> SUFFICES ASSUME ListsInv, [ListsNext]_listVars PROVE ListsInv'
  OBVIOUS
<1>1. /\ ListsTypeOK /\ FreshInv /\ poll \in [Polls -> PollRecords]
      /\ status \in [Emails -> RowStates] /\ shown \in [Lists -> SUBSET Items]
      /\ loading \in BOOLEAN /\ pollFailures \in 0..MaxPollFailures /\ MaxPollFailures \in Nat
      /\ startup \in {"pending", "connected", "refused"} /\ restarts \in 0..MaxRestarts
      /\ \A p \in Polls: ~poll[p].open => poll[p] = NoPoll
  BY PollFailuresAssumption DEF ListsInv, ListsTypeOK
<1>2. PollFault => pollFailures' \in 0..MaxPollFailures
  BY <1>1 DEF PollFault
<1>3. ASSUME NEW e \in Emails, ChangeRow(e) PROVE ListsInv'
  <2>1. PICK s \in NextStates[status[e]]: status' = [status EXCEPT ![e] = s]
    BY <1>3 DEF ChangeRow
  <2>2. s \in RowStates
    BY <1>1, <2>1 DEF NextStates, RowStates, Statuses
  <2>3. status' \in [Emails -> RowStates] /\ \A f \in Emails \ {e}: status'[f] = status[f]
    BY <1>1, <2>1, <2>2
  <2>4. ASSUME NEW p \in Polls
        PROVE  /\ poll'[p] \in PollRecords
               /\ poll'[p].open = poll[p].open /\ poll'[p].lists = poll[p].lists
               /\ ~poll'[p].open => poll'[p] = NoPoll
               /\ poll[p].stale \subseteq poll'[p].stale
               /\ e \in poll'[p].stale \/ DOMAIN poll'[p].lists = {}
    <3>1. poll'[p] = IF UnderWay(p) THEN [poll[p] EXCEPT !.stale = @ \union {e}] ELSE poll[p]
      BY <1>3 DEF ChangeRow
    <3>2. QED
      BY <1>1, <3>1, NoPollFresh DEF UnderWay, PollRecords
  <2>5. poll' \in [Polls -> PollRecords]
    BY <1>3, <2>4 DEF ChangeRow
  <2>6. FreshInv'
    <3> SUFFICES ASSUME NEW p \in Polls, NEW f \in Emails \ poll'[p].stale,
                        NEW l \in DOMAIN poll'[p].lists
                 PROVE  Tells(poll[p].lists[l], l, f)'
      BY DEF FreshInv
    <3>1. f \in Emails \ poll[p].stale /\ f # e /\ l \in DOMAIN poll[p].lists
      BY <2>4
    <3>2. Tells(poll[p].lists[l], l, f) /\ status'[f] = status[f]
      BY <1>1, <2>3, <3>1 DEF FreshInv
    <3>3. QED
      BY <2>4, <3>2 DEF Tells
  <2>7. ListsTypeOK'
    BY <1>1, <1>3, <2>3, <2>4, <2>5, PollTypes DEF ChangeRow, serverVars
  <2>8. QED
    BY <2>5, <2>6, <2>7 DEF ListsInv
<1>4. ASSUME NEW p \in Polls, StartPoll(p) PROVE ListsInv'
  <2> DEFINE S == IF \E r \in Polls: UnderWay(r) THEN Emails ELSE {}
  <2>1. ASSUME NEW q \in Polls
        PROVE  /\ poll'[q] \in PollRecords
               /\ ~poll'[q].open => poll'[q] = NoPoll
               /\ poll'[q].lists = poll[q].lists \/ DOMAIN poll'[q].lists = {}
               /\ poll[q].stale \subseteq poll'[q].stale \/ DOMAIN poll'[q].lists = {}
    <3>1. CASE q = p
      <4>1. poll'[q] = [NoPoll EXCEPT !.open = TRUE, !.stale = S] /\ S \subseteq Emails
        BY <1>4, <3>1 DEF StartPoll
      <4> HIDE DEF S
      <4>2. poll'[q] \in PollRecords /\ poll'[q].open /\ poll'[q].lists = NoPoll.lists
        BY <4>1, NoPollFresh DEF PollRecords
      <4>3. QED
        BY <4>2, NoPollFresh
    <3>2. CASE q # p
      <4>1. poll'[q] = IF UnderWay(q) THEN [poll[q] EXCEPT !.stale = Emails] ELSE poll[q]
        BY <1>4, <3>2 DEF StartPoll
      <4>2. QED
        BY <1>1, <4>1 DEF UnderWay, PollRecords
    <3>3. QED
      BY <3>1, <3>2
  <2>2. poll' \in [Polls -> PollRecords]
    BY <1>4, <2>1 DEF StartPoll
  <2>3. UNCHANGED <<status, shown, loading, pollFailures, startup, restarts>>
    BY <1>4 DEF StartPoll, serverVars
  <2>4. FreshInv'
    BY <1>1, <2>1, <2>3 DEF FreshInv, Tells
  <2>5. ListsTypeOK'
    BY <1>1, <2>1, <2>2, <2>3, PollTypes
  <2>6. QED
    BY <2>2, <2>4, <2>5 DEF ListsInv
<1>5. ASSUME NEW p \in Polls, NEW l \in Lists, ReadList(p, l) PROVE ListsInv'
  <2>1. PICK items, missing:
          /\ Receive(p, l, items, missing)
          /\ (items = RowsOf(l) /\ missing = {}) \/ (items = {} /\ missing = Emails)
    BY <1>5 DEF ReadList
  <2>2. UNCHANGED <<status, shown, loading, startup, restarts>> /\ pollFailures' \in 0..MaxPollFailures
    BY <1>1, <1>2, <1>5 DEF ReadList, serverVars
  <2> DEFINE L == [k \in DOMAIN poll[p].lists \union {l} |-> IF k = l THEN items ELSE poll[p].lists[k]]
             S == poll[p].stale \union missing
  <2>3. items \subseteq Items /\ missing \subseteq Emails
    BY <1>1, <2>1, RowsTell
  <2>4. L \in Answers /\ S \subseteq Emails
    <3>1. PICK K \in SUBSET Lists: poll[p].lists \in [K -> SUBSET Items]
      BY <1>1, PollLists
    <3>2. L \in [K \union {l} -> SUBSET Items] /\ K \union {l} \in SUBSET Lists
      BY <2>3, <3>1
    <3>3. S \subseteq Emails
      BY <1>1, <2>3 DEF PollRecords
    <3>4. QED
      BY <3>2, <3>3 DEF Answers
  <2>5. poll' = [poll EXCEPT ![p].lists = L, ![p].stale = S]
    BY <2>1 DEF Receive
  <2>6. /\ DOMAIN L = DOMAIN poll[p].lists \union {l} /\ L[l] = items
        /\ \A k \in DOMAIN poll[p].lists \ {l}: L[k] = poll[p].lists[k]
        /\ poll[p].stale \subseteq S /\ missing \subseteq S
    OBVIOUS
  <2> HIDE DEF L, S
  <2>7. /\ poll'[p].lists = L /\ poll'[p].stale = S /\ poll'[p].open
        /\ \A q \in Polls \ {p}: poll'[q] = poll[q]
        /\ poll' \in [Polls -> PollRecords]
    <3>1. /\ poll'[p] = [poll[p] EXCEPT !.lists = L, !.stale = S]
          /\ \A q \in Polls \ {p}: poll'[q] = poll[q]
          /\ poll' \in [Polls -> PollRecords] <=> poll'[p] \in PollRecords
      BY <1>1, <2>5
    <3>2. poll[p] \in PollRecords /\ poll[p].open
      BY <1>1, <1>5 DEF ReadList, UnderWay
    <3>3. QED
      BY <2>4, <3>1, <3>2 DEF PollRecords
  <2>8. FreshInv'
    <3> SUFFICES ASSUME NEW q \in Polls, NEW f \in Emails \ poll'[q].stale,
                        NEW k \in DOMAIN poll'[q].lists
                 PROVE  Tells(poll[q].lists[k], k, f)'
      BY DEF FreshInv
    <3>1. CASE q # p
      BY <1>1, <2>2, <2>7, <3>1 DEF FreshInv, Tells
    <3>2. CASE q = p /\ k # l
      <4>1. f \in Emails \ poll[p].stale /\ k \in DOMAIN poll[p].lists
            /\ poll'[p].lists[k] = poll[p].lists[k]
        BY <2>6, <2>7, <3>2
      <4>2. QED
        BY <1>1, <2>2, <3>2, <4>1 DEF FreshInv, Tells
    <3>3. CASE q = p /\ k = l
      <4>1. items = RowsOf(l) /\ poll'[p].lists[l] = items
        BY <2>1, <2>6, <2>7, <3>3
      <4>2. Tells(items, l, f)
        BY <1>1, <4>1, RowsTell
      <4>3. QED
        BY <2>2, <3>3, <4>1, <4>2 DEF Tells
    <3>4. QED
      BY <3>1, <3>2, <3>3
  <2>9. ListsTypeOK'
    BY <1>1, <2>2, <2>7, PollTypes
  <2>10. QED
    BY <2>7, <2>8, <2>9 DEF ListsInv
<1>6. ASSUME NEW p \in Polls, ShowLists(p) \/ FailPoll(p) PROVE ListsInv'
  <2>1. /\ \A q \in Polls: poll'[q] = IF q = p THEN NoPoll ELSE poll[q]
        /\ poll' \in [Polls -> PollRecords]
        /\ UNCHANGED <<status, startup, restarts>>
        /\ loading' = FALSE /\ pollFailures' \in 0..MaxPollFailures
    BY <1>1, <1>2, <1>6, NoPollFresh DEF ShowLists, FailPoll, ClosePoll, serverVars
  <2>2. shown' \in [Lists -> SUBSET Items]
    <3>1. CASE ShowLists(p)
      <4>1. PICK K \in SUBSET Lists: poll[p].lists \in [K -> SUBSET Items]
        BY <1>1, PollLists
      <4>2. QED
        BY <3>1, <4>1 DEF ShowLists, Complete
    <3>2. CASE FailPoll(p)
      BY <1>1, <3>2 DEF FailPoll, AfterError
    <3>3. QED
      BY <1>6, <3>1, <3>2
  <2>3. FreshInv'
    BY <1>1, <2>1, NoPollFresh DEF FreshInv, Tells
  <2>4. ListsTypeOK'
    BY <1>1, <2>1, <2>2, PollTypes
  <2>5. QED
    BY <2>1, <2>3, <2>4 DEF ListsInv
<1>7. CASE UNCHANGED listVars
  BY <1>1, <1>7 DEF listVars, serverVars, ListsInv, ListsTypeOK, FreshInv, Tells
<1>8. CASE EndConnect
  <2>1. /\ UNCHANGED <<status, poll, shown, loading, pollFailures, restarts>>
        /\ startup' \in {"pending", "connected", "refused"}
    BY <1>8 DEF EndConnect
  <2>2. FreshInv'
    BY <1>1, <2>1 DEF FreshInv, Tells
  <2>3. QED
    BY <1>1, <2>1, <2>2, PollTypes DEF ListsInv
<1>9. CASE RestartServer
  <2>1. /\ \A p \in Polls: poll'[p] \in {poll[p], NoPoll}
        /\ poll' \in [Polls -> PollRecords]
    BY <1>1, <1>9, NoPollFresh DEF RestartServer
  <2>2. /\ UNCHANGED <<status, shown, pollFailures>> /\ startup' = "pending"
        /\ restarts' \in 0..MaxRestarts
    BY <1>1, <1>9, RestartsAssumption DEF RestartServer, AfterError
  <2>3. loading' \in BOOLEAN
    BY <1>9 DEF RestartServer
  <2>4. \A p \in Polls: ~poll'[p].open => poll'[p] = NoPoll
    BY <1>1, <2>1
  <2>5. FreshInv'
    BY <1>1, <2>1, <2>2, NoPollFresh DEF FreshInv, Tells
  <2>6. QED
    BY <1>1, <2>1, <2>2, <2>3, <2>4, <2>5, PollTypes DEF ListsInv
<1>10. QED
  BY <1>3, <1>4, <1>5, <1>6, <1>7, <1>8, <1>9 DEF ListsNext

\* What is shown of an email changes when a poll sets its lists, and is then what
\* a read would return, if the email is not stale in it.
LEMMA ShownStaysNext ==
  ASSUME ListsInv, [ListsNext]_listVars, NEW e \in Emails,
         Seen(e) = {status[e]}, Seen(e)' # Seen(e)
  PROVE  \E p \in Polls: UnderWay(p) /\ ~UnderWay(p)' /\ e \in poll[p].stale
<1>1. PICK p \in Polls: ShowLists(p)
  BY DEF ListsNext, ChangeRow, StartPoll, ReadList, FailPoll, EndConnect, RestartServer, AfterError,
         listVars, Seen
<1>2. UnderWay(p) /\ ~UnderWay(p)' /\ shown' = poll[p].lists /\ DOMAIN poll[p].lists = Lists
  BY <1>1, NoPollFresh DEF ShowLists, ClosePoll, Complete, UnderWay, ListsInv
<1>3. SUFFICES ASSUME e \notin poll[p].stale PROVE FALSE
  BY <1>2
<1>4. \A l \in Lists: Tells(shown'[l], l, e)
  BY <1>2, <1>3 DEF ListsInv, FreshInv
<1>5. status[e] \in Statuses
  BY DEF Seen
<1>6. \A s \in Statuses: (\E l \in Lists: s \in ListedIn(l))
  BY DEF ListedIn, Lists, Statuses
<1>7. Seen(e)' = {s \in Statuses: \E l \in Lists: Item(e, s) \in shown'[l]}
  BY DEF Seen
<1>8. Seen(e)' = {status[e]}
  BY <1>4, <1>5, <1>6, <1>7 DEF Tells
<1>9. QED
  BY <1>8

\* The variables of the dashboard keep their types.
THEOREM DashboardTypeCorrect == ListsSpec => []ListsTypeOK
<1>1. ListsInv => ListsTypeOK
  BY DEF ListsInv
<1>2. QED
  BY <1>1, ListsInvInit, ListsInvNext, PTL DEF ListsSpec

\* What the page shows rightly of an email stays, but for a poll in which it is
\* stale (DashboardPage.tsx, fetchData).
THEOREM ShownStaysTrueHolds == ListsSpec => ShownStaysTrue
<1> DEFINE Stays == \A e \in Emails:
             Seen(e) = {status[e]} /\ Seen(e)' # Seen(e) =>
                \E p \in Polls: UnderWay(p) /\ ~UnderWay(p)' /\ e \in poll[p].stale
<1>1. ListsInv /\ [ListsNext]_listVars => Stays
  BY ShownStaysNext
<1>2. ListsInv /\ [ListsNext]_listVars => [Stays]_listVars
  BY <1>1
<1>3. ListsSpec => [][Stays]_listVars
  <2> HIDE DEF Stays
  <2>1. QED
    BY <1>2, ListsInvInit, ListsInvNext, PTL DEF ListsSpec
<1>4. QED
  BY <1>3 DEF ShownStaysTrue
===============================================================================
