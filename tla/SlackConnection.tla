----------------------------- MODULE SlackConnection -----------------------------
(***************************************************************************)
(* Connecting a user's Slack and disconnecting it: the routes              *)
(* (routes/slack.ts, integrations/slack/service.ts) and the button in the  *)
(* header of the page (frontend/components/Header.tsx).                    *)
(*                                                                         *)
(* The queries have no timeout: they are answered, or throw.  Memory has   *)
(* no connections, for nothing saves one there; so without the database    *)
(* the status is "not connected", and a disconnection does nothing and is  *)
(* answered as a success.  mock-connect has no error handler, so that a    *)
(* throw leaves its request without an answer.                             *)
(***************************************************************************)
EXTENDS Naturals

CONSTANTS
    Calls,           \* requests that may be under way at the same time
    MaxLapses        \* bound on queries that throw and requests that fail

ASSUME LapsesAssumption == MaxLapses \in Nat

VARIABLES
    connection,      \* the user has a row in slack_connections
    header,          \* slackStatus.isConnected, connectingSlack
    call,            \* each request: what it does, where it is, its answer
    place,           \* what the browser shows: the page, Slack's, or else
    doubt,           \* history: a call since the last one that had the page to
                     \* itself overlapped another, or went wrong
    lapses

slackVars == <<connection, header, call, place, doubt, lapses>>

\* left: the page that made it is gone.
NoCall == [do |-> "none", at |-> "none", answer |-> FALSE, left |-> FALSE]

CallRecords == [do: {"none", "status", "connect", "refresh", "disconnect"},
                at: {"none", "sent", "done", "never"},
                answer: BOOLEAN, left: BOOLEAN]

SlackTypeOK ==
    /\ connection \in BOOLEAN /\ doubt \in BOOLEAN
    /\ place \in {"page", "slack", "else"}
    /\ header \in [isConnected: BOOLEAN, connecting: BOOLEAN]
    /\ call \in [Calls -> CallRecords]
    /\ lapses \in 0..MaxLapses

NewHeader == [isConnected |-> FALSE, connecting |-> FALSE]

SlackInit ==
    /\ connection \in BOOLEAN
    /\ header = NewHeader
    /\ call = [c \in Calls |-> NoCall]
    /\ place = "else"
    /\ doubt = FALSE
    /\ lapses = 0

Doing(c, do) == call[c].do = do
CallsOpen == {c \in Calls: ~Doing(c, "none")}

Send(do) == [NoCall EXCEPT !.do = do, !.at = "sent"]

\* A call of the page starts.
StartCall(c, do) ==
    /\ Doing(c, "none")
    /\ call' = [call EXCEPT ![c] = Send(do)]
    /\ doubt' = (CallsOpen # {})

Lapse == lapses < MaxLapses /\ lapses' = lapses + 1 /\ doubt' = TRUE
NoLapse == UNCHANGED <<lapses, doubt>>

-------------------------------------------------------------------------------
(* The page *)

\* The page is loaded and asks for the status.
Mount(c) ==
    /\ place # "page" /\ place' = "page"
    /\ StartCall(c, "status")
    /\ header' = NewHeader
    /\ UNCHANGED <<connection, lapses>>

\* The button, which is disabled while the page connects.
ToggleSlack(c) ==
    /\ place = "page" /\ ~header.connecting
    /\ \/ header.isConnected /\ StartCall(c, "disconnect") /\ UNCHANGED header
       \/ /\ ~header.isConnected /\ StartCall(c, "connect")
          /\ header' = [header EXCEPT !.connecting = TRUE]
    /\ UNCHANGED <<connection, place, lapses>>

\* The browser leaves the page; what it asked for goes on at the server.
LeftCalls(kept) ==
    [c \in Calls |-> IF c \in kept THEN [call[c] EXCEPT !.left = TRUE] ELSE NoCall]

LeavePage ==
    /\ place = "page" /\ place' = "else"
    /\ call' = LeftCalls({c \in Calls: call[c].at = "sent"})
    /\ UNCHANGED <<connection, header, doubt, lapses>>

\* An answer that nobody waits for is dropped.
Reply(c, new) == call' = [call EXCEPT ![c] = IF @.left THEN NoCall ELSE new]

Done(c, answer) == [call[c] EXCEPT !.at = "done", !.answer = answer]

-------------------------------------------------------------------------------
(* The routes *)

\* Mutant: the connection is deleted in memory only.
Disconnected_InMemory == connection

\* What deleteMany leaves.
Disconnected == FALSE

\* GET /status: the row, or the connection in memory.
GetStatus(c) ==
    /\ Doing(c, "status") \/ Doing(c, "refresh")
    /\ call[c].at = "sent"
    /\ \/ Reply(c, Done(c, connection)) /\ NoLapse
       \/ Reply(c, Done(c, FALSE)) /\ Lapse
    /\ UNCHANGED <<connection, header, place>>

\* POST /mock-connect: the row is there, or the request is never answered.
MockConnect(c) ==
    /\ Doing(c, "connect") /\ call[c].at = "sent"
    /\ \/ connection' = TRUE /\ Reply(c, Done(c, TRUE)) /\ NoLapse
       \/ /\ connection' \in {connection, TRUE}
          /\ Reply(c, [call[c] EXCEPT !.at = "never"])
          /\ Lapse
    /\ UNCHANGED <<header, place>>

\* POST /disconnect: a success, whatever was deleted.
DisconnectSlack(c) ==
    /\ Doing(c, "disconnect") /\ call[c].at = "sent"
    /\ Reply(c, Done(c, TRUE))
    /\ \/ connection' = Disconnected /\ NoLapse
       \/ connection' \in {connection, FALSE} /\ Lapse
    /\ UNCHANGED <<header, place>>

\* GET /callback, when Slack sends the browser back, with a code or without one:
\* the row is there, or the exchange or the query threw.  Then the page loads.
Callback(c) ==
    /\ place = "slack" /\ place' = "page"
    /\ connection' \in {connection, TRUE}
    /\ StartCall(c, "status")
    /\ header' = NewHeader
    /\ UNCHANGED lapses

-------------------------------------------------------------------------------
(* Answers *)

\* Mutant: only a click that succeeds gives the button back.
ConnectingAfter_Success(c, ok) == header.connecting /\ ~(Doing(c, "refresh") /\ ok)

\* The button is back when the click that connects has ended, either way.
ConnectingAfter(c, ok) == header.connecting /\ ~Doing(c, "refresh")

Ended(c) == call' = [call EXCEPT ![c] = NoCall]

SetStatus(c, isConnected, ok) ==
    header' = [isConnected |-> isConnected, connecting |-> ConnectingAfter(c, ok)]

ReceiveAnswer(c) ==
    /\ call[c].at = "done"
    /\ \/ /\ Doing(c, "connect")
          /\ call' = [call EXCEPT ![c] = Send("refresh")]
          /\ UNCHANGED header
       \/ /\ Doing(c, "status") \/ Doing(c, "refresh")
          /\ Ended(c) /\ SetStatus(c, call[c].answer, TRUE)
       \/ Doing(c, "disconnect") /\ Ended(c) /\ SetStatus(c, FALSE, TRUE)
    /\ UNCHANGED <<connection, place, doubt, lapses>>

\* A request fails; the server has seen it, will, or will not.
FailCall(c) ==
    /\ call[c].at \in {"sent", "done"} /\ ~call[c].left
    /\ ~Doing(c, "connect")
    /\ Lapse
    /\ \/ Ended(c)
       \/ call[c].at = "sent" /\ call' = [call EXCEPT ![c].left = TRUE]
    /\ IF Doing(c, "disconnect") THEN UNCHANGED header ELSE SetStatus(c, FALSE, FALSE)
    /\ UNCHANGED <<connection, place>>

\* If it was mock-connect, the browser goes to Slack by GET /connect.
FailConnect(c) ==
    /\ call[c].at \in {"sent", "done"} /\ ~call[c].left
    /\ Doing(c, "connect")
    /\ Lapse
    /\ place' = "slack"
    /\ \/ call' = LeftCalls({d \in Calls: call[d].at = "sent"})
       \/ call' = LeftCalls({d \in Calls \ {c}: call[d].at = "sent"})
    /\ UNCHANGED <<connection, header>>

-------------------------------------------------------------------------------
ServerStep(c) == GetStatus(c) \/ MockConnect(c) \/ DisconnectSlack(c)

AnswerStep(c) == ServerStep(c) \/ ReceiveAnswer(c)

SlackStep(c) == ToggleSlack(c) \/ AnswerStep(c) \/ FailCall(c)

\* Requests are answered.
SlackFairness == \A c \in Calls: WF_slackVars(AnswerStep(c))

-------------------------------------------------------------------------------

\* When nothing is under way the header shows whether the user has a row, if the
\* last call had the page to itself and no query or request of it went wrong:
\* a disconnection that is reported has happened.
HeaderTellsTheRow ==
    place = "page" /\ CallsOpen = {} /\ ~doubt => header.isConnected = connection

\* A click that connects gives the button back, unless its query threw
\* (routes/slack.ts:44).
ConnectingEnds ==
    header.connecting ~> ~header.connecting \/ place # "page" \/ \E c \in Calls: call[c].at = "never"
===============================================================================
