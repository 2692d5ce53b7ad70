---------------------------------- MODULE Page ----------------------------------
(***************************************************************************)
(* The dashboard in the browser: the header and the search box.  They      *)
(* share nothing but the page, which may be left and loaded again while    *)
(* requests of both are under way.                                         *)
(***************************************************************************)
EXTENDS SearchBox, SlackConnection

pageVars == <<vars, slackVars>>

PageTypeOK == TypeOK /\ SlackTypeOK

PageInit == Init /\ SlackInit

\* The search box goes with the page: its timer is cleared, and nobody waits
\* for its requests.
CloseSearch ==
    /\ searchQuery' = NoQuery
    /\ isSearching' = FALSE
    /\ searchResults' = NoQuery
    /\ timers' = {}
    /\ request' = [r \in Requests |-> NoRequest]
    /\ missed' = {}
    /\ UNCHANGED failures

\* The user reloads the page, or mock-connect fails.
Leave == (LeavePage \/ \E c \in Calls: FailConnect(c)) /\ CloseSearch

\* The page is loaded, by the user or by the redirection from Slack's.
Load == \E c \in Calls: (Mount(c) \/ Callback(c)) /\ UNCHANGED vars

PageNext ==
    \/ Leave \/ Load
    \/ (place = "page" /\ Next) /\ UNCHANGED slackVars
    \/ (\E c \in Calls: SlackStep(c)) /\ UNCHANGED vars

PageSpec == PageInit /\ [][PageNext]_pageVars

\* The browser loads the page in the end.
LivePageSpec == PageSpec /\ SlackFairness /\ WF_pageVars(Load)
===============================================================================
