--------------------------------- MODULE MCPage ---------------------------------
(***************************************************************************)
(* Instances of Page, and with it of SearchBox and SlackConnection, for    *)
(* TLC.                                                                    *)
(***************************************************************************)
EXTENDS Page
===============================================================================
