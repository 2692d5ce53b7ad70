------------------------------ MODULE MCSlackAlert ------------------------------
(***************************************************************************)
(* Instances of SlackAlert for TLC.                                        *)
(***************************************************************************)
EXTENDS SlackAlert
===============================================================================
