------------------------------ MODULE MCDashboard ------------------------------
(***************************************************************************)
(* Instances of Dashboard for TLC.                                         *)
(***************************************************************************)
EXTENDS Dashboard
===============================================================================
