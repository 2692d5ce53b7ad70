----------------------------- MODULE MCRateLimiter -----------------------------
(***************************************************************************)
(* Instances of RateLimiter for TLC.                                       *)
(***************************************************************************)
EXTENDS RateLimiter, TLC

\* All workers in one process.
InOneProcess == [w \in Workers |-> CHOOSE p \in Processes: TRUE]

Symmetry == Permutations(Workers)
===============================================================================
