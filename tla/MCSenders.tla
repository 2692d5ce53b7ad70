------------------------------- MODULE MCSenders -------------------------------
(***************************************************************************)
(* Instances of Senders, and with it of Accounts, for TLC.                 *)
(***************************************************************************)
EXTENDS Senders, TLC

CONSTANTS g1, other, seeded, otherUser

\* The users in memory.
InMemory == Demo :> seeded @@ other :> otherUser

\* A Google user who is given the demo user's email.
Renamed == {[id |-> g1, email |-> other], [id |-> g1, email |-> Demo]}

Symmetry == Permutations(Requests)
===============================================================================
