------------------------------- MODULE SendLease -------------------------------
(***************************************************************************)
(* What the `scheduled -> processing` claim is for, without rows, jobs,    *)
(* processes or requests: a lease on sending one email.  A lease is open,  *)
(* or held by one worker; a holder delivers at most once; a lease whose    *)
(* message went out is opened again only after the acknowledgement was     *)
(* lost.                                                                   *)
(*                                                                         *)
(* Several leases may change in one step, as when a process that holds     *)
(* many of them dies.                                                      *)
(***************************************************************************)
EXTENDS Naturals

CONSTANTS Emails, Workers, NoWorker

VARIABLE lease

Leases == [holder: Workers \union {NoWorker},
           unused: BOOLEAN,       \* the holder has not delivered yet
           open: BOOLEAN,         \* a worker may take the lease
           delivered: 0..2,
           ackLost: BOOLEAN]

Init == lease = [e \in Emails |-> [holder |-> NoWorker, unused |-> FALSE,
                                   open |-> FALSE, delivered |-> 0, ackLost |-> FALSE]]

May(e) == lease[e].delivered = 0 \/ lease[e].ackLost

\* The email becomes available, unless its message is out and acknowledged.
Open(e) ==
    /\ lease[e].holder = NoWorker /\ May(e)
    /\ lease'[e] = [lease[e] EXCEPT !.open = TRUE]

\* It is withdrawn, held or not.
Close(e) == lease'[e] = [lease[e] EXCEPT !.open = FALSE]

Acquire(e) ==
    /\ lease[e].open /\ lease[e].holder = NoWorker
    /\ \E w \in Workers:
         lease'[e] = [lease[e] EXCEPT !.holder = w, !.unused = TRUE, !.open = FALSE]

\* The one delivery of the lease.
Deliver(e) ==
    /\ lease[e].unused
    /\ \E lost \in BOOLEAN:
         lease'[e] = [lease[e] EXCEPT !.unused = FALSE,
                                      !.delivered = IF @ < 2 THEN @ + 1 ELSE 2,
                                      !.ackLost = @ \/ lost]

\* The holder gives up before it delivered.
GiveUp(e) == lease'[e] = [lease[e] EXCEPT !.unused = FALSE]

\* The message is out, but the holder did not get to say so.
LoseAck(e) ==
    /\ lease[e].holder # NoWorker /\ ~lease[e].unused /\ lease[e].delivered > 0
    /\ lease'[e] = [lease[e] EXCEPT !.ackLost = TRUE]

\* The holder leaves, or vanishes.
Release(e) ==
    /\ lease[e].holder # NoWorker
    /\ \E open \in BOOLEAN:
         /\ open => May(e)
         /\ lease'[e] = [lease[e] EXCEPT !.holder = NoWorker, !.unused = FALSE,
                                         !.open = open]

Next ==
    /\ lease' \in [Emails -> Leases]
    /\ \A e \in Emails:
         \/ lease'[e] = lease[e]
         \/ Open(e) \/ Close(e) \/ Acquire(e) \/ Deliver(e) \/ GiveUp(e)
         \/ LoseAck(e) \/ Release(e)

Spec == Init /\ [][Next]_lease
===============================================================================
