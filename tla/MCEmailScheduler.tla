--------------------------- MODULE MCEmailScheduler ---------------------------
(***************************************************************************)
(* Instances of EmailScheduler for TLC.                                    *)
(***************************************************************************)
EXTENDS EmailScheduler

\* All workers in one process.
OnOneServer == [w \in Workers |-> CHOOSE s \in Servers: TRUE]

\* Every worker in a process of its own.
OnOwnServer ==
    CHOOSE f \in [Workers -> Servers]: \A v, w \in Workers: f[v] = f[w] => v = w

\* One sender for all emails.
SentByOne == [e \in Emails |-> CHOOSE x \in Senders: TRUE]
===============================================================================
