----------------------------- MODULE MCRouting -----------------------------
(***************************************************************************)
(* Routing on small instances: constants that a cfg cannot write.          *)
(***************************************************************************)
EXTENDS Routing, TLC

\* The dead-letter queue's name is the longer one, and sorts behind.
MCRank == [n \in Names |-> IF n.kind = "queue" THEN 0 ELSE 1]

\* Clients name the ordinary queue; its dead-letter queue comes with it.
MCNamed == {n \in Names : n.kind = "queue"}

\* Every queue with its own name at both exchanges, and both queues with the
\* ordinary one's name at x1.
MCBindable ==
    {b \in Binding : b.routing_key.kind = "queue" /\ (b.exchange = Default => b.queue.kind = "queue")}

Symmetry == Permutations(Pubs)

=============================================================================
