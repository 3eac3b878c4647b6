--------------------------- MODULE MCQueueEngine ---------------------------
(***************************************************************************)
(* QueueEngine on small instances: constants that a cfg cannot write.      *)
(***************************************************************************)
EXTENDS QueueEngine

CONSTANTS m1, m2

\* m1 has two attempts and the higher priority, m2 one attempt.
MCMaxAttempts == [m \in Ids |-> IF m = m1 THEN 2 ELSE 1]
MCPriority    == [m \in Ids |-> IF m = m1 THEN 1 ELSE 0]

MCMaxLengths == {None, 1}
MCEnqueueDelays == {0, 1}

=============================================================================
