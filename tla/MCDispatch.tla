----------------------------- MODULE MCDispatch -----------------------------
(***************************************************************************)
(* Dispatch on small instances: constants that a cfg cannot write.         *)
(***************************************************************************)
EXTENDS Dispatch, TLC

CONSTANTS q1, m1

Ordinary == [base |-> q1, kind |-> "queue"]

MCMaxAttempts == [m \in Ids |-> 2]
MCOneAttempt == [m \in Ids |-> 1]
MCPriority == [m \in Ids |-> 0]
MCMaxLengths == {None}
MCLimit == {None, 1}

\* Messages that differ: m1 may be tried twice and goes before the others.
MCOneRetry == [m \in Ids |-> IF m = m1 THEN 2 ELSE 1]
MCFirst    == [m \in Ids |-> IF m = m1 THEN 1 ELSE 0]

OnlyOrdinary == {Ordinary}

OneQueue == {{Ordinary}}

DeleteNothing == {}
DeleteDlq == {dlq_name(Ordinary)}
DeleteAny == Names

Symmetry == Permutations(Connections) \cup Permutations(Consumers) \cup Permutations(Ids)

=============================================================================
