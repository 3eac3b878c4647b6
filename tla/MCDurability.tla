---------------------------- MODULE MCDurability ----------------------------
(***************************************************************************)
(* Durability on small instances: constants that a cfg cannot write.       *)
(***************************************************************************)
EXTENDS Durability

MCTwoAttempts == [m \in Ids |-> 2]
MCPriority == [m \in Ids |-> 0]

MCAnyLength == {None}
MCLengthOne == {1}

MCBodies == Payloads

=============================================================================
