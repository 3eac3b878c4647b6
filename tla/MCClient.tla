----------------------------- MODULE MCClient -----------------------------
(***************************************************************************)
(* Client on a small instance: constants that a cfg cannot write.          *)
(***************************************************************************)
EXTENDS Client

CONSTANTS c1

\* One call consumes, the others are GETs.
MCKind == [c \in Calls |-> IF c = c1 THEN "consume" ELSE "get"]

=============================================================================
