---------------------------- MODULE MCAofWriter ----------------------------
(***************************************************************************)
(* AofWriter on small instances.                                           *)
(***************************************************************************)
EXTENDS AofWriter

=============================================================================
