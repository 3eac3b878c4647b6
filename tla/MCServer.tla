------------------------------ MODULE MCServer ------------------------------
(***************************************************************************)
(* Server on a small instance: a subscriber and a publisher with the      *)
(* frames that one of their reads may return.                              *)
(***************************************************************************)
EXTENDS Server

CONSTANTS k1, k2, ch

Cmd(c)     == [cmd |-> c, arg |-> None]
On(c)      == [cmd |-> c, arg |-> ch]
Login(r)   == [cmd |-> "AUTH", arg |-> r]

MCBatches ==
    [k \in Conns |->
        IF k = k1
        THEN {<<Login("admin"), Cmd("CONSUME")>>,
              <<On("SUBSCRIBE"), Cmd("PUBLISH"), Cmd("CONSUME"), On("PUBLISH_CHANNEL"),
                On("UNSUBSCRIBE")>>}
        ELSE {<<Cmd("HEARTBEAT"), Login("admin")>>,
              <<On("PUBLISH_CHANNEL"), Login(None), Cmd("BAD")>>}]

MCReadBound == [k \in Conns |-> 2]

=============================================================================
