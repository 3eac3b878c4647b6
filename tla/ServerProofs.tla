---------------------------- MODULE ServerProofs ----------------------------
(***************************************************************************)
(* Theorems about Server, for any number of connections and channels, any  *)
(* limits and any frames the clients send: types and outbound limits, the  *)
(* tables that are kept twice, and the one command that a connection may   *)
(* still have handled after it was dropped; a drop that is cut short by an *)
(* exception is among the steps.                                           *)
(***************************************************************************)
EXTENDS Server, FiniteSetTheorems, TLAPS

-----------------------------------------------------------------------------
(* A ClientConnection.                                                     *)

\* Well typed, with an outbound queue within its limit and no sentinel in it
\* before close() was called.
Sane(c) ==
    /\ c \in Connection
    /\ Occupied(c) <= OutboundLimit
    /\ c.sentinel => c.closed

\* The read loop, the end and the count of late commands are as before.
SameLoop(c, d) == d.stage = c.stage /\ d.closed = c.closed /\ d.late = c.late

LEMMA SaneFacts ==
    ASSUME NEW c, Sane(c)
    PROVE  /\ c.stage \in Stages /\ c.frames \in Seq(Frame) /\ c.reads \in Nat
           /\ c.out \in Nat /\ c.sentinel \in BOOLEAN /\ c.closed \in BOOLEAN
           /\ c.late \in Nat /\ c.failures \in Nat
           /\ OutboundLimit \in Nat \ {0}
           /\ c.out + (IF c.sentinel THEN 1 ELSE 0) <= OutboundLimit
           /\ Fits(c) => ~c.closed /\ ~c.sentinel /\ c.out + 1 <= OutboundLimit
BY ServerAssumption DEF Sane, Connection, Occupied, Fits

\* One more frame in the outbound queue.
LEMMA OneMoreSane ==
    ASSUME NEW c, Sane(c), c.out + 1 <= OutboundLimit, ~c.sentinel
    PROVE  LET d == [c EXCEPT !.out = @ + 1] IN
              Sane(d) /\ SameLoop(c, d) /\ d.frames = c.frames /\ d.failures = c.failures
<1>1. c.out + 1 \in 0..OutboundLimit /\ c.sentinel \in BOOLEAN
  BY SaneFacts
<1> QED
  BY <1>1 DEF Sane, SameLoop, Connection, Occupied

LEMMA TrySendSane ==
    ASSUME NEW c, Sane(c)
    PROVE  Sane(try_send(c)) /\ SameLoop(c, try_send(c)) /\ try_send(c).frames = c.frames
BY SaneFacts, OneMoreSane DEF try_send, SameLoop

LEMMA CloseSane ==
    ASSUME NEW c, Sane(c)
    PROVE  /\ Sane(close(c)) /\ close(c).closed
           /\ close(c).stage = c.stage /\ close(c).late = c.late
<1>1. CASE c.closed
  BY <1>1 DEF close
<1>2. CASE ~c.closed
  <2> DEFINE o == IF Occupied(c) < OutboundLimit THEN c.out ELSE c.out - 1
  <2>1. o \in 0..OutboundLimit /\ o + 1 <= OutboundLimit
    BY <1>2, SaneFacts DEF Sane, Occupied
  <2> HIDE DEF o
  <2>2. close(c) = [c EXCEPT !.closed = TRUE, !.sentinel = TRUE, !.closer = "waits", !.out = o]
    BY <1>2 DEF close, o
  <2>3. c \in Connection
    BY DEF Sane
  <2> QED
    BY <2>1, <2>2, <2>3 DEF Sane, Connection, Occupied
<1> QED
  BY <1>1, <1>2, SaneFacts

LEMMA SendAndReturnSane ==
    ASSUME NEW c, Sane(c)
    PROVE  LET d == SendAndReturn(c) IN
              /\ Sane(d) /\ d.closed = c.closed /\ d.late = c.late
              /\ d.stage \in {"leaving", "blocked"}
              /\ c.closed => d.stage = "leaving"
<1> DEFINE o == IF Fits(c) THEN c.out + 1 ELSE c.out
           s == IF c.closed \/ Fits(c) THEN "leaving" ELSE "blocked"
<1>1. o \in 0..OutboundLimit /\ o + (IF c.sentinel THEN 1 ELSE 0) <= OutboundLimit
  BY SaneFacts
<1>2. s \in {"leaving", "blocked"} /\ s \in Stages /\ (c.closed => s = "leaving")
  BY DEF Stages
<1>3. SendAndReturn(c) = [c EXCEPT !.frames = << >>, !.stage = s, !.out = o]
  BY DEF SendAndReturn
<1> HIDE DEF o, s
<1>4. c \in Connection /\ (c.sentinel => c.closed) /\ << >> \in Seq(Frame)
  BY DEF Sane
<1> QED
  BY <1>1, <1>2, <1>3, <1>4 DEF Sane, Connection, Occupied

-----------------------------------------------------------------------------
(* The inductive invariant.                                                *)

Rest ==
    /\ connections \subseteq Conns
    /\ active \in Nat
    /\ subs \in [Channels -> SUBSET Conns]
    /\ by_connection \in [Conns -> SUBSET Channels]
    /\ consumers \cup last_slow \cup forgotten \cup cut \subseteq Conns
    /\ drops \in [Conns -> Nat]
    /\ unsynced \in BOOLEAN /\ halted \in BOOLEAN
    /\ running \in Conns \cup {None}

\* A connection that is no longer in the table, or not yet, is absent, or
\* closed, or its _drop was cut short; else a read loop that has handled a
\* command too late is at its end, and without such a command nothing is left
\* of a dropped connection.
LifeOK(k) ==
    /\ conn[k].stage = "absent" => k \notin connections
    /\ k \in cut => k \notin connections /\ conn[k].stage # "absent"
    /\ k \notin connections \/ halted => conn[k].closed \/ conn[k].stage = "absent" \/ k \in cut
    /\ k \notin cut =>
          /\ conn[k].late <= 1
          /\ conn[k].late = 1 => conn[k].stage \in {"leaving", "gone"}
          /\ ~halted /\ k \notin connections /\ (k \in consumers \/ by_connection[k] # {})
                => conn[k].late = 1

CountOK ==
    /\ IsFiniteSet(connections) /\ IsFiniteSet(cut)
    /\ ~halted => active = Cardinality(connections) + Cardinality(cut)

SubsOK == \A k \in Conns, c \in Channels : k \in subs[c] <=> c \in by_connection[k]

Tables == Rest /\ CountOK /\ SubsOK

ServerInv ==
    /\ DOMAIN conn = Conns /\ conn = [k \in Conns |-> conn[k]]
    /\ \A k \in Conns : Sane(conn[k]) /\ LifeOK(k)
    /\ Tables

-----------------------------------------------------------------------------
(* Steps that leave the tables alone.                                      *)

\* What such a step may do to a connection.
Proceeds(c, d) ==
    /\ Sane(d) /\ d.late = c.late
    /\ c.closed => d.closed
    /\ d.stage = "absent" <=> c.stage = "absent"
    /\ c.stage \in {"leaving", "gone"} => d.stage \in {"leaving", "gone"}

TablesKept == UNCHANGED <<connections, active, cut, subs, by_connection, consumers, halted>>

LEMMA ProceedsKeep ==
    ASSUME ServerInv, TablesKept, Rest', conn' = [k \in Conns |-> conn'[k]],
           \A k \in Conns : Proceeds(conn[k], conn'[k])
    PROVE  ServerInv'
<1>1. ASSUME NEW k \in Conns PROVE Sane(conn'[k]) /\ LifeOK(k)'
  <2>1. LifeOK(k) /\ Sane(conn[k]) /\ Sane(conn'[k])
    BY DEF ServerInv, Proceeds
  <2> QED
    BY <2>1 DEF Proceeds, LifeOK, TablesKept
<1>2. CountOK' /\ SubsOK'
  BY DEF ServerInv, Tables, CountOK, SubsOK, TablesKept
<1> QED
  BY <1>1, <1>2 DEF ServerInv, Tables


LEMMA SaneProceeds ==
    ASSUME NEW c, Sane(c)
    PROVE  Proceeds(c, c)
BY DEF Proceeds

\* One connection proceeds, the others stay as they are.
LEMMA OneProceeds ==
    ASSUME ServerInv, TablesKept, Rest', NEW k \in Conns, NEW d,
           conn' = [conn EXCEPT ![k] = d], Proceeds(conn[k], d)
    PROVE  ServerInv'
<1>1. \A j \in Conns : conn'[j] = IF j = k THEN d ELSE conn[j]
  BY DEF ServerInv
<1>2. \A j \in Conns : Proceeds(conn[j], conn'[j])
  BY <1>1, SaneProceeds DEF ServerInv
<1>3. conn' = [j \in Conns |-> conn'[j]]
  BY DEF ServerInv
<1> QED
  BY <1>2, <1>3, ProceedsKeep

LEMMA WriterSteps ==
    ASSUME ServerInv, NEW k \in Conns,
           WriterTake(k) \/ WriterDrained(k) \/ WriterClosed(k) \/ WriterTimeout(k)
    PROVE  ServerInv'
<1>1. TablesKept /\ Rest'
  BY DEF WriterTake, WriterDrained, WriterClosed, WriterTimeout, TablesKept, ServerInv, Tables,
         Rest, pubsubVars, countVars, slowVars
<1>2. Sane(conn[k]) /\ DOMAIN conn = Conns
  BY DEF ServerInv
<1> DEFINE W == {"idle", "drain", "closing", "done"}
<1>3. \/ /\ conn[k].out > 0
         /\ \E w \in W : conn' = [conn EXCEPT ![k].out = @ - 1, ![k].writer = w]
      \/ \E w \in W : conn' = [conn EXCEPT ![k].sentinel = FALSE, ![k].writer = w]
      \/ \E w \in W, c \in {"waits", "cancelled"} :
            conn' = [conn EXCEPT ![k].closer = c, ![k].writer = w]
      \/ \E w \in W : conn' = [conn EXCEPT ![k].writer = w]
  <2>1. Finally(conn[k]) \in W
    BY DEF Finally
  <2>2. CASE WriterTake(k)
    <3>1. conn[k].peer \in {"reads", "stuck", "gone"}
      BY <1>2 DEF Sane, Connection
    <3>2. CASE conn[k].out > 0 /\ conn[k].out # 0
      <4>1. PICK w \in CASE conn[k].peer = "reads" -> {"idle"}
                       [] conn[k].peer = "stuck" -> {"idle", "drain"}
                       [] conn[k].peer = "gone"  -> {Finally(conn[k])} :
                  conn' = [conn EXCEPT ![k].out = @ - 1, ![k].writer = w]
        BY <2>2, <3>2 DEF WriterTake
      <4>2. w \in W
        BY <2>1, <3>1, <4>1
      <4> QED
        BY <3>2, <4>1, <4>2
    <3>3. CASE conn[k].out = 0 /\ ~(conn[k].out > 0)
      BY <2>1, <2>2, <3>3 DEF WriterTake
    <3>4. conn[k].out \in Nat
      BY <1>2, SaneFacts
    <3>5. \A n \in Nat : (n > 0 /\ n # 0) \/ (n = 0 /\ ~(n > 0))
      OBVIOUS
    <3> QED
      BY <3>2, <3>3, <3>4, <3>5
  <2>3. CASE WriterDrained(k)
    BY <1>2, <2>1, <2>3 DEF WriterDrained
  <2>4. CASE WriterClosed(k)
    BY <1>2, <2>4 DEF WriterClosed
  <2>5. CASE WriterTimeout(k)
    BY <1>2, <2>1, <2>5 DEF WriterTimeout
  <2> QED
    BY <2>2, <2>3, <2>4, <2>5
<1>4. CASE \E w \in W : conn[k].out > 0 /\ conn' = [conn EXCEPT ![k].out = @ - 1, ![k].writer = w]
  <2> PICK w \in W : conn[k].out > 0 /\ conn' = [conn EXCEPT ![k].out = @ - 1, ![k].writer = w]
    BY <1>4
  <2> DEFINE d == [conn[k] EXCEPT !.out = @ - 1, !.writer = w]
  <2>1. conn' = [conn EXCEPT ![k] = d]
    BY <1>2
  <2>2. /\ conn[k].out - 1 \in 0..OutboundLimit
        /\ conn[k].out - 1 + (IF conn[k].sentinel THEN 1 ELSE 0) <= OutboundLimit
    BY <1>2, SaneFacts
  <2>3. Proceeds(conn[k], d)
    BY <1>2, <2>2 DEF Proceeds, Sane, Connection, Occupied
  <2> QED
    BY <1>1, <2>1, <2>3, OneProceeds
<1>5. CASE \E w \in W : conn' = [conn EXCEPT ![k].sentinel = FALSE, ![k].writer = w]
  <2> PICK w \in W : conn' = [conn EXCEPT ![k].sentinel = FALSE, ![k].writer = w]
    BY <1>5
  <2> DEFINE d == [conn[k] EXCEPT !.sentinel = FALSE, !.writer = w]
  <2>1. conn' = [conn EXCEPT ![k] = d]
    BY <1>2
  <2>2. conn[k].out \in 0..OutboundLimit /\ conn[k].out <= OutboundLimit
    BY <1>2, SaneFacts
  <2>3. d \in Connection /\ d.out = conn[k].out /\ ~d.sentinel
    BY <1>2 DEF Sane, Connection
  <2>4. Sane(d)
    BY <2>2, <2>3 DEF Sane, Occupied
  <2>5. Proceeds(conn[k], d)
    BY <1>2, <2>4 DEF Proceeds, Sane, Connection
  <2> QED
    BY <1>1, <2>1, <2>5, OneProceeds
<1>6. CASE \E w \in W, c \in {"waits", "cancelled"} :
              conn' = [conn EXCEPT ![k].closer = c, ![k].writer = w]
  <2> PICK w \in W, c \in {"waits", "cancelled"} :
              conn' = [conn EXCEPT ![k].closer = c, ![k].writer = w]
    BY <1>6
  <2> DEFINE d == [conn[k] EXCEPT !.closer = c, !.writer = w]
  <2>1. conn' = [conn EXCEPT ![k] = d]
    BY <1>2
  <2>2. Proceeds(conn[k], d)
    BY <1>2 DEF Proceeds, Sane, Connection, Occupied
  <2> QED
    BY <1>1, <2>1, <2>2, OneProceeds
<1>7. CASE \E w \in W : conn' = [conn EXCEPT ![k].writer = w]
  <2> PICK w \in W : conn' = [conn EXCEPT ![k].writer = w]
    BY <1>7
  <2> DEFINE d == [conn[k] EXCEPT !.writer = w]
  <2>1. conn' = [conn EXCEPT ![k] = d]
    BY <1>2
  <2>2. Proceeds(conn[k], d)
    BY <1>2 DEF Proceeds, Sane, Connection, Occupied
  <2> QED
    BY <1>1, <2>1, <2>2, OneProceeds
<1> QED
  BY <1>3, <1>4, <1>5, <1>6, <1>7

\* The read loop goes to a stage of its own, with frames to handle.
LEMMA StageProceeds ==
    ASSUME NEW c, Sane(c), c.stage \notin {"absent", "leaving", "gone"},
           NEW s \in Stages \ {"absent"}, NEW fs \in Seq(Frame), NEW n \in Nat
    PROVE  /\ Proceeds(c, [c EXCEPT !.stage = s])
           /\ Proceeds(c, [c EXCEPT !.stage = s, !.frames = fs, !.reads = n])
BY DEF Proceeds, Sane, Connection, Occupied

LEMMA ReadSteps ==
    ASSUME ServerInv, NEW k \in Conns,
           \/ \E batch \in Batches[k] : ReadData(k, batch)
           \/ ReadEnds(k) \/ BatchEnd(k)
    PROVE  ServerInv'
<1>1. TablesKept /\ Rest'
  BY DEF ReadData, ReadEnds, BatchEnd, TablesKept, ServerInv, Tables, Rest, pubsubVars, countVars, slowVars
<1>2. Sane(conn[k]) /\ DOMAIN conn = Conns /\ conn[k].reads + 1 \in Nat
  BY SaneFacts DEF ServerInv
<1>3. CASE \E batch \in Batches[k] : ReadData(k, batch)
  <2> PICK batch \in Batches[k] : ReadData(k, batch)
    BY <1>3
  <2> DEFINE d == [conn[k] EXCEPT !.stage = "frames", !.frames = batch, !.reads = @ + 1]
  <2>1. batch \in Seq(Frame) /\ conn[k].stage = "reading"
    BY ServerAssumption DEF ReadData
  <2>2. conn' = [conn EXCEPT ![k] = d]
    BY <1>2 DEF ReadData
  <2>3. "frames" \in Stages \ {"absent"}
    BY DEF Stages
  <2>4. Proceeds(conn[k], d)
    BY <1>2, <2>1, <2>3, StageProceeds
  <2> QED
    BY <1>1, <2>2, <2>4, OneProceeds
<1>4. CASE ReadEnds(k) \/ BatchEnd(k)
  <2>1. PICK s \in {"leaving", "reading"} : conn' = [conn EXCEPT ![k].stage = s]
    BY <1>4 DEF ReadEnds, BatchEnd
  <2>2. conn[k].stage \in {"reading", "frames"} /\ s \in Stages \ {"absent"}
    BY <1>4 DEF ReadEnds, BatchEnd, Stages
  <2> DEFINE d == [conn[k] EXCEPT !.stage = s]
  <2>3. conn' = [conn EXCEPT ![k] = d]
    BY <1>2, <2>1
  <2>4. << >> \in Seq(Frame) /\ 0 \in Nat
    OBVIOUS
  <2>5. Proceeds(conn[k], d)
    BY <1>2, <2>2, <2>4, StageProceeds
  <2> QED
    BY <1>1, <2>3, <2>5, OneProceeds
<1> QED
  BY <1>3, <1>4


LEMMA HeadTyped ==
    ASSUME NEW c, Sane(c), c.frames # << >>
    PROVE  Head(c.frames) \in Frame /\ Tail(c.frames) \in Seq(Frame)
BY SaneFacts

LEMMA TrySendProceeds ==
    ASSUME NEW c, Sane(c)
    PROVE  Proceeds(c, try_send(c))
BY TrySendSane DEF Proceeds, SameLoop

LEMMA FrameSteps ==
    ASSUME ServerInv, NEW k \in Conns, Heartbeat(k) \/ Malformed(k)
    PROVE  ServerInv'
<1>1. Sane(conn[k]) /\ DOMAIN conn = Conns
  BY DEF ServerInv
<1>2. CASE Heartbeat(k)
  <2>1. TablesKept /\ Rest'
    BY <1>2 DEF Heartbeat, TablesKept, ServerInv, Tables, Rest, pubsubVars, countVars, slowVars
  <2>2. /\ conn[k].frames # << >>
        /\ conn' = [conn EXCEPT ![k] = try_send(Next1(k))]
    BY <1>2 DEF Heartbeat
  <2>3. Sane(Next1(k)) /\ SameLoop(conn[k], Next1(k))
    <3>1. Tail(conn[k].frames) \in Seq(Frame)
      BY <1>1, <2>2, HeadTyped
    <3> QED
      BY <1>1, <3>1 DEF Next1, Sane, SameLoop, Connection, Occupied
  <2>4. Proceeds(conn[k], try_send(Next1(k)))
    BY <2>3, TrySendSane DEF Proceeds, SameLoop
  <2> QED
    BY <2>1, <2>2, <2>4, OneProceeds
<1>3. CASE Malformed(k)
  <2>1. TablesKept /\ Rest'
    BY <1>3 DEF Malformed, TablesKept, ServerInv, Tables, Rest, pubsubVars, countVars, slowVars
  <2>2. conn[k].stage = "frames" /\ conn' = [conn EXCEPT ![k] = SendAndReturn(conn[k])]
    BY <1>3 DEF Malformed
  <2>3. Proceeds(conn[k], SendAndReturn(conn[k]))
    BY <1>1, <2>2, SendAndReturnSane DEF Proceeds
  <2> QED
    BY <2>1, <2>2, <2>3, OneProceeds
<1> QED
  BY <1>2, <1>3

LEMMA LoopSteps ==
    ASSUME ServerInv, NEW k \in Conns,
           \/ Unblock(k) \/ Deliver(k)
           \/ \E p \in {"reads", "stuck", "gone"} : Peer(k, p)
    PROVE  ServerInv'
<1>1. Sane(conn[k]) /\ DOMAIN conn = Conns
  BY DEF ServerInv
<1>2. TablesKept /\ Rest'
  BY DEF Unblock, Deliver, Peer, TablesKept, ServerInv, Tables, Rest, pubsubVars, countVars, slowVars
<1>3. CASE Unblock(k)
  <2> DEFINE o == IF conn[k].sentinel THEN conn[k].out ELSE conn[k].out + 1
             d == [conn[k] EXCEPT !.stage = "leaving", !.out = o]
  <2>1. conn[k].stage = "blocked" /\ conn' = [conn EXCEPT ![k] = d]
    BY <1>1, <1>3 DEF Unblock
  <2>2. o \in 0..OutboundLimit /\ o + (IF conn[k].sentinel THEN 1 ELSE 0) <= OutboundLimit
    BY <1>1, <1>3, SaneFacts DEF Unblock, Occupied
  <2> HIDE DEF o
  <2>3. Proceeds(conn[k], d)
    BY <1>1, <2>1, <2>2 DEF Proceeds, Sane, Connection, Occupied, Stages
  <2> QED
    BY <1>2, <2>1, <2>3, OneProceeds
<1>4. CASE Deliver(k)
  <2>1. conn' = [conn EXCEPT ![k] = try_send(conn[k])]
    BY <1>4 DEF Deliver
  <2> QED
    BY <1>1, <1>2, <2>1, TrySendProceeds, OneProceeds
<1>5. CASE \E p \in {"reads", "stuck", "gone"} : Peer(k, p)
  <2> PICK p \in {"reads", "stuck", "gone"} : Peer(k, p)
    BY <1>5
  <2> DEFINE d == [conn[k] EXCEPT !.peer = p]
  <2>1. conn' = [conn EXCEPT ![k] = d]
    BY <1>1 DEF Peer
  <2>2. Proceeds(conn[k], d)
    BY <1>1 DEF Proceeds, Sane, Connection, Occupied
  <2> QED
    BY <1>2, <2>1, <2>2, OneProceeds
<1> QED
  BY <1>3, <1>4, <1>5

\* The loop takes the slow subscribers: some connections get a frame more.
LEMMA TakeSlowView ==
    ASSUME NEW cs, NEW slow \in SUBSET Conns, TakeSlow(cs, slow), Rest,
           \A j \in Conns : Sane(cs[j])
    PROVE  /\ conn' = [j \in Conns |-> conn'[j]]
           /\ \A j \in Conns : Sane(conn'[j]) /\ SameLoop(cs[j], conn'[j])
           /\ last_slow' = {} /\ drops' \in [Conns -> Nat]
<1>1. \A j \in Conns : Sane(try_send(cs[j])) /\ SameLoop(cs[j], try_send(cs[j]))
  BY TrySendSane
<1>2. \A j \in Conns : conn'[j] = IF j \in slow \cap connections THEN try_send(cs[j]) ELSE cs[j]
  BY DEF TakeSlow
<1>3. drops' \in [Conns -> Nat]
  BY DEF TakeSlow, Rest
<1>4. \A j \in Conns : SameLoop(cs[j], cs[j])
  BY DEF SameLoop
<1> QED
  BY <1>1, <1>2, <1>3, <1>4 DEF TakeSlow

LEMMA WaitSteps ==
    ASSUME ServerInv, Synced \/ \E k \in Conns : Resume(k)
    PROVE  ServerInv'
<1>1. \A k \in Conns : Sane(conn[k])
  BY DEF ServerInv
<1>2. << >> \in Seq(Frame) /\ 0 \in Nat /\ "resumed" \in Stages \ {"absent"}
      /\ "frames" \in Stages \ {"absent"}
  BY DEF Stages
<1>3. CASE Synced
  <2>1. TablesKept /\ Rest'
    BY <1>3 DEF Synced, TablesKept, ServerInv, Tables, Rest, pubsubVars, countVars, slowVars
  <2>2. conn' = [k \in Conns |-> IF conn[k].stage = "wait"
                                THEN [conn[k] EXCEPT !.stage = "resumed"] ELSE conn[k]]
    BY <1>3 DEF Synced
  <2>3. \A k \in Conns : conn[k].stage = "wait" =>
                            Proceeds(conn[k], [conn[k] EXCEPT !.stage = "resumed"])
    BY <1>1, <1>2, StageProceeds
  <2>4. \A k \in Conns : Proceeds(conn[k], conn'[k])
    BY <1>1, <2>2, <2>3, SaneProceeds
  <2>5. conn' = [k \in Conns |-> conn'[k]]
    BY <2>2
  <2> QED
    BY <2>1, <2>4, <2>5, ProceedsKeep
<1>4. CASE \E k \in Conns : Resume(k)
  <2> PICK k \in Conns : Resume(k)
    BY <1>4
  <2> DEFINE cs == [conn EXCEPT ![k].stage = "frames"]
  <2>1. /\ conn[k].stage = "resumed" /\ TakeSlow(cs, last_slow) /\ running' = k
        /\ UNCHANGED <<connections, active, cut, subs, by_connection, consumers, forgotten,
                       unsynced, halted>>
    BY DEF Resume, pubsubVars, countVars
  <2>2. Proceeds(conn[k], [conn[k] EXCEPT !.stage = "frames"])
    BY <1>1, <1>2, <2>1, StageProceeds
  <2>3. \A j \in Conns : cs[j] = IF j = k THEN [conn[k] EXCEPT !.stage = "frames"] ELSE conn[j]
    BY DEF ServerInv
  <2> HIDE DEF cs
  <2>4. \A j \in Conns : Proceeds(conn[j], cs[j]) /\ Sane(cs[j])
    BY <1>1, <2>2, <2>3, SaneProceeds DEF Proceeds
  <2>5. Rest /\ last_slow \in SUBSET Conns
    BY DEF ServerInv, Tables, Rest
  <2>6. /\ conn' = [j \in Conns |-> conn'[j]]
        /\ \A j \in Conns : Sane(conn'[j]) /\ SameLoop(cs[j], conn'[j])
        /\ last_slow' = {} /\ drops' \in [Conns -> Nat]
    BY <2>1, <2>4, <2>5, TakeSlowView
  <2>7. \A j \in Conns : Proceeds(conn[j], conn'[j])
    BY <2>4, <2>6 DEF Proceeds, SameLoop
  <2>8. TablesKept /\ Rest'
    BY <2>1, <2>5, <2>6 DEF TablesKept, Rest
  <2> QED
    BY <2>6, <2>7, <2>8, ProceedsKeep
<1> QED
  BY <1>3, <1>4


-----------------------------------------------------------------------------
(* A command.                                                              *)

LEMMA Next1Sane ==
    ASSUME NEW k \in Conns, Sane(conn[k]), conn[k].frames # << >>
    PROVE  /\ Sane(Next1(k)) /\ SameLoop(conn[k], Next1(k))
           /\ Next1(k).out = conn[k].out /\ Next1(k).sentinel = conn[k].sentinel
<1>1. Tail(conn[k].frames) \in Seq(Frame)
  BY HeadTyped
<1> QED
  BY <1>1 DEF Next1, Sane, SameLoop, Connection, Occupied

LEMMA ContextSane ==
    ASSUME NEW c, Sane(c), NEW f, NEW ok
    PROVE  LET d == Context(c, f, ok) IN
              Sane(d) /\ SameLoop(c, d) /\ d.out = c.out /\ d.sentinel = c.sentinel
<1>0. c \in Connection /\ c.failures + 1 \in Nat /\ 0 \in Nat /\ "admin" \in Roles
  BY SaneFacts DEF Sane, Roles
<1>1. ASSUME NEW p \in Roles
      PROVE  LET d == [c EXCEPT !.principal = p] IN
                Sane(d) /\ SameLoop(c, d) /\ d.out = c.out /\ d.sentinel = c.sentinel
  BY <1>0 DEF Sane, SameLoop, Connection, Occupied
<1>2. ASSUME NEW p \in Roles
      PROVE  LET d == [c EXCEPT !.principal = p, !.failures = 0] IN
                Sane(d) /\ SameLoop(c, d) /\ d.out = c.out /\ d.sentinel = c.sentinel
  BY <1>0 DEF Sane, SameLoop, Connection, Occupied
<1>3. LET d == [c EXCEPT !.failures = @ + 1] IN
         Sane(d) /\ SameLoop(c, d) /\ d.out = c.out /\ d.sentinel = c.sentinel
  BY <1>0 DEF Sane, SameLoop, Connection, Occupied
<1> QED
  BY <1>0, <1>1, <1>2, <1>3 DEF Context, SameLoop

LateBy(k) == IF k \in connections THEN conn[k].late ELSE conn[k].late + 1

LEMMA CallerView ==
    ASSUME NEW k \in Conns, Sane(conn[k]), conn[k].frames # << >>, NEW f, NEW ok
    PROVE  LET d == Caller(k, f, ok) IN
              /\ Sane(d) /\ d.stage = conn[k].stage /\ d.closed = conn[k].closed
              /\ d.late = LateBy(k) /\ d.out = conn[k].out /\ d.sentinel = conn[k].sentinel
<1> DEFINE x == Context(Next1(k), f, ok)
<1>1. /\ Sane(x) /\ SameLoop(conn[k], x) /\ x.out = conn[k].out
      /\ x.sentinel = conn[k].sentinel
  BY Next1Sane, ContextSane DEF SameLoop
<1>2. Caller(k, f, ok) = [x EXCEPT !.late = IF k \in connections THEN @ ELSE @ + 1]
  BY DEF Caller
<1> HIDE DEF x
<1>3. x \in Connection /\ x.late \in Nat /\ x.late + 1 \in Nat /\ x.late = conn[k].late
  BY <1>1, SaneFacts DEF Sane, SameLoop
<1>4. Caller(k, f, ok) = [x EXCEPT !.late = LateBy(k)] /\ LateBy(k) \in Nat
  BY <1>2, <1>3 DEF LateBy
<1> QED
  BY <1>1, <1>3, <1>4 DEF Sane, SameLoop, Connection, Occupied

\* The connections after the command's method: everyone who was told has one
\* frame more, and k's context has changed.
LEMMA HandledView ==
    ASSUME ServerInv, NEW k \in Conns, conn[k].frames # << >>, NEW f, NEW ok
    PROVE  LET cs == Handled(k, f, ok) IN
              /\ cs = [j \in Conns |-> cs[j]]
              /\ \A j \in Conns : Sane(cs[j])
              /\ \A j \in Conns : j # k => SameLoop(conn[j], cs[j])
              /\ cs[k].stage = conn[k].stage /\ cs[k].closed = conn[k].closed
              /\ cs[k].late = LateBy(k)
<1> DEFINE me == Caller(k, f, ok)
           told == IF ok /\ f.cmd = "PUBLISH_CHANNEL" THEN Reached(f) ELSE {}
           cs == Handled(k, f, ok)
<1>1. \A j \in Conns : Sane(conn[j])
  BY DEF ServerInv
<1>2. /\ Sane(me) /\ me.stage = conn[k].stage /\ me.closed = conn[k].closed
      /\ me.late = LateBy(k) /\ me.out = conn[k].out /\ me.sentinel = conn[k].sentinel
  BY <1>1, CallerView
<1> HIDE DEF me
<1>3. cs = [j \in Conns |-> IF j \in told
                            THEN [(IF j = k THEN me ELSE conn[j]) EXCEPT !.out = @ + 1]
                            ELSE IF j = k THEN me ELSE conn[j]]
  BY DEF Handled, me
<1>4. \A j \in told : Fits(conn[j])
  BY DEF Reached
<1> HIDE DEF told, cs
<1>5. /\ \A j \in Conns : cs[j] = IF j \in told
                                 THEN [(IF j = k THEN me ELSE conn[j]) EXCEPT !.out = @ + 1]
                                 ELSE IF j = k THEN me ELSE conn[j]
      /\ cs = [j \in Conns |-> cs[j]]
  BY <1>3
<1>7. ASSUME NEW j \in Conns
      PROVE  /\ Sane(cs[j])
             /\ j # k => SameLoop(conn[j], cs[j])
             /\ j = k => SameLoop(me, cs[k])
  <2>1. CASE j \in told
    <3> DEFINE c == IF j = k THEN me ELSE conn[j]
    <3>1. cs[j] = [c EXCEPT !.out = @ + 1]
      BY <1>5, <2>1
    <3>2. Sane(c) /\ c.out + 1 <= OutboundLimit /\ ~c.sentinel
      BY <1>1, <1>2, <1>4, <2>1, SaneFacts
    <3>3. (j # k => c = conn[j]) /\ (j = k => c = me)
      OBVIOUS
    <3> HIDE DEF c
    <3>4. Sane([c EXCEPT !.out = @ + 1]) /\ SameLoop(c, [c EXCEPT !.out = @ + 1])
      BY <3>2, OneMoreSane
    <3> QED
      BY <3>1, <3>3, <3>4
  <2>2. CASE j \notin told
    BY <1>1, <1>2, <1>5, <2>2 DEF SameLoop
  <2> QED
    BY <2>1, <2>2
<1>8. cs[k].stage = conn[k].stage /\ cs[k].closed = conn[k].closed /\ cs[k].late = LateBy(k)
  BY <1>2, <1>7 DEF SameLoop
<1> QED
  BY <1>5, <1>7, <1>8 DEF cs

\* The reply: a closed connection's loop ends, for nothing can be sent to it.
LEMMA RepliedView ==
    ASSUME NEW c, Sane(c), c.stage = "frames"
    PROVE  LET d == Replied(c) IN
              /\ Sane(d) /\ d.closed = c.closed /\ d.late = c.late
              /\ d.stage \in {"frames", "leaving", "blocked"}
              /\ c.closed => d.stage = "leaving"
<1>1. CASE ~Fits(c)
  BY <1>1, SendAndReturnSane DEF Replied
<1>2. CASE Fits(c)
  <2>1. ~c.closed /\ ~c.sentinel /\ c.out + 1 <= OutboundLimit /\ c.out + 1 \in 0..OutboundLimit
    BY <1>2, SaneFacts
  <2>2. CASE MustClose(c)
    <3> DEFINE d == [c EXCEPT !.out = @ + 1, !.stage = "leaving", !.frames = << >>]
    <3>1. Replied(c) = d
      BY <1>2, <2>2 DEF Replied
    <3>2. c \in Connection /\ << >> \in Seq(Frame) /\ "leaving" \in Stages
      BY DEF Sane, Stages
    <3>3. /\ d \in Connection /\ d.out = c.out + 1 /\ d.sentinel = c.sentinel
          /\ d.closed = c.closed /\ d.late = c.late /\ d.stage = "leaving"
      BY <2>1, <3>2 DEF Connection
    <3> HIDE DEF d
    <3> QED
      BY <2>1, <3>1, <3>3 DEF Sane, Occupied
  <2>3. CASE ~MustClose(c)
    <3>1. Replied(c) = [c EXCEPT !.out = @ + 1]
      BY <1>2, <2>3 DEF Replied
    <3> QED
      BY <2>1, <3>1, OneMoreSane DEF SameLoop
  <2> QED
    BY <2>2, <2>3
<1> QED
  BY <1>1, <1>2

\* What a command does to the connections: each stays sane, only the caller's
\* loop moves, and it ends if the caller is closed.
LEMMA CommandView ==
    ASSUME ServerInv, NEW k \in Conns, Command(k)
    PROVE  /\ conn' = [j \in Conns |-> conn'[j]]
           /\ \A j \in Conns : Sane(conn'[j])
           /\ \A j \in Conns : j # k => SameLoop(conn[j], conn'[j])
           /\ conn'[k].closed = conn[k].closed /\ conn'[k].late = LateBy(k)
           /\ conn'[k].stage # "absent"
           /\ conn[k].closed => conn'[k].stage = "leaving"
           /\ last_slow' \cup forgotten' \subseteq Conns /\ drops' \in [Conns -> Nat]
           /\ running' \in Conns \cup {None}
<1> DEFINE f  == Head(conn[k].frames)
           ok == authorize(conn[k].principal, f.cmd)
           hs == Handled(k, f, ok)
           cs == [hs EXCEPT ![k] = Replied(hs[k])]
           slow == Slow(f, ok)
<1>1. /\ running = k /\ conn[k].stage = "frames" /\ conn[k].frames # << >>
      /\ forgotten' = forgotten \cup (last_slow \ slow)
                      \cup (IF cs[k].stage # "frames" THEN slow ELSE {})
      /\ \/ /\ cs[k].stage # "frames" /\ conn' = cs /\ last_slow' = slow /\ drops' = drops
            /\ running' = IF cs[k].stage = "leaving" THEN k ELSE None
         \/ /\ cs[k].stage = "frames" /\ conn' = [cs EXCEPT ![k].stage = "wait"]
            /\ last_slow' = slow /\ drops' = drops
            /\ running' = None
         \/ /\ cs[k].stage = "frames" /\ TakeSlow(cs, slow)
            /\ running' = running
  BY DEF Command
<1>2. /\ f \in Frame
      /\ f.cmd = "PUBLISH_CHANNEL" => f.arg \in Channels
  <2>1. Sane(conn[k])
    BY DEF ServerInv
  <2>2. f \in Frame
    BY <1>1, <2>1, HeadTyped
  <2> HIDE DEF f
  <2> QED
    BY <2>2 DEF Frame, OnChannel, Commands
<1>3. slow \in SUBSET Conns
  BY <1>2 DEF Slow, ServerInv, Tables, Rest
<1>4. /\ hs = [j \in Conns |-> hs[j]]
      /\ \A j \in Conns : Sane(hs[j])
      /\ \A j \in Conns : j # k => SameLoop(conn[j], hs[j])
      /\ hs[k].stage = conn[k].stage /\ hs[k].closed = conn[k].closed
      /\ hs[k].late = LateBy(k)
  BY <1>1, HandledView
<1> HIDE DEF f, ok, hs, slow
<1>5. /\ Sane(Replied(hs[k])) /\ Replied(hs[k]).closed = conn[k].closed
      /\ Replied(hs[k]).late = LateBy(k)
      /\ Replied(hs[k]).stage \in {"frames", "leaving", "blocked"}
      /\ conn[k].closed => Replied(hs[k]).stage = "leaving"
  BY <1>1, <1>4, RepliedView
<1>6. /\ \A j \in Conns : cs[j] = IF j = k THEN Replied(hs[k]) ELSE hs[j]
      /\ cs = [j \in Conns |-> cs[j]]
  BY <1>4
<1> HIDE DEF cs
<1>7. /\ \A j \in Conns : Sane(cs[j])
      /\ \A j \in Conns : j # k => SameLoop(conn[j], cs[j])
      /\ cs[k].closed = conn[k].closed /\ cs[k].late = LateBy(k)
      /\ cs[k].stage \in {"frames", "leaving", "blocked"}
      /\ conn[k].closed => cs[k].stage = "leaving"
  BY <1>4, <1>5, <1>6
<1>8. Rest /\ forgotten' \subseteq Conns
  BY <1>1, <1>3 DEF ServerInv, Tables, Rest
<1>9. CASE conn' = cs /\ last_slow' = slow /\ drops' = drops /\ running' \in {k, None}
  BY <1>3, <1>6, <1>7, <1>8, <1>9 DEF Rest
<1>10. CASE /\ cs[k].stage = "frames" /\ conn' = [cs EXCEPT ![k].stage = "wait"]
            /\ last_slow' = slow /\ drops' = drops /\ running' = None
  <2> DEFINE d == [cs[k] EXCEPT !.stage = "wait"]
  <2>1. /\ \A j \in Conns : conn'[j] = IF j = k THEN d ELSE cs[j]
        /\ conn' = [j \in Conns |-> conn'[j]]
    BY <1>6, <1>10
  <2>2. Sane(d) /\ d.closed = cs[k].closed /\ d.late = cs[k].late /\ d.stage = "wait"
    BY <1>7 DEF Sane, Connection, Occupied, Stages
  <2> HIDE DEF d
  <2> QED
    BY <1>3, <1>7, <1>8, <1>10, <2>1, <2>2 DEF Rest
<1>11. CASE cs[k].stage = "frames" /\ TakeSlow(cs, slow) /\ running' = running
  <2>1. /\ conn' = [j \in Conns |-> conn'[j]]
        /\ \A j \in Conns : Sane(conn'[j]) /\ SameLoop(cs[j], conn'[j])
        /\ last_slow' = {} /\ drops' \in [Conns -> Nat]
    BY <1>3, <1>7, <1>8, <1>11, TakeSlowView
  <2> QED
    BY <1>7, <1>8, <1>11, <2>1 DEF Rest, SameLoop
<1> QED
  BY <1>1, <1>9, <1>10, <1>11

\* What it does to the tables.
LEMMA CommandTables ==
    ASSUME ServerInv, NEW k \in Conns, Command(k)
    PROVE  /\ UNCHANGED <<connections, active, cut, halted>>
           /\ subs' \in [Channels -> SUBSET Conns]
           /\ by_connection' \in [Conns -> SUBSET Channels]
           /\ consumers' \subseteq Conns /\ unsynced' \in BOOLEAN
           /\ SubsOK'
           /\ \A j \in Conns : j # k => /\ by_connection'[j] = by_connection[j]
                                        /\ j \in consumers' <=> j \in consumers
<1> DEFINE f  == Head(conn[k].frames)
           ok == authorize(conn[k].principal, f.cmd)
<1>1. /\ conn[k].frames # << >> /\ Effect(k, f, ok)
      /\ UNCHANGED <<connections, active, cut, halted>>
  BY DEF Command, countVars
<1>2. f.cmd \in {"SUBSCRIBE", "UNSUBSCRIBE"} => f.arg \in Channels
  <2>1. Sane(conn[k])
    BY DEF ServerInv
  <2>2. f \in Frame
    BY <1>1, <2>1, HeadTyped
  <2> HIDE DEF f
  <2> QED
    BY <2>2 DEF Frame, OnChannel, Commands
<1> HIDE DEF f, ok
<1>3. Rest /\ SubsOK
  BY DEF ServerInv, Tables
<1>4. consumers' \subseteq Conns /\ unsynced' \in BOOLEAN
  BY <1>1, <1>3 DEF Rest, Effect
<1>5. \A j \in Conns : j # k => (j \in consumers' <=> j \in consumers)
  BY <1>1 DEF Effect
<1>6. CASE ok /\ f.cmd = "SUBSCRIBE"
  <2>1. /\ subs' = [subs EXCEPT ![f.arg] = @ \cup {k}]
        /\ by_connection' = [by_connection EXCEPT ![k] = @ \cup {f.arg}]
    BY <1>1, <1>6 DEF Effect
  <2> QED
    BY <1>1, <1>2, <1>3, <1>4, <1>5, <1>6, <2>1 DEF Rest, SubsOK
<1>7. CASE ok /\ f.cmd = "UNSUBSCRIBE"
  <2>1. /\ subs' = [subs EXCEPT ![f.arg] = @ \ {k}]
        /\ by_connection' = [by_connection EXCEPT ![k] = @ \ {f.arg}]
    BY <1>1, <1>7 DEF Effect
  <2> QED
    BY <1>1, <1>2, <1>3, <1>4, <1>5, <1>7, <2>1 DEF Rest, SubsOK
<1>8. CASE ~(ok /\ f.cmd = "SUBSCRIBE") /\ ~(ok /\ f.cmd = "UNSUBSCRIBE")
  <2>1. subs' = subs /\ by_connection' = by_connection
    BY <1>1, <1>8 DEF Effect
  <2> QED
    BY <1>1, <1>3, <1>4, <1>5, <2>1 DEF Rest, SubsOK
<1> QED
  BY <1>6, <1>7, <1>8

LEMMA CommandStep ==
    ASSUME ServerInv, NEW k \in Conns, Command(k)
    PROVE  ServerInv'
<1>1. conn[k].stage = "frames"
  BY DEF Command
<1>2. Rest'
  BY CommandView, CommandTables DEF Rest, ServerInv, Tables
<1>3. CountOK' /\ SubsOK'
  BY CommandTables DEF CountOK, ServerInv, Tables
<1>4. ASSUME NEW j \in Conns, j # k PROVE LifeOK(j)'
  <2>1. LifeOK(j) /\ SameLoop(conn[j], conn'[j])
    BY <1>4, CommandView DEF ServerInv
  <2> QED
    BY <1>4, <2>1, CommandTables DEF LifeOK, SameLoop
<1>5. LifeOK(k)'
  <2>1. LifeOK(k) /\ conn[k].late \in Nat
    BY SaneFacts DEF ServerInv
  <2>2. k \notin cut => conn[k].late = 0
    BY <1>1, <2>1 DEF LifeOK
  <2> QED
    BY <1>1, <2>1, <2>2, CommandView, CommandTables DEF LifeOK, LateBy
<1>6. conn' = [j \in Conns |-> conn'[j]] /\ \A j \in Conns : Sane(conn'[j])
  BY CommandView
<1> QED
  BY <1>2, <1>3, <1>4, <1>5, <1>6 DEF ServerInv, Tables


-----------------------------------------------------------------------------
(* Connections come and go.                                                *)

LEMMA ConnectStep ==
    ASSUME ServerInv, NEW k \in Conns, Connect(k)
    PROVE  ServerInv'
<1> DEFINE d == [conn[k] EXCEPT !.stage = "reading"]
<1>1. /\ conn[k].stage = "absent" /\ ~halted /\ conn' = [conn EXCEPT ![k].stage = "reading"]
      /\ connections' = connections \cup {k} /\ active' = active + 1
      /\ UNCHANGED <<cut, subs, by_connection, consumers, last_slow, forgotten, drops, unsynced,
                     running, halted>>
  BY DEF Connect, pubsubVars, countVars, slowVars
<1>2. Sane(conn[k]) /\ DOMAIN conn = Conns /\ LifeOK(k) /\ Rest /\ CountOK /\ SubsOK
  BY DEF ServerInv, Tables
<1>3. /\ \A j \in Conns : conn'[j] = IF j = k THEN d ELSE conn[j]
      /\ conn' = [j \in Conns |-> conn'[j]]
  BY <1>1, <1>2 DEF ServerInv
<1>4. /\ Sane(d) /\ d.stage = "reading" /\ d.closed = conn[k].closed /\ d.late = conn[k].late
  BY <1>2 DEF Sane, Connection, Occupied, Stages
<1> HIDE DEF d
<1>5. k \notin connections
  BY <1>1, <1>2 DEF LifeOK
<1>6. IsFiniteSet(connections \cup {k})
      /\ Cardinality(connections \cup {k}) = Cardinality(connections) + 1
  BY <1>2, <1>5, FS_AddElement DEF CountOK
<1>9. Cardinality(connections) \in Nat /\ Cardinality(cut) \in Nat
  BY <1>2, FS_CardinalityType DEF CountOK
<1>7. CountOK' /\ Rest' /\ SubsOK'
  BY <1>1, <1>2, <1>6, <1>9 DEF CountOK, Rest, SubsOK
<1>8. ASSUME NEW j \in Conns PROVE LifeOK(j)'
  <2>1. LifeOK(j) /\ conn[j].late \in Nat
    BY SaneFacts DEF ServerInv
  <2>2. CASE j = k
    BY <1>1, <1>2, <1>3, <1>4, <1>5, <2>1, <2>2 DEF LifeOK
  <2>3. CASE j # k
    BY <1>1, <1>3, <2>1, <2>3 DEF LifeOK
  <2> QED
    BY <2>2, <2>3
<1> QED
  BY <1>3, <1>4, <1>7, <1>8 DEF ServerInv, Tables

\* _drop takes a connection out of the tables, once, whether it runs to its
\* end or is cut short: then the count and the consumers are left behind.
LEMMA DropView ==
    ASSUME ServerInv, NEW k \in Conns, Drop(k) \/ DropCutShort(k), halted' = halted
    PROVE  /\ connections' = connections \ {k} /\ active' \in Nat /\ cut' \subseteq Conns
           /\ subs' \in [Channels -> SUBSET Conns]
           /\ by_connection' \in [Conns -> SUBSET Channels]
           /\ consumers' \subseteq Conns
           /\ CountOK' /\ SubsOK'
           /\ \A j \in Conns : j # k => /\ by_connection'[j] = by_connection[j]
                                        /\ j \in consumers' <=> j \in consumers
                                        /\ j \in cut' <=> j \in cut
           /\ DropCutShort(k) => k \in cut' /\ k \in connections
           /\ Drop(k) /\ k \in connections
                 => by_connection'[k] = {} /\ k \notin consumers' /\ cut' = cut
           /\ Drop(k) /\ k \notin connections => UNCHANGED <<by_connection, consumers, cut>>
<1>1. Rest /\ CountOK /\ SubsOK /\ (k \in cut => k \notin connections)
  BY DEF ServerInv, Tables, LifeOK
<1>2. CASE k \in connections
  <2>1. /\ connections' = connections \ {k} /\ consumers' \in {consumers, consumers \ {k}}
        /\ by_connection' = [by_connection EXCEPT ![k] = {}]
        /\ subs' = [c \in Channels |-> IF c \in by_connection[k] THEN subs[c] \ {k} ELSE subs[c]]
        /\ \/ active' = (IF active > 0 THEN active - 1 ELSE active) /\ cut' = cut
           \/ active' = active /\ cut' = cut \cup {k}
    BY <1>2 DEF Drop, DropCutShort, CountDown, disconnect
  <2>2. IsFiniteSet(connections \ {k})
        /\ Cardinality(connections \ {k}) = Cardinality(connections) - 1
    BY <1>1, <1>2, FS_RemoveElement DEF CountOK
  <2>3. Cardinality(connections) \in Nat /\ Cardinality(connections \ {k}) \in Nat
        /\ Cardinality(cut) \in Nat
    BY <1>1, <2>2, FS_CardinalityType DEF CountOK
  <2>4. CountOK' /\ active' \in Nat
    <3>1. CASE active' = (IF active > 0 THEN active - 1 ELSE active) /\ cut' = cut
      BY <1>1, <2>1, <2>2, <2>3, <3>1 DEF CountOK, Rest
    <3>2. CASE active' = active /\ cut' = cut \cup {k}
      <4>1. IsFiniteSet(cut \cup {k}) /\ Cardinality(cut \cup {k}) = Cardinality(cut) + 1
        BY <1>1, <1>2, FS_AddElement DEF CountOK
      <4> QED
        BY <1>1, <2>1, <2>2, <2>3, <3>2, <4>1 DEF CountOK, Rest
    <3> QED
      BY <2>1, <3>1, <3>2
  <2>5. SubsOK'
    BY <1>1, <2>1 DEF SubsOK, Rest
  <2>6. DropCutShort(k) => k \in cut'
    BY DEF DropCutShort
  <2>7. Drop(k) => k \notin consumers' /\ cut' = cut
    BY <1>2 DEF Drop
  <2> QED
    BY <1>1, <1>2, <2>1, <2>4, <2>5, <2>6, <2>7 DEF Rest
<1>3. CASE k \notin connections
  <2>1. UNCHANGED <<connections, active, cut, subs, by_connection, consumers>> /\ ~DropCutShort(k)
    BY <1>3 DEF Drop, DropCutShort, CountDown, pubsubVars
  <2>2. connections' = connections \ {k}
    BY <1>3, <2>1
  <2>3. CountOK' /\ SubsOK'
    BY <1>1, <2>1 DEF CountOK, SubsOK
  <2> QED
    BY <1>1, <1>3, <2>1, <2>2, <2>3 DEF Rest
<1> QED
  BY <1>2, <1>3

LEMMA DropSteps ==
    ASSUME ServerInv, NEW k \in Conns, DropSlow(k) \/ Leave(k)
    PROVE  ServerInv'
<1>1. /\ Sane(conn[k]) /\ DOMAIN conn = Conns /\ LifeOK(k) /\ conn[k].late \in Nat
      /\ Rest /\ SubsOK
  BY SaneFacts DEF ServerInv, Tables
<1>2. PICK d : /\ conn' = [conn EXCEPT ![k] = d]
               /\ Sane(d) /\ d.late = conn[k].late
               /\ d.stage \in {conn[k].stage, "gone"}
               /\ (Drop(k) /\ d.closed) \/ DropCutShort(k)
  <2>1. CASE DropSlow(k) /\ Drop(k) /\ conn' = [conn EXCEPT ![k] = close(conn[k])]
    BY <1>1, <2>1, CloseSane
  <2>2. CASE Leave(k) /\ Drop(k) /\ conn' = [conn EXCEPT ![k] = [close(conn[k]) EXCEPT !.stage = "gone"]]
    <3> DEFINE c == close(conn[k])
               d == [c EXCEPT !.stage = "gone"]
    <3>1. conn' = [conn EXCEPT ![k] = d]
      BY <2>2
    <3>2. Sane(c) /\ c.closed /\ c.late = conn[k].late
      BY <1>1, CloseSane
    <3> HIDE DEF c
    <3>3. Sane(d) /\ d.closed /\ d.late = conn[k].late /\ d.stage = "gone"
      BY <3>2 DEF Sane, Connection, Occupied, Stages
    <3> HIDE DEF d
    <3> QED
      BY <2>2, <3>1, <3>3
  <2>3. CASE DropCutShort(k) /\ UNCHANGED conn
    <3>1. conn' = [conn EXCEPT ![k] = conn[k]]
      BY <1>1, <2>3 DEF ServerInv
    <3> QED
      BY <1>1, <2>3, <3>1
  <2>4. CASE DropCutShort(k) /\ conn' = [conn EXCEPT ![k].stage = "gone"]
    <3> DEFINE d == [conn[k] EXCEPT !.stage = "gone"]
    <3>1. conn' = [conn EXCEPT ![k] = d]
      BY <1>1, <2>4
    <3>2. Sane(d) /\ d.late = conn[k].late /\ d.stage = "gone"
      BY <1>1 DEF Sane, Connection, Occupied, Stages
    <3> HIDE DEF d
    <3> QED
      BY <2>4, <3>1, <3>2
  <2> QED
    BY <2>1, <2>2, <2>3, <2>4 DEF DropSlow, Leave
<1>3. /\ UNCHANGED <<last_slow, forgotten, unsynced, halted>>
      /\ drops' \in [Conns -> Nat] /\ running' \in Conns \cup {None}
  <2>1. CASE DropSlow(k)
    <3>1. drops[k] \in Nat /\ drops[k] - 1 \in Nat
      BY <1>1, <2>1 DEF DropSlow, Rest
    <3> QED
      BY <1>1, <2>1, <3>1 DEF DropSlow, Rest
  <2>2. CASE Leave(k)
    BY <1>1, <2>2 DEF Leave, slowVars, Rest
  <2> QED
    BY <2>1, <2>2
<1>4. /\ connections' = connections \ {k} /\ active' \in Nat /\ cut' \subseteq Conns
      /\ subs' \in [Channels -> SUBSET Conns]
      /\ by_connection' \in [Conns -> SUBSET Channels]
      /\ consumers' \subseteq Conns
      /\ CountOK' /\ SubsOK'
      /\ \A j \in Conns : j # k => /\ by_connection'[j] = by_connection[j]
                                   /\ j \in consumers' <=> j \in consumers
                                   /\ j \in cut' <=> j \in cut
      /\ DropCutShort(k) => k \in cut' /\ k \in connections
      /\ Drop(k) /\ k \in connections
            => by_connection'[k] = {} /\ k \notin consumers' /\ cut' = cut
      /\ Drop(k) /\ k \notin connections => UNCHANGED <<by_connection, consumers, cut>>
  BY <1>2, <1>3, DropView
<1>5. Rest'
  BY <1>1, <1>3, <1>4 DEF Rest
<1>6. /\ \A j \in Conns : conn'[j] = IF j = k THEN d ELSE conn[j]
      /\ conn' = [j \in Conns |-> conn'[j]]
  BY <1>1, <1>2 DEF ServerInv
<1>7. LifeOK(k)'
  <2>1. CASE Drop(k) /\ d.closed
    <3>1. k \notin cut => (conn[k].late = 1 => conn[k].stage \in {"leaving", "gone"})
      BY <1>1 DEF LifeOK
    <3> QED
      BY <1>1, <1>2, <1>3, <1>4, <1>6, <2>1, <3>1 DEF LifeOK
  <2>2. CASE DropCutShort(k)
    BY <1>1, <1>2, <1>4, <1>6, <2>2 DEF LifeOK
  <2> QED
    BY <1>2, <2>1, <2>2
<1>8. ASSUME NEW j \in Conns, j # k PROVE LifeOK(j)'
  <2>1. LifeOK(j) /\ conn'[j] = conn[j]
    BY <1>6, <1>8 DEF ServerInv
  <2> QED
    BY <1>3, <1>4, <1>8, <2>1 DEF LifeOK
<1>9. \A j \in Conns : Sane(conn'[j])
  BY <1>2, <1>6 DEF ServerInv
<1> QED
  BY <1>4, <1>5, <1>6, <1>7, <1>8, <1>9 DEF ServerInv, Tables

LEMMA StopSteps ==
    ASSUME ServerInv, Stop \/ StopEnd
    PROVE  ServerInv'
<1>1. CASE Stop
  <2>1. /\ ~halted /\ halted' = TRUE
        /\ UNCHANGED <<connections, active, cut, subs, by_connection, consumers, last_slow,
                       forgotten, drops, unsynced, running>>
        /\ conn' = [k \in Conns |-> IF k \in connections
                                    THEN [conn[k] EXCEPT !.closed = TRUE, !.peer = "gone"]
                                    ELSE conn[k]]
    BY <1>1 DEF Stop, pubsubVars, countVars, slowVars
  <2>2. Rest' /\ CountOK' /\ SubsOK'
    BY <2>1 DEF ServerInv, Tables, Rest, CountOK, SubsOK
  <2>3. ASSUME NEW k \in Conns PROVE Sane(conn'[k]) /\ LifeOK(k)'
    <3>1. Sane(conn[k]) /\ LifeOK(k) /\ conn[k].late \in Nat
      BY SaneFacts DEF ServerInv
    <3>2. CASE k \in connections
      <4> DEFINE d == [conn[k] EXCEPT !.closed = TRUE, !.peer = "gone"]
      <4>1. Sane(d) /\ d.closed /\ d.late = conn[k].late /\ d.stage = conn[k].stage
        BY <3>1 DEF Sane, Connection, Occupied
      <4>2. conn'[k] = d
        BY <2>1, <3>2
      <4> HIDE DEF d
      <4> QED
        BY <2>1, <3>1, <4>1, <4>2 DEF LifeOK
    <3>3. CASE k \notin connections
      <4>1. conn'[k] = conn[k]
        BY <2>1, <3>3
      <4> QED
        BY <2>1, <3>1, <3>3, <4>1 DEF LifeOK
    <3> QED
      BY <3>2, <3>3
  <2>4. conn' = [k \in Conns |-> conn'[k]]
    BY <2>1
  <2> QED
    BY <2>2, <2>3, <2>4 DEF ServerInv, Tables
<1>2. CASE StopEnd
  <2>1. /\ halted /\ connections' = {}
        /\ UNCHANGED <<conn, active, cut, subs, by_connection, consumers, last_slow, forgotten,
                       drops, unsynced, running, halted>>
    BY <1>2 DEF StopEnd, pubsubVars, countVars, slowVars
  <2>2. IsFiniteSet({})
    BY FS_EmptySet
  <2>3. Rest' /\ CountOK' /\ SubsOK'
    BY <2>1, <2>2 DEF ServerInv, Tables, Rest, CountOK, SubsOK
  <2>4. \A k \in Conns : LifeOK(k)'
    BY <2>1 DEF ServerInv, LifeOK
  <2> QED
    BY <2>1, <2>3, <2>4 DEF ServerInv, Tables
<1> QED
  BY <1>1, <1>2

-----------------------------------------------------------------------------
(* The theorems.                                                           *)

LEMMA InitInv == Init => ServerInv
<1> SUFFICES ASSUME Init PROVE ServerInv
  OBVIOUS
<1>1. Sane(New)
  BY ServerAssumption DEF Sane, New, Connection, Occupied, Stages
<1>2. conn = [k \in Conns |-> New] /\ \A k \in Conns : conn[k] = New
  BY DEF Init
<1>3. New.stage = "absent" /\ New.late = 0
  BY DEF New
<1>4. \A k \in Conns : LifeOK(k)
  BY <1>2, <1>3 DEF LifeOK, Init
<1>5. Rest /\ SubsOK
  BY DEF Init, Rest, SubsOK
<1>6. CountOK
  BY FS_EmptySet DEF Init, CountOK
<1> QED
  BY <1>1, <1>2, <1>4, <1>5, <1>6 DEF ServerInv, Tables

LEMMA StepInv == ServerInv /\ [Next]_vars => ServerInv'
<1> SUFFICES ASSUME ServerInv, [Next]_vars PROVE ServerInv'
  OBVIOUS
<1>1. ASSUME NEW k \in Conns, Connect(k) PROVE ServerInv'
  BY <1>1, ConnectStep
<1>2. ASSUME NEW k \in Conns, Command(k) PROVE ServerInv'
  BY <1>2, CommandStep
<1>3. ASSUME NEW k \in Conns, DropSlow(k) \/ Leave(k) PROVE ServerInv'
  BY <1>3, DropSteps
<1>4. ASSUME NEW k \in Conns, Heartbeat(k) \/ Malformed(k) PROVE ServerInv'
  BY <1>4, FrameSteps
<1>5. ASSUME NEW k \in Conns,
             \/ \E batch \in Batches[k] : ReadData(k, batch)
             \/ ReadEnds(k) \/ BatchEnd(k)
      PROVE  ServerInv'
  BY <1>5, ReadSteps
<1>6. ASSUME NEW k \in Conns,
             WriterTake(k) \/ WriterDrained(k) \/ WriterClosed(k) \/ WriterTimeout(k)
      PROVE  ServerInv'
  BY <1>6, WriterSteps
<1>7. ASSUME NEW k \in Conns,
             \/ Unblock(k) \/ Deliver(k)
             \/ \E p \in {"reads", "stuck", "gone"} : Peer(k, p)
      PROVE  ServerInv'
  BY <1>7, LoopSteps
<1>8. CASE Synced \/ \E k \in Conns : Resume(k)
  BY <1>8, WaitSteps
<1>9. CASE Stop \/ StopEnd
  BY <1>9, StopSteps
<1>10. CASE UNCHANGED vars
  BY <1>10 DEF vars, pubsubVars, countVars, slowVars, ServerInv, Tables, Rest, CountOK, SubsOK, LifeOK
<1> QED
  BY <1>1, <1>2, <1>3, <1>4, <1>5, <1>6, <1>7, <1>8, <1>9, <1>10 DEF Next, LoopStep

LEMMA InvAlways == Spec => []ServerInv
BY InitInv, StepInv, PTL DEF Spec

\* In every reachable state the connections and the tables are well typed, and
\* no outbound queue holds more than outbound_buffer frames, whoever puts them
\* there: replies, heartbeats, deliveries, publications or close()'s sentinel.
THEOREM ServerTyped == Spec => []ServerTypeOK
<1>1. ASSUME ServerInv PROVE ServerTypeOK
  <2>1. conn \in [Conns -> Connection] /\ \A k \in Conns : Occupied(conn[k]) <= OutboundLimit
    BY <1>1 DEF ServerInv, Sane
  <2> QED
    BY <1>1, <2>1 DEF ServerTypeOK, ServerInv, Tables, Rest
<1> QED
  BY <1>1, InvAlways, PTL

\* The subscriptions by channel and by connection agree, and the count that
\* max_connections is compared with is the number of connections in the table
\* and of those whose _drop was cut short, however often _drop is called.
THEOREM TablesStayEqual == Spec => []TablesAgree
<1>1. ServerInv => TablesAgree
  BY DEF ServerInv, Tables, SubsOK, CountOK, TablesAgree
<1> QED
  BY <1>1, InvAlways, PTL

\* After a _drop that was not cut short at most one command of a connection
\* is handled, and only that one can leave a subscription or a consumer behind.
THEOREM OneCommandTooLate == Spec => []OneLateCommand
<1>1. ServerInv => OneLateCommand
  BY DEF ServerInv, LifeOK, OneLateCommand
<1> QED
  BY <1>1, InvAlways, PTL


=============================================================================
