---------------------------- MODULE DispatchProofs ----------------------------
(***************************************************************************)
(* Proofs about Dispatch, for any number of queues, messages, consumers    *)
(* and connections: the state of ConsumerManager and of the handlers is    *)
(* well typed; every step of the broker is a step of the queue engine or   *)
(* leaves it alone, so that all that is proved of the engine holds in the  *)
(* broker; and, but for the consumers whose cancel failed, the prefetch    *)
(* accounting covers the deliveries, nothing is delivered above the        *)
(* prefetch, and what is in flight belongs to a registered consumer of a   *)
(* connection that is open, or that asked for it after it was dropped.     *)
(***************************************************************************)
EXTENDS Dispatch, QueueEngineProofs, WellFoundedInduction

-----------------------------------------------------------------------------
(* The round robin.                                                        *)

\* A set of natural numbers has a least element.
LEMMA LeastNatural ==
    ASSUME NEW T, T \subseteq Nat, T # {}
    PROVE  \E x \in T : \A y \in T : ~(y < x)
<1>1. IsWellFoundedOn(OpToRel(<, Nat), Nat)
  BY NatLessThanWellFounded
<1>2. PICK x \in T : \A y \in T : ~(<<y, x>> \in OpToRel(<, Nat))
  BY <1>1, WFMin
<1>3. \A y \in T : y < x => <<y, x>> \in OpToRel(<, Nat)
  BY DEF OpToRel
<1> QED
  BY <1>2, <1>3

\* The turn goes to a consumer of the queue that may take a message, if there
\* is one; Offset says how many were asked before.
LEMMA OffsetProperties ==
    ASSUME NEW ids \in Seq(Consumers), NEW reg, NEW i \in Nat
    PROVE  /\ Offset(ids, reg, i) \in 0..Len(ids)
           /\ Offset(ids, reg, i) < Len(ids) =>
                 /\ Nth(ids, i, Offset(ids, reg, i)) \in Consumers
                 /\ MayTake(ids, reg, i, Offset(ids, reg, i))
<1> DEFINE T == {j \in 0..(Len(ids) - 1) : MayTake(ids, reg, i, j)}
<1>1. CASE T = {}
  <2>1. Offset(ids, reg, i) = Len(ids)
    BY <1>1 DEF Offset
  <2> QED
    BY <2>1
<1>2. CASE T # {}
  <2>1. T \subseteq Nat
    OBVIOUS
  <2>2. PICK j \in T : \A y \in T : ~(y < j)
    BY <1>2, <2>1, LeastNatural
  <2>3. /\ j \in 0..(Len(ids) - 1) /\ MayTake(ids, reg, i, j)
        /\ \A l \in 0..(j - 1) : ~MayTake(ids, reg, i, l)
    BY <2>2
  <2>4. /\ Offset(ids, reg, i) \in 0..(Len(ids) - 1)
        /\ MayTake(ids, reg, i, Offset(ids, reg, i))
    BY <2>3 DEF Offset
  <2> DEFINE o == Offset(ids, reg, i)
  <2> HIDE DEF o
  <2>5. o \in 0..(Len(ids) - 1) /\ MayTake(ids, reg, i, o)
    BY <2>4 DEF o
  <2>6. Nth(ids, i, o) \in Consumers
    <3>1. Len(ids) \in Nat \ {0} /\ i + o \in Nat
      BY <2>5
    <3>2. ((i + o) % Len(ids)) + 1 \in 1..Len(ids)
      BY <3>1
    <3> QED
      BY <3>2 DEF Nth
  <2> QED
    BY <2>5, <2>6 DEF o
<1> QED
  BY <1>1, <1>2

\* rr_index stays below its period.
LEMMA TurnTyping ==
    ASSUME rr_index \in [Names -> 0..(RRPeriod - 1)], NEW n \in Names, NEW steps \in Nat,
           Turn(n, steps)
    PROVE  rr_index' \in [Names -> 0..(RRPeriod - 1)]
<1>1. RRPeriod \in Nat \ {0} /\ rr_index[n] \in Nat
  BY RRAssumption
<1>2. (rr_index[n] + steps) % RRPeriod \in 0..(RRPeriod - 1)
  BY <1>1
<1> QED
  BY <1>2 DEF Turn

-----------------------------------------------------------------------------
(* Changes to the registry keep its type.                                  *)

Registries == [Consumers -> Consumer \cup {None}]

LEMMA RegistryTyping ==
    ASSUME NEW reg \in Registries, NEW c \in Consumers, reg[c] # None
    PROVE  /\ reg[c] \in Consumer
           /\ [reg EXCEPT ![c] = on_deliver(@)] \in Registries
           /\ [reg EXCEPT ![c] = on_ack(@)] \in Registries
           /\ \A p \in Nat : [reg EXCEPT ![c].prefetch_count = p] \in Registries
<1>1. reg[c] \in Consumer
  BY DEF Registries
<1>2. on_deliver(reg[c]) \in Consumer /\ on_ack(reg[c]) \in Consumer
  BY <1>1 DEF on_deliver, on_ack, Consumer
<1>3. \A p \in Nat : [reg[c] EXCEPT !.prefetch_count = p] \in Consumer
  BY <1>1 DEF Consumer
<1> QED
  BY <1>1, <1>2, <1>3 DEF Registries

LEMMA OnAckTyping ==
    ASSUME registry \in Registries, NEW c \in Consumers, OnAck(c)
    PROVE  registry' \in Registries
BY RegistryTyping DEF OnAck

LEMMA RegisterTyping ==
    ASSUME registry \in Registries, NEW c \in Consumers, NEW k \in Connections,
           NEW qs \in SUBSET Names, NEW p \in Nat, NEW via \in {"CONSUME", "GET"}
    PROVE  Register(c, k, qs, p, via) \in Registries
BY DEF Register, Registries, Consumer

LEMMA AppendedTyping ==
    ASSUME consumer_ids \in [Names -> Seq(Consumers)], NEW qs, NEW c \in Consumers
    PROVE  Appended(consumer_ids, qs, c) \in [Names -> Seq(Consumers)]
BY DEF Appended

-----------------------------------------------------------------------------
(* Every step of the broker keeps the types and is a step of the engine.   *)

EngineStep == Next \/ UNCHANGED vars

Typed == TypeOK /\ DispatchTypeOK

\* The typing of Dispatch, conjunct by conjunct.
LEMMA TypedFacts ==
    ASSUME Typed
    PROVE  /\ connection \in [Connections -> States]
           /\ registry \in Registries
           /\ consumer_ids \in [Names -> Seq(Consumers)]
           /\ rr_index \in [Names -> 0..(RRPeriod - 1)]
           /\ bound \subseteq Names /\ pump \subseteq Names
           /\ task \in Task \cup {None}
           /\ leaving \subseteq Consumers /\ forsaken \subseteq Consumers
           /\ queues \subseteq Names
           /\ \A n \in Names : rr_index[n] \in Nat
BY RRAssumption DEF Typed, DispatchTypeOK, Registries, TypeOK

\* What registers on a connection may be used by its read loop, or has been.
Live == {"open", "late", "cut"}

StaysLive == \A k \in Connections : connection[k] \in Live => connection'[k] \in Live

\* A command may be the last one of a connection that has been dropped.
LEMMA AskedTyping ==
    ASSUME Typed, Asked
    PROVE  connection' \in [Connections -> States] /\ StaysLive
<1>1. PICK k \in Connections : By(k)
  BY DEF Asked
<1>2. connection \in [Connections -> States]
  BY TypedFacts
<1> QED
  BY <1>1, <1>2 DEF By, States, StaysLive, Live

LEMMA ByFacts ==
    ASSUME Typed, NEW k \in Connections, By(k)
    PROVE  Asked /\ connection'[k] \in Live
<1>1. connection \in [Connections -> States]
  BY TypedFacts
<1> QED
  BY <1>1 DEF Asked, By, Live

LEMMA PumpTyping ==
    ASSUME Typed, NEW n \in Names, PumpTake(n) \/ PumpDone(n)
    PROVE  DispatchTypeOK' /\ EngineStep
<1> DEFINE ids == consumer_ids[n]
           j == Offset(ids, registry, rr_index[n])
           c == Nth(ids, rr_index[n], j)
<1>1. /\ ids \in Seq(Consumers) /\ rr_index[n] \in Nat /\ registry \in Registries
      /\ rr_index \in [Names -> 0..(RRPeriod - 1)]
  BY TypedFacts
<1>2. /\ j \in 0..Len(ids)
      /\ j < Len(ids) => c \in Consumers /\ MayTake(ids, registry, rr_index[n], j)
  BY <1>1, OffsetProperties
<1>3. j \in Nat /\ j + 1 \in Nat
  BY <1>2
<1>4. CASE PumpTake(n)
  <2>1. /\ j < Len(ids) /\ Take(n, c, registry) /\ Turn(n, j + 1)
        /\ \E m \in Leased(n)' \ Leased(n) :
              task' = [op |-> "send", queue |-> n, id |-> m, consumer_id |-> c]
        /\ UNCHANGED <<connection, consumer_ids, bound, pump, leaving, forsaken>>
    BY <1>4 DEF PumpTake
  <2> HIDE DEF j
  <2>2. c \in Consumers /\ registry[c] # None
    BY <1>2, <2>1 DEF MayTake
  <2> HIDE DEF c
  <2>3. registry' \in Registries
    BY <1>1, <2>1, <2>2, RegistryTyping DEF Take
  <2>4. task' \in Task
    BY <2>1, <2>2 DEF Task, Leased
  <2>5. rr_index' \in [Names -> 0..(RRPeriod - 1)]
    BY <1>1, <1>3, <2>1, TurnTyping
  <2>6. EngineStep
    BY <2>1, <2>2 DEF Take, EngineStep, Next, Deliveries
  <2> QED
    BY <2>1, <2>3, <2>4, <2>5, <2>6, TypedFacts DEF DispatchTypeOK, Registries
<1>5. CASE PumpDone(n)
  <2>1. /\ pump' = pump \ {n}
        /\ Turn(n, j) \/ Turn(n, j + 1)
        /\ UNCHANGED vars \/ ReserveNothing(n)
        /\ UNCHANGED <<connection, registry, consumer_ids, bound, task, leaving, forsaken>>
    BY <1>5 DEF PumpDone, TakeNothing
  <2> HIDE DEF j
  <2>2. rr_index' \in [Names -> 0..(RRPeriod - 1)]
    BY <1>1, <1>3, <2>1, TurnTyping
  <2>3. EngineStep
    BY <2>1 DEF EngineStep, Next, Deliveries
  <2> QED
    BY <2>1, <2>2, <2>3, TypedFacts DEF DispatchTypeOK, Registries
<1> QED
  BY <1>4, <1>5

\* What a send is about.
LEMMA SendFacts ==
    ASSUME Typed, Sending
    PROVE  task.queue \in Names /\ task.id \in Ids /\ task.consumer_id \in Consumers
BY DEF Typed, DispatchTypeOK, Sending, Task

LEMMA ConsumeTaskFacts ==
    ASSUME Typed, Consuming
    PROVE  /\ task.connection_id \in Connections /\ task.consumer_id \in Consumers
           /\ task.queues \in SUBSET Names /\ task.prefetch_count \in Nat
BY DEF Typed, DispatchTypeOK, Consuming, Task

LEMMA EnqueueTaskFacts ==
    ASSUME Typed, task # None, task.op = "enqueue"
    PROVE  task.queue \in Names /\ task.id \in Ids
BY DEF Typed, DispatchTypeOK, Task

LEMMA SendTyping ==
    ASSUME Typed, SendOk \/ SendFail
    PROVE  DispatchTypeOK' /\ EngineStep
<1>1. CASE SendOk
  BY <1>1, TypedFacts DEF SendOk, consumerVars, DispatchTypeOK, Registries, EngineStep
<1>2. CASE SendFail
  <2>1. /\ task.id \in Ids /\ task.consumer_id \in Consumers
        /\ Nack(task.id, TRUE) /\ OnAck(task.consumer_id)
        /\ pump' = pump \ {task.queue} /\ task' = None
        /\ UNCHANGED <<connection, consumer_ids, rr_index, bound, leaving, forsaken>>
    BY <1>2, SendFacts DEF SendFail
  <2>2. registry' \in Registries
    BY <2>1, TypedFacts, OnAckTyping
  <2>3. EngineStep
    BY <2>1 DEF EngineStep, Next, Deliveries
  <2> QED
    BY <2>1, <2>2, <2>3, TypedFacts DEF DispatchTypeOK, Registries
<1> QED
  BY <1>1, <1>2

LEMMA PublishTyping ==
    ASSUME Typed,
           \/ \E n \in Targets, m \in Ids : CmdPublish(n, m) \/ CmdPublishNew(n, m)
           \/ PublishRest
    PROVE  DispatchTypeOK' /\ EngineStep
<1>0. Targets \subseteq Names /\ None \in MaxLengths /\ 0 \in EnqueueDelays
  BY DispatchAssumption, ArgumentsAssumption
<1>1. CASE \E n \in Targets, m \in Ids : CmdPublish(n, m)
  <2> PICK n \in Targets, m \in Ids : CmdPublish(n, m)
    BY <1>1
  <2>1. EngineStep
    BY <1>0 DEF CmdPublish, EngineStep, Next, Client
  <2> QED
    BY <1>0, <2>1, TypedFacts, AskedTyping DEF CmdPublish, consumerVars, DispatchTypeOK, Registries
<1>2. CASE \E n \in Targets, m \in Ids : CmdPublishNew(n, m)
  <2> PICK n \in Targets, m \in Ids : CmdPublishNew(n, m)
    BY <1>2
  <2>1. EngineStep
    BY <1>0 DEF CmdPublishNew, EngineStep, Next, Client
  <2>2. task' \in Task /\ bound' \subseteq Names
    BY <1>0, TypedFacts DEF CmdPublishNew, Task
  <2> QED
    BY <2>1, <2>2, TypedFacts, AskedTyping
       DEF CmdPublishNew, consumerVars, DispatchTypeOK, Registries
<1>3. CASE PublishRest
  <2>1. task.queue \in Names /\ task.id \in Ids
    BY <1>3, EnqueueTaskFacts DEF PublishRest
  <2>2. EngineStep
    BY <1>0, <1>3, <2>1 DEF PublishRest, EngineStep, Next, Client
  <2> QED
    BY <1>3, <2>1, <2>2, TypedFacts DEF PublishRest, consumerVars, DispatchTypeOK, Registries
<1> QED
  BY <1>1, <1>2, <1>3

\* The consumer that ack and nack give a slot back to.
LEMMA HolderFacts ==
    ASSUME Typed, NEW m \in Ids, Ack(m) \/ \E requeue \in BOOLEAN : Nack(m, requeue)
    PROVE  /\ by_id[m] \in Names /\ by_id[m] \in queues
           /\ inflight[by_id[m]][m] \in InflightRecord
           /\ inflight[by_id[m]][m] # None
           /\ inflight_consumer(m) \in Consumers
           /\ QueuesOf(inflight_consumer(m)) \subseteq Names
<1>1. by_id[m] \in Names /\ by_id[m] \in queues /\ inflight[by_id[m]][m] # None
  BY DEF Typed, TypeOK, Ack, Nack
<1>2. inflight[by_id[m]][m] \in InflightRecord
  BY <1>1 DEF Typed, TypeOK
<1>3. inflight_consumer(m) \in Consumers
  BY <1>2 DEF inflight_consumer, InflightRecord
<1>4. QueuesOf(inflight_consumer(m)) \subseteq Names
  BY <1>3, TypedFacts DEF QueuesOf, Registries, Consumer
<1> QED
  BY <1>1, <1>2, <1>3, <1>4

LEMMA SettleTyping ==
    ASSUME Typed,
           \/ \E m \in Ids : CmdAck(m)
           \/ \E m \in Ids, requeue \in BOOLEAN : CmdNack(m, requeue)
    PROVE  DispatchTypeOK' /\ EngineStep
<1>1. PICK m \in Ids :
         /\ Ack(m) \/ \E requeue \in BOOLEAN : Nack(m, requeue)
         /\ OnAck(inflight_consumer(m)) /\ pump' = QueuesOf(inflight_consumer(m))
         /\ Asked /\ UNCHANGED <<consumer_ids, rr_index, bound, task, leaving, forsaken>>
  BY DEF CmdAck, CmdNack
<1>2. /\ inflight_consumer(m) \in Consumers
      /\ QueuesOf(inflight_consumer(m)) \subseteq Names
  BY <1>1, HolderFacts
<1>3. registry' \in Registries
  BY <1>1, <1>2, TypedFacts, OnAckTyping
<1>4. EngineStep
  BY <1>1 DEF EngineStep, Next, Deliveries
<1> QED
  BY <1>1, <1>2, <1>3, <1>4, TypedFacts, AskedTyping DEF DispatchTypeOK, Registries

LEMMA QueueTyping ==
    ASSUME Typed,
           \/ \E n \in Targets, l \in MaxLengths : CmdDeclareQueue(n, l)
           \/ \E n \in Names : CmdDeleteQueue(n)
           \/ \E n \in Names, m \in Ids : CmdDlqRequeue(n, m)
    PROVE  DispatchTypeOK' /\ EngineStep
<1>0. Targets \subseteq Names
  BY DispatchAssumption
<1>1. CASE \E n \in Targets, l \in MaxLengths : CmdDeclareQueue(n, l)
  <2> PICK n \in Targets, l \in MaxLengths : CmdDeclareQueue(n, l)
    BY <1>1
  <2>1. EngineStep
    BY <1>0 DEF CmdDeclareQueue, EngineStep, Next, Client
  <2> QED
    BY <1>0, <2>1, TypedFacts, AskedTyping
       DEF CmdDeclareQueue, consumerVars, handlerVars, DispatchTypeOK, Registries
<1>2. CASE \E n \in Names : CmdDeleteQueue(n)
  <2> PICK n \in Names : CmdDeleteQueue(n)
    BY <1>2
  <2>1. EngineStep
    BY DEF CmdDeleteQueue, EngineStep, Next, Client
  <2>2. /\ consumer_ids' \in [Names -> Seq(Consumers)]
        /\ rr_index' \in [Names -> 0..(RRPeriod - 1)]
    BY TypedFacts, RRAssumption DEF CmdDeleteQueue
  <2> QED
    BY <2>1, <2>2, TypedFacts, AskedTyping
       DEF CmdDeleteQueue, handlerVars, DispatchTypeOK, Registries
<1>3. CASE \E n \in Names, m \in Ids : CmdDlqRequeue(n, m)
  <2> PICK n \in Names, m \in Ids : CmdDlqRequeue(n, m)
    BY <1>3
  <2>1. EngineStep
    BY DEF CmdDlqRequeue, EngineStep, Next, Client
  <2>2. pump' \subseteq Names
    BY DEF CmdDlqRequeue
  <2> QED
    BY <2>1, <2>2, TypedFacts, AskedTyping
       DEF CmdDlqRequeue, consumerVars, DispatchTypeOK, Registries
<1> QED
  BY <1>1, <1>2, <1>3

LEMMA ConsumeTyping ==
    ASSUME Typed, NEW k \in Connections, NEW c \in Consumers,
           NEW qs \in QueueLists, NEW p \in Prefetches, CmdConsume(k, c, qs, p)
    PROVE  DispatchTypeOK' /\ EngineStep
<1>1. qs \in SUBSET Names /\ p \in Nat
  BY DispatchAssumption
<1>2. task' \in Task
  BY <1>1 DEF CmdConsume, Task
<1>3. connection' \in [Connections -> States]
  BY AskedTyping, ByFacts DEF CmdConsume
<1> QED
  BY <1>2, <1>3, TypedFacts DEF CmdConsume, consumerVars, DispatchTypeOK, Registries, EngineStep

LEMMA ConsumingTyping ==
    ASSUME Typed, ConsumeRest \/ \E n \in Names : ConsumeDeclare(n)
    PROVE  DispatchTypeOK' /\ EngineStep
<1>0. None \in MaxLengths
  BY ArgumentsAssumption
<1>1. CASE ConsumeRest
  <2>1. /\ task.connection_id \in Connections /\ task.consumer_id \in Consumers
        /\ task.queues \in SUBSET Names /\ task.prefetch_count \in Nat
    BY <1>1, ConsumeTaskFacts DEF ConsumeRest
  <2>2. registry' \in Registries
    BY <1>1, <2>1, TypedFacts, RegisterTyping DEF ConsumeRest
  <2>3. consumer_ids' \in [Names -> Seq(Consumers)]
    BY <1>1, <2>1, TypedFacts, AppendedTyping DEF ConsumeRest
  <2> QED
    BY <1>1, <2>1, <2>2, <2>3, TypedFacts DEF ConsumeRest, DispatchTypeOK, Registries, EngineStep
<1>2. CASE \E n \in Names : ConsumeDeclare(n)
  <2> PICK n \in Names : ConsumeDeclare(n)
    BY <1>2
  <2>1. EngineStep
    BY <1>0 DEF ConsumeDeclare, EngineStep, Next, Client
  <2> QED
    BY <2>1, TypedFacts
       DEF ConsumeDeclare, consumerVars, handlerVars, DispatchTypeOK, Registries
<1> QED
  BY <1>1, <1>2

LEMMA GetNewTyping ==
    ASSUME Typed, NEW k \in Connections, NEW c \in Consumers,
           NEW n \in Targets, NEW p \in Prefetches \cup {0}, CmdGetNew(k, c, n, p)
    PROVE  DispatchTypeOK' /\ EngineStep
<1>1. n \in Names /\ {n} \in SUBSET Names /\ p \in Nat /\ None \in MaxLengths
  BY DispatchAssumption, ArgumentsAssumption
<1>2. EngineStep
  BY <1>1 DEF CmdGetNew, EngineStep, Next, Client
<1>3. registry' \in Registries
  BY <1>1, TypedFacts, RegisterTyping DEF CmdGetNew
<1>4. consumer_ids' \in [Names -> Seq(Consumers)]
  BY TypedFacts, AppendedTyping DEF CmdGetNew
<1>5. rr_index' \in [Names -> 0..(RRPeriod - 1)]
  BY <1>1, TypedFacts, TurnTyping DEF CmdGetNew
<1>6. connection' \in [Connections -> States]
  BY AskedTyping, ByFacts DEF CmdGetNew
<1> QED
  BY <1>2, <1>3, <1>4, <1>5, <1>6, TypedFacts
     DEF CmdGetNew, handlerVars, DispatchTypeOK, Registries

\* The registry and the lists that GET works with, after it has registered its
\* consumer or changed its prefetch.
GetRegistry(k, c, n, p) ==
    IF registry[c] = None THEN Register(c, k, {n}, p, "GET")
    ELSE IF p # 0 THEN [registry EXCEPT ![c].prefetch_count = p]
    ELSE registry

GetLists(c, n) == IF registry[c] = None THEN Appended(consumer_ids, {n}, c) ELSE consumer_ids

\* GET: nobody may take a message, the consumer x whose turn it is takes one,
\* or there is none.
LEMMA GetCases ==
    ASSUME Typed, NEW k \in Connections, NEW c \in Consumers,
           NEW n \in Targets, NEW p \in Prefetches \cup {0}, CmdGet(k, c, n, p)
    PROVE  /\ n \in Names /\ p \in Nat /\ Quiet /\ By(k)
           /\ GetRegistry(k, c, n, p) \in Registries
           /\ GetLists(c, n) \in [Names -> Seq(Consumers)]
           /\ consumer_ids' = GetLists(c, n)
           /\ \E steps \in Nat : Turn(n, steps)
           /\ \/ registry' = GetRegistry(k, c, n, p) /\ UNCHANGED vars
              \/ registry' = GetRegistry(k, c, n, p) /\ ReserveNothing(n)
              \/ \E x \in Consumers : /\ GetRegistry(k, c, n, p)[x] # None
                                      /\ can_deliver(GetRegistry(k, c, n, p)[x])
                                      /\ Take(n, x, GetRegistry(k, c, n, p))
           /\ UNCHANGED <<bound, pump, task, leaving, forsaken>>
<1> DEFINE reg == GetRegistry(k, c, n, p)
           ids == GetLists(c, n)
           j == Offset(ids[n], reg, rr_index[n])
           x == Nth(ids[n], rr_index[n], j)
<1>1. n \in Names /\ {n} \in SUBSET Names /\ p \in Nat
  BY DispatchAssumption
<1>2. reg \in Registries
  BY <1>1, TypedFacts, RegisterTyping, RegistryTyping DEF GetRegistry
<1>3. ids \in [Names -> Seq(Consumers)]
  BY TypedFacts, AppendedTyping DEF GetLists
<1>4. /\ j \in 0..Len(ids[n])
      /\ j < Len(ids[n]) => x \in Consumers /\ MayTake(ids[n], reg, rr_index[n], j)
  BY <1>1, <1>3, TypedFacts, OffsetProperties
<1>5. /\ Quiet /\ By(k) /\ consumer_ids' = ids
      /\ \/ j = Len(ids[n]) /\ Turn(n, j) /\ registry' = reg /\ UNCHANGED vars
         \/ /\ j < Len(ids[n]) /\ Turn(n, j + 1)
            /\ Take(n, x, reg) \/ (TakeNothing(n) /\ registry' = reg)
      /\ UNCHANGED <<bound, pump, task, leaving, forsaken>>
  BY DEF CmdGet, GetRegistry, GetLists, handlerVars
<1> HIDE DEF reg, ids, j
<1>6. j < Len(ids[n]) => x \in Consumers /\ reg[x] # None /\ can_deliver(reg[x])
  BY <1>4 DEF MayTake
<1>7. j \in Nat /\ j + 1 \in Nat
  BY <1>4
<1> HIDE DEF x
<1>8. TakeNothing(n) => UNCHANGED vars \/ ReserveNothing(n)
  BY DEF TakeNothing
<1> QED
  BY <1>1, <1>2, <1>3, <1>5, <1>6, <1>7, <1>8 DEF reg, ids

LEMMA GetTyping ==
    ASSUME Typed, NEW k \in Connections, NEW c \in Consumers,
           NEW n \in Targets, NEW p \in Prefetches \cup {0}, CmdGet(k, c, n, p)
    PROVE  DispatchTypeOK' /\ EngineStep
<1> DEFINE reg == GetRegistry(k, c, n, p)
<1>1. /\ n \in Names /\ reg \in Registries
      /\ consumer_ids' \in [Names -> Seq(Consumers)]
      /\ \E steps \in Nat : Turn(n, steps)
      /\ \/ registry' = reg /\ (UNCHANGED vars \/ ReserveNothing(n))
         \/ \E x \in Consumers : reg[x] # None /\ Take(n, x, reg)
      /\ By(k) /\ UNCHANGED <<bound, pump, task, leaving, forsaken>>
  BY GetCases
<1> HIDE DEF reg
<1>2. registry' \in Registries
  BY <1>1, RegistryTyping DEF Take
<1>3. EngineStep
  BY <1>1 DEF Take, EngineStep, Next, Deliveries
<1>4. rr_index' \in [Names -> 0..(RRPeriod - 1)]
  BY <1>1, TypedFacts, TurnTyping
<1>5. connection' \in [Connections -> States]
  BY <1>1, AskedTyping, ByFacts
<1> QED
  BY <1>1, <1>2, <1>3, <1>4, <1>5, TypedFacts DEF DispatchTypeOK, Registries

LEMMA QosTyping ==
    ASSUME Typed,
           \/ \E c \in Consumers, p \in Prefetches : CmdQosConsumer(c, p)
           \/ \E k \in Connections, p \in Prefetches : CmdQosConnection(k, p)
    PROVE  DispatchTypeOK' /\ EngineStep
<1>0. Prefetches \subseteq Nat
  BY DispatchAssumption
<1>1. CASE \E c \in Consumers, p \in Prefetches : CmdQosConsumer(c, p)
  <2> PICK c \in Consumers, p \in Prefetches : CmdQosConsumer(c, p)
    BY <1>1
  <2>1. registry' \in Registries
    BY <1>0, TypedFacts, RegistryTyping DEF CmdQosConsumer
  <2> QED
    BY <2>1, TypedFacts, AskedTyping
       DEF CmdQosConsumer, handlerVars, DispatchTypeOK, Registries, EngineStep
<1>2. CASE \E k \in Connections, p \in Prefetches : CmdQosConnection(k, p)
  <2> PICK k \in Connections, p \in Prefetches : CmdQosConnection(k, p)
    BY <1>2
  <2>1. \A c \in Consumers :
           registry[c] # None => [registry[c] EXCEPT !.prefetch_count = p] \in Consumer
    BY <1>0, TypedFacts DEF Registries, Consumer
  <2>2. registry' \in Registries
    BY <2>1, TypedFacts DEF CmdQosConnection, Registries
  <2>3. connection' \in [Connections -> States]
    BY AskedTyping, ByFacts DEF CmdQosConnection
  <2> QED
    BY <2>2, <2>3, TypedFacts
       DEF CmdQosConnection, handlerVars, DispatchTypeOK, Registries, EngineStep
<1> QED
  BY <1>1, <1>2

\* ConsumerManager.cancel
LEMMA CancelTyping ==
    ASSUME Typed, NEW c \in Consumers, Cancel(c)
    PROVE  /\ registry' \in Registries
           /\ consumer_ids' \in [Names -> Seq(Consumers)]
           /\ EngineStep
<1>1. registry' \in Registries
  BY TypedFacts DEF Cancel, Registries
<1>2. \A n \in Names : Without(consumer_ids[n], c) \in Seq(Consumers)
  BY TypedFacts, WithoutProperties
<1>3. consumer_ids' \in [Names -> Seq(Consumers)]
  BY <1>2, TypedFacts DEF Cancel
<1>4. EngineStep
  BY DEF Cancel, EngineStep, Next, Recovery
<1> QED
  BY <1>1, <1>3, <1>4

LEMMA LeavingTyping ==
    ASSUME Typed,
           \/ \E c \in Consumers : CmdCancel(c) \/ Leave(c)
           \/ \E k \in Connections : Connect(k) \/ \E slow \in BOOLEAN : Drop(k, slow)
           \/ DropEnds
    PROVE  DispatchTypeOK' /\ EngineStep
<1>1. CASE \E c \in Consumers : CmdCancel(c) \/ Leave(c)
  <2> PICK c \in Consumers : CmdCancel(c) \/ Leave(c)
    BY <1>1
  <2>1. /\ Cancel(c) /\ leaving' \subseteq leaving
        /\ Asked \/ connection' = connection
        /\ UNCHANGED <<rr_index, bound, pump, task, forsaken>>
    BY DEF CmdCancel, Leave, handlerVars
  <2> QED
    BY <2>1, CancelTyping, AskedTyping, TypedFacts DEF DispatchTypeOK, Registries
<1>2. CASE \E k \in Connections : Connect(k)
  BY <1>2, TypedFacts
     DEF Connect, States, consumerVars, handlerVars, DispatchTypeOK, Registries, EngineStep
<1>3. CASE \E k \in Connections, slow \in BOOLEAN : Drop(k, slow)
  <2> PICK k \in Connections, slow \in BOOLEAN : Drop(k, slow)
    BY <1>3
  <2>1. connection' \in [Connections -> States] /\ task' \in Task
    BY TypedFacts DEF Drop, States, Task
  <2> QED
    BY <2>1, TypedFacts DEF Drop, consumerVars, DispatchTypeOK, Registries, EngineStep
<1>4. CASE DropEnds
  BY <1>4, TypedFacts DEF DropEnds, consumerVars, DispatchTypeOK, Registries, EngineStep
<1> QED
  BY <1>1, <1>2, <1>3, <1>4

LEMMA TickerTyping ==
    ASSUME Typed, \/ EngineLoop \/ RecoverReturns \/ RecoverRaises
                  \/ TickerTurn \/ PumpAll \/ TimePasses
    PROVE  DispatchTypeOK' /\ EngineStep
<1>1. CASE EngineLoop
  BY <1>1, TypedFacts DEF EngineLoop, dispatchVars, consumerVars, handlerVars, DispatchTypeOK,
                          Registries, EngineStep, Next, Recovery, Ticker
<1>2. CASE RecoverReturns
  BY <1>2, TypedFacts DEF RecoverReturns, dispatchVars, consumerVars, handlerVars,
                          DispatchTypeOK, Registries, EngineStep, Next, Recovery
<1>6. CASE RecoverRaises
  <2>1. cursor.consumer_id \in Consumers
    BY <1>6 DEF RecoverRaises, RecoverEnd, Typed, TypeOK, Cursor
  <2>2. connection' \in [Connections -> States]
    BY <1>6, TypedFacts DEF RecoverRaises, States
  <2> QED
    BY <1>6, <2>1, <2>2, TypedFacts DEF RecoverRaises, consumerVars, DispatchTypeOK, Registries,
                                        EngineStep, Next, Recovery
<1>3. CASE TickerTurn
  BY <1>3, TypedFacts DEF TickerTurn, consumerVars, DispatchTypeOK, Registries, EngineStep,
                          Next, Ticker, Task
<1>4. CASE PumpAll
  BY <1>4, TypedFacts DEF PumpAll, consumerVars, DispatchTypeOK, Registries, EngineStep
<1>5. CASE TimePasses
  BY <1>5, TypedFacts DEF TimePasses, dispatchVars, consumerVars, handlerVars, DispatchTypeOK,
                          Registries, EngineStep, Next
<1> QED
  BY <1>1, <1>2, <1>3, <1>4, <1>5, <1>6

LEMMA StepTyping ==
    ASSUME Typed, [DispatchNext]_allVars
    PROVE  DispatchTypeOK' /\ EngineStep
<1>1. CASE Commands
  BY <1>1, QueueTyping, PublishTyping, SettleTyping, ConsumeTyping, GetNewTyping, GetTyping,
     QosTyping, LeavingTyping DEF Commands
<1>2. CASE HandlerStep
  BY <1>2, PumpTyping, SendTyping, PublishTyping, ConsumingTyping, LeavingTyping, TickerTyping
     DEF HandlerStep
<1>3. CASE TickerTurn \/ TimePasses
  BY <1>3, TickerTyping
<1>4. CASE UNCHANGED allVars
  BY <1>4, TypedFacts DEF allVars, dispatchVars, consumerVars, handlerVars, DispatchTypeOK,
                          Registries, EngineStep
<1> QED
  BY <1>1, <1>2, <1>3, <1>4 DEF DispatchNext

LEMMA InitTyping == DispatchInit => Typed
<1> SUFFICES ASSUME DispatchInit PROVE Typed
  OBVIOUS
<1>1. TypeOK
  BY NoneAssumption DEF DispatchInit, Init, TypeOK, NoLeases, Phases
<1>2. rr_index \in [Names -> 0..(RRPeriod - 1)]
  BY RRAssumption DEF DispatchInit
<1>3. DispatchTypeOK
  BY <1>2 DEF DispatchInit, DispatchTypeOK, States
<1> QED
  BY <1>1, <1>3 DEF Typed

LEMMA AlwaysTyped == DispatchSpec => []Typed
<1>1. Typed /\ [DispatchNext]_allVars => Typed'
  BY StepTyping, StepTyped DEF Typed, EngineStep
<1> QED
  BY <1>1, InitTyping, PTL DEF DispatchSpec

\* DispatchTypeOK: the registry, the lists of consumers and what a handler
\* still has to do are well typed in every state the broker reaches.
THEOREM DispatchTyped == DispatchSpec => []DispatchTypeOK
<1>1. Typed => DispatchTypeOK
  BY DEF Typed
<1> QED
  BY <1>1, AlwaysTyped, PTL

\* The broker implements the queue engine: every command, every turn of the
\* ticker and every step of a handler is a step of QueueEngine or leaves the
\* engine's state alone.
THEOREM BrokerImplementsEngine == DispatchSpec => Spec
<1>1. DispatchInit => Init
  BY DEF DispatchInit
<1>2. Typed /\ [DispatchNext]_allVars => [Next]_vars
  BY StepTyping DEF EngineStep
<1> QED
  BY <1>1, <1>2, AlwaysTyped, PTL DEF DispatchSpec, Spec

\* What the broker inherits from the engine: _by_id and the dictionaries
\* agree, no message is stranded or in two places, and the limits hold,
\* whatever the clients, the pump and the ticker do.
THEOREM EngineInvariantsHold ==
    DispatchSpec => [](OneHome /\ NotStranded /\ OnePlace /\ WithinLimit)
<1> QED
  BY BrokerImplementsEngine, IndexAgrees, NothingStranded, EachInOnePlace, LimitsHold, PTL


-----------------------------------------------------------------------------
(* The prefetch accounting.  recover_consumer raises when a dead-letter    *)
(* queue is declared under its iteration, and leaves deliveries of the     *)
(* consumer behind; `forsaken' has the consumers this happened to.         *)

Registered(c) == registry[c] # None

\* recover_consumer is for a consumer that has been popped; the queues it
\* iterates over are still there.
RecoveryOK ==
    running = "recover" =>
        /\ cursor.keys \subseteq queues
        /\ ~Registered(cursor.consumer_id)

\* While consumers are being cancelled nothing is pumped; what is being sent is
\* a lease that _by_id leads to; who is about to be registered is not yet.
HandlerOK ==
    /\ leaving # {} => pump = {} /\ Dropping
    /\ Sending => /\ Idle
                  /\ by_id[task.id] = task.queue
                  /\ inflight[task.queue][task.id] # None
                  /\ inflight[task.queue][task.id].consumer_id = task.consumer_id
                  /\ Registered(task.consumer_id)
    /\ Consuming => /\ ~Registered(task.consumer_id)
                    /\ connection[task.connection_id] \in Live

\* A lease is held by a registered consumer, or recover_consumer will come by
\* or raise.
Owned(n, m) ==
    inflight[n][m] # None =>
        \/ inflight[n][m].consumer_id \in forsaken
        \/ Registered(inflight[n][m].consumer_id)
        \/ /\ running = "recover"
           /\ cursor.consumer_id = inflight[n][m].consumer_id
           /\ n \in cursor.todo \/ n = cursor.queue \/ queues # cursor.keys

SlotOK(c) ==
    Registered(c) /\ c \notin forsaken =>
        /\ IsFiniteSet(LeasesOf(c))
        /\ Cardinality(LeasesOf(c)) <= registry[c].unacked_count

\* A registered consumer's connection is live, or the consumer is on its way out.
Attached(c) ==
    Registered(c) /\ c \notin forsaken =>
        connection[registry[c].connection_id] \in Live \/ c \in leaving

\* The inductive invariant.
SlotInv ==
    /\ RecoveryOK /\ HandlerOK
    /\ \A n \in Names, m \in Ids : Owned(n, m)
    /\ \A c \in Consumers : SlotOK(c) /\ Attached(c)

-----------------------------------------------------------------------------
(* What a step does to the leases and the registry, seen from there.       *)

\* No lease is added and none changes hands.
Shrinks ==
    \A n \in Names, m \in Ids : inflight'[n][m] # None =>
        /\ inflight[n][m] # None
        /\ inflight'[n][m].consumer_id = inflight[n][m].consumer_id

\* Nobody goes, newcomers have no slot taken and a live connection.
Extends(r) ==
    /\ r \in Registries
    /\ \A c \in Consumers :
          /\ Registered(c) => /\ r[c] # None
                              /\ r[c].unacked_count = registry[c].unacked_count
                              /\ r[c].connection_id = registry[c].connection_id
          /\ ~Registered(c) /\ r[c] # None =>
                /\ r[c].unacked_count = 0
                /\ connection'[r[c].connection_id] \in Live

\* Nothing new is pumped or sent while consumers are being cancelled, and who
\* is about to be registered may be.
HandlerCalm ==
    /\ leaving # {} => pump' = {} /\ Dropping'
    /\ ~Sending'
    /\ Consuming' => /\ registry'[task'.consumer_id] = None
                     /\ connection'[task'.connection_id] \in Live

\* A step that neither delivers nor gives a slot back.
Calm ==
    /\ running # "recover" /\ running' # "recover"
    /\ Shrinks /\ Extends(registry') /\ StaysLive
    /\ UNCHANGED <<leaving, forsaken>>
    /\ HandlerCalm

\* c's lease of m in n ends and c gets a slot back.
Settles(n, m, c) ==
    /\ Idle /\ Idle'
    /\ inflight[n][m] # None /\ inflight[n][m].consumer_id = c
    /\ inflight' = [inflight EXCEPT ![n][m] = None]
    /\ OnAck(c) /\ StaysLive
    /\ leaving = {} /\ task' = None
    /\ UNCHANGED <<leaving, forsaken>>

\* c leases m in n, with a registry r.
Takes(n, m, c, r) ==
    /\ Idle /\ Idle'
    /\ inflight[n][m] = None
    /\ inflight' = [inflight EXCEPT ![n][m] = [consumer_id |-> c, left |-> VisibilityTimeout]]
    /\ Extends(r) /\ r[c] # None /\ can_deliver(r[c])
    /\ registry' = [r EXCEPT ![c] = on_deliver(@)]
    /\ StaysLive
    /\ leaving = {}
    /\ UNCHANGED <<leaving, forsaken>>
    /\ \/ task' = None
       \/ /\ by_id'[m] = n
          /\ task' = [op |-> "send", queue |-> n, id |-> m, consumer_id |-> c]

\* c is cancelled.
Cancels(c) ==
    /\ Idle /\ ~Sending /\ Cancel(c) /\ StaysLive
    /\ leaving \ {c} \subseteq leaving' /\ leaving' \subseteq leaving
    /\ UNCHANGED <<pump, task, forsaken>>

\* One step of recover_consumer.
Recovers ==
    \/ /\ \/ \E m \in Ids : RecoverLease(m)
          \/ \E n \in Names : RecoverNextQueue(n)
       /\ UNCHANGED dispatchVars
    \/ RecoverReturns

SlotStep ==
    \/ Calm
    \/ \E n \in Names, m \in Ids, c \in Consumers : Settles(n, m, c)
    \/ \E n \in Names, m \in Ids, c \in Consumers, r \in Registries : Takes(n, m, c, r)
    \/ \E c \in Consumers : Cancels(c)
    \/ \E k \in Connections, slow \in BOOLEAN : Drop(k, slow)
    \/ Recovers
    \/ RecoverRaises
    \/ UNCHANGED allVars

-----------------------------------------------------------------------------
(* Each of these steps keeps the invariant.                                *)

LEMMA CalmKeeps ==
    ASSUME Typed, Typed', SlotInv, Calm
    PROVE  SlotInv'
<1>1. \A c \in Consumers : LeasesOf(c)' \subseteq LeasesOf(c)
  BY DEF Calm, Shrinks, LeasesOf
<1>2. \A c \in Consumers : ~Registered(c) /\ c \notin forsaken => LeasesOf(c) = {}
  BY DEF Calm, SlotInv, Owned, LeasesOf
<1>3. \A n \in Names, m \in Ids : Owned(n, m)'
  <2> SUFFICES ASSUME NEW n \in Names, NEW m \in Ids, inflight'[n][m] # None,
                      inflight'[n][m].consumer_id \notin forsaken'
               PROVE  registry'[inflight'[n][m].consumer_id] # None
    BY DEF Owned, Registered
  <2>1. /\ inflight[n][m] # None
        /\ inflight'[n][m].consumer_id = inflight[n][m].consumer_id
    BY DEF Calm, Shrinks
  <2>2. inflight[n][m].consumer_id \in Consumers
    BY <2>1 DEF Typed, TypeOK, InflightRecord
  <2>3. Registered(inflight[n][m].consumer_id)
    BY <2>1 DEF SlotInv, Owned, Calm
  <2> QED
    BY <2>1, <2>2, <2>3 DEF Calm, Extends, Registered
<1>4. ASSUME NEW c \in Consumers PROVE SlotOK(c)' /\ Attached(c)'
  <2> SUFFICES ASSUME registry'[c] # None, c \notin forsaken'
               PROVE  /\ IsFiniteSet(LeasesOf(c)')
                      /\ Cardinality(LeasesOf(c)') <= registry'[c].unacked_count
                      /\ \/ connection'[registry'[c].connection_id] \in Live
                         \/ c \in leaving'
    BY DEF SlotOK, Attached, Registered
  <2>0. registry'[c] \in Consumer /\ c \notin forsaken
    BY TypedFacts DEF Calm, Extends, Registries
  <2>1. CASE Registered(c)
    <3>1. /\ IsFiniteSet(LeasesOf(c))
          /\ Cardinality(LeasesOf(c)) <= registry[c].unacked_count
      BY <2>0, <2>1 DEF SlotInv, SlotOK
    <3>2. /\ registry'[c].unacked_count = registry[c].unacked_count
          /\ registry'[c].connection_id = registry[c].connection_id
          /\ registry'[c].unacked_count \in Nat /\ registry'[c].connection_id \in Connections
      BY <2>0, <2>1 DEF Calm, Extends, Consumer
    <3>3. IsFiniteSet(LeasesOf(c)') /\ Cardinality(LeasesOf(c)') <= Cardinality(LeasesOf(c))
      BY <1>1, <3>1, FS_Subset
    <3>4. Cardinality(LeasesOf(c)') \in Nat /\ Cardinality(LeasesOf(c)) \in Nat
      BY <3>1, <3>3, FS_CardinalityType
    <3>5. connection'[registry'[c].connection_id] \in Live \/ c \in leaving'
      BY <2>0, <2>1, <3>2 DEF SlotInv, Attached, Calm, StaysLive
    <3> QED
      BY <3>1, <3>2, <3>3, <3>4, <3>5
  <2>2. CASE ~Registered(c)
    <3>1. LeasesOf(c)' = {}
      BY <1>1, <1>2, <2>0, <2>2
    <3>2. /\ registry'[c].unacked_count = 0
          /\ connection'[registry'[c].connection_id] \in Live
      BY <2>0, <2>2 DEF Calm, Extends
    <3>3. IsFiniteSet(LeasesOf(c)') /\ Cardinality(LeasesOf(c)') = 0
      BY <3>1, FS_EmptySet
    <3> QED
      BY <3>2, <3>3
  <2> QED
    BY <2>1, <2>2
<1>5. RecoveryOK' /\ HandlerOK'
  BY DEF Calm, HandlerCalm, RecoveryOK, HandlerOK, Registered
<1> QED
  BY <1>3, <1>4, <1>5 DEF SlotInv


LEMMA SettlesKeep ==
    ASSUME Typed, SlotInv, NEW n \in Names, NEW m \in Ids, NEW c \in Consumers,
           Settles(n, m, c)
    PROVE  SlotInv'
<1>0. /\ registry \in Registries /\ inflight \in [Names -> [Ids -> InflightRecord \cup {None}]]
      /\ running = "idle" /\ running' = "idle"
  BY TypedFacts DEF Typed, TypeOK, Settles, Idle
<1>1. /\ \A x \in Consumers : registry'[x] # None <=> registry[x] # None
      /\ \A x \in Consumers : x # c => registry'[x] = registry[x]
      /\ registry[c] # None => registry'[c] = on_ack(registry[c])
  <2>1. registry[c] # None => on_ack(registry[c]) \in Consumer
    <3> SUFFICES ASSUME registry[c] # None PROVE on_ack(registry[c]) \in Consumer
      OBVIOUS
    <3>1. registry[c] \in Consumer
      BY <1>0 DEF Registries
    <3> QED
      BY <3>1 DEF on_ack, Consumer
  <2> QED
    BY <1>0, <2>1, DispatchAssumption DEF Settles, OnAck, Registries
<1>2. \A x \in Consumers : registry[x] # None =>
         /\ registry[x] \in Consumer
         /\ registry'[x].connection_id = registry[x].connection_id
  BY <1>0, <1>1 DEF Registries, Consumer, on_ack
<1>3. /\ inflight'[n][m] = None
      /\ \A x \in Names, i \in Ids :
            inflight'[x][i] # None => inflight'[x][i] = inflight[x][i]
      /\ \A x \in Names, i \in Ids :
            <<x, i>> # <<n, m>> => inflight'[x][i] = inflight[x][i]
  BY <1>0 DEF Settles
<1>4. \A x \in Names, i \in Ids : Owned(x, i)'
  <2> SUFFICES ASSUME NEW x \in Names, NEW i \in Ids, inflight'[x][i] # None,
                      inflight'[x][i].consumer_id \notin forsaken'
               PROVE  registry'[inflight'[x][i].consumer_id] # None
    BY DEF Owned, Registered
  <2>1. /\ inflight'[x][i] = inflight[x][i] /\ inflight[x][i].consumer_id \in Consumers
        /\ inflight[x][i].consumer_id \notin forsaken
    BY <1>0, <1>3 DEF InflightRecord, Settles
  <2>2. registry[inflight[x][i].consumer_id] # None
    BY <1>0, <2>1 DEF SlotInv, Owned, Registered
  <2> QED
    BY <1>1, <2>1, <2>2
<1>5. ASSUME NEW x \in Consumers PROVE SlotOK(x)' /\ Attached(x)'
  <2> SUFFICES ASSUME registry'[x] # None, x \notin forsaken'
               PROVE  /\ IsFiniteSet(LeasesOf(x)')
                      /\ Cardinality(LeasesOf(x)') <= registry'[x].unacked_count
                      /\ \/ connection'[registry'[x].connection_id] \in Live
                         \/ x \in leaving'
    BY DEF SlotOK, Attached, Registered
  <2>1. /\ registry[x] # None /\ registry[x] \in Consumer
        /\ registry[x].unacked_count \in Nat /\ registry[x].connection_id \in Connections
        /\ registry'[x].connection_id = registry[x].connection_id
        /\ x \notin forsaken
    BY <1>1, <1>2 DEF Consumer, Settles
  <2>2. connection'[registry'[x].connection_id] \in Live \/ x \in leaving'
    BY <2>1 DEF SlotInv, Attached, Settles, Registered, StaysLive
  <2>3. IsFiniteSet(LeasesOf(x)) /\ Cardinality(LeasesOf(x)) <= registry[x].unacked_count
    BY <2>1 DEF SlotInv, SlotOK, Registered
  <2>4. Cardinality(LeasesOf(x)) \in Nat
    BY <2>3, FS_CardinalityType
  <2>5. CASE x = c
    <3>1. <<n, m>> \in LeasesOf(c)
      BY DEF LeasesOf, Settles
    <3>2. LeasesOf(c)' = LeasesOf(c) \ {<<n, m>>}
      BY <1>3, <1>0, NoneAssumption DEF LeasesOf
    <3>3. /\ IsFiniteSet(LeasesOf(c)')
          /\ Cardinality(LeasesOf(c)') = Cardinality(LeasesOf(c)) - 1
      BY <2>3, <2>5, <3>1, <3>2, FS_RemoveElement
    <3>4. Cardinality(LeasesOf(c)') \in Nat
      BY <3>3, FS_CardinalityType
    <3>5. registry'[c].unacked_count
             = IF registry[c].unacked_count > 0 THEN registry[c].unacked_count - 1 ELSE 0
      BY <1>1, <2>1, <2>5 DEF on_ack, Consumer
    <3> QED
      BY <2>1, <2>2, <2>3, <2>4, <2>5, <3>3, <3>4, <3>5
  <2>6. CASE x # c
    <3>1. LeasesOf(x)' \subseteq LeasesOf(x)
      BY <1>3 DEF LeasesOf
    <3>2. IsFiniteSet(LeasesOf(x)') /\ Cardinality(LeasesOf(x)') <= Cardinality(LeasesOf(x))
      BY <2>3, <3>1, FS_Subset
    <3>3. Cardinality(LeasesOf(x)') \in Nat
      BY <3>2, FS_CardinalityType
    <3> QED
      BY <1>1, <2>1, <2>2, <2>3, <2>4, <2>6, <3>2, <3>3
  <2> QED
    BY <2>5, <2>6
<1>6. RecoveryOK' /\ HandlerOK'
  BY <1>0 DEF Settles, RecoveryOK, HandlerOK, Sending, Consuming
<1> QED
  BY <1>4, <1>5, <1>6 DEF SlotInv

\* The leases and the slots of the consumer that takes a message, and of the
\* others.
LEMMA TakesCounts ==
    ASSUME Typed, SlotInv, NEW n \in Names, NEW m \in Ids, NEW c \in Consumers,
           NEW r \in Registries, Takes(n, m, c, r), NEW x \in Consumers \ forsaken, r[x] # None
    PROVE  /\ IsFiniteSet(LeasesOf(x)')
           /\ Cardinality(LeasesOf(x)') \in Nat
           /\ Cardinality(LeasesOf(x)') <= registry'[x].unacked_count
           /\ x # c => LeasesOf(x)' = LeasesOf(x)
<1>0. /\ inflight \in [Names -> [Ids -> InflightRecord \cup {None}]]
      /\ running = "idle" /\ r[x] \in Consumer
  BY DEF Typed, TypeOK, Takes, Idle, Registries
<1>1. r[x].unacked_count \in Nat
  BY <1>0 DEF Consumer
<1>2. /\ IsFiniteSet(LeasesOf(x)) /\ Cardinality(LeasesOf(x)) \in Nat
      /\ Cardinality(LeasesOf(x)) <= r[x].unacked_count
  <2>1. CASE Registered(x)
    <3>1. /\ IsFiniteSet(LeasesOf(x))
          /\ Cardinality(LeasesOf(x)) <= registry[x].unacked_count
      BY <2>1 DEF SlotInv, SlotOK
    <3>2. r[x].unacked_count = registry[x].unacked_count
      BY <2>1 DEF Takes, Extends
    <3> QED
      BY <3>1, <3>2, FS_CardinalityType
  <2>2. CASE ~Registered(x)
    <3>1. LeasesOf(x) = {}
      BY <1>0, <2>2 DEF SlotInv, Owned, LeasesOf
    <3>2. r[x].unacked_count = 0
      BY <2>2 DEF Takes, Extends
    <3> QED
      BY <3>1, <3>2, FS_EmptySet
  <2> QED
    BY <2>1, <2>2
<1>3. /\ inflight'[n][m] # None /\ inflight'[n][m].consumer_id = c
      /\ \A y \in Names, i \in Ids :
            <<y, i>> # <<n, m>> => inflight'[y][i] = inflight[y][i]
  <2>1. [consumer_id |-> c, left |-> VisibilityTimeout] \in InflightRecord
    BY EngineAssumption DEF InflightRecord
  <2> QED
    BY <1>0, <2>1, NoneAssumption DEF Takes
<1>4. CASE x = c
  <2>1. LeasesOf(c)' = LeasesOf(c) \cup {<<n, m>>} /\ <<n, m>> \notin LeasesOf(c)
    BY <1>3 DEF LeasesOf, Takes
  <2>2. /\ IsFiniteSet(LeasesOf(c)')
        /\ Cardinality(LeasesOf(c)') = Cardinality(LeasesOf(c)) + 1
    <3>1. IsFiniteSet(LeasesOf(c))
      BY <1>2, <1>4
    <3>2. /\ IsFiniteSet(LeasesOf(c) \cup {<<n, m>>})
          /\ Cardinality(LeasesOf(c) \cup {<<n, m>>})
                = IF <<n, m>> \in LeasesOf(c) THEN Cardinality(LeasesOf(c))
                                              ELSE Cardinality(LeasesOf(c)) + 1
      BY <3>1, FS_AddElement
    <3> QED
      BY <2>1, <3>2
  <2>3. registry'[c].unacked_count = r[c].unacked_count + 1
    BY <1>0, <1>4 DEF Takes, on_deliver, Consumer, Registries
  <2> QED
    BY <1>1, <1>2, <1>4, <2>2, <2>3
<1>5. CASE x # c
  <2>1. LeasesOf(x)' = LeasesOf(x)
    BY <1>3, <1>5 DEF LeasesOf, Takes
  <2>2. registry'[x] = r[x]
    BY <1>5 DEF Takes, Registries
  <2> QED
    BY <1>2, <2>1, <2>2
<1> QED
  BY <1>4, <1>5

LEMMA TakesKeep ==
    ASSUME Typed, SlotInv, NEW n \in Names, NEW m \in Ids, NEW c \in Consumers,
           NEW r \in Registries, Takes(n, m, c, r)
    PROVE  SlotInv'
<1>0. /\ inflight \in [Names -> [Ids -> InflightRecord \cup {None}]]
      /\ running = "idle" /\ running' = "idle"
  BY DEF Typed, TypeOK, Takes, Idle
<1>1. /\ \A x \in Consumers : registry'[x] # None => r[x] # None
      /\ \A x \in Consumers : r[x] # None => /\ registry'[x] # None
                                             /\ registry'[x].connection_id = r[x].connection_id
  <2>1. r[c] \in Consumer /\ on_deliver(r[c]) \in Consumer
    BY DEF Takes, Registries, on_deliver, Consumer
  <2>2. on_deliver(r[c]).connection_id = r[c].connection_id
    BY <2>1 DEF on_deliver, Consumer
  <2> QED
    BY <2>1, <2>2, DispatchAssumption DEF Takes, Registries
<1>2. \A x \in Consumers : registry[x] # None => r[x] # None
  BY DEF Takes, Extends, Registered
<1>3. /\ inflight'[n][m] # None /\ inflight'[n][m].consumer_id = c
      /\ \A y \in Names, i \in Ids :
            <<y, i>> # <<n, m>> => inflight'[y][i] = inflight[y][i]
  <2>1. [consumer_id |-> c, left |-> VisibilityTimeout] \in InflightRecord
    BY EngineAssumption DEF InflightRecord
  <2> QED
    BY <1>0, <2>1, NoneAssumption DEF Takes
<1>4. \A y \in Names, i \in Ids : Owned(y, i)'
  <2> SUFFICES ASSUME NEW y \in Names, NEW i \in Ids, inflight'[y][i] # None,
                      inflight'[y][i].consumer_id \notin forsaken'
               PROVE  registry'[inflight'[y][i].consumer_id] # None
    BY DEF Owned, Registered
  <2>1. CASE <<y, i>> = <<n, m>>
    BY <1>1, <1>3, <2>1 DEF Takes
  <2>2. CASE <<y, i>> # <<n, m>>
    <3>1. /\ inflight'[y][i] = inflight[y][i] /\ inflight[y][i].consumer_id \in Consumers
          /\ inflight[y][i].consumer_id \notin forsaken
      BY <1>0, <1>3, <2>2 DEF InflightRecord, Takes
    <3>2. registry[inflight[y][i].consumer_id] # None
      BY <1>0, <3>1 DEF SlotInv, Owned, Registered
    <3> QED
      BY <1>1, <1>2, <3>1, <3>2
  <2> QED
    BY <2>1, <2>2
<1>5. ASSUME NEW x \in Consumers PROVE SlotOK(x)' /\ Attached(x)'
  <2> SUFFICES ASSUME registry'[x] # None, x \notin forsaken'
               PROVE  /\ IsFiniteSet(LeasesOf(x)')
                      /\ Cardinality(LeasesOf(x)') <= registry'[x].unacked_count
                      /\ connection'[registry'[x].connection_id] \in Live
    BY DEF SlotOK, Attached, Registered
  <2>1. /\ r[x] # None /\ registry'[x].connection_id = r[x].connection_id
        /\ r[x].connection_id \in Connections
        /\ x \notin forsaken
    BY <1>1 DEF Takes, Registries, Consumer
  <2>2. connection'[r[x].connection_id] \in Live
    BY <2>1 DEF Takes, Extends, SlotInv, Attached, Registered, StaysLive
  <2> QED
    BY <2>1, <2>2, TakesCounts DEF Takes
<1>6. HandlerOK'
  <2>1. registry'[c] # None
    BY <1>1 DEF Takes
  <2> QED
    BY <1>0, <1>3, <2>1 DEF Takes, HandlerOK, Idle, Registered, Sending, Consuming
<1>7. RecoveryOK'
  BY <1>0 DEF RecoveryOK
<1> QED
  BY <1>4, <1>5, <1>6, <1>7 DEF SlotInv


LEMMA CancelsKeep ==
    ASSUME Typed, Placed, SlotInv, NEW c \in Consumers, Cancels(c)
    PROVE  SlotInv'
<1>0. /\ inflight \in [Names -> [Ids -> InflightRecord \cup {None}]]
      /\ queues \subseteq Names /\ running = "idle" /\ registry \in Registries
  BY TypedFacts DEF Typed, TypeOK, Cancels, Idle
<1>1. /\ registry[c] # None /\ registry'[c] = None
      /\ \A x \in Consumers : x # c => registry'[x] = registry[x]
  BY <1>0 DEF Cancels, Cancel, Registries
<1>2. /\ queues' = queues /\ inflight' = inflight
      /\ \/ /\ running' = "idle"
            /\ \A n \in Names, m \in Ids :
                  inflight[n][m] # None => inflight[n][m].consumer_id # c
         \/ /\ running' = "recover"
            /\ cursor'.consumer_id = c /\ cursor'.todo = queues
            /\ cursor'.keys = queues /\ cursor'.queue = None
  <2>1. CASE \E n \in queues : \E m \in Leased(n) : inflight[n][m].consumer_id = c
    BY <2>1 DEF Cancels, Cancel, RecoverConsumer, queueVars
  <2>2. CASE ~ \E n \in queues : \E m \in Leased(n) : inflight[n][m].consumer_id = c
    <3>1. \A n \in Names, m \in Ids : inflight[n][m] # None => n \in queues
      BY DEF Placed, PlacedAt, GoneIsEmpty
    <3>2. UNCHANGED vars
      BY <2>2 DEF Cancels, Cancel
    <3> QED
      BY <1>0, <2>2, <3>1, <3>2 DEF Leased, vars, queueVars, loopVars
  <2> QED
    BY <2>1, <2>2
<1>3. \A n \in Names, m \in Ids : Owned(n, m)'
  <2> SUFFICES ASSUME NEW n \in Names, NEW m \in Ids, inflight'[n][m] # None
               PROVE  Owned(n, m)'
    BY DEF Owned
  <2>1. /\ inflight'[n][m] = inflight[n][m] /\ inflight[n][m].consumer_id \in Consumers
        /\ n \in queues
    BY <1>0, <1>2 DEF InflightRecord, Placed, PlacedAt, GoneIsEmpty
  <2>2. \/ inflight[n][m].consumer_id \in forsaken
        \/ registry[inflight[n][m].consumer_id] # None
    BY <1>0, <1>2, <2>1 DEF SlotInv, Owned, Registered
  <2>3. CASE inflight[n][m].consumer_id # c
    BY <1>1, <2>1, <2>2, <2>3 DEF Owned, Registered, Cancels
  <2>4. CASE inflight[n][m].consumer_id = c
    BY <1>2, <2>1, <2>4 DEF Owned
  <2> QED
    BY <2>3, <2>4
<1>4. ASSUME NEW x \in Consumers PROVE SlotOK(x)' /\ Attached(x)'
  <2> SUFFICES ASSUME x # c PROVE SlotOK(x)' /\ Attached(x)'
    BY <1>1 DEF SlotOK, Attached, Registered
  <2>1. registry'[x] = registry[x] /\ LeasesOf(x)' = LeasesOf(x)
    BY <1>1, <1>2 DEF LeasesOf
  <2>2. /\ SlotOK(x) /\ Attached(x) /\ StaysLive /\ forsaken' = forsaken
        /\ x \in leaving => x \in leaving'
    BY DEF SlotInv, Cancels
  <2>3. registry[x] # None => registry[x].connection_id \in Connections
    BY <1>0 DEF Registries, Consumer
  <2> QED
    BY <2>1, <2>2, <2>3 DEF SlotOK, Attached, Registered, StaysLive
<1>5. HandlerOK'
  <2>1. leaving' # {} => pump' = {} /\ Dropping'
    BY DEF Cancels, SlotInv, HandlerOK, Dropping
  <2>2. ~Sending'
    BY DEF Cancels, Sending
  <2>3. CASE Consuming'
    <3>1. Consuming /\ task' = task
      BY <2>3 DEF Consuming, Cancels
    <3>2. task.consumer_id \in Consumers /\ task.connection_id \in Connections
      BY <3>1, ConsumeTaskFacts
    <3>3. ~Registered(task.consumer_id) /\ connection[task.connection_id] \in Live
      BY <3>1 DEF SlotInv, HandlerOK
    <3>4. registry'[task.consumer_id] = None /\ connection'[task.connection_id] \in Live
      BY <1>1, <3>2, <3>3 DEF Registered, Cancels, StaysLive
    <3> QED
      BY <2>1, <2>2, <3>1, <3>4 DEF HandlerOK, Registered
  <2> QED
    BY <2>1, <2>2, <2>3 DEF HandlerOK
<1>6. RecoveryOK'
  BY <1>1, <1>2 DEF RecoveryOK, Registered
<1> QED
  BY <1>3, <1>4, <1>5, <1>6 DEF SlotInv

LEMMA DropKeeps ==
    ASSUME Typed, SlotInv, NEW k \in Connections, NEW slow \in BOOLEAN, Drop(k, slow)
    PROVE  SlotInv'
<1>1. /\ UNCHANGED <<queues, inflight, by_id, running, cursor, registry, pump, forsaken>>
      /\ running = "idle" /\ pump = {} /\ leaving = {}
      /\ task' = [op |-> "drop", connection_id |-> k]
      /\ leaving' = {c \in Consumers : registry[c] # None /\ registry[c].connection_id = k}
      /\ \A y \in Connections : y # k => connection'[y] = connection[y]
  BY TypedFacts DEF Drop, vars, queueVars, loopVars, consumerVars, Quiet, Idle
<1>2. \A n \in Names, m \in Ids : Owned(n, m)'
  BY <1>1 DEF SlotInv, Owned, Registered
<1>5. [op |-> "drop", connection_id |-> k] # None
  BY DispatchAssumption DEF Task
<1>3. ASSUME NEW c \in Consumers PROVE SlotOK(c)' /\ Attached(c)'
  <2>1. registry[c] # None => registry[c].connection_id \in Connections
    BY TypedFacts DEF Registries, Consumer
  <2>2. SlotOK(c) /\ Attached(c) /\ LeasesOf(c)' = LeasesOf(c)
    BY <1>1 DEF SlotInv, LeasesOf
  <2> QED
    BY <1>1, <2>1, <2>2 DEF SlotOK, Attached, Registered
<1>4. RecoveryOK' /\ HandlerOK'
  BY <1>1, <1>5 DEF RecoveryOK, HandlerOK, Sending, Consuming, Dropping
<1> QED
  BY <1>2, <1>3, <1>4 DEF SlotInv

\* A lease that ends may declare a dead-letter queue.
LEMMA EndLeaseEffect ==
    ASSUME NEW n, NEW m, EndLease(n, m)
    PROVE  /\ queues \subseteq queues'
           /\ inflight' = [inflight EXCEPT ![n][m] = None]
BY DEF EndLease, RetryOrDead, MoveToDlq

LEMMA RecoversKeep ==
    ASSUME Typed, SlotInv, Recovers
    PROVE  SlotInv'
<1>0. /\ inflight \in [Names -> [Ids -> InflightRecord \cup {None}]]
      /\ queues \subseteq Names /\ running = "recover" /\ registry \in Registries
      /\ cursor \in Cursor
  BY TypedFacts DEF Typed, TypeOK, Recovers, RecoverReturns, RecoverLease, RecoverNextQueue,
                    RecoverEnd
<1>1. /\ registry' = registry /\ connection' = connection /\ pump' = pump /\ task' = task
      /\ ~Sending /\ ~Sending'
      /\ cursor.keys \subseteq queues
      /\ ~Registered(cursor.consumer_id)
  BY <1>0 DEF Recovers, RecoverReturns, dispatchVars, consumerVars, handlerVars, SlotInv,
              HandlerOK, Idle, Sending, RecoveryOK
<1>2. leaving' = leaving /\ forsaken' = forsaken
  BY <1>1 DEF Recovers, RecoverReturns, dispatchVars, handlerVars
<1>3. /\ queues \subseteq queues'
      /\ \/ \E m \in Ids : /\ inflight' = [inflight EXCEPT ![cursor.queue][m] = None]
                           /\ cursor.queue \in Names /\ UNCHANGED <<running, cursor>>
         \/ /\ inflight' = inflight /\ queues = cursor.keys
            /\ \A m \in Ids : ~HeldHere(m)
            /\ \/ running' = "idle" /\ cursor.todo = {}
               \/ \E n \in cursor.todo :
                     /\ cursor' = [cursor EXCEPT !.queue = n, !.todo = @ \ {n}]
                     /\ running' = running
  <2>1. CASE \E m \in Ids : RecoverLease(m)
    <3> PICK m \in Ids : RecoverLease(m)
      BY <2>1
    <3>1. cursor.queue \in Names /\ EndLease(cursor.queue, m) /\ UNCHANGED <<running, cursor>>
      BY <1>0, <1>1 DEF RecoverLease, HeldHere, loopVars, Cursor
    <3>2. queues \subseteq queues' /\ inflight' = [inflight EXCEPT ![cursor.queue][m] = None]
      BY <3>1, EndLeaseEffect
    <3> QED
      BY <3>1, <3>2
  <2>2. CASE \E n \in Names : RecoverNextQueue(n)
    BY <2>2 DEF RecoverNextQueue, queueVars
  <2>3. CASE RecoverReturns
    BY <1>1, <2>3 DEF RecoverReturns, RecoverEnd, queueVars
  <2> QED
    BY <2>1, <2>2, <2>3 DEF Recovers
<1>4. \A n \in Names, m \in Ids : inflight'[n][m] # None => inflight'[n][m] = inflight[n][m]
  <2>1. ASSUME NEW i \in Ids, inflight' = [inflight EXCEPT ![cursor.queue][i] = None],
               cursor.queue \in Names
        PROVE  \A n \in Names, m \in Ids :
                  inflight'[n][m] # None => inflight'[n][m] = inflight[n][m]
    BY <1>0, <2>1
  <2> QED
    BY <1>3, <2>1
<1>5. \A n \in Names, m \in Ids : Owned(n, m)'
  <2> SUFFICES ASSUME NEW n \in Names, NEW m \in Ids, inflight'[n][m] # None
               PROVE  Owned(n, m)'
    BY DEF Owned
  <2>1. inflight'[n][m] = inflight[n][m] /\ inflight[n][m] # None
    BY <1>4
  <2>2. \/ inflight[n][m].consumer_id \in forsaken
        \/ Registered(inflight[n][m].consumer_id)
        \/ /\ cursor.consumer_id = inflight[n][m].consumer_id
           /\ n \in cursor.todo \/ n = cursor.queue \/ queues # cursor.keys
    BY <2>1 DEF SlotInv, Owned
  <2>3. CASE \/ inflight[n][m].consumer_id \in forsaken
             \/ Registered(inflight[n][m].consumer_id)
    BY <1>1, <1>2, <2>1, <2>3 DEF Owned, Registered
  <2>4. CASE /\ cursor.consumer_id = inflight[n][m].consumer_id
             /\ n \in cursor.todo \/ n = cursor.queue \/ queues # cursor.keys
    <3>1. CASE UNCHANGED <<running, cursor>>
      <4>1. queues # cursor.keys => queues' # cursor'.keys
        BY <1>1, <1>3, <3>1
      <4> QED
        BY <1>0, <2>1, <2>4, <3>1, <4>1 DEF Owned
    <3>2. CASE queues = cursor.keys /\ \A i \in Ids : ~HeldHere(i)
      <4>1. n # cursor.queue
        BY <2>1, <2>4, <3>2, NoneAssumption DEF HeldHere
      <4>2. n \in cursor.todo
        BY <2>4, <3>2, <4>1
      <4>3. \/ UNCHANGED <<running, cursor>>
            \/ \E x \in cursor.todo :
                  /\ cursor' = [cursor EXCEPT !.queue = x, !.todo = @ \ {x}]
                  /\ running' = running
        BY <1>3, <4>2
      <4> QED
        BY <1>0, <2>1, <2>4, <3>1, <4>2, <4>3 DEF Owned, Cursor
    <3> QED
      BY <1>3, <3>1, <3>2
  <2> QED
    BY <2>2, <2>3, <2>4
<1>6. ASSUME NEW c \in Consumers PROVE SlotOK(c)' /\ Attached(c)'
  <2>1. SlotOK(c) /\ Attached(c)
    BY DEF SlotInv
  <2>2. LeasesOf(c)' \subseteq LeasesOf(c)
    BY <1>4 DEF LeasesOf
  <2>3. Attached(c)'
    BY <1>1, <1>2, <2>1 DEF Attached, Registered
  <2>4. SlotOK(c)'
    <3> SUFFICES ASSUME registry[c] # None, c \notin forsaken
                 PROVE  /\ IsFiniteSet(LeasesOf(c)')
                        /\ Cardinality(LeasesOf(c)') <= registry[c].unacked_count
      BY <1>1, <1>2 DEF SlotOK, Registered
    <3>1. IsFiniteSet(LeasesOf(c)) /\ Cardinality(LeasesOf(c)) <= registry[c].unacked_count
      BY <2>1 DEF SlotOK, Registered
    <3>2. IsFiniteSet(LeasesOf(c)') /\ Cardinality(LeasesOf(c)') <= Cardinality(LeasesOf(c))
      BY <2>2, <3>1, FS_Subset
    <3>3. Cardinality(LeasesOf(c)') \in Nat /\ Cardinality(LeasesOf(c)) \in Nat
      BY <3>1, <3>2, FS_CardinalityType
    <3>4. registry[c].unacked_count \in Nat
      BY <1>0 DEF Registries, Consumer
    <3> QED
      BY <3>1, <3>2, <3>3, <3>4
  <2> QED
    BY <2>3, <2>4
<1>7. RecoveryOK'
  <2>1. CASE \E n \in cursor.todo : cursor' = [cursor EXCEPT !.queue = n, !.todo = @ \ {n}]
    <3> PICK n \in cursor.todo : cursor' = [cursor EXCEPT !.queue = n, !.todo = @ \ {n}]
      BY <2>1
    <3>1. /\ cursor'.keys = cursor.keys /\ cursor'.consumer_id = cursor.consumer_id
          /\ cursor'.queue = n /\ cursor'.todo = cursor.todo \ {n}
      BY <1>0 DEF Cursor
    <3> QED
      BY <1>1, <1>3, <3>1 DEF RecoveryOK, Registered
  <2>2. CASE UNCHANGED <<running, cursor>>
    BY <1>0, <1>1, <1>3, <2>2 DEF RecoveryOK, Registered
  <2>3. CASE running' = "idle"
    BY <2>3 DEF RecoveryOK
  <2> QED
    BY <1>3, <2>1, <2>2, <2>3
<1>8. HandlerOK'
  BY <1>1, <1>2 DEF SlotInv, HandlerOK, Dropping, Consuming, Registered
<1> QED
  BY <1>5, <1>6, <1>7, <1>8 DEF SlotInv

\* recover_consumer raises: whoever was not recovered is forsaken.
LEMMA RaisesKeep ==
    ASSUME Typed, SlotInv, RecoverRaises
    PROVE  SlotInv'
<1>1. /\ running = "recover" /\ running' = "idle"
      /\ forsaken' = forsaken \cup {cursor.consumer_id} \cup leaving
      /\ leaving' = {} /\ task' = None
      /\ UNCHANGED <<inflight, registry>>
  BY DEF RecoverRaises, RecoverEnd, queueVars, consumerVars
<1>2. StaysLive
  BY TypedFacts DEF RecoverRaises, StaysLive, Live
<1>3. \A n \in Names, m \in Ids : Owned(n, m)'
  BY <1>1 DEF SlotInv, Owned, Registered
<1>4. ASSUME NEW c \in Consumers PROVE SlotOK(c)' /\ Attached(c)'
  <2>1. SlotOK(c) /\ Attached(c) /\ LeasesOf(c)' = LeasesOf(c)
    BY <1>1 DEF SlotInv, LeasesOf
  <2>2. registry[c] # None => registry[c].connection_id \in Connections
    BY TypedFacts DEF Registries, Consumer
  <2> QED
    BY <1>1, <1>2, <2>1, <2>2 DEF SlotOK, Attached, Registered, StaysLive
<1>5. RecoveryOK' /\ HandlerOK'
  BY <1>1 DEF RecoveryOK, HandlerOK, Sending, Consuming
<1> QED
  BY <1>3, <1>4, <1>5 DEF SlotInv


-----------------------------------------------------------------------------
(* Every step of the broker is one of these.                               *)

\* Everything the classification of a step starts from.
Sound == Typed /\ OneHome /\ Placed /\ SlotInv

LEMMA SameExtends ==
    ASSUME Typed
    PROVE  Extends(registry)
BY TypedFacts DEF Extends, Registered

LEMMA RegisterExtends ==
    ASSUME Typed, NEW c \in Consumers, NEW k \in Connections, NEW qs \in SUBSET Names,
           NEW p \in Nat, NEW via \in {"CONSUME", "GET"},
           registry[c] = None, connection'[k] \in Live
    PROVE  Extends(Register(c, k, qs, p, via))
<1>1. Register(c, k, qs, p, via) \in Registries
  BY TypedFacts, RegisterTyping
<1>2. /\ Register(c, k, qs, p, via)[c] =
            [connection_id |-> k, queues |-> qs, prefetch_count |-> p,
             unacked_count |-> 0, via |-> via]
      /\ \A x \in Consumers : x # c => Register(c, k, qs, p, via)[x] = registry[x]
  BY TypedFacts DEF Register, Registries
<1> QED
  BY <1>1, <1>2 DEF Extends, Registered

LEMMA PrefetchExtends ==
    ASSUME Typed, NEW c \in Consumers, NEW p \in Nat, registry[c] # None
    PROVE  Extends([registry EXCEPT ![c].prefetch_count = p])
<1> DEFINE r == [registry EXCEPT ![c].prefetch_count = p]
<1>1. r \in Registries /\ registry[c] \in Consumer
  BY TypedFacts, RegistryTyping
<1>2. /\ r[c] = [registry[c] EXCEPT !.prefetch_count = p]
      /\ \A x \in Consumers : x # c => r[x] = registry[x]
  BY TypedFacts DEF Registries
<1> HIDE DEF r
<1>3. /\ r[c] \in Consumer
      /\ r[c].unacked_count = registry[c].unacked_count
      /\ r[c].connection_id = registry[c].connection_id
  BY <1>1, <1>2 DEF Consumer
<1>4. Extends(r)
  BY <1>1, <1>2, <1>3, DispatchAssumption DEF Extends, Registered
<1> QED
  BY <1>4 DEF r

LEMMA DeclareEffect ==
    ASSUME NEW n, NEW l, DeclareQueue(n, l)
    PROVE  Idle /\ Idle' /\ inflight' = inflight
BY DEF DeclareQueue, loopVars, Idle

LEMMA DeleteEffect ==
    ASSUME NEW n \in Names, DeleteQueue(n)
    PROVE  Idle /\ Idle' /\ Shrinks
BY DEF DeleteQueue, Shrinks, NoLeases, loopVars, Idle

\* A step that leaves the leases and the consumers alone.
LEMMA StillCalm ==
    ASSUME Sound, running # "recover", running' # "recover",
           UNCHANGED <<inflight, registry, leaving, forsaken>>, StaysLive, HandlerCalm
    PROVE  Calm
<1>1. Extends(registry') /\ Shrinks
  BY SameExtends DEF Sound, Shrinks
<1> QED
  BY <1>1 DEF Calm

LEMMA SameStaysLive ==
    ASSUME UNCHANGED connection
    PROVE  StaysLive
BY DEF StaysLive

LEMMA QuietFacts ==
    ASSUME Quiet
    PROVE  /\ running = "idle" /\ running # "recover" /\ pump = {} /\ task = None /\ leaving = {}
           /\ ~Sending
           /\ task' = task => HandlerCalm
BY DEF Quiet, Idle, Sending, Consuming, HandlerCalm

LEMMA QueueSlotStep ==
    ASSUME Sound,
           \/ \E n \in Targets, l \in MaxLengths : CmdDeclareQueue(n, l)
           \/ \E n \in Names : CmdDeleteQueue(n)
           \/ \E n \in Names, m \in Ids : CmdDlqRequeue(n, m)
    PROVE  SlotStep
<1>0. Typed /\ Extends(registry)
  BY SameExtends DEF Sound
<1>1. CASE \E n \in Targets, l \in MaxLengths : CmdDeclareQueue(n, l)
  <2> PICK n \in Targets, l \in MaxLengths : CmdDeclareQueue(n, l)
    BY <1>1
  <2>1. /\ Quiet /\ Asked
        /\ UNCHANGED vars \/ DeclareQueue(n, l)
        /\ UNCHANGED <<registry, pump, task, leaving, forsaken>>
    BY DEF CmdDeclareQueue, consumerVars, handlerVars
  <2>2. Idle' /\ inflight' = inflight
    BY <2>1, DeclareEffect DEF vars, queueVars, loopVars, Quiet, Idle
  <2> QED
    BY <1>0, <2>1, <2>2, QuietFacts, AskedTyping, StillCalm DEF SlotStep, Idle
<1>2. CASE \E n \in Names : CmdDeleteQueue(n)
  <2> PICK n \in Names : CmdDeleteQueue(n)
    BY <1>2
  <2>1. /\ Quiet /\ Asked /\ DeleteQueue(n)
        /\ UNCHANGED <<registry, pump, task, leaving, forsaken>>
    BY DEF CmdDeleteQueue, handlerVars
  <2>2. Idle /\ Idle' /\ Shrinks /\ Extends(registry')
    BY <1>0, <2>1, DeleteEffect
  <2> QED
    BY <1>0, <2>1, <2>2, QuietFacts, AskedTyping DEF SlotStep, Calm, Idle
<1>3. CASE \E n \in Names, m \in Ids : CmdDlqRequeue(n, m)
  <2> PICK n \in Names, m \in Ids : CmdDlqRequeue(n, m)
    BY <1>3
  <2>1. Quiet /\ Asked /\ UNCHANGED <<inflight, running, registry, task, leaving, forsaken>>
    BY DEF CmdDlqRequeue, DlqRequeue, loopVars, consumerVars
  <2> QED
    BY <1>0, <2>1, QuietFacts, AskedTyping, StillCalm DEF SlotStep
<1> QED
  BY <1>1, <1>2, <1>3

LEMMA PublishSlotStep ==
    ASSUME Sound,
           \/ \E n \in Targets, m \in Ids : CmdPublish(n, m) \/ CmdPublishNew(n, m)
           \/ PublishRest
    PROVE  SlotStep
<1>0. Typed /\ HandlerOK
  BY DEF Sound, SlotInv
<1>1. CASE \E n \in Targets, m \in Ids : CmdPublish(n, m)
  <2> PICK n \in Targets, m \in Ids : CmdPublish(n, m)
    BY <1>1
  <2>1. Quiet /\ Asked /\ UNCHANGED <<inflight, running, registry, task, leaving, forsaken>>
    BY DEF CmdPublish, Enqueue, loopVars, consumerVars
  <2> QED
    BY <1>0, <2>1, QuietFacts, AskedTyping, StillCalm DEF SlotStep
<1>2. CASE \E n \in Targets, m \in Ids : CmdPublishNew(n, m)
  <2> PICK n \in Targets, m \in Ids : CmdPublishNew(n, m)
    BY <1>2
  <2>1. /\ Quiet /\ Asked /\ DeclareQueue(n, None)
        /\ UNCHANGED <<registry, leaving, forsaken>>
        /\ task' = [op |-> "enqueue", queue |-> n, id |-> m]
    BY DEF CmdPublishNew, consumerVars
  <2>2. Idle /\ Idle' /\ inflight' = inflight
    BY <2>1, DeclareEffect
  <2>3. HandlerCalm
    BY <2>1, QuietFacts DEF HandlerCalm, Sending, Consuming
  <2> QED
    BY <1>0, <2>1, <2>2, <2>3, AskedTyping, StillCalm DEF SlotStep, Idle
<1>3. CASE PublishRest
  <2>1. /\ UNCHANGED <<inflight, running, connection, registry, leaving, forsaken>>
        /\ running = "idle" /\ task.op = "enqueue" /\ task' = None
    BY <1>3 DEF PublishRest, Enqueue, vars, queueVars, loopVars, consumerVars, Idle
  <2>2. HandlerCalm
    BY <1>0, <2>1 DEF HandlerOK, HandlerCalm, Sending, Consuming, Dropping
  <2> QED
    BY <2>1, <2>2, SameStaysLive, StillCalm DEF SlotStep
<1> QED
  BY <1>1, <1>2, <1>3

LEMMA SettleSlotStep ==
    ASSUME Sound,
           \/ \E m \in Ids : CmdAck(m)
           \/ \E m \in Ids, requeue \in BOOLEAN : CmdNack(m, requeue)
    PROVE  SlotStep
<1>0. Typed /\ TypeOK
  BY DEF Sound, Typed
<1>1. PICK m \in Ids :
         /\ Quiet /\ Asked
         /\ Ack(m) \/ \E requeue \in BOOLEAN : Nack(m, requeue)
         /\ OnAck(inflight_consumer(m))
         /\ UNCHANGED <<task, leaving, forsaken>>
  BY DEF CmdAck, CmdNack
<1> DEFINE n == by_id[m]
<1>2. /\ n \in Names /\ n \in queues /\ inflight[n][m] # None
      /\ inflight_consumer(m) \in Consumers
  BY <1>0, <1>1, HolderFacts
<1>3. /\ inflight' = [inflight EXCEPT ![n][m] = None]
      /\ running' = running
  <2>1. CASE Ack(m)
    BY <2>1 DEF Ack, loopVars
  <2>2. CASE \E requeue \in BOOLEAN : Nack(m, requeue)
    <3>1. /\ running' = running
          /\ \/ EndLease(n, m)
             \/ inflight' = [inflight EXCEPT ![n][m] = None]
      BY <2>2 DEF Nack, loopVars
    <3> QED
      BY <3>1, EndLeaseEffect
  <2> QED
    BY <1>1, <2>1, <2>2
<1>4. Settles(n, m, inflight_consumer(m))
  BY <1>0, <1>1, <1>2, <1>3, QuietFacts, AskedTyping DEF Settles, inflight_consumer, Idle
<1> HIDE DEF n
<1> QED
  BY <1>2, <1>4 DEF SlotStep


LEMMA ConsumeSlotStep ==
    ASSUME Sound, NEW k \in Connections, NEW c \in Consumers,
           NEW qs \in QueueLists, NEW p \in Prefetches, CmdConsume(k, c, qs, p)
    PROVE  SlotStep
<1>1. /\ Quiet /\ By(k) /\ registry[c] = None /\ Typed
      /\ UNCHANGED <<inflight, running, registry, leaving, forsaken>>
      /\ task' = [op |-> "consume", connection_id |-> k, consumer_id |-> c,
                  queues |-> qs, prefetch_count |-> p]
  BY DEF Sound, CmdConsume, vars, queueVars, loopVars, consumerVars
<1>2. Asked /\ connection'[k] \in Live
  BY <1>1, ByFacts
<1>3. HandlerCalm
  BY <1>1, <1>2, QuietFacts DEF HandlerCalm, Sending, Consuming
<1> QED
  BY <1>1, <1>2, <1>3, QuietFacts, AskedTyping, StillCalm DEF SlotStep

LEMMA ConsumingSlotStep ==
    ASSUME Sound, ConsumeRest \/ \E n \in Names : ConsumeDeclare(n)
    PROVE  SlotStep
<1>1. /\ Typed /\ HandlerOK /\ Idle /\ Consuming /\ UNCHANGED <<connection, leaving, forsaken>>
  BY DEF Sound, SlotInv, ConsumeRest, ConsumeDeclare, handlerVars
<1>2. /\ task.connection_id \in Connections /\ task.consumer_id \in Consumers
      /\ task.queues \in SUBSET Names /\ task.prefetch_count \in Nat
      /\ registry[task.consumer_id] = None /\ connection'[task.connection_id] \in Live
      /\ leaving = {} /\ StaysLive /\ ~Sending
  BY <1>1, ConsumeTaskFacts, SameStaysLive
     DEF HandlerOK, Registered, Consuming, Dropping, Sending
<1>3. CASE ConsumeRest
  <2>1. /\ registry' = Register(task.consumer_id, task.connection_id, task.queues,
                                task.prefetch_count, "CONSUME")
        /\ task' = None /\ UNCHANGED <<inflight, running>>
    BY <1>3 DEF ConsumeRest, vars, queueVars, loopVars
  <2>2. Extends(registry')
    BY <1>1, <1>2, <2>1, RegisterExtends
  <2>3. HandlerCalm
    BY <1>2, <2>1 DEF HandlerCalm, Sending, Consuming
  <2> QED
    BY <1>1, <1>2, <2>1, <2>2, <2>3 DEF SlotStep, Calm, Shrinks, Idle
<1>4. CASE \E n \in Names : ConsumeDeclare(n)
  <2> PICK n \in Names : ConsumeDeclare(n)
    BY <1>4
  <2>1. DeclareQueue(n, None) /\ UNCHANGED <<registry, task>>
    BY DEF ConsumeDeclare, consumerVars, handlerVars
  <2>2. Idle' /\ inflight' = inflight
    BY <2>1, DeclareEffect
  <2>3. HandlerCalm
    BY <1>2, <2>1 DEF HandlerCalm, Sending
  <2> QED
    BY <1>1, <1>2, <2>1, <2>2, <2>3, StillCalm DEF SlotStep, Idle
<1> QED
  BY <1>3, <1>4

LEMMA GetNewSlotStep ==
    ASSUME Sound, NEW k \in Connections, NEW c \in Consumers,
           NEW n \in Targets, NEW p \in Prefetches \cup {0}, CmdGetNew(k, c, n, p)
    PROVE  SlotStep
<1>1. n \in Names /\ {n} \in SUBSET Names /\ p \in Nat /\ Typed
  BY DispatchAssumption DEF Sound
<1>2. /\ Quiet /\ By(k) /\ registry[c] = None
      /\ registry' = Register(c, k, {n}, p, "GET") /\ DeclareQueue(n, None)
      /\ UNCHANGED <<pump, task, leaving, forsaken>>
  BY DEF CmdGetNew, NewGetConsumer, handlerVars
<1>3. connection'[k] \in Live /\ StaysLive
  BY <1>1, <1>2, ByFacts, AskedTyping
<1>4. Extends(registry')
  BY <1>1, <1>2, <1>3, RegisterExtends
<1>5. Idle /\ Idle' /\ inflight' = inflight
  BY <1>2, DeclareEffect
<1> QED
  BY <1>2, <1>3, <1>4, <1>5, QuietFacts DEF SlotStep, Calm, Shrinks, Idle

\* try_reserve leases one message, which _by_id leads to, and nothing else
\* changes hands.
LEMMA TakeEffect ==
    ASSUME Sound, NEW n \in Names, NEW c \in Consumers, NEW r, Take(n, c, r)
    PROVE  /\ Idle /\ Idle' /\ queues' = queues /\ by_id' = by_id
           /\ registry' = [r EXCEPT ![c] = on_deliver(@)]
           /\ \E m \in Ids :
                 /\ inflight[n][m] = None /\ by_id[m] = n
                 /\ inflight' = [inflight EXCEPT ![n][m] =
                                   [consumer_id |-> c, left |-> VisibilityTimeout]]
                 /\ Leased(n)' \ Leased(n) = {m}
<1>0. /\ TypeOK /\ OneHome
      /\ inflight \in [Names -> [Ids -> InflightRecord \cup {None}]] /\ ready[n] \in Seq(Ids)
  BY DEF Sound, Typed, TypeOK
<1>1. Reserve(n, c) /\ registry' = [r EXCEPT ![c] = on_deliver(@)]
  BY DEF Take
<1>2. PICK k \in DOMAIN ready[n] :
         /\ Deliverable(n, k)
         /\ inflight' = [inflight EXCEPT ![n][ready[n][k]] =
                              [consumer_id |-> c, left |-> VisibilityTimeout]]
  BY <1>1 DEF Reserve
<1> DEFINE m == ready[n][k]
<1>3. m \in Ids /\ m \in messages[n] /\ inflight[n][m] = None
  BY <1>0, <1>2 DEF Deliverable
<1> HIDE DEF m
<1>4. by_id[m] = n
  BY <1>0, <1>3 DEF OneHome
<1>5. inflight' = [inflight EXCEPT ![n][m] = [consumer_id |-> c, left |-> VisibilityTimeout]]
  BY <1>2 DEF m
<1>6. Leased(n)' \ Leased(n) = {m}
  <2>1. [consumer_id |-> c, left |-> VisibilityTimeout] # None
    BY EngineAssumption, NoneAssumption DEF InflightRecord
  <2>2. \A i \in Ids : inflight'[n][i] =
           IF i = m THEN [consumer_id |-> c, left |-> VisibilityTimeout] ELSE inflight[n][i]
    BY <1>0, <1>5
  <2> QED
    BY <1>3, <2>1, <2>2 DEF Leased
<1> QED
  BY <1>1, <1>3, <1>4, <1>5, <1>6 DEF Reserve, loopVars, Idle

LEMMA GetSlotStep ==
    ASSUME Sound, NEW k \in Connections, NEW c \in Consumers,
           NEW n \in Targets, NEW p \in Prefetches \cup {0}, CmdGet(k, c, n, p)
    PROVE  SlotStep
<1> DEFINE reg == GetRegistry(k, c, n, p)
<1>0. Typed
  BY DEF Sound
<1>1. /\ n \in Names /\ p \in Nat /\ Quiet /\ By(k)
      /\ reg \in Registries
      /\ \/ registry' = reg /\ (UNCHANGED vars \/ ReserveNothing(n))
         \/ \E x \in Consumers : /\ reg[x] # None /\ can_deliver(reg[x])
                                 /\ Take(n, x, reg)
      /\ UNCHANGED <<pump, task, leaving, forsaken>>
  BY <1>0, GetCases
<1>5. connection'[k] \in Live /\ StaysLive
  BY <1>0, <1>1, ByFacts, AskedTyping
<1>2. Extends(reg)
  <2>1. {n} \in SUBSET Names
    BY <1>1
  <2> QED
    BY <1>0, <1>1, <1>5, <2>1, RegisterExtends, PrefetchExtends, SameExtends DEF GetRegistry
<1> HIDE DEF reg
<1>3. CASE registry' = reg /\ (UNCHANGED vars \/ ReserveNothing(n))
  <2>1. inflight' = inflight /\ running' = running
    BY <1>3 DEF ReserveNothing, vars, queueVars, loopVars
  <2> QED
    BY <1>1, <1>2, <1>3, <1>5, <2>1, QuietFacts DEF SlotStep, Calm, Shrinks
<1>4. CASE \E x \in Consumers : /\ reg[x] # None /\ can_deliver(reg[x])
                                /\ Take(n, x, reg)
  <2> PICK x \in Consumers : reg[x] # None /\ can_deliver(reg[x]) /\ Take(n, x, reg)
    BY <1>4
  <2>1. /\ Idle /\ Idle' /\ queues' = queues /\ registry' = [reg EXCEPT ![x] = on_deliver(@)]
        /\ \E m \in Ids :
                 /\ inflight[n][m] = None
                 /\ inflight' = [inflight EXCEPT ![n][m] =
                                   [consumer_id |-> x, left |-> VisibilityTimeout]]
    BY <1>1, TakeEffect
  <2>2. PICK m \in Ids :
                 /\ inflight[n][m] = None
                 /\ inflight' = [inflight EXCEPT ![n][m] =
                                   [consumer_id |-> x, left |-> VisibilityTimeout]]
    BY <2>1
  <2>3. Takes(n, m, x, reg)
    BY <1>1, <1>2, <1>5, <2>1, <2>2, QuietFacts DEF Takes
  <2> QED
    BY <1>1, <2>3 DEF SlotStep
<1> QED
  BY <1>1, <1>3, <1>4

LEMMA PumpSlotStep ==
    ASSUME Sound, NEW n \in Names, PumpTake(n) \/ PumpDone(n)
    PROVE  SlotStep
<1> DEFINE ids == consumer_ids[n]
           j == Offset(ids, registry, rr_index[n])
           c == Nth(ids, rr_index[n], j)
<1>0. /\ Typed /\ HandlerOK
      /\ ids \in Seq(Consumers) /\ rr_index[n] \in Nat /\ registry \in Registries
      /\ Extends(registry)
  BY TypedFacts, SameExtends DEF Sound, SlotInv
<1>1. CASE PumpTake(n)
  <2>1. /\ n \in pump
        /\ j < Len(ids) /\ Take(n, c, registry)
        /\ \E m \in Leased(n)' \ Leased(n) :
              task' = [op |-> "send", queue |-> n, id |-> m, consumer_id |-> c]
        /\ UNCHANGED <<connection, pump, leaving, forsaken>>
    BY <1>1 DEF PumpTake
  <2>2. /\ j < Len(ids) => c \in Consumers /\ MayTake(ids, registry, rr_index[n], j)
    BY <1>0, OffsetProperties
  <2> HIDE DEF j
  <2>3. c \in Consumers /\ registry[c] # None /\ can_deliver(registry[c])
    BY <2>1, <2>2 DEF MayTake
  <2> HIDE DEF c
  <2>4. /\ Idle /\ Idle' /\ queues' = queues /\ by_id' = by_id
        /\ registry' = [registry EXCEPT ![c] = on_deliver(@)]
        /\ \E m \in Ids :
              /\ inflight[n][m] = None /\ by_id[m] = n
              /\ inflight' = [inflight EXCEPT ![n][m] =
                                [consumer_id |-> c, left |-> VisibilityTimeout]]
              /\ Leased(n)' \ Leased(n) = {m}
    BY <2>1, <2>3, TakeEffect
  <2>5. PICK m \in Ids :
              /\ inflight[n][m] = None /\ by_id[m] = n
              /\ inflight' = [inflight EXCEPT ![n][m] =
                                [consumer_id |-> c, left |-> VisibilityTimeout]]
              /\ Leased(n)' \ Leased(n) = {m}
    BY <2>4
  <2>6. task' = [op |-> "send", queue |-> n, id |-> m, consumer_id |-> c]
    BY <2>1, <2>5
  <2>7. leaving = {} /\ leaving' = {}
    BY <1>0, <2>1 DEF HandlerOK
  <2>8. Takes(n, m, c, registry)
    BY <1>0, <2>1, <2>3, <2>4, <2>5, <2>6, <2>7, SameStaysLive DEF Takes
  <2> QED
    BY <1>0, <2>3, <2>8 DEF SlotStep
<1>2. CASE PumpDone(n)
  <2>1. /\ pump' = pump \ {n} /\ task = None /\ running = "idle"
        /\ UNCHANGED vars \/ ReserveNothing(n)
        /\ UNCHANGED <<connection, registry, task, leaving, forsaken>>
    BY <1>2 DEF PumpDone, TakeNothing, Idle
  <2>2. UNCHANGED <<inflight, running>>
    BY <2>1 DEF ReserveNothing, vars, queueVars, loopVars
  <2>3. HandlerCalm
    BY <1>0, <2>1 DEF HandlerCalm, HandlerOK, Sending, Consuming, Dropping
  <2> QED
    BY <2>1, <2>2, <2>3, SameStaysLive, StillCalm DEF SlotStep
<1> QED
  BY <1>1, <1>2

LEMMA SendSlotStep ==
    ASSUME Sound, SendOk \/ SendFail
    PROVE  SlotStep
<1>0. Typed /\ HandlerOK
  BY DEF Sound, SlotInv
<1>1. /\ task.queue \in Names /\ task.id \in Ids /\ task.consumer_id \in Consumers
      /\ Sending /\ running = "idle"
      /\ by_id[task.id] = task.queue
      /\ inflight[task.queue][task.id] # None
      /\ inflight[task.queue][task.id].consumer_id = task.consumer_id
  BY <1>0, SendFacts DEF SendOk, SendFail, HandlerOK, Idle
<1>2. task' = None /\ leaving = {} /\ HandlerCalm /\ StaysLive
  BY <1>0, <1>1, SameStaysLive
     DEF SendOk, SendFail, HandlerOK, Sending, Consuming, Dropping, HandlerCalm
<1>3. CASE SendOk
  <2>1. UNCHANGED <<inflight, running, registry, leaving, forsaken>>
    BY <1>3 DEF SendOk, vars, queueVars, loopVars, consumerVars
  <2> QED
    BY <1>1, <1>2, <2>1, StillCalm DEF SlotStep
<1>4. CASE SendFail
  <2>1. /\ Nack(task.id, TRUE) /\ OnAck(task.consumer_id)
        /\ UNCHANGED <<leaving, forsaken>>
    BY <1>4 DEF SendFail
  <2>2. EndLease(task.queue, task.id) /\ running' = running
    BY <1>1, <2>1 DEF Nack, loopVars
  <2>3. inflight' = [inflight EXCEPT ![task.queue][task.id] = None]
    BY <2>2, EndLeaseEffect
  <2>4. Settles(task.queue, task.id, task.consumer_id)
    BY <1>1, <1>2, <2>1, <2>2, <2>3 DEF Settles, Idle
  <2> QED
    BY <1>1, <2>4 DEF SlotStep
<1> QED
  BY <1>3, <1>4


LEMMA QosSlotStep ==
    ASSUME Sound,
           \/ \E c \in Consumers, p \in Prefetches : CmdQosConsumer(c, p)
           \/ \E k \in Connections, p \in Prefetches : CmdQosConnection(k, p)
    PROVE  SlotStep
<1>0. Prefetches \subseteq Nat /\ Typed
  BY DispatchAssumption DEF Sound
<1>1. Extends(registry')
  <2>1. CASE \E c \in Consumers, p \in Prefetches : CmdQosConsumer(c, p)
    <3> PICK c \in Consumers, p \in Prefetches : CmdQosConsumer(c, p)
      BY <2>1
    <3>1. /\ registry[c] # None /\ p \in Nat
          /\ registry' = [registry EXCEPT ![c].prefetch_count = p]
      BY <1>0 DEF CmdQosConsumer
    <3> QED
      BY <1>0, <3>1, PrefetchExtends
  <2>2. CASE \E k \in Connections, p \in Prefetches : CmdQosConnection(k, p)
    <3> PICK k \in Connections, p \in Prefetches : CmdQosConnection(k, p)
      BY <2>2
    <3>1. \A c \in Consumers : registry[c] # None =>
             /\ [registry[c] EXCEPT !.prefetch_count = p] \in Consumer
             /\ [registry[c] EXCEPT !.prefetch_count = p].unacked_count
                   = registry[c].unacked_count
             /\ [registry[c] EXCEPT !.prefetch_count = p].connection_id
                   = registry[c].connection_id
      BY <1>0, TypedFacts DEF Registries, Consumer
    <3>2. registry' = [c \in Consumers |->
                         IF registry[c] # None /\ registry[c].connection_id = k
                         THEN [registry[c] EXCEPT !.prefetch_count = p] ELSE registry[c]]
      BY DEF CmdQosConnection
    <3>3. registry' \in Registries
      BY <1>0, <3>1, <3>2, TypedFacts DEF Registries
    <3> QED
      BY <3>1, <3>2, <3>3, DispatchAssumption DEF Extends, Registered
  <2> QED
    BY <2>1, <2>2
<1>2. /\ Quiet /\ Asked
      /\ UNCHANGED <<inflight, running, pump, task, leaving, forsaken>>
  BY <1>0, ByFacts
     DEF CmdQosConsumer, CmdQosConnection, vars, queueVars, loopVars, handlerVars
<1> QED
  BY <1>0, <1>1, <1>2, QuietFacts, AskedTyping DEF SlotStep, Calm, Shrinks

LEMMA LeavingSlotStep ==
    ASSUME Sound,
           \/ \E c \in Consumers : CmdCancel(c) \/ Leave(c)
           \/ \E k \in Connections : Connect(k) \/ \E slow \in BOOLEAN : Drop(k, slow)
           \/ DropEnds
    PROVE  SlotStep
<1>0. Typed /\ HandlerOK
  BY DEF Sound, SlotInv
<1>1. ASSUME NEW c \in Consumers, CmdCancel(c) PROVE SlotStep
  <2>1. Cancels(c)
    BY <1>0, <1>1, QuietFacts, AskedTyping DEF CmdCancel, Cancels, handlerVars, Idle
  <2> QED
    BY <2>1 DEF SlotStep
<1>2. ASSUME NEW c \in Consumers, Leave(c) PROVE SlotStep
  <2>1. Cancels(c)
    BY <1>0, <1>2, SameStaysLive DEF Leave, Cancels, HandlerOK, Sending, Dropping
  <2> QED
    BY <2>1 DEF SlotStep
<1>3. ASSUME NEW k \in Connections, Connect(k) PROVE SlotStep
  <2>1. /\ Quiet /\ connection' = [connection EXCEPT ![k] = "open"]
        /\ UNCHANGED <<inflight, running, registry, pump, task, leaving, forsaken>>
    BY <1>3 DEF Connect, vars, queueVars, loopVars, consumerVars, handlerVars
  <2>2. StaysLive
    BY <1>0, <2>1, TypedFacts DEF StaysLive, Live
  <2> QED
    BY <2>1, <2>2, QuietFacts, StillCalm DEF SlotStep
<1>4. CASE DropEnds
  <2>1. /\ running = "idle" /\ leaving = {} /\ task' = None
        /\ UNCHANGED <<inflight, running, registry, connection, leaving, forsaken>>
    BY <1>4 DEF DropEnds, Idle, vars, queueVars, loopVars, consumerVars
  <2>2. HandlerCalm
    BY <2>1 DEF HandlerCalm, Sending, Consuming
  <2> QED
    BY <2>1, <2>2, SameStaysLive, StillCalm DEF SlotStep
<1> QED
  BY <1>1, <1>2, <1>3, <1>4 DEF SlotStep

LEMMA TickerSlotStep ==
    ASSUME Sound, \/ EngineLoop \/ RecoverReturns \/ RecoverRaises
                  \/ TickerTurn \/ PumpAll \/ TimePasses
    PROVE  SlotStep
<1>0. Typed /\ TypeOK /\ HandlerOK /\ Extends(registry)
  BY SameExtends DEF Sound, SlotInv, Typed
<1>1. CASE EngineLoop
  <2>1. CASE \/ \E m \in Ids : RecoverLease(m)
             \/ \E n \in Names : RecoverNextQueue(n)
    BY <1>1, <2>1 DEF EngineLoop, SlotStep, Recovers
  <2>2. UNCHANGED <<connection, registry, pump, task, leaving, forsaken>> /\ StaysLive
    BY <1>1, SameStaysLive DEF EngineLoop, dispatchVars, consumerVars, handlerVars
  <2>5. running # "idle" => HandlerCalm
    <3> SUFFICES ASSUME running # "idle" PROVE HandlerCalm
      OBVIOUS
    <3>1. CASE Consuming
      <4>1. task.connection_id \in Connections
        BY <1>0, <3>1, ConsumeTaskFacts
      <4> QED
        BY <1>0, <2>2, <3>1 DEF HandlerCalm, HandlerOK, Sending, Dropping, Consuming, Idle,
                                Registered
    <3>2. CASE ~Consuming
      BY <1>0, <2>2, <3>2 DEF HandlerCalm, HandlerOK, Sending, Dropping, Consuming, Idle
    <3> QED
      BY <3>1, <3>2
  <2>3. CASE \/ \E e \in delayed : ReleaseDelayed(e)
             \/ ReleaseEnd
             \/ TimeoutEnd
    <3>1. running \in {"release", "timeout"} /\ UNCHANGED inflight
          /\ running' \in {"release", "timeout", "idle"}
      BY <2>3 DEF ReleaseDelayed, ReleaseEnd, TimeoutEnd, queueVars, loopVars
    <3> QED
      BY <2>2, <2>5, <3>1, StillCalm DEF SlotStep
  <2>4. CASE \E e \in visibility_heap : TimeoutInflight(e)
    <3> PICK e \in visibility_heap : TimeoutInflight(e)
      BY <2>4
    <3>1. running = "timeout" /\ running' = running
      BY DEF TimeoutInflight, loopVars
    <3>2. e.queue \in Names /\ e.id \in Ids
      BY <1>0 DEF TypeOK, HeapEntry
    <3>3. Shrinks
      <4>1. CASE EndLease(e.queue, e.id)
        <5>1. inflight' = [inflight EXCEPT ![e.queue][e.id] = None]
          BY <4>1, EndLeaseEffect
        <5> QED
          BY <1>0, <3>2, <5>1 DEF TypeOK, Shrinks
      <4>2. CASE UNCHANGED <<queueVars, attempts, by_id, delayed>>
        BY <4>2 DEF queueVars, Shrinks
      <4> QED
        BY <4>1, <4>2 DEF TimeoutInflight
    <3> QED
      BY <1>0, <2>2, <2>5, <3>1, <3>3 DEF SlotStep, Calm
  <2> QED
    BY <1>1, <2>1, <2>3, <2>4 DEF EngineLoop
<1>2. CASE RecoverReturns \/ RecoverRaises
  BY <1>2 DEF SlotStep, Recovers
<1>3. CASE TickerTurn
  <2>1. /\ Quiet /\ running' \in {"idle", "release"} /\ task' = [op |-> "pump_all"]
        /\ UNCHANGED <<inflight, registry, connection, leaving, forsaken>>
    BY <1>3 DEF TickerTurn, Tick, vars, queueVars, loopVars, consumerVars, Quiet, Idle
  <2>2. running # "recover" /\ running' # "recover" /\ HandlerCalm
    BY <2>1, QuietFacts DEF HandlerCalm, Sending, Consuming
  <2> QED
    BY <2>1, <2>2, SameStaysLive, StillCalm DEF SlotStep
<1>4. CASE PumpAll
  <2>1. /\ running = "idle" /\ task.op = "pump_all" /\ task' = None
        /\ UNCHANGED <<inflight, running, registry, connection, leaving, forsaken>>
    BY <1>4 DEF PumpAll, vars, queueVars, loopVars, consumerVars, Idle
  <2>2. HandlerCalm
    BY <1>0, <2>1 DEF HandlerCalm, HandlerOK, Sending, Consuming, Dropping
  <2> QED
    BY <2>1, <2>2, SameStaysLive, StillCalm DEF SlotStep
<1>5. CASE TimePasses
  <2>1. /\ Quiet /\ AdvanceTime
        /\ UNCHANGED <<running, connection, registry, pump, task, leaving, forsaken>>
    BY <1>5 DEF TimePasses, AdvanceTime, loopVars, dispatchVars, consumerVars, handlerVars
  <2>2. Shrinks
    <3>1. \A x \in InflightRecord : Sooner(x).consumer_id = x.consumer_id
      BY DEF Sooner, InflightRecord
    <3>2. \A n \in Names, m \in Ids :
             inflight'[n][m] = IF inflight[n][m] = None THEN None ELSE Sooner(inflight[n][m])
      BY <2>1 DEF AdvanceTime
    <3> QED
      BY <1>0, <3>1, <3>2 DEF TypeOK, Shrinks
  <2> QED
    BY <1>0, <2>1, <2>2, QuietFacts, SameStaysLive DEF SlotStep, Calm
<1> QED
  BY <1>1, <1>2, <1>3, <1>4, <1>5

LEMMA StepIsSlotStep ==
    ASSUME Sound, [DispatchNext]_allVars
    PROVE  SlotStep
<1>1. CASE Commands
  BY <1>1, QueueSlotStep, PublishSlotStep, SettleSlotStep, ConsumeSlotStep, GetNewSlotStep,
     GetSlotStep, QosSlotStep, LeavingSlotStep DEF Commands
<1>2. CASE HandlerStep
  BY <1>2, PumpSlotStep, SendSlotStep, PublishSlotStep, ConsumingSlotStep, LeavingSlotStep,
     TickerSlotStep DEF HandlerStep
<1>3. CASE TickerTurn \/ TimePasses
  BY <1>3, TickerSlotStep
<1>4. CASE UNCHANGED allVars
  BY <1>4 DEF SlotStep
<1> QED
  BY <1>1, <1>2, <1>3, <1>4 DEF DispatchNext

LEMMA SlotStepKeeps ==
    ASSUME Sound, Typed', SlotStep
    PROVE  SlotInv'
<1>0. Typed /\ Placed /\ SlotInv
  BY DEF Sound
<1>1. CASE UNCHANGED allVars
  BY <1>0, <1>1 DEF allVars, vars, queueVars, loopVars, dispatchVars, consumerVars, handlerVars,
     SlotInv, RecoveryOK, HandlerOK, Sending, Consuming, Dropping, Idle, Owned, SlotOK, Attached,
     LeasesOf, Registered
<1> QED
  BY <1>0, <1>1, CalmKeeps, SettlesKeep, TakesKeep, CancelsKeep, DropKeeps, RecoversKeep,
     RaisesKeep DEF SlotStep

LEMMA AlwaysSound == DispatchSpec => []Sound
<1>1. DispatchInit => SlotInv
  <2> SUFFICES ASSUME DispatchInit PROVE SlotInv
    OBVIOUS
  <2>1. /\ queues = {} /\ running = "idle" /\ leaving = {} /\ task = None
        /\ \A c \in Consumers : registry[c] = None
        /\ \A n \in Names, m \in Ids : inflight[n][m] = None
    BY DEF DispatchInit, Init, NoLeases
  <2> QED
    BY <2>1 DEF SlotInv, RecoveryOK, HandlerOK, Sending, Consuming, Owned, SlotOK, Attached,
                Registered
<1>2. Typed /\ Typed' /\ OneHome /\ Placed /\ SlotInv /\ [DispatchNext]_allVars => SlotInv'
  BY StepIsSlotStep, SlotStepKeeps DEF Sound
<1>3. Typed /\ OneHome /\ Placed /\ SlotInv => Sound
  BY DEF Sound
<1> QED
  BY <1>1, <1>2, <1>3, AlwaysTyped, BrokerImplementsEngine, IndexAgrees, AlwaysPlaced, PTL
     DEF DispatchSpec


\* SlotsCoverLeases: a registered consumer's unacked_count is at least the
\* number of deliveries it holds, for any number of consumers, queues and
\* messages, unless recover_consumer raised in a cancel of it.
THEOREM SlotsCover == DispatchSpec => []SlotsCoverLeases
<1>1. Sound => SlotsCoverLeases
  BY DEF Sound, SlotInv, SlotOK, Registered, SlotsCoverLeases
<1> QED
  BY <1>1, AlwaysSound, PTL

\* NoOrphanLeases: between two handlers every delivery is held by a consumer
\* that is registered on an open connection, so cancel and disconnect give
\* everything back, but for what a cancel that raised did not come to and what
\* is registered by the commands handled after a slow connection was dropped.
THEOREM NobodyGoneHolds == DispatchSpec => []NoOrphanLeases
<1>1. Sound => NoOrphanLeases
  <2> SUFFICES ASSUME Sound, Quiet, NEW n \in Names, NEW m \in Ids, inflight[n][m] # None,
                      inflight[n][m].consumer_id \notin forsaken
               PROVE  LET c == inflight[n][m].consumer_id
                      IN  registry[c] # None /\ connection[registry[c].connection_id] \in Live
    BY DEF NoOrphanLeases, Leased, Live
  <2>1. inflight[n][m].consumer_id \in Consumers
    BY DEF Sound, Typed, TypeOK, InflightRecord
  <2>2. Registered(inflight[n][m].consumer_id)
    BY QuietFacts DEF Sound, SlotInv, Owned
  <2> QED
    BY <2>1, <2>2, QuietFacts DEF Sound, SlotInv, Attached, Registered
<1> QED
  BY <1>1, AlwaysSound, PTL

\* PrefetchRespected: no step takes a consumer with a prefetch above it, unless
\* recover_consumer raised in a cancel of that consumer.
THEOREM PrefetchHolds == DispatchSpec => PrefetchRespected
<1> DEFINE Gains(c) == /\ registry[c] # None /\ registry'[c] # None
                       /\ registry'[c].prefetch_count > 0
                       /\ LeasesOf(c)' \ LeasesOf(c) # {}
           Within(c) == Cardinality(LeasesOf(c)') <= registry'[c].prefetch_count
<1>1. ASSUME Sound, Typed', SlotStep, NEW x \in Consumers \ forsaken, Gains(x)
      PROVE  Within(x)
  <2>0. Typed /\ SlotInv
    BY <1>1 DEF Sound
  <2>1. \E n \in Names, m \in Ids, c \in Consumers, r \in Registries : Takes(n, m, c, r)
    <3>1. PICK n \in Names, m \in Ids :
             /\ inflight'[n][m] # None /\ inflight'[n][m].consumer_id = x
             /\ ~ (inflight[n][m] # None /\ inflight[n][m].consumer_id = x)
      BY <1>1 DEF LeasesOf
    <3>2. /\ inflight \in [Names -> [Ids -> InflightRecord \cup {None}]]
          /\ queues \subseteq Names /\ TypeOK
      BY <2>0, TypedFacts DEF Typed, TypeOK
    <3>3. ~Calm
      BY <3>1 DEF Calm, Shrinks
    <3>4. \A y \in Names, i \in Ids, c \in Consumers : ~Settles(y, i, c)
      BY <3>1, <3>2 DEF Settles
    <3>5. /\ ~ \E c \in Consumers : Cancels(c)
          /\ ~ \E k \in Connections, slow \in BOOLEAN : Drop(k, slow)
          /\ ~ RecoverRaises
          /\ ~ UNCHANGED allVars
      BY <3>1 DEF Cancels, Cancel, RecoverConsumer, Drop, RecoverRaises, RecoverEnd, allVars, vars,
                  queueVars
    <3>6. ~Recovers
      <4>1. ASSUME NEW i \in Ids, RecoverLease(i) PROVE FALSE
        <5>1. inflight' = [inflight EXCEPT ![cursor.queue][i] = None]
          BY <4>1 DEF RecoverLease, EndLease
        <5>2. cursor.queue \in Names
          BY <3>2, <4>1 DEF RecoverLease, HeldHere, TypeOK, Cursor
        <5> QED
          BY <3>1, <3>2, <5>1, <5>2
      <4> QED
        BY <3>1, <4>1 DEF Recovers, RecoverNextQueue, RecoverReturns, RecoverEnd, queueVars
    <3> QED
      BY <1>1, <3>3, <3>4, <3>5, <3>6 DEF SlotStep
  <2>2. PICK n \in Names, m \in Ids, c \in Consumers, r \in Registries : Takes(n, m, c, r)
    BY <2>1
  <2>3. r[x] # None
    BY <1>1, <2>2 DEF Takes, Extends, Registered
  <2>4. /\ Cardinality(LeasesOf(x)') \in Nat
        /\ Cardinality(LeasesOf(x)') <= registry'[x].unacked_count
        /\ x = c
    BY <1>1, <2>0, <2>2, <2>3, TakesCounts
  <2>5. /\ registry'[x].unacked_count = r[x].unacked_count + 1
        /\ registry'[x].prefetch_count = r[x].prefetch_count
        /\ r[x].unacked_count \in Nat /\ r[x].prefetch_count \in Nat
    BY <2>2, <2>3, <2>4 DEF Takes, Registries, on_deliver, Consumer
  <2>6. r[x].unacked_count < r[x].prefetch_count
    BY <1>1, <2>2, <2>4, <2>5 DEF Takes, can_deliver
  <2> QED
    BY <2>4, <2>5, <2>6
<1>2. Sound /\ Typed' /\ [DispatchNext]_allVars =>
         [\A c \in Consumers \ forsaken : Gains(c) => Within(c)]_allVars
  BY <1>1, StepIsSlotStep
<1> QED
  BY <1>2, AlwaysSound, AlwaysTyped, PTL DEF DispatchSpec, PrefetchRespected


=============================================================================
