------------------------------ MODULE Dispatch ------------------------------
(***************************************************************************)
(* Delivery to connected consumers: ConsumerManager (core/consumers.py)    *)
(* with its QoS accounting (core/qos.py), the queue commands and           *)
(* pump_queue of broker/handler.py, and the connections, the ticker and    *)
(* _drop of broker/server.py, on top of the queue engine.                  *)
(*                                                                         *)
(* A command handler runs to its end before the event loop turns to        *)
(* anything else.  Its engine calls are separate steps here, and `task',   *)
(* `pump' and `leaving' hold what the handler still has to do: nothing     *)
(* else happens until they are empty (Quiet).  Every step is a step of     *)
(* QueueEngine or leaves the engine alone.                                 *)
(*                                                                         *)
(* Publishing goes to a queue through the default exchange; the other      *)
(* exchanges are left out here.  Commands that fail change nothing and     *)
(* are stuttering steps.  A consumer identifier is used by one consumer    *)
(* at a time, as the identifiers handed out by the broker are.             *)
(*                                                                         *)
(* A connection that the server dropped while its read loop was alive has  *)
(* one more command handled, and any number if the drop was cut short by   *)
(* an exception (Server shows both); `connection' keeps track of that.     *)
(***************************************************************************)
EXTENDS QueueEngine

CONSTANTS
    Connections,     \* connection identifiers, a fresh one per connection
    SlowConnections, \* connections whose outbound buffer may be full at a delivery
    SlowSubscribers, \* and at a channel's message, for which they are dropped
    Targets,         \* queue names in DECLARE_QUEUE, PUBLISH and GET
    QueueLists,      \* queue arguments of CONSUME: sets of queue names
    Prefetches,      \* prefetch arguments of CONSUME and QOS
    Deletable,       \* queues that DELETE_QUEUE is called for
    RRPeriod,        \* rr_index is kept modulo this
    UnackedBound     \* bound: no DLQ_REQUEUE once a consumer has so many slots taken

Consumer == [connection_id : Connections, queues : SUBSET Names,
             prefetch_count : Nat, unacked_count : Nat, via : {"CONSUME", "GET"}]

Task == [op : {"enqueue"}, queue : Names, id : Ids]
        \cup [op : {"send"}, queue : Names, id : Ids, consumer_id : Consumers]
        \cup [op : {"consume"}, connection_id : Connections, consumer_id : Consumers,
               queues : SUBSET Names, prefetch_count : Nat]
        \cup [op : {"drop"}, connection_id : Connections]
        \cup [op : {"pump_all"}]

\* "new" is not connected yet; "closed" has left the tables and its read loop
\* has ended; "dropped" has left the tables under a read loop that may still
\* handle one command, "late" after it has; "cut" has left the tables in a drop
\* that did not come to closing it.
States == {"new", "open", "closed", "dropped", "late", "cut"}

ASSUME DispatchAssumption ==
    /\ SlowConnections \subseteq Connections
    /\ SlowSubscribers \subseteq Connections
    /\ Targets \subseteq Names
    /\ QueueLists \subseteq SUBSET Names
    /\ Prefetches \subseteq Nat
    /\ Deletable \subseteq Names
    /\ UnackedBound \in Nat
    /\ None \notin Consumer
    /\ None \notin Task

\* A queue may be declared without max_length, a message published without delay.
ASSUME ArgumentsAssumption == None \in MaxLengths /\ 0 \in EnqueueDelays

\* rr_index is only used modulo the number of consumers of the queue.
ASSUME RRAssumption ==
    /\ RRPeriod \in Nat \ {0}
    /\ \A k \in 1..Cardinality(Consumers) : RRPeriod % k = 0

VARIABLES
    connection,    \* where each connection is: one of States
    registry,      \* _consumers: a Consumer or None
    consumer_ids,  \* consumer_ids of each queue
    rr_index,      \* rr_index of each queue
    bound,         \* queues bound to the default exchange
    pump,          \* queues the running handler still has to pump
    task,          \* what it does before that, or None
    leaving,       \* consumers disconnect_connection still has to cancel
    forsaken       \* history: consumers whose cancel failed, or was then skipped

handlerVars == <<pump, task, leaving>>
consumerVars == <<registry, consumer_ids, rr_index>>
dispatchVars == <<connection, consumerVars, bound, handlerVars, forsaken>>
allVars == <<vars, dispatchVars>>

Quiet == Idle /\ pump = {} /\ task = None /\ leaving = {}

\* A command of connection k is handled.
By(k) ==
    /\ connection[k] \in {"open", "dropped", "cut"}
    /\ connection' = [connection EXCEPT ![k] = IF @ = "dropped" THEN "late" ELSE @]

Asked == \E k \in Connections : By(k)

DispatchInit ==
    /\ Init
    /\ connection = [k \in Connections |-> "new"]
    /\ registry = [c \in Consumers |-> None]
    /\ consumer_ids = [n \in Names |-> << >>]
    /\ rr_index = [n \in Names |-> 0]
    /\ bound = {}
    /\ pump = {}
    /\ task = None
    /\ leaving = {}
    /\ forsaken = {}

-----------------------------------------------------------------------------
(* QoS and the round robin.                                                *)

\* Mutant: one slot too many.
can_deliver_late(q) == q.prefetch_count <= 0 \/ q.unacked_count <= q.prefetch_count

can_deliver(q) == q.prefetch_count <= 0 \/ q.unacked_count < q.prefetch_count

\* Mutant: the slots are counted down instead of up.
on_deliver_down(q) == [q EXCEPT !.unacked_count = @ - 1]

on_deliver(q) == [q EXCEPT !.unacked_count = @ + 1]

\* Mutant: one acknowledgement gives all slots back.
on_ack_all(q) == [q EXCEPT !.unacked_count = 0]

on_ack(q) == [q EXCEPT !.unacked_count = IF @ > 0 THEN @ - 1 ELSE 0]

\* ConsumerManager.on_ack: a consumer that has gone is passed over.
OnAck(c) == registry' = IF registry[c] = None THEN registry
                        ELSE [registry EXCEPT ![c] = on_ack(@)]

\* try_reserve asks the consumers of a queue in turn, from rr_index on, for the
\* first that may take a message.
Nth(ids, i, j) == ids[((i + j) % Len(ids)) + 1]

MayTake(ids, reg, i, j) ==
    LET c == Nth(ids, i, j) IN reg[c] # None /\ can_deliver(reg[c])

\* The offset of that consumer, or Len(ids) if there is none.
Offset(ids, reg, i) ==
    IF \E j \in 0..(Len(ids) - 1) : MayTake(ids, reg, i, j)
    THEN CHOOSE j \in 0..(Len(ids) - 1) :
            /\ MayTake(ids, reg, i, j)
            /\ \A l \in 0..(j - 1) : ~MayTake(ids, reg, i, l)
    ELSE Len(ids)

\* try_reserve with a deliverable message: it is leased and a slot is taken.
Take(n, c, reg) ==
    /\ Reserve(n, c)
    /\ registry' = [reg EXCEPT ![c] = on_deliver(@)]

\* reserve() found nothing: stale ready entries are gone.
TakeNothing(n) ==
    /\ \A k \in DOMAIN ready[n] : ~Deliverable(n, k)
    /\ IF ready[n] # << >> THEN ReserveNothing(n) ELSE UNCHANGED vars

Turn(n, steps) == rr_index' = [rr_index EXCEPT ![n] = (@ + steps) % RRPeriod]

-----------------------------------------------------------------------------
(* pump_queue: lease and send until the queue has nothing to give, nobody  *)
(* may take a message, or a send fails.                                    *)

\* The consumer whose turn it is takes the next message.
PumpTake(n) ==
    LET ids == consumer_ids[n]
        j   == Offset(ids, registry, rr_index[n])
    IN  /\ Idle /\ task = None
        /\ n \in pump \cap queues
        /\ j < Len(ids)
        /\ Take(n, Nth(ids, rr_index[n], j), registry)
        /\ Turn(n, j + 1)
        /\ \E m \in Leased(n)' \ Leased(n) :
              task' = [op |-> "send", queue |-> n, id |-> m,
                       consumer_id |-> Nth(ids, rr_index[n], j)]
        /\ UNCHANGED <<connection, consumer_ids, bound, pump, leaving, forsaken>>

\* The queue is gone, has no consumer that may take a message, or no message.
PumpDone(n) ==
    LET ids == consumer_ids[n]
        j   == Offset(ids, registry, rr_index[n])
    IN  /\ Idle /\ task = None
        /\ n \in pump
        /\ pump' = pump \ {n}
        /\ \/ /\ n \notin queues \/ j = Len(ids)
              /\ Turn(n, j)
              /\ UNCHANGED vars
           \/ /\ n \in queues /\ j < Len(ids)
              /\ TakeNothing(n)
              /\ Turn(n, j + 1)
        /\ UNCHANGED <<connection, registry, consumer_ids, bound, task, leaving, forsaken>>

Sending == task # None /\ task.op = "send"

\* The frame is in the outbound buffer of the consumer's connection.
SendOk ==
    /\ Idle /\ Sending
    /\ connection[registry[task.consumer_id].connection_id] = "open"
    /\ task' = None
    /\ UNCHANGED <<vars, connection, consumerVars, bound, pump, leaving, forsaken>>

\* No sender, or its buffer is full: nack, and leave the queue.
SendFail ==
    /\ Idle /\ Sending
    /\ LET k == registry[task.consumer_id].connection_id
       IN  connection[k] # "open" \/ k \in SlowConnections
    /\ Nack(task.id, TRUE)
    /\ OnAck(task.consumer_id)
    /\ pump' = pump \ {task.queue}
    /\ task' = None
    /\ UNCHANGED <<connection, consumer_ids, rr_index, bound, leaving, forsaken>>

-----------------------------------------------------------------------------
(* Commands on queues and messages.                                        *)

\* DECLARE_QUEUE; a queue that exists is bound again.
CmdDeclareQueue(n, l) ==
    /\ Quiet /\ Asked
    /\ IF n \in queues THEN UNCHANGED vars ELSE DeclareQueue(n, l)
    /\ bound' = bound \cup {n}
    /\ UNCHANGED <<consumerVars, handlerVars, forsaken>>

\* DELETE_QUEUE: the queue's list of consumers goes with it; the consumers
\* stay registered with the slots they have taken.
CmdDeleteQueue(n) ==
    LET gone == {n} \cup (IF dead_letter(n) THEN {dlq_name(n)} ELSE {})
    IN  /\ Quiet /\ Asked
        /\ n \in Deletable
        /\ DeleteQueue(n)
        /\ consumer_ids' = [x \in Names |-> IF x \in gone THEN << >> ELSE consumer_ids[x]]
        /\ rr_index' = [x \in Names |-> IF x \in gone THEN 0 ELSE rr_index[x]]
        /\ UNCHANGED <<registry, bound, handlerVars, forsaken>>

\* PUBLISH to a queue that exists; NOT_FOUND unless it is bound.
CmdPublish(n, m) ==
    /\ Quiet /\ Asked
    /\ n \in bound
    /\ Enqueue(n, m, 0)
    /\ pump' = {n}
    /\ UNCHANGED <<consumerVars, bound, task, leaving, forsaken>>

\* PUBLISH to a queue that does not: it is declared and bound first.
CmdPublishNew(n, m) ==
    /\ Quiet /\ Asked
    /\ m \notin used
    /\ DeclareQueue(n, None)
    /\ bound' = bound \cup {n}
    /\ task' = [op |-> "enqueue", queue |-> n, id |-> m]
    /\ UNCHANGED <<consumerVars, pump, leaving, forsaken>>

PublishRest ==
    /\ Idle /\ task # None /\ task.op = "enqueue"
    /\ IF Full(task.queue)
       THEN UNCHANGED <<vars, pump>>
       ELSE Enqueue(task.queue, task.id, 0) /\ pump' = {task.queue}
    /\ task' = None
    /\ UNCHANGED <<connection, consumerVars, bound, leaving, forsaken>>

\* The queues that cmd_ack and cmd_nack pump afterwards.
QueuesOf(c) == IF registry[c] = None THEN {} ELSE registry[c].queues

inflight_consumer(m) == inflight[by_id[m]][m].consumer_id

\* ACK and NACK, from whichever connection: only the message id is looked at,
\* and the slot is given back to the consumer that has the lease now.
CmdAck(m) ==
    /\ Quiet /\ Asked
    /\ Ack(m)
    /\ OnAck(inflight_consumer(m))
    /\ pump' = QueuesOf(inflight_consumer(m))
    /\ UNCHANGED <<consumer_ids, rr_index, bound, task, leaving, forsaken>>

CmdNack(m, requeue) ==
    /\ Quiet /\ Asked
    /\ Nack(m, requeue)
    /\ OnAck(inflight_consumer(m))
    /\ pump' = QueuesOf(inflight_consumer(m))
    /\ UNCHANGED <<consumer_ids, rr_index, bound, task, leaving, forsaken>>

\* DLQ_REQUEUE pumps the queue of the name it was given; if the origin queue
\* is full it fails, and pumps nothing.
CmdDlqRequeue(n, m) ==
    /\ Quiet /\ Asked
    /\ \A c \in Consumers : registry[c] # None => registry[c].unacked_count < UnackedBound
    /\ pump' = IF Full(origin_queue(n)) THEN {} ELSE {n}
    /\ DlqRequeue(n, m)
    /\ UNCHANGED <<consumerVars, bound, task, leaving, forsaken>>

-----------------------------------------------------------------------------
(* Commands on consumers.                                                  *)

Appended(ids, qs, c) == [n \in Names |-> IF n \in qs THEN Append(ids[n], c) ELSE ids[n]]

\* register
Register(c, k, qs, p, via) ==
    [registry EXCEPT ![c] = [connection_id |-> k, queues |-> qs, prefetch_count |-> p,
                             unacked_count |-> 0, via |-> via]]

\* CONSUME: declare and bind each queue that is missing, register, then pump
\* each queue.
CmdConsume(k, c, qs, p) ==
    /\ Quiet /\ By(k)
    /\ registry[c] = None
    /\ task' = [op |-> "consume", connection_id |-> k, consumer_id |-> c,
                queues |-> qs, prefetch_count |-> p]
    /\ UNCHANGED <<vars, consumerVars, bound, pump, leaving, forsaken>>

Consuming == task # None /\ task.op = "consume"

ConsumeDeclare(n) ==
    /\ Idle /\ Consuming
    /\ n \in task.queues
    /\ DeclareQueue(n, None)
    /\ bound' = bound \cup {n}
    /\ UNCHANGED <<connection, consumerVars, handlerVars, forsaken>>

ConsumeRest ==
    /\ Idle /\ Consuming
    /\ task.queues \subseteq queues
    /\ registry' = Register(task.consumer_id, task.connection_id, task.queues,
                            task.prefetch_count, "CONSUME")
    /\ consumer_ids' = Appended(consumer_ids, task.queues, task.consumer_id)
    /\ pump' = task.queues
    /\ task' = None
    /\ UNCHANGED <<vars, connection, rr_index, bound, leaving, forsaken>>

\* The consumer "get-<connection>-<queue>" that GET keeps for a connection.
GetConsumer(c, k, n) ==
    /\ registry[c] # None
    /\ registry[c].connection_id = k
    /\ registry[c].via = "GET"
    /\ n \in registry[c].queues

NewGetConsumer(c, k, n) ==
    /\ registry[c] = None
    /\ \A x \in Consumers : ~GetConsumer(x, k, n)

\* The first GET of a connection from a queue that is missing: the queue is
\* declared, though not bound, and the reply is empty.
CmdGetNew(k, c, n, p) ==
    /\ Quiet /\ By(k)
    /\ NewGetConsumer(c, k, n)
    /\ DeclareQueue(n, None)
    /\ registry' = Register(c, k, {n}, p, "GET")
    /\ consumer_ids' = Appended(consumer_ids, {n}, c)
    /\ Turn(n, 1)
    /\ UNCHANGED <<bound, handlerVars, forsaken>>

\* GET from a queue that exists.  The first one registers a consumer.  Then
\* the consumer whose turn it is takes the message, whoever it belongs to,
\* and the message goes into the reply.
CmdGet(k, c, n, p) ==
    LET first == registry[c] = None
        reg == IF first THEN Register(c, k, {n}, p, "GET")
               ELSE IF p # 0 THEN [registry EXCEPT ![c].prefetch_count = p]
               ELSE registry
        ids == IF first THEN Appended(consumer_ids, {n}, c) ELSE consumer_ids
        j   == Offset(ids[n], reg, rr_index[n])
    IN  /\ Quiet /\ By(k)
        /\ n \in queues
        /\ NewGetConsumer(c, k, n) \/ GetConsumer(c, k, n)
        /\ consumer_ids' = ids
        /\ \/ /\ j = Len(ids[n])
              /\ Turn(n, j)
              /\ registry' = reg
              /\ UNCHANGED vars
           \/ /\ j < Len(ids[n])
              /\ Turn(n, j + 1)
              /\ \/ Take(n, Nth(ids[n], rr_index[n], j), reg)
                 \/ TakeNothing(n) /\ registry' = reg
        /\ UNCHANGED <<bound, handlerVars, forsaken>>

\* QOS for one consumer, and for all consumers of a connection.
CmdQosConsumer(c, p) ==
    /\ Quiet /\ Asked
    /\ registry[c] # None
    /\ registry' = [registry EXCEPT ![c].prefetch_count = p]
    /\ UNCHANGED <<vars, consumer_ids, rr_index, bound, handlerVars, forsaken>>

CmdQosConnection(k, p) ==
    /\ Quiet /\ By(k)
    /\ registry' = [c \in Consumers |->
                      IF registry[c] # None /\ registry[c].connection_id = k
                      THEN [registry[c] EXCEPT !.prefetch_count = p] ELSE registry[c]]
    /\ UNCHANGED <<vars, consumer_ids, rr_index, bound, handlerVars, forsaken>>

\* Mutant: the consumer goes without giving its deliveries back.
CancelWithoutRecovery(c) ==
    /\ registry[c] # None
    /\ registry' = [registry EXCEPT ![c] = None]
    /\ consumer_ids' = [n \in Names |-> Without(consumer_ids[n], c)]
    /\ UNCHANGED vars

\* ConsumerManager.cancel, up to the loop of recover_consumer.
Cancel(c) ==
    /\ registry[c] # None
    /\ registry' = [registry EXCEPT ![c] = None]
    /\ consumer_ids' = [n \in Names |->
                          IF n \in registry[c].queues
                          THEN Without(consumer_ids[n], c)
                          ELSE consumer_ids[n]]
    /\ IF \E n \in queues : \E m \in Leased(n) : inflight[n][m].consumer_id = c
       THEN RecoverConsumer(c)
       ELSE UNCHANGED vars

CmdCancel(c) ==
    /\ Quiet /\ Asked
    /\ Cancel(c)
    /\ UNCHANGED <<rr_index, bound, handlerVars, forsaken>>

-----------------------------------------------------------------------------
(* Connections and the ticker.                                             *)

Connect(k) ==
    /\ Quiet
    /\ connection[k] = "new"
    /\ connection' = [connection EXCEPT ![k] = "open"]
    /\ UNCHANGED <<vars, consumerVars, bound, handlerVars, forsaken>>

\* _drop: the sender goes, then each consumer of the connection is cancelled.
\* It is called when the read loop has ended, and by _disconnect_slow.
Drop(k, slow) ==
    /\ Quiet
    /\ connection[k] = "open"
    /\ slow => k \in SlowSubscribers
    /\ connection' = [connection EXCEPT ![k] = IF slow THEN "dropped" ELSE "closed"]
    /\ leaving' = {c \in Consumers : registry[c] # None /\ registry[c].connection_id = k}
    /\ task' = [op |-> "drop", connection_id |-> k]
    /\ UNCHANGED <<vars, consumerVars, bound, pump, forsaken>>

Dropping == task # None /\ task.op = "drop"

Leave(c) ==
    /\ Idle
    /\ c \in leaving
    /\ leaving' = leaving \ {c}
    /\ Cancel(c)
    /\ UNCHANGED <<connection, rr_index, bound, pump, task, forsaken>>

\* The connection has none left and is closed.
DropEnds ==
    /\ Idle /\ Dropping /\ leaving = {}
    /\ task' = None
    /\ UNCHANGED <<vars, connection, consumerVars, bound, pump, leaving, forsaken>>

\* The loops of the engine go on.
EngineLoop ==
    /\ \/ \E m \in Ids : RecoverLease(m)
       \/ \E n \in Names : RecoverNextQueue(n)
       \/ \E e \in delayed : ReleaseDelayed(e)
       \/ ReleaseEnd
       \/ \E e \in visibility_heap : TimeoutInflight(e)
       \/ TimeoutEnd
    /\ UNCHANGED dispatchVars

RecoverReturns ==
    /\ RecoverEnd
    /\ queues = cursor.keys
    /\ UNCHANGED dispatchVars

\* recover_consumer raises.  The consumer is not registered any more.  A CANCEL
\* fails; in a _drop the consumers that are still to come stay registered, and
\* the connection is not closed.
RecoverRaises ==
    /\ RecoverEnd
    /\ queues # cursor.keys
    /\ forsaken' = forsaken \cup {cursor.consumer_id} \cup leaving
    /\ leaving' = {}
    /\ task' = None
    /\ connection' = [k \in Connections |->
                         IF Dropping /\ task.connection_id = k /\ connection[k] = "dropped"
                         THEN "cut" ELSE connection[k]]
    /\ UNCHANGED <<consumerVars, bound, pump>>

\* _ticker: tick(), then pump every queue.  Without anything due and without
\* consumers a turn changes nothing.
TickerTurn ==
    /\ Quiet
    /\ \/ Tick
       \/ /\ Due(delayed) \cup Due(visibility_heap) = {}
          /\ \E n \in queues : consumer_ids[n] # << >>
          /\ UNCHANGED vars
    /\ task' = [op |-> "pump_all"]
    /\ UNCHANGED <<connection, consumerVars, bound, pump, leaving, forsaken>>

\* Mutant: the ticker leaves the pumping to the commands.
PumpNone ==
    /\ Idle /\ task # None /\ task.op = "pump_all"
    /\ task' = None
    /\ UNCHANGED <<vars, connection, consumerVars, bound, pump, leaving, forsaken>>

PumpAll ==
    /\ Idle /\ task # None /\ task.op = "pump_all"
    /\ pump' = queues
    /\ task' = None
    /\ UNCHANGED <<vars, connection, consumerVars, bound, leaving, forsaken>>

TimePasses ==
    /\ Quiet
    /\ AdvanceTime
    /\ UNCHANGED dispatchVars

-----------------------------------------------------------------------------
Commands ==
    \/ \E n \in Targets, l \in MaxLengths : CmdDeclareQueue(n, l)
    \/ \E n \in Names : CmdDeleteQueue(n)
    \/ \E n \in Targets, m \in Ids : CmdPublish(n, m) \/ CmdPublishNew(n, m)
    \/ \E m \in Ids : CmdAck(m)
    \/ \E m \in Ids, requeue \in BOOLEAN : CmdNack(m, requeue)
    \/ \E n \in Names, m \in Ids : CmdDlqRequeue(n, m)
    \/ \E k \in Connections, c \in Consumers, qs \in QueueLists, p \in Prefetches :
          CmdConsume(k, c, qs, p)
    \/ \E k \in Connections, c \in Consumers, n \in Targets, p \in Prefetches \cup {0} :
          CmdGetNew(k, c, n, p) \/ CmdGet(k, c, n, p)
    \/ \E c \in Consumers, p \in Prefetches : CmdQosConsumer(c, p)
    \/ \E k \in Connections, p \in Prefetches : CmdQosConnection(k, p)
    \/ \E c \in Consumers : CmdCancel(c)
    \/ \E k \in Connections : Connect(k) \/ \E slow \in BOOLEAN : Drop(k, slow)

HandlerStep ==
    \/ \E n \in Names : PumpTake(n) \/ PumpDone(n) \/ ConsumeDeclare(n)
    \/ SendOk
    \/ SendFail
    \/ PublishRest
    \/ ConsumeRest
    \/ PumpAll
    \/ \E c \in Consumers : Leave(c)
    \/ DropEnds
    \/ EngineLoop
    \/ RecoverReturns
    \/ RecoverRaises

DispatchNext == Commands \/ HandlerStep \/ TickerTurn \/ TimePasses

DispatchSpec == DispatchInit /\ [][DispatchNext]_allVars

-----------------------------------------------------------------------------
(* Fairness.  A handler that has begun runs to its end.  The clock runs,   *)
(* and the ticker task is woken every 50 ms whatever the clients do.       *)

BrokerFairness ==
    /\ WF_allVars(HandlerStep)
    /\ SF_allVars(TimePasses)
    /\ SF_allVars(TickerTurn)

\* Clients that acknowledge, some time, what they hold.
ClientFairness == \A m \in Ids : SF_allVars(CmdAck(m))

FairDispatchSpec == DispatchSpec /\ BrokerFairness

PromptClientSpec == FairDispatchSpec /\ ClientFairness

-----------------------------------------------------------------------------
(* Properties.                                                             *)

\* The registry, the round-robin lists and the handler state are well typed.
DispatchTypeOK ==
    /\ connection \in [Connections -> States]
    /\ registry \in [Consumers -> Consumer \cup {None}]
    /\ consumer_ids \in [Names -> Seq(Consumers)]
    /\ rr_index \in [Names -> 0..(RRPeriod - 1)]
    /\ bound \subseteq Names
    /\ pump \subseteq Names
    /\ task \in Task \cup {None}
    /\ leaving \subseteq Consumers
    /\ forsaken \subseteq Consumers

\* The deliveries a consumer holds, over all queues.
LeasesOf(c) == {l \in Names \X Ids :
                   inflight[l[1]][l[2]] # None /\ inflight[l[1]][l[2]].consumer_id = c}

\* A registered consumer has a slot taken for each delivery it holds: no
\* handler gives a slot back while the lease behind it is still there, in
\* whatever order acks, nacks, failed sends, timeouts and DLQ_REQUEUE come.
\* A consumer that a failed cancel left with its deliveries may register again
\* under its name, with no slot taken for them.
SlotsCoverLeases ==
    \A c \in Consumers \ forsaken :
        registry[c] # None => Cardinality(LeasesOf(c)) <= registry[c].unacked_count

\* A delivery never takes a consumer above its prefetch: whoever's command
\* caused it, a consumer with a prefetch that gains a lease holds at most that
\* many afterwards.
PrefetchRespected ==
    [][\A c \in Consumers \ forsaken :
          /\ registry[c] # None /\ registry'[c] # None
          /\ registry'[c].prefetch_count > 0
          /\ LeasesOf(c)' \ LeasesOf(c) # {}
          => Cardinality(LeasesOf(c)') <= registry'[c].prefetch_count]_allVars

\* Between two handlers every lease belongs to a consumer that is registered
\* on an open connection: cancel and _drop leave nothing in flight, so no
\* message waits out the visibility timeout of a consumer that has gone.  Two
\* residues are the code's own: what recover_consumer did not come to when it
\* raised, with all that its connection consumes afterwards if a slow drop was
\* cut short by it, and what one late command of a connection dropped as slow
\* has registered, which no drop looks at again.
NoOrphanLeases ==
    Quiet => \A n \in Names : \A m \in Leased(n) :
                LET c == inflight[n][m].consumer_id
                IN  \/ c \in forsaken
                    \/ /\ registry[c] # None
                       /\ connection[registry[c].connection_id] \in {"open", "late", "cut"}

\* The consumers on n that may take a message and can be sent one.
Able(n) == {c \in Consumers :
               /\ \E i \in DOMAIN consumer_ids[n] : consumer_ids[n][i] = c
               /\ registry[c] # None
               /\ can_deliver(registry[c])
               /\ connection[registry[c].connection_id] = "open"}

InReady(n, m) == \E i \in DOMAIN ready[n] : ready[n][i] = m /\ Deliverable(n, i)

\* No lost wake-up: a message that is ready, on a queue with a consumer that
\* has a free slot and a connection that takes frames, does not stay so.  QOS
\* and a DLQ_REQUEUE that names the DLQ make work for a queue they do not pump.
NoLostWakeup ==
    \A n \in Names, m \in Ids :
        (InReady(n, m) /\ Able(n) # {}) ~> ~(InReady(n, m) /\ Able(n) # {})

\* The consumers that are connected and consume from n, slots or not.
Connected(n) == {c \in Consumers :
               /\ \E i \in DOMAIN consumer_ids[n] : consumer_ids[n][i] = c
               /\ registry[c] # None
               /\ connection[registry[c].connection_id] = "open"}

\* At-least-once delivery, as README.md:70 promises it: with clients that
\* acknowledge what they hold, a message that is ready on a queue with a
\* connected consumer is delivered in the end.
AtLeastOnce ==
    \A n \in Names, m \in Ids :
        (InReady(n, m) /\ Connected(n) # {}) ~> ~(InReady(n, m) /\ Connected(n) # {})

=============================================================================
