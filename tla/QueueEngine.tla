---------------------------- MODULE QueueEngine ----------------------------
(***************************************************************************)
(* The durable queue engine of OneOpen Broker: QueueEngine of              *)
(* core/queue.py with the helpers of core/delayed.py, core/dlq.py,         *)
(* core/retry.py and core/inflight.py.                                     *)
(*                                                                         *)
(* All engine state is owned by one asyncio event loop, so an engine call  *)
(* never interleaves with another one.  A call without a loop is one       *)
(* action.  The two calls that loop over entries, tick() and               *)
(* recover_consumer(), take one step per entry, and `running' keeps every  *)
(* other action out until the loop is over.  A call that returns without   *)
(* having changed anything (NOT_FOUND, ALREADY_ACKED, QUEUE_FULL, ...) is  *)
(* a stuttering step.                                                      *)
(*                                                                         *)
(* Time is the time that is left: a heap entry and a lease hold the number *)
(* of time units until they are due, AdvanceTime counts them down to 0,    *)
(* and 0 stands for every deadline that has passed.                        *)
(*                                                                         *)
(* Left out: the counters of QueueStats, and dlq_ids, which only the       *)
(* listing of dlq_info reads.                                              *)
(***************************************************************************)
EXTENDS Integers, FiniteSets, Sequences

CONSTANTS
    Queues,             \* names of ordinary queues
    Ids,                \* message identifiers
    Consumers,          \* consumer identifiers
    None,               \* Python's None
    MaxAttempts,        \* Message.max_attempts, fixed at publication
    Priority,           \* Message.priority, fixed at publication
    MaxLengths,         \* max_length arguments of declare_queue (None: absent)
    DefaultMaxLength,   \* QueueEngine.max_length
    VisibilityTimeout,  \* QueueSpec.visibility_timeout
    RetryBackoff,       \* "fixed" or "exponential"
    RetryBaseDelay,     \* retry_base_delay
    EnqueueDelays,      \* available_at of a new message, as time left (0: none)
    RecentAckLimit      \* recent_ack_limit

-----------------------------------------------------------------------------
(* Queue names: a queue q and its dead-letter queue "q.DLQ".               *)

Names == [base : Queues, kind : {"queue", "dlq"}]

is_dlq(n) == n.kind = "dlq"

dlq_name(n) == [n EXCEPT !.kind = "dlq"]

origin_queue(n) == [n EXCEPT !.kind = "queue"]

(* An InflightRecord: who holds the delivery, and until when.              *)
InflightRecord == [consumer_id : Consumers, left : Nat]

HeapEntry == [left : Nat, queue : Names, id : Ids]

retry_delay(a) ==
    LET n == IF a < 1 THEN 1 ELSE a
    IN  IF RetryBackoff = "fixed" THEN RetryBaseDelay
        ELSE RetryBaseDelay * 2^(n - 1)

(* recover_consumer's position: the consumer, the queue it is in, the      *)
(* queues still to come, and the keys _queues had when it began.           *)
Cursor == [consumer_id : Consumers, queue : Names \cup {None},
           todo : SUBSET Names, keys : SUBSET Names]

ASSUME EngineAssumption ==
    /\ MaxAttempts \in [Ids -> Nat \ {0}]
    /\ Priority \in [Ids -> Int]
    /\ MaxLengths \subseteq Nat \cup {None}
    /\ DefaultMaxLength \in Nat \cup {None}
    /\ VisibilityTimeout \in Nat
    /\ EnqueueDelays \subseteq Nat
    /\ RecentAckLimit \in Nat
    /\ IsFiniteSet(Ids)

ASSUME RetryDelayAssumption ==
    \A m \in Ids : \A a \in 0..MaxAttempts[m] : retry_delay(a) \in Nat

ASSUME NoneAssumption ==
    /\ None \notin Names
    /\ None \notin Nat
    /\ None \notin Consumers
    /\ None \notin InflightRecord
    /\ None \notin Cursor

VARIABLES
    queues,           \* _queues: the queues that exist
    max_length,       \* spec.max_length of each queue
    ready,            \* the ready heap of each queue, in the order it pops
    delayed_ids,      \* delayed_ids of each queue
    inflight,         \* inflight of each queue: an InflightRecord or None
    messages,         \* messages of each queue
    attempts,         \* Message.attempts
    by_id,            \* _by_id: the queue of a message, or None
    recent_acks,      \* _recent_acks, oldest first
    delayed,          \* DelayedHeap
    visibility_heap,  \* _visibility_heap
    used,             \* identifiers minted so far (a fresh uuid4 per message)
    running,          \* the engine loop under way: see Phases
    cursor            \* recover_consumer's Cursor, or None

queueVars == <<queues, max_length, ready, delayed_ids, inflight, messages>>
loopVars  == <<running, cursor>>
vars == <<queueVars, attempts, by_id, recent_acks, delayed, visibility_heap, used, loopVars>>

Phases == {"idle", "release", "timeout", "recover"}

Idle == running = "idle"

-----------------------------------------------------------------------------
(* Helpers.                                                                *)

Leased(n) == {m \in Ids : inflight[n][m] # None}

\* Mutant: a message is only dead-lettered if its DLQ still exists.
dead_letter_if_declared(n) == ~is_dlq(n) /\ dlq_name(n) \in queues

\* QueueSpec.dead_letter: no caller in the broker passes dead_letter=False for
\* an ordinary queue, and a DLQ has none of its own.
dead_letter(n) == ~is_dlq(n)

Elements(s) == {s[i] : i \in DOMAIN s}

\* DurableQueue.depth()
depth(n) == Len(ready[n]) + Cardinality(Leased(n)) + Cardinality(delayed_ids[n])

\* Mutant: the limit is compared off by one.
FullLate(n) == max_length[n] # None /\ depth(n) > max_length[n]

\* enqueue()'s test against spec.max_length
Full(n) == max_length[n] # None /\ depth(n) >= max_length[n]

\* heappush of (-priority, seq, id): behind every entry of its own priority or
\* a higher one, since a new seq is larger than all before it.
PushReady(s, m) ==
    LET k == Cardinality({i \in DOMAIN s : Priority[s[i]] >= Priority[m]})
    IN  [i \in 1..(Len(s) + 1) |->
            IF i <= k THEN s[i] ELSE IF i = k + 1 THEN m ELSE s[i - 1]]

\* The entries of a sequence at some of its positions, in the same order.
Entries(s, kept) ==
    LET rank(i) == Cardinality({j \in kept : j <= i})
    IN  [r \in 1..Cardinality(kept) |-> s[CHOOSE i \in kept : rank(i) = r]]

\* A sequence without any entry x.
Without(s, x) == Entries(s, {i \in DOMAIN s : s[i] # x})

\* Mutant: the whole heap is cleared.
DropAll(s, m) == << >>

\* _drop_ready
DropReady(s, m) == Without(s, m)

\* reserve() skips an entry whose message is gone, leased or delayed.
Deliverable(n, i) ==
    LET m == ready[n][i]
    IN  m \in messages[n] /\ inflight[n][m] = None /\ m \notin delayed_ids[n]

\* max_length if given, else the engine's default.
Limit(l) == IF l # None THEN l ELSE DefaultMaxLength

NoLeases == [m \in Ids |-> None]

Init ==
    /\ queues = {}
    /\ max_length = [n \in Names |-> None]
    /\ ready = [n \in Names |-> << >>]
    /\ delayed_ids = [n \in Names |-> {}]
    /\ inflight = [n \in Names |-> NoLeases]
    /\ messages = [n \in Names |-> {}]
    /\ attempts = [m \in Ids |-> 0]
    /\ by_id = [m \in Ids |-> None]
    /\ recent_acks = << >>
    /\ delayed = {}
    /\ visibility_heap = {}
    /\ used = {}
    /\ running = "idle"
    /\ cursor = None

-----------------------------------------------------------------------------
(* Declaring and deleting.                                                 *)

\* declare_queue: a queue comes with its dead-letter queue.  A queue that is
\* there already is left as it is, and so is a dead-letter queue.
DeclareQueue(n, l) ==
    /\ Idle
    /\ n \notin queues
    /\ LET made == {n, dlq_name(n)} \ queues
       IN  /\ queues' = queues \cup made
           /\ max_length' = [x \in Names |->
                                IF x = n THEN Limit(l)
                                ELSE IF x \in made THEN DefaultMaxLength
                                ELSE max_length[x]]
    /\ UNCHANGED <<ready, delayed_ids, inflight, messages, attempts, by_id,
                   recent_acks, delayed, visibility_heap, used, loopVars>>

\* delete_queue: the queue object goes with all it holds, and the dead-letter
\* queue of an ordinary one too; both heaps keep their entries.
DeleteQueue(n) ==
    /\ Idle
    /\ n \in queues
    /\ LET gone == {n} \cup (IF dead_letter(n) THEN {dlq_name(n)} ELSE {})
       IN  /\ queues' = queues \ gone
           /\ by_id' = [m \in Ids |->
                          IF \E x \in gone : m \in messages[x] THEN None ELSE by_id[m]]
           /\ max_length' = [x \in Names |-> IF x \in gone THEN None ELSE max_length[x]]
           /\ ready' = [x \in Names |-> IF x \in gone THEN << >> ELSE ready[x]]
           /\ delayed_ids' = [x \in Names |-> IF x \in gone THEN {} ELSE delayed_ids[x]]
           /\ inflight' = [x \in Names |-> IF x \in gone THEN NoLeases ELSE inflight[x]]
           /\ messages' = [x \in Names |-> IF x \in gone THEN {} ELSE messages[x]]
    /\ UNCHANGED <<attempts, recent_acks, delayed, visibility_heap, used, loopVars>>

-----------------------------------------------------------------------------
(* Publishing and delivering.                                              *)

\* enqueue: into ready, or among the delayed until it becomes available.
Enqueue(n, m, delay) ==
    /\ Idle
    /\ n \in queues
    /\ ~Full(n)
    /\ m \notin used
    /\ used' = used \cup {m}
    /\ messages' = [messages EXCEPT ![n] = @ \cup {m}]
    /\ by_id' = [by_id EXCEPT ![m] = n]
    /\ attempts' = [attempts EXCEPT ![m] = 0]
    /\ IF delay > 0
       THEN /\ delayed_ids' = [delayed_ids EXCEPT ![n] = @ \cup {m}]
            /\ delayed' = delayed \cup {[left |-> delay, queue |-> n, id |-> m]}
            /\ UNCHANGED ready
       ELSE /\ ready' = [ready EXCEPT ![n] = PushReady(@, m)]
            /\ UNCHANGED <<delayed_ids, delayed>>
    /\ UNCHANGED <<queues, max_length, inflight, recent_acks,
                   visibility_heap, loopVars>>

\* reserve, when some entry is deliverable: the entries before it are dropped.
Reserve(n, c) ==
    /\ Idle
    /\ n \in queues
    /\ \E k \in DOMAIN ready[n] :
          /\ Deliverable(n, k)
          /\ \A j \in 1..(k - 1) : ~Deliverable(n, j)
          /\ ready' = [ready EXCEPT ![n] = SubSeq(@, k + 1, Len(@))]
          /\ inflight' = [inflight EXCEPT ![n][ready[n][k]] =
                              [consumer_id |-> c, left |-> VisibilityTimeout]]
          /\ visibility_heap' = visibility_heap \cup
                {[left |-> VisibilityTimeout, queue |-> n, id |-> ready[n][k]]}
    /\ UNCHANGED <<queues, max_length, delayed_ids, messages, attempts, by_id,
                   recent_acks, delayed, used, loopVars>>

\* reserve, when none is: the whole heap is popped and None returned.
ReserveNothing(n) ==
    /\ Idle
    /\ n \in queues
    /\ ready[n] # << >>
    /\ \A k \in DOMAIN ready[n] : ~Deliverable(n, k)
    /\ ready' = [ready EXCEPT ![n] = << >>]
    /\ UNCHANGED <<queues, max_length, delayed_ids, inflight, messages, attempts,
                   by_id, recent_acks, delayed, visibility_heap, used, loopVars>>

-----------------------------------------------------------------------------
(* Settling a delivery.                                                    *)

\* _remember_ack
Remember(s, m) ==
    LET t == Append(s, m)
    IN  IF Len(t) > RecentAckLimit THEN SubSeq(t, Len(t) - RecentAckLimit + 1, Len(t)) ELSE t

\* Mutant: the message stays in the queue's dictionary.
AckKeepsMessage(m) ==
    /\ Idle
    /\ m \notin Elements(recent_acks)
    /\ by_id[m] # None
    /\ by_id[m] \in queues
    /\ inflight[by_id[m]][m] # None
    /\ inflight' = [inflight EXCEPT ![by_id[m]][m] = None]
    /\ by_id' = [by_id EXCEPT ![m] = None]
    /\ recent_acks' = Remember(recent_acks, m)
    /\ UNCHANGED <<queues, max_length, ready, delayed_ids, messages, attempts, delayed,
                   visibility_heap, used, loopVars>>

\* ack of a message that is in flight.
Ack(m) ==
    /\ Idle
    /\ m \notin Elements(recent_acks)
    /\ by_id[m] # None
    /\ by_id[m] \in queues
    /\ inflight[by_id[m]][m] # None
    /\ inflight' = [inflight EXCEPT ![by_id[m]][m] = None]
    /\ messages' = [messages EXCEPT ![by_id[m]] = @ \ {m}]
    /\ by_id' = [by_id EXCEPT ![m] = None]
    /\ recent_acks' = Remember(recent_acks, m)
    /\ UNCHANGED <<queues, max_length, ready, delayed_ids, attempts, delayed,
                   visibility_heap, used, loopVars>>

\* Mutant: _by_id still names the origin queue.
MoveKeepsIndex(n, m) ==
    LET d == dlq_name(n)
    IN  /\ messages' = [messages EXCEPT ![n] = @ \ {m}, ![d] = @ \cup {m}]
        /\ queues' = queues \cup {d}
        /\ ready' = [ready EXCEPT ![d] = PushReady(@, m)]
        /\ UNCHANGED <<by_id, max_length>>

\* _move_to_dlq.  A DLQ has no dead-letter queue: its message is dropped.  The
\* DLQ is declared again if it was deleted, and max_length is not looked at.
MoveToDlq(n, m) ==
    LET d == dlq_name(n)
    IN  IF dead_letter(n)
        THEN /\ messages' = [messages EXCEPT ![n] = @ \ {m}, ![d] = @ \cup {m}]
             /\ by_id' = [by_id EXCEPT ![m] = d]
             /\ queues' = queues \cup {d}
             /\ max_length' = IF d \in queues THEN max_length
                              ELSE [max_length EXCEPT ![d] = DefaultMaxLength]
             /\ ready' = [ready EXCEPT ![d] = PushReady(@, m)]
        ELSE /\ messages' = [messages EXCEPT ![n] = @ \ {m}]
             /\ by_id' = [by_id EXCEPT ![m] = None]
             /\ UNCHANGED <<queues, max_length, ready>>

\* Mutant: the limit is compared off by one.
ExhaustedLate(m) == attempts[m] + 1 > MaxAttempts[m]

\* _retry_or_dead's test, after attempts += 1
Exhausted(m) == attempts[m] + 1 >= MaxAttempts[m]

\* Mutant: the attempt is taken off the count.
RetryCountsDown(n, m) ==
    /\ attempts' = [attempts EXCEPT ![m] = @ - 1]
    /\ delayed_ids' = [delayed_ids EXCEPT ![n] = @ \cup {m}]
    /\ delayed' = delayed \cup {[left |-> RetryBaseDelay, queue |-> n, id |-> m]}
    /\ UNCHANGED <<queues, max_length, ready, messages, by_id>>

\* Mutant: a retried message is marked as delayed but not put on the heap.
RetryWithoutHeap(n, m) ==
    /\ attempts' = [attempts EXCEPT ![m] = @ + 1]
    /\ IF Exhausted(m)
       THEN MoveToDlq(n, m) /\ UNCHANGED <<delayed_ids, delayed>>
       ELSE /\ delayed_ids' = [delayed_ids EXCEPT ![n] = @ \cup {m}]
            /\ UNCHANGED <<queues, max_length, ready, messages, by_id, delayed>>

\* _retry_or_dead
RetryOrDead(n, m) ==
    LET a == attempts[m] + 1
    IN  /\ attempts' = [attempts EXCEPT ![m] = a]
        /\ IF Exhausted(m)
           THEN MoveToDlq(n, m) /\ UNCHANGED <<delayed_ids, delayed>>
           ELSE /\ delayed_ids' = [delayed_ids EXCEPT ![n] = @ \cup {m}]
                /\ delayed' = delayed \cup
                      {[left |-> retry_delay(a), queue |-> n, id |-> m]}
                /\ UNCHANGED <<queues, max_length, ready, messages, by_id>>

\* Mutant: the lease is not popped.
EndLeaseKept(n, m) ==
    /\ inflight' = inflight
    /\ IF m \in messages[n]
       THEN RetryOrDead(n, m)
       ELSE UNCHANGED <<queues, max_length, ready, delayed_ids, messages, by_id,
                        attempts, delayed>>

\* Mutant: the message is ready again at once and the attempt not counted.
EndLeaseUncounted(n, m) ==
    /\ inflight' = [inflight EXCEPT ![n][m] = None]
    /\ ready' = IF m \in messages[n] THEN [ready EXCEPT ![n] = PushReady(@, m)] ELSE ready
    /\ UNCHANGED <<queues, max_length, delayed_ids, messages, by_id, attempts, delayed>>

\* The lease of m in n is popped; the message, if it is still in n, is retried.
EndLease(n, m) ==
    /\ inflight' = [inflight EXCEPT ![n][m] = None]
    /\ IF m \in messages[n]
       THEN RetryOrDead(n, m)
       ELSE UNCHANGED <<queues, max_length, ready, delayed_ids, messages, by_id,
                        attempts, delayed>>

\* nack of a message that is in flight.
Nack(m, requeue) ==
    /\ Idle
    /\ by_id[m] # None
    /\ by_id[m] \in queues
    /\ inflight[by_id[m]][m] # None
    /\ \/ /\ requeue \/ m \notin messages[by_id[m]]
          /\ EndLease(by_id[m], m)
       \/ /\ ~requeue /\ m \in messages[by_id[m]]
          /\ inflight' = [inflight EXCEPT ![by_id[m]][m] = None]
          /\ MoveToDlq(by_id[m], m)
          /\ UNCHANGED <<attempts, delayed_ids, delayed>>
    /\ UNCHANGED <<recent_acks, visibility_heap, used, loopVars>>

-----------------------------------------------------------------------------
(* recover_consumer: every delivery of a consumer that went away.  If a    *)
(* DLQ is declared on the way the dictionary under the iteration has grown *)
(* and the iteration raises RuntimeError when it asks for the next queue.  *)
(* A call for a consumer without deliveries changes nothing.               *)

RecoverConsumer(c) ==
    /\ Idle
    /\ \E n \in queues : \E m \in Leased(n) : inflight[n][m].consumer_id = c
    /\ running' = "recover"
    /\ cursor' = [consumer_id |-> c, queue |-> None, todo |-> queues, keys |-> queues]
    /\ UNCHANGED <<queueVars, attempts, by_id, recent_acks, delayed, visibility_heap, used>>

HeldHere(m) ==
    /\ cursor.queue # None
    /\ inflight[cursor.queue][m] # None
    /\ inflight[cursor.queue][m].consumer_id = cursor.consumer_id

RecoverLease(m) ==
    /\ running = "recover"
    /\ HeldHere(m)
    /\ EndLease(cursor.queue, m)
    /\ UNCHANGED <<recent_acks, visibility_heap, used, loopVars>>

RecoverNextQueue(n) ==
    /\ running = "recover"
    /\ \A m \in Ids : ~HeldHere(m)
    /\ queues = cursor.keys
    /\ n \in cursor.todo
    /\ cursor' = [cursor EXCEPT !.queue = n, !.todo = @ \ {n}]
    /\ UNCHANGED <<queueVars, attempts, by_id, recent_acks, delayed, visibility_heap, used,
                   running>>

RecoverEnd ==
    /\ running = "recover"
    /\ \A m \in Ids : ~HeldHere(m)
    /\ queues # cursor.keys \/ cursor.todo = {}
    /\ running' = "idle"
    /\ cursor' = None
    /\ UNCHANGED <<queueVars, attempts, by_id, recent_acks, delayed, visibility_heap, used>>

-----------------------------------------------------------------------------
(* tick: first the delayed messages that are due, then the leases.         *)

\* The entries the loops of pop_due and _timeout_inflight pop.
Due(heap) == {e \in heap : e.left = 0}

Tick ==
    /\ Idle
    /\ Due(delayed) \cup Due(visibility_heap) # {}
    /\ running' = "release"
    /\ UNCHANGED <<queueVars, attempts, by_id, recent_acks, delayed, visibility_heap, used,
                   cursor>>

\* One turn of _release_delayed.
ReleaseDelayed(e) ==
    /\ running = "release"
    /\ e \in Due(delayed)
    /\ delayed' = delayed \ {e}
    /\ IF e.queue \in queues /\ e.id \in delayed_ids[e.queue]
       THEN /\ delayed_ids' = [delayed_ids EXCEPT ![e.queue] = @ \ {e.id}]
            /\ IF e.id \in messages[e.queue] /\ inflight[e.queue][e.id] = None
               THEN ready' = [ready EXCEPT ![e.queue] = PushReady(@, e.id)]
               ELSE UNCHANGED ready
       ELSE UNCHANGED <<delayed_ids, ready>>
    /\ UNCHANGED <<queues, max_length, inflight, messages, attempts, by_id,
                   recent_acks, visibility_heap, used, loopVars>>

ReleaseEnd ==
    /\ running = "release"
    /\ Due(delayed) = {}
    /\ running' = "timeout"
    /\ UNCHANGED <<queueVars, attempts, by_id, recent_acks, delayed, visibility_heap, used,
                   cursor>>

\* One turn of _timeout_inflight.  An entry is stale unless its deadline is the
\* one of the lease that is there now.
TimeoutInflight(e) ==
    /\ running = "timeout"
    /\ e \in Due(visibility_heap)
    /\ visibility_heap' = visibility_heap \ {e}
    /\ IF /\ e.queue \in queues
          /\ inflight[e.queue][e.id] # None
          /\ inflight[e.queue][e.id].left = e.left
       THEN EndLease(e.queue, e.id)
       ELSE UNCHANGED <<queueVars, attempts, by_id, delayed>>
    /\ UNCHANGED <<recent_acks, used, loopVars>>

TimeoutEnd ==
    /\ running = "timeout"
    /\ Due(visibility_heap) = {}
    /\ running' = "idle"
    /\ UNCHANGED <<queueVars, attempts, by_id, recent_acks, delayed, visibility_heap, used,
                   cursor>>

-----------------------------------------------------------------------------
(* dlq_requeue: back to the origin queue with a clean attempt count; if    *)
(* that queue is full, back to the DLQ.  A lease or a delay the message    *)
(* has in the DLQ is not undone.                                           *)

DlqRequeue(n, m) ==
    LET d == dlq_name(n)
        o == origin_queue(n)
    IN  /\ Idle
        /\ d \in queues
        /\ o \in queues
        /\ m \in messages[d]
        /\ attempts' = [attempts EXCEPT ![m] = 0]
        /\ IF Full(o)
           THEN /\ ready' = [ready EXCEPT ![d] = PushReady(DropReady(@, m), m)]
                /\ UNCHANGED <<messages, by_id>>
           ELSE /\ ready' = [ready EXCEPT ![d] = DropReady(@, m), ![o] = PushReady(@, m)]
                /\ messages' = [messages EXCEPT ![d] = @ \ {m}, ![o] = @ \cup {m}]
                /\ by_id' = [by_id EXCEPT ![m] = o]
        /\ UNCHANGED <<queues, max_length, delayed_ids, inflight, recent_acks, delayed,
                       visibility_heap, used, loopVars>>

-----------------------------------------------------------------------------
(* The clock.  It may run on past a deadline before the ticker wakes up.   *)

Sooner(x) == IF x.left > 0 THEN [x EXCEPT !.left = @ - 1] ELSE x

AdvanceTime ==
    /\ Idle
    /\ \E e \in delayed \cup visibility_heap : e.left > 0
    /\ delayed' = {Sooner(e) : e \in delayed}
    /\ visibility_heap' = {Sooner(e) : e \in visibility_heap}
    /\ inflight' = [n \in Names |-> [m \in Ids |->
                       IF inflight[n][m] = None THEN None ELSE Sooner(inflight[n][m])]]
    /\ UNCHANGED <<queues, max_length, ready, delayed_ids, messages, attempts,
                   by_id, recent_acks, used, loopVars>>

-----------------------------------------------------------------------------
Client ==
    \/ \E n \in Names, l \in MaxLengths : DeclareQueue(n, l)
    \/ \E n \in Names : DeleteQueue(n)
    \/ \E n \in Names, m \in Ids, t \in EnqueueDelays : Enqueue(n, m, t)
    \/ \E n \in Names, m \in Ids : DlqRequeue(n, m)

Deliveries ==
    \/ \E n \in Names, c \in Consumers : Reserve(n, c)
    \/ \E n \in Names : ReserveNothing(n)
    \/ \E m \in Ids : Ack(m)
    \/ \E m \in Ids, requeue \in BOOLEAN : Nack(m, requeue)

Recovery ==
    \/ \E c \in Consumers : RecoverConsumer(c)
    \/ \E m \in Ids : RecoverLease(m)
    \/ \E n \in Names : RecoverNextQueue(n)
    \/ RecoverEnd

Ticker ==
    \/ Tick
    \/ \E e \in delayed : ReleaseDelayed(e)
    \/ ReleaseEnd
    \/ \E e \in visibility_heap : TimeoutInflight(e)
    \/ TimeoutEnd

Next == Client \/ Deliveries \/ Recovery \/ Ticker \/ AdvanceTime

Spec == Init /\ [][Next]_vars

-----------------------------------------------------------------------------
(* Fairness.  A loop that has begun is finished.  The clock runs whatever  *)
(* the event loop does, and the event loop serves its callbacks in the     *)
(* order they became ready, so neither the server's ticker task nor a      *)
(* consumer's turn at a queue is put off for ever: strong fairness, since  *)
(* other calls come in between.  That a queue with a deliverable message   *)
(* is reserved from at all is the consumers' part: FairSpec assumes one    *)
(* with a free prefetch slot.                                              *)

LoopStep == ~Idle /\ (Recovery \/ Ticker)

ClockFairness == SF_vars(AdvanceTime) /\ SF_vars(Tick) /\ WF_vars(LoopStep)

ConsumerFairness == \A n \in Names : SF_vars(\E c \in Consumers : Reserve(n, c))

FairSpec == Spec /\ ClockFairness /\ ConsumerFairness

-----------------------------------------------------------------------------
(* Properties.                                                             *)

\* The engine's dictionaries, heaps and loop state have the types of the
\* dataclasses in core/queue.py and core/inflight.py.
TypeOK ==
    /\ queues \subseteq Names
    /\ max_length \in [Names -> Nat \cup {None}]
    /\ ready \in [Names -> Seq(Ids)]
    /\ delayed_ids \in [Names -> SUBSET Ids]
    /\ inflight \in [Names -> [Ids -> InflightRecord \cup {None}]]
    /\ messages \in [Names -> SUBSET Ids]
    /\ attempts \in [Ids -> Nat]
    /\ by_id \in [Ids -> Names \cup {None}]
    /\ recent_acks \in Seq(Ids)
    /\ delayed \subseteq HeapEntry
    /\ visibility_heap \subseteq HeapEntry
    /\ used \subseteq Ids
    /\ running \in Phases
    /\ cursor \in Cursor \cup {None}
    /\ (running = "recover") <=> (cursor # None)

\* _by_id and the messages of the queues agree at every point between two
\* steps: a message is in exactly the queue _by_id names, that queue exists,
\* and a message with no entry in _by_id is in no queue.  ack, nack and
\* inflight_consumer find a delivery through _by_id alone.
OneHome ==
    /\ \A n \in Names, m \in Ids : m \in messages[n] <=> by_id[m] = n
    /\ \A m \in Ids : by_id[m] # None => by_id[m] \in queues /\ m \in used

\* No stored message is stranded: each is in the ready heap, leased or
\* delayed, and something will wake it up: a lease has a visibility-heap
\* entry with its own deadline, a delayed message an entry in the delayed
\* heap.  Dead-letter queues included, where dlq_requeue leaves leases and
\* delays of messages behind that have left the queue and may come back.
NotStranded ==
    \A n \in Names :
        /\ \A m \in messages[n] :
              m \in Elements(ready[n]) \cup Leased(n) \cup delayed_ids[n]
        /\ \A m \in Leased(n) :
              [left |-> inflight[n][m].left, queue |-> n, id |-> m] \in visibility_heap
        /\ \A m \in delayed_ids[n] : \E e \in delayed : e.queue = n /\ e.id = m

\* In an ordinary queue a message is in one place only: once in the ready
\* heap, or leased to one consumer, or delayed, and nothing is left behind
\* of a message that has gone.  depth() is then the number of its messages,
\* and enqueue's limit counts each message once.
OnePlace ==
    \A n \in Names : ~is_dlq(n) =>
        /\ \A i, j \in DOMAIN ready[n] : ready[n][i] = ready[n][j] => i = j
        /\ Elements(ready[n]) \cup Leased(n) \cup delayed_ids[n] \subseteq messages[n]
        /\ Elements(ready[n]) \cap Leased(n) = {}
        /\ Elements(ready[n]) \cap delayed_ids[n] = {}
        /\ Leased(n) \cap delayed_ids[n] = {}

\* A message in an ordinary queue has attempts left: the attempt that uses up
\* max_attempts moves it to the dead-letter queue, whichever of nack, timeout
\* and disconnect it comes from.
AttemptsLeft ==
    \A n \in Names : \A m \in messages[n] : ~is_dlq(n) => attempts[m] < MaxAttempts[m]

\* max_length holds for every ordinary queue at all times: retries and
\* dlq_requeue cannot push depth() above it.
WithinLimit ==
    \A n \in queues : ~is_dlq(n) /\ max_length[n] # None => depth(n) <= max_length[n]

\* A message that has left the broker stays out: no late nack, timeout,
\* disconnect or dlq_requeue brings an acknowledged, dropped or deleted
\* message back.
GoneForGood ==
    [][\A m \in used : by_id[m] = None => by_id'[m] = None]_vars

\* No silent loss: a message leaves the broker only when its queue is deleted,
\* or when the delivery it was out on ends, and then either by an ack, which
\* _remember_ack has noted, or by failing in a dead-letter queue.  A retry, a
\* nack or a timeout in an ordinary queue, a release and DLQ_REQUEUE lose none.
NoSilentLoss ==
    [][\A m \in Ids :
          by_id[m] # None /\ by_id'[m] = None =>
            \/ by_id[m] \notin queues'
            \/ /\ inflight[by_id[m]][m] # None
               /\ inflight'[by_id[m]][m] = None
               /\ \/ is_dlq(by_id[m]) /\ recent_acks' = recent_acks
                  \/ /\ m \notin Elements(recent_acks)
                     /\ recent_acks' = Remember(recent_acks, m)
                     /\ attempts' = attempts]_vars

\* Every message settles: one that is in an ordinary queue leaves it in the
\* end, acknowledged, deleted or dead-lettered, since each delivery ends and
\* a message has finitely many attempts.
EventuallySettled ==
    \A m \in Ids :
        (by_id[m] # None /\ ~is_dlq(by_id[m])) ~> (by_id[m] = None \/ is_dlq(by_id[m]))

\* A message in an ordinary queue.
AtWork(m) == by_id[m] # None /\ ~is_dlq(by_id[m])

\* The deliveries and the failed tries of such messages.
Held  == {m \in Ids : AtWork(m) /\ inflight[by_id[m]][m] # None}
Tries == [m \in Ids |-> IF AtWork(m) THEN attempts[m] ELSE 0]

Life == INSTANCE MessageLife WITH
            published <- used, home <- by_id, leased <- Held, tries <- Tries

\* The engine implements MessageLife: whatever state its heaps and loops are
\* in, a message has one home and one holder, and every step is a step of the
\* message's life or leaves it alone.  _by_id is the home; the lease of the
\* home queue is the holder, whatever leases DLQ_REQUEUE left elsewhere.
LifeSpec == Life!Spec

=============================================================================
