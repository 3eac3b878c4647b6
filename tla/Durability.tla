----------------------------- MODULE Durability -----------------------------
(***************************************************************************)
(* What survives a crash: the queue engine with its journal, the snapshots *)
(* of persistence/snapshot.py and broker/lifecycle.py, and the replay of   *)
(* persistence/recovery.py.                                                *)
(*                                                                         *)
(* Every engine call appends its records in the same step (AofWriter says  *)
(* what becomes of them).  A crash takes the engine's state away; recovery *)
(* puts the snapshot back and applies the records of the file one by one   *)
(* with persist=False, before the server accepts a connection.  A crash    *)
(* during recovery starts it again from the same files, and is left out.   *)
(*                                                                         *)
(* Records of exchanges and bindings are left out, and so is available_at  *)
(* of a published message, which no command sets.                          *)
(***************************************************************************)
EXTENDS QueueEngine, AofWriter

CONSTANTS
    SnapshotInterval,    \* persistence.snapshot_interval (0: no periodic snapshots)
    SnapshotOnShutdown   \* values persistence.snapshot_on_shutdown may have

ASSUME SnapshotAssumption ==
    /\ SnapshotInterval \in Nat
    /\ SnapshotOnShutdown \subseteq BOOLEAN

-----------------------------------------------------------------------------
(* What is in the files.  "RETRY" is the MESSAGE_REQUEUE of _retry_or_dead, *)
(* "MESSAGE_REQUEUE" the one of dlq_requeue, with `from' and `to';          *)
(* "NACK_DROP" is a MESSAGE_NACK with requeue=False.                        *)

Body(op, n, m, l) == [op |-> op, queue |-> n, id |-> m, max_length |-> l]

MessageOps == {"MESSAGE_PUBLISH", "MESSAGE_ACK", "MESSAGE_NACK", "NACK_DROP",
               "MESSAGE_REQUEUE", "MESSAGE_DEAD", "RETRY"}

\* The payloads of the records that the engine appends.
Payloads ==
    {Body("QUEUE_DECLARE", n, None, Limit(l)) : n \in Names, l \in MaxLengths \cup {None}}
    \cup {Body("QUEUE_DELETE", n, None, None) : n \in Names}
    \cup {Body(op, n, m, None) : op \in MessageOps, n \in Names, m \in Ids}

\* The contents of snapshot.dat: `waiting' are the messages in state DELAYED,
\* with the time left.
Images == [queues : SUBSET Names, max_length : [Names -> Nat \cup {None}],
           messages : [Names -> SUBSET Ids], attempts : [Ids -> Nat],
           waiting : SUBSET HeapEntry]

ASSUME FilesAssumption ==
    /\ Bodies = Payloads
    /\ None \notin Images
    /\ None \notin Seq(Record)

VARIABLES
    snapshot,  \* snapshot.dat: one of Images, or None
    todo,      \* while recovering: the records still to apply, else None
    issued,    \* message identifiers handed out so far
    required   \* the messages that recovery has to bring back

recoveryVars == <<snapshot, todo, issued, required>>
durabilityVars == <<vars, aofVars, recoveryVars>>

Live == {m \in Ids : by_id[m] # None}

DurabilityInit ==
    /\ Init
    /\ AofInit
    /\ snapshot = None
    /\ todo = None
    /\ issued = {}
    /\ required = {}

-----------------------------------------------------------------------------
(* The records of an engine call.                                          *)

\* The dead-letter queue is declared, and recorded, before the queue itself.
DeclareRecords(n, l) ==
    (IF {n, dlq_name(n)} \cap queues = {} /\ ~is_dlq(n)
     THEN <<Body("QUEUE_DECLARE", dlq_name(n), None, DefaultMaxLength)>> ELSE << >>)
    \o <<Body("QUEUE_DECLARE", n, None, Limit(l))>>

DeleteRecords(n) ==
    <<Body("QUEUE_DELETE", n, None, None)>>
    \o (IF dead_letter(n) /\ dlq_name(n) \in queues
        THEN <<Body("QUEUE_DELETE", dlq_name(n), None, None)>> ELSE << >>)

RetryRecords(n, m) ==
    <<Body(IF Exhausted(m) THEN "MESSAGE_DEAD" ELSE "RETRY", n, m, None)>>

NackRecords(m, requeue) ==
    IF requeue
    THEN <<Body("MESSAGE_NACK", by_id[m], m, None)>> \o RetryRecords(by_id[m], m)
    ELSE <<Body("NACK_DROP", by_id[m], m, None), Body("MESSAGE_DEAD", by_id[m], m, None)>>

-----------------------------------------------------------------------------
(* Engine calls of commands.  Room is the bound on the length of the log.  *)

Room == seq < SeqBound

Declare(k, n, l) ==
    /\ Room
    /\ Command(k, DeclareRecords(n, l))
    /\ DeclareQueue(n, l)
    /\ UNCHANGED recoveryVars

Delete(k, n) ==
    /\ Room
    /\ Command(k, DeleteRecords(n))
    /\ DeleteQueue(n)
    /\ UNCHANGED recoveryVars

Publish(k, n, m) ==
    /\ Room
    /\ m \notin issued
    /\ issued' = issued \cup {m}
    /\ Command(k, <<Body("MESSAGE_PUBLISH", n, m, None)>>)
    /\ Enqueue(n, m, 0)
    /\ UNCHANGED <<snapshot, todo, required>>

AckCommand(k, m) ==
    /\ Ack(m)
    /\ Command(k, <<Body("MESSAGE_ACK", by_id[m], m, None)>>)
    /\ UNCHANGED recoveryVars

NackCommand(k, m, requeue) ==
    /\ Nack(m, requeue)
    /\ Command(k, NackRecords(m, requeue))
    /\ UNCHANGED recoveryVars

\* A requeue that fails, the queue being full, is not recorded.
Requeue(k, n, m) ==
    /\ Room
    /\ DlqRequeue(n, m)
    /\ Command(k, IF Full(origin_queue(n)) THEN << >>
                  ELSE <<Body("MESSAGE_REQUEUE", origin_queue(n), m, None)>>)
    /\ UNCHANGED recoveryVars

-----------------------------------------------------------------------------
(* Engine calls of deliveries, disconnects and the ticker.                 *)

Deliver(n, c) ==
    /\ Room
    /\ online
    /\ Reserve(n, c)
    /\ UNCHANGED <<aofVars, recoveryVars>>

Disconnect(c) ==
    /\ online
    /\ RecoverConsumer(c)
    /\ UNCHANGED <<aofVars, recoveryVars>>

DisconnectLease(m) ==
    /\ RecoverLease(m)
    /\ Unasked(IF m \in messages[cursor.queue] THEN RetryRecords(cursor.queue, m) ELSE << >>)
    /\ UNCHANGED recoveryVars

TimeOut(e) ==
    /\ TimeoutInflight(e)
    /\ Unasked(IF /\ e.queue \in queues
                  /\ e.id \in messages[e.queue] /\ inflight[e.queue][e.id] # None
                  /\ inflight[e.queue][e.id].left = e.left
               THEN RetryRecords(e.queue, e.id) ELSE << >>)
    /\ UNCHANGED recoveryVars

\* The steps of the engine's loops that record nothing.
Loop ==
    /\ online
    /\ \/ \E n \in Names : RecoverNextQueue(n)
       \/ RecoverEnd
       \/ Tick
       \/ \E e \in delayed : ReleaseDelayed(e)
       \/ ReleaseEnd
       \/ TimeoutEnd
    /\ UNCHANGED <<aofVars, recoveryVars>>

WriterStep ==
    /\ TakeBatch \/ WriteBytes \/ SyncBytes \/ Resolve \/ \E k \in Clients : WaitOver(k)
    /\ UNCHANGED <<vars, recoveryVars>>

-----------------------------------------------------------------------------
(* Snapshots.  A message is stored with its queue and its state.           *)

\* _message_state: the messages of a queue in state DELAYED.
DelayedState(n) == {m \in messages[n] \cap delayed_ids[n] : inflight[n][m] = None}

\* available_at of such a message is the deadline of its heap entry.  In a DLQ
\* dlq_requeue or _move_to_dlq may have cleared it since, and restore_state puts
\* now() in its place.
AvailableAt(n, m) ==
    {e \in delayed : e.queue = n /\ e.id = m}
    \cup {e \in {[left |-> 0, queue |-> n, id |-> m]} : is_dlq(n)}

\* Mutant: the heap is stored as it is, entries of messages that have gone too.
WholeHeap == {delayed}

\* One entry for each message in state DELAYED.
Waits ==
    {w \in SUBSET UNION {AvailableAt(n, m) : n \in Names, m \in Ids} :
        /\ \A e \in w : e.id \in DelayedState(e.queue)
        /\ \A n \in Names : \A m \in DelayedState(n) : \E e \in w : w \cap AvailableAt(n, m) = {e}}

\* snapshot_state: all but the delayed are stored to be ready again.
Image(w) ==
    [queues |-> queues, max_length |-> max_length, messages |-> messages,
     attempts |-> attempts, waiting |-> w]

TakeImage == \E w \in Waits : snapshot' = Image(w)

WriteSnapshot ==
    /\ SnapshotInterval > 0
    /\ Idle
    /\ SnapshotSeq
    /\ TakeImage
    /\ UNCHANGED <<vars, todo, issued, required>>

-----------------------------------------------------------------------------
(* Crash, shutdown and recovery.                                           *)

\* The messages of the broker whose publication the files still hold.
OnFile(f) ==
    Live \cap ({f[i].body.id : i \in {i \in DOMAIN f : f[i].body.op = "MESSAGE_PUBLISH"}}
               \cup (IF snapshot = None THEN {} ELSE UNION {snapshot.messages[n] : n \in Names}))

\* Another process has none of the engine's state.
EngineGone ==
    /\ queues' = {}
    /\ max_length' = [n \in Names |-> None]
    /\ ready' = [n \in Names |-> << >>]
    /\ delayed_ids' = [n \in Names |-> {}]
    /\ inflight' = [n \in Names |-> NoLeases]
    /\ messages' = [n \in Names |-> {}]
    /\ attempts' = [m \in Ids |-> 0]
    /\ by_id' = [m \in Ids |-> None]
    /\ recent_acks' = << >>
    /\ delayed' = {}
    /\ visibility_heap' = {}
    /\ used' = {}
    /\ running' = "idle"
    /\ cursor' = None

\* The process stops, at any point of whatever it was doing.
ProcessCrash ==
    /\ Crash
    /\ required' = OnFile(file')
    /\ EngineGone
    /\ UNCHANGED <<snapshot, todo, issued>>

\* Broker.shutdown: the server stops, the writer drains, then the snapshot.
CleanShutdown(s) ==
    /\ Idle
    /\ Shutdown(s)
    /\ required' = Live
    /\ IF s THEN TakeImage ELSE UNCHANGED snapshot
    /\ EngineGone
    /\ UNCHANGED <<todo, issued>>

\* restore_state pushes the messages in the order of the dictionary; the
\* order among equal priorities is left open.
Orders(S) == {s \in [1..Cardinality(S) -> S] :
                 \A i, j \in DOMAIN s : i < j => s[i] # s[j] /\ Priority[s[i]] >= Priority[s[j]]}

Waiting(n) == {e.id : e \in {x \in snapshot.waiting : x.queue = n}}

RestoredIndex == [m \in Ids |-> IF \E n \in Names : m \in snapshot.messages[n]
                                THEN CHOOSE n \in Names : m \in snapshot.messages[n] ELSE None]

\* Mutant: the heap of delayed messages stays empty.
HeapNotRestored == {}

RestoredHeap == snapshot.waiting

\* restore_state
Restore ==
    /\ queues' = snapshot.queues
    /\ max_length' = snapshot.max_length
    /\ messages' = snapshot.messages
    /\ attempts' = [m \in Ids |-> IF \E n \in Names : m \in snapshot.messages[n]
                                  THEN snapshot.attempts[m] ELSE 0]
    /\ by_id' = RestoredIndex
    /\ delayed' = RestoredHeap
    /\ delayed_ids' = [n \in Names |-> Waiting(n)]
    /\ \E order \in [Names -> UNION {Orders(S) : S \in SUBSET Ids}] :
          /\ \A n \in Names : order[n] \in Orders(snapshot.messages[n] \ Waiting(n))
          /\ ready' = order
    /\ used' = UNION {snapshot.messages[n] : n \in Names}
    /\ UNCHANGED <<inflight, recent_acks, visibility_heap, loopVars>>

\* recover_into passes over what the snapshot already holds.
IsNew(r) == r.seq > snap_seq

\* What read_aof returns, without that.
Replayed == Entries(file, {i \in DOMAIN file : IsNew(file[i])})

\* recover_into reads both files.
Restart ==
    /\ ~online
    /\ todo = None
    /\ IF snapshot = None THEN UNCHANGED vars ELSE Restore
    /\ todo' = Replayed
    /\ UNCHANGED <<aofVars, snapshot, issued, required>>

InFlight(m) == by_id[m] # None /\ inflight[by_id[m]][m] # None

\* MESSAGE_PUBLISH: the queue is declared if it is missing; a message that the
\* snapshot holds, or that finds the queue full, is passed over.
ReplayPublish(n, m) ==
    /\ queues' = IF n \in queues THEN queues ELSE queues \cup {n, dlq_name(n)}
    /\ max_length' = [x \in Names |-> IF x \in queues' \ queues THEN DefaultMaxLength
                                     ELSE max_length[x]]
    /\ IF by_id[m] # None \/ (max_length'[n] # None /\ depth(n) >= max_length'[n])
       THEN UNCHANGED <<used, messages, by_id, attempts, ready>>
       ELSE /\ used' = used \cup {m}
            /\ messages' = [messages EXCEPT ![n] = @ \cup {m}]
            /\ by_id' = [by_id EXCEPT ![m] = n]
            /\ attempts' = [attempts EXCEPT ![m] = 0]
            /\ ready' = [ready EXCEPT ![n] = PushReady(@, m)]
    /\ UNCHANGED <<delayed_ids, inflight, recent_acks, delayed, visibility_heap, loopVars>>

\* apply_record.  ack and nack find a delivery only if it is in flight.
apply_record(b) ==
    \/ /\ b.op = "QUEUE_DECLARE"
       /\ IF b.queue \in queues THEN UNCHANGED vars ELSE DeclareQueue(b.queue, b.max_length)
    \/ /\ b.op = "QUEUE_DELETE"
       /\ IF b.queue \in queues THEN DeleteQueue(b.queue) ELSE UNCHANGED vars
    \/ /\ b.op = "MESSAGE_PUBLISH"
       /\ ReplayPublish(b.queue, b.id)
    \/ /\ b.op = "MESSAGE_ACK"
       /\ IF InFlight(b.id) THEN Ack(b.id) ELSE UNCHANGED vars
    \/ /\ b.op \in {"MESSAGE_NACK", "NACK_DROP"}
       /\ IF InFlight(b.id) THEN Nack(b.id, b.op = "MESSAGE_NACK") ELSE UNCHANGED vars
    \/ /\ b.op = "MESSAGE_REQUEUE"
       /\ IF {b.queue, dlq_name(b.queue)} \subseteq queues /\ b.id \in messages[dlq_name(b.queue)]
          THEN DlqRequeue(b.queue, b.id) ELSE UNCHANGED vars
    \/ /\ b.op \in {"MESSAGE_DEAD", "RETRY"}
       /\ UNCHANGED vars

Replay ==
    /\ ~online
    /\ todo \notin {None, << >>}
    /\ apply_record(Head(todo).body)
    /\ todo' = Tail(todo)
    /\ UNCHANGED <<aofVars, snapshot, issued, required>>

\* The last tick() of recover_into, and the broker is up.
Recovered ==
    /\ todo = << >>
    /\ Attach
    /\ IF Due(delayed) = {} THEN UNCHANGED vars ELSE Tick
    /\ todo' = None
    /\ UNCHANGED <<snapshot, issued, required>>

\* Time passes, for the snapshot on disk too.
Clock ==
    /\ Idle
    /\ todo = None
    /\ IF \E e \in delayed \cup visibility_heap : e.left > 0
       THEN AdvanceTime
       ELSE UNCHANGED vars
    /\ snapshot' = IF snapshot = None THEN None
                   ELSE [snapshot EXCEPT !.waiting = {Sooner(e) : e \in @}]
    /\ UNCHANGED <<aofVars, todo, issued, required>>

-----------------------------------------------------------------------------
DurabilityNext ==
    \/ \E k \in Clients, n \in Names :
          \/ \E l \in MaxLengths : Declare(k, n, l)
          \/ Delete(k, n)
          \/ \E m \in Ids : Publish(k, n, m) \/ Requeue(k, n, m)
    \/ \E k \in Clients, m \in Ids :
          \/ AckCommand(k, m)
          \/ \E requeue \in BOOLEAN : NackCommand(k, m, requeue)
    \/ \E n \in Names, c \in Consumers : Deliver(n, c)
    \/ \E c \in Consumers : Disconnect(c)
    \/ \E m \in Ids : DisconnectLease(m)
    \/ \E e \in visibility_heap : TimeOut(e)
    \/ Loop
    \/ WriterStep
    \/ WriteSnapshot
    \/ ProcessCrash
    \/ \E s \in SnapshotOnShutdown : CleanShutdown(s)
    \/ Restart
    \/ Replay
    \/ Recovered
    \/ Clock

DurabilitySpec == DurabilityInit /\ [][DurabilityNext]_durabilityVars

-----------------------------------------------------------------------------
(* Properties.                                                             *)

\* A snapshot restore_state can make sense of: a stored message is in one
\* queue, which is stored too, and what waits in a queue is one of its messages.
Coherent(s) ==
    /\ \A n \in Names : s.messages[n] # {} => n \in s.queues
    /\ \A n, x \in Names : s.messages[n] \cap s.messages[x] # {} => n = x
    /\ \A e \in s.waiting : e.id \in s.messages[e.queue]

\* The snapshot and the recovery state are well typed, and the snapshot is
\* coherent, whatever stale entries the heaps held when it was taken.
DurabilityTypeOK ==
    /\ snapshot # None => snapshot \in Images /\ Coherent(snapshot)
    /\ todo # None => todo \in Seq(Record)
    /\ issued \subseteq Ids
    /\ required \subseteq Ids

\* At each point of a life, a restore and a replay, a stored message is in the
\* queue that _by_id names for it, and is ready there, or leased or delayed
\* with a heap entry that will end that: what restore_state builds from a
\* snapshot is as good as what it was taken from.
Whole == OneHome /\ NotStranded

\* Recovery brings back every message that was in the broker when it stopped
\* and whose publication the snapshot or the surviving part of the file
\* holds: README.md:82, "Inflight messages at broker crash are recovered as
\* deliverable", and all others with them, over any number of crashes,
\* restarts and snapshots.
RecoveryKeeps ==
    [][~online /\ online' => required \subseteq Live']_durabilityVars

=============================================================================
