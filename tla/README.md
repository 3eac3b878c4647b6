# OneOpen Broker in TLA+

This directory holds TLA+ models of OneOpen Broker, TLC configurations that
check them on small instances, and TLAPS proofs of the results that do not
depend on the instance. Paths below are relative to
`src/src/oneopen_broker/` unless they say otherwise. `PROJECT.json` maps every
definition to the source lines it stands for and lists runs, mutants, hazards,
findings and theorems.

## 1. The system

OneOpen Broker is a message broker in Python: one process, one asyncio event
loop that owns all state, and a thread pool that only writes the append-only
file. Clients speak a framed protocol over TCP.

| Component | State | Operations |
|---|---|---|
| Queue engine (`core/queue.py`, `delayed.py`, `dlq.py`, `retry.py`, `inflight.py`) | queues with ready heap, delayed ids, inflight records and messages; `_by_id`; recent acks; delayed heap; visibility heap | declare, delete, enqueue, reserve, ack, nack, recover_consumer, tick, dlq_requeue, snapshot/restore |
| Consumers and QoS (`core/consumers.py`, `core/qos.py`) | registry of consumers with prefetch and unacked count; consumer list and round-robin index of each queue | register, qos, cancel, disconnect, try_reserve, on_ack |
| Routing (`core/routing.py`) | exchanges, bindings | declare, delete, bind, unbind, publish |
| Command handler (`broker/handler.py`) | principal and prefetch of a connection, list of slow subscribers | one `cmd_*` per command, `pump_queue` |
| Server (`broker/server.py`) | connections with their bounded outbound queues | accept, read loop, drop, ticker every 50 ms, stop |
| Append-only file (`persistence/aof.py`, `records.py`) | sequence number, queue of records, futures of waiters, file | append, wait_durable, writer task, flush_and_stop |
| Snapshots and recovery (`persistence/snapshot.py`, `recovery.py`, `broker/lifecycle.py`) | `snapshot.dat` with the sequence number it covers | periodic snapshot, start, shutdown, replay |
| Pub/Sub (`pubsub/channels.py`) | subscriptions by channel and by connection | subscribe, unsubscribe, publish, disconnect |
| Wire protocol (`protocol/frames.py`) | bytes of an incomplete frame | encode, decode, feed |
| Client (`client/connection.py`, `async_client.py`, `sync_client.py`) | request counter, pending futures, queues of deliveries and channel messages | connect, request, read loop, close; one method per command |
| Security (`security/acl.py`, `auth.py`) | none of its own; principal and failures are the connection's | authorize, authenticate |
| Kombu transport, monitoring, configuration, TLS, CLI | counters, settings | see section 9 |

How they interact: a command handler is a plain function, so nothing else runs
between its first and last statement. It calls the engine, tells the consumer
manager about slots, and pumps queues, which puts frames into the outbound
queues of other connections. Every engine call appends journal records to the
writer's queue. The read loop sends the reply and then, under `fsync=always`,
awaits the newest record. The ticker releases delayed messages, ends expired
leases and pumps every queue. A dropped connection cancels its consumers, which
ends their leases. At start the snapshot is restored and the file replayed.

What is hard:

- leases end in four ways (ack, nack, timeout, disconnect) and both heaps keep
  entries of leases and delays that are over;
- an acknowledgement may come after its lease expired, when another consumer
  holds the message;
- slot accounting and leases are kept in two components and updated by
  different callers;
- replies, fsyncs, snapshots and crashes are ordered only by the code's own
  bookkeeping of sequence numbers;
- what is in the files after a crash is a prefix of what was written, and the
  snapshot may be ahead of it;
- a connection may be dropped by another one's publication while its own read
  loop waits for the disk or for room in its outbound queue;
- a publication to several queues may meet a full or deleted one half way, and
  bindings outlive the queues they name;
- at the client, replies come after timeouts, connections end between any two
  awaits, and reads cut the stream anywhere.

`PROJECT.json` lists these as hazards with the line where each one bites.

What makes each component correct: the engine keeps each message in one place
with something to wake it up, loses none silently and delivers each at most
`max_attempts` times before dead-lettering it; the consumer manager respects
prefetch and leaves no lease behind; the file keeps its numbers in order and a
wait that returned is true; recovery brings back what the files hold, routes
included; the answer to a publication says what happened to it; a dropped
connection disappears from every table, once, and its tasks end; the client puts
frames together as they were sent and gives each reply to its own request.

## 2. Modules

| Module | Models | Built on |
|---|---|---|
| `QueueEngine` | the queue engine | |
| `Dispatch` | consumers, QoS, queue commands, `pump_queue`, connections, ticker | extends `QueueEngine` |
| `AofWriter` | the append-only file, the reply-then-wait order, crash and restart of the file | |
| `Durability` | engine calls with their records, snapshots, crash, restore, replay | extends `QueueEngine` and `AofWriter` |
| `MessageLife` | abstract: what the engine promises about a message | instantiated by `QueueEngine` |
| `Routing` | exchanges, bindings, publications, their records and their recovery | |
| `Server` | connections, outbound queues, read and write loops, authorisation, pub/sub, `stop()` | |
| `Client` | `FrameReader`, requests and their futures, the client's read loop, connect and close | |
| `QueueEngineProofs`, `AofWriterProofs`, `RoutingProofs`, `ServerProofs`, `ClientProofs` | theorems | extend the module they name |
| `MessageLifeProofs` | the refinement and what follows from it | extends `QueueEngineProofs` |
| `DispatchProofs` | theorems about `Dispatch`, and that it implements `QueueEngine` | extends `Dispatch` and `QueueEngineProofs` |
| `DurabilityProofs` | theorems about `Durability` | extends `Durability`, `QueueEngineProofs` and `AofWriterProofs` |
| `MC...` | constants for TLC | extend the module they name |

Definitions with "Mutant" in their comment are variants a plausible bug would
produce; no specification uses them.

### QueueEngine

Variables carry the names of the Python attributes. A queue is addressed by a
record `[base, kind]`, so that `q` and its dead-letter queue `q.DLQ` are two
names with the same base. A call without a loop is one action (`Enqueue`,
`Ack`, `Nack`, `DlqRequeue`, ...). `tick` and `recover_consumer` loop over
entries and are taken one entry per step; `running` keeps every other action
out until the loop ends, as the event loop does. `recover_consumer` iterates
over a live dictionary: `RecoverEnd` also fires when the set of queues has
changed under the iteration, which is Python's `RuntimeError`.

Time is the time left. Each heap entry and lease counts down to 0, and
`AdvanceTime` moves all of them together. This keeps the state space finite
without a bound on the clock and preserves the comparison of deadlines that
`_timeout_inflight` uses to recognise stale entries. Two deadlines that have
both passed are both 0, which a clock that is read as a float tells apart; the
model then lets a stale entry end an expired lease, which its own entry would
end in the same tick.

The ready heap is a sequence in popping order. `PushReady` puts an entry behind
all entries of its own or a higher priority, `DropReady` filters.

### Dispatch

A handler's engine calls are separate steps. `task`, `pump` and `leaving` hold
what the running handler still has to do, and commands, connects and the ticker
need `Quiet`. Every step is a step of `QueueEngine` or leaves its variables
alone. `SlowConnections` are those whose outbound queue may be full, so that a
send may fail at any time; `SlowSubscribers` those that a publication to a
channel may find full and have dropped.

A command comes from a connection (`By`). A connection whose read loop has ended
is "closed" and sends none. One that was dropped as slow is "dropped": its read
loop may still handle one of the frames it had in hand, and is "late" after it
(`Server` shows that it is one). What that command registers is never cancelled;
a GET leaves its message leased.

`recover_consumer` raises when the queues change under its iteration, which takes
a dead-letter queue that a client deleted by its own name and that the next dead
letter declares again (`RecoverRaises`). A CANCEL then fails after the consumer
has left the registry; a `_drop` stops there, leaves the connection's other
consumers registered and does not close the connection: if it was a slow drop,
the read loop goes on ("cut"). `forsaken` is the history of the consumers whose
cancel failed or was skipped.

### AofWriter

`tail` is the asyncio queue, `batch` what the writer task has taken, `stage` how
far it is with it. `file` is what `read_aof` would return, `synced` how many of
its records an fsync has covered. `Crash` keeps the synced part and any longer
prefix of what was or was being written. A failing `write` or `fsync` ends the
writer task for good (`stage = "failed"`), as the unhandled exception does.
`settled` and `replied` are history variables that the properties read.

### Durability

Each engine action is conjoined with the records it appends. A crash at any
point, in the middle of a loop too, empties the engine; `Restart` restores the
snapshot, `Replay` applies one record per step with the engine's own actions
(`persist=False`), and `Recovered` attaches the writer. Records that the replay
ignores are kept in the log, since their numbers matter.

### MessageLife

The engine seen from a message: the queues that exist, the queue a message is
in, whether a consumer holds it, and how many deliveries have failed. It knows no
heaps, no delays, no time and no loops. `QueueEngine` instantiates it with
`home <- by_id`, `leased <- Held` (the leases of messages that are in an ordinary
queue) and `tries <- Tries`, and `LifeSpec` is the refinement. Leases inside a
dead-letter queue are not visible in it: `dlq_requeue` leaves them behind, and
what they may still do is the subject of `NotStranded` and `OneHome`.

### Routing

A queue is its name and the publications it holds. Commands are one action each,
except PUBLISH, which takes a step per target; `pub` keeps everything else out
until the answer. `Settle` and `MoveToDlq` are what the engine may do to a copy
meanwhile. `log` has the records above the snapshot; `Restart` keeps a prefix of
it, restores the snapshot and leaves the rest to `Replay`. `before` and `stale`
are history variables that only `RoutesSurvive` reads. DLQ_REQUEUE is left out:
it moves a copy between two queues and touches no route.

### Server

`running` is the read loop that has the event loop until its next await, so that
everything up to `wait_durable`, a blocking `send` or the next read is atomic, as
it is in the code, and nothing after it is. The outbound queue is a count of
frames and a sentinel. A peer reads, stalls or goes. `forgotten` records the slow
subscribers that the code loses sight of, `late` the commands handled after the
drop.

The write loop ends through its `finally` clause, whose `wait_closed()` waits for
a peer that does not read (`Finally`, "closing"). `close()` is split at its
`wait_for`: after two seconds it cancels the write loop once (`WriterTimeout`) and
goes on waiting. A drop of a connection with consumers may be cut short by the
exception described under `Dispatch` (`DropCutShort`): the connection has left the
table, but is neither counted down nor closed, and is in `cut`.

### Client

A coroutine is a record of where it waits (`drain`, its future, the queue of
deliveries). It may be cancelled there (`Cancelled`), as `asyncio.wait_for` around
a call does; the repository's tests bound their calls that way. The stream is a
sequence of cells and a read takes any number of them; a frame may be damaged in its magic, in its length in two ways, or in its
body. The broker and the network are external: they answer commands in order,
push deliveries and may break the connection at any cell. `token` follows a
message through the client, `late` marks requests made when no read loop was
running.

## 3. Runs

| Run | Instance | Checks |
|---|---|---|
| `engine_one` | one message, two attempts, two consumers, leases of two time units, delays 0 and 1, with fairness | types; `OneHome`, `NotStranded`, `OnePlace`, `AttemptsLeft`, `GoneForGood`, `NoSilentLoss`, `EventuallySettled`, and the refinement `LifeSpec` |
| `dispatch_shared` | two connections, either of which may be slow or be dropped as slow, two consumers, two messages with one attempt, prefetch 1, the DLQ deleted by its name, symmetry (1.8 million states) | types; `NoOrphanLeases`, `SlotsCoverLeases`, `PrefetchRespected` |
| `dispatch_wakeup` | one consumer, prefetch 1 and 2, two messages of different priority and attempts, queue limits none and 1, queue and DLQ deleted and declared again, slow drops, with fairness | `NotStranded`, `WithinLimit`, `NoLostWakeup` |
| `dispatch_at_least_once` | one consumer, prefetch 1, clients that acknowledge | refutes `AtLeastOnce` |
| `aof_always` | two connections, four records, a disk that may fail, with fairness | types; `LogOrdered`, `SettledIsDurable`, `WaiterServed` |
| `aof_reply` | one connection | refutes `ReplyAfterFsync` |
| `aof_everysec` | one connection | refutes `LossBounded` |
| `recovery` | one message, four records, snapshots, both kinds of shutdown (1.4 million states) | types; `Whole` (`OneHome` and `NotStranded`), `RecoveryKeeps` |
| `recovery_limit` | two messages, `max_length` 1 | refutes `RecoveryKeeps` |
| `routing` | an exchange of either type beside the default one, a queue and its DLQ with `max_length` 1, two publications, five records, symmetry | types; `NoOrphanBindings`, `ReplyIsTrue`, `RoutesSurvive` |
| `server` | a subscriber and consumer whose peer may stall or leave, a publisher, outbound queues of two, two failed logins allowed, `fsync=always`, drops cut short, with fairness | types; `TablesAgree`, `OneLateCommand`, `SlowAreDropped`, `GoneAreDropped`, `WriterEnds` |
| `client` | a consume and a GET, two connections, two frames on the wire, four kinds of damage, calls that are cancelled, with fairness | types; `Reassembled`, `OwnReply`, `PendingAgrees`, `EndWakesRequests`, `NothingMislaid`, `RequestsEnd` |

The definitions carry the statement of each property. In short:

- `OneHome`: the index `_by_id` and the queues agree. `OnePlace`: in an ordinary
  queue a message is ready once, or leased, or delayed, never two of them.
  `NotStranded`: a stored message is in one of the three, and a lease or a delay
  has a heap entry that will end it.
- `GoneForGood`, `NoSilentLoss`: a settled message does not come back, and it
  leaves the broker in one of three ways: with its queue, or when its lease ends,
  by an ack that enters `recent_acks` or by failing in a dead-letter queue. A nack
  or timeout in an ordinary queue, a release or `dlq_requeue` that lost a message
  would be a violation.
- `SlotsCoverLeases`: no slot is given back while its lease is there, however
  late an ack or nack comes. `NoOrphanLeases`: between handlers every lease belongs
  to a consumer that is registered on an open connection. Two residues are the
  code's own and are named in the property: leases of consumers whose cancel
  raised or was skipped (`forsaken`), and what a connection that had left the
  tables registered afterwards, by its late command or after a cut drop.
  `SlotsCoverLeases` and `PrefetchRespected` except `forsaken` too: such a consumer
  may register again under its name with no slot taken.
- `NoLostWakeup`: a ready message and a free consumer do not stay apart.
- `LogOrdered`, `SettledIsDurable`, `RecoveryKeeps`: see sections 6 and 7.
- `ReplyIsTrue`: OK means every target that exists has its copy, NOT_FOUND that
  none exists, QUEUE_FULL that one went without, while those before it have
  theirs. `RoutesSurvive`: a restart that lost no record keeps the exchanges and
  the bindings of existing queues. Bindings that a snapshot saved while their
  queue was deleted are dropped by `restore_state`, although the same bindings
  in the log come back; the property excepts them.
- `TablesAgree`: the two tables of subscriptions agree, and the connection count
  is the number of connections in the table plus one for each drop that was cut
  short: such a connection costs one of `max_connections` until the broker stops.
- `OneLateCommand`: a connection whose drop ran to its end handles at most one more
  of the frames it had read, and only by that one can it leave a consumer or a
  subscription behind. After a cut drop `close()` has not been called and the
  connection is served as before.
- `WriterEnds`: the write loop of a closed connection ends, with one exception. If
  the peer stays and does not read, the cancellation at two seconds ends `drain()`
  and is spent; `wait_closed()` then waits for the peer, `wait_for` for the task,
  and the second `cancel()` of `close()` (`broker/server.py:101`) is not reached.
- `SlowAreDropped` excepts subscribers whose entry in `_last_slow` is
  overwritten while the publisher waits for the disk. `GoneAreDropped` excepts a
  read loop that waits for room in its own outbound queue, which nobody empties
  once the write loop has failed: such a connection stays in the table.
- `EndWakesRequests`: the end of the read loop leaves no request waiting that
  relied on it. A request made after that end, on a client whose `connected` is
  still true, has only its timeout; `RequestsEnd` says that it has that.
  `consume` itself may wait for ever for a delivery, and after a reconnect does
  so without a consumer at the broker: both are behaviours of the model about
  which nothing is promised.

Each property has a mutant: a change to a mapped definition under which TLC
finds the property violated in the same run.

Deadlock checking is off everywhere. The models may stop: identifiers are used
up, the log reaches its bound, all connections are closed, all calls are done.

## 4. Bounds and why they are enough

- *Messages and consumers.* A stale heap entry meets a newer lease with one
  message; two consumers make a late ack reach another holder. Interaction
  between messages is through `max_length`, priority and prefetch, for which two
  suffice to fill a queue or a slot and have one left over.
- *Attempts.* Two attempts give a retry and a dead-letter step. `dlq_requeue`
  resets the count, so longer histories occur without more attempts.
- *Time.* `VisibilityTimeout = 2` with exponential backoff 1, 2 lets a lease
  begin while the entry of an older one is still ahead of it. Time itself is
  unbounded.
- `UnackedBound` (Dispatch): leaked slots would grow without limit through
  repeated DLQ_REQUEUE; that command is not issued above the bound, which is
  higher than any prefetch in use.
- `RRPeriod` (Dispatch): `rr_index` grows for ever and is used modulo the number
  of consumers; it is kept modulo a common multiple, which `RRAssumption` checks.
- `SeqBound` (AofWriter, Durability): commands stop when the log has this many
  records. Four allow a batch of two, records queued behind it, a crash that
  loses a tail, and re-used numbers. Acks, nacks and timeouts are still recorded
  above it.
- `LagBound`: seconds for which an unsynced record is followed.
- *Routing.* `SeqBound` counts the records of commands: five allow a queue with
  its DLQ, an exchange and two bindings, or one binding and a deletion, before or
  after a snapshot. A queue and its DLQ are the two targets of a fanout, of which
  either may be full or gone; clients declare only the ordinary one (`Named`).
  With six records (9 million states) the properties hold as well, and with five
  when clients also declare the DLQ by its own name.
- *Server.* `Batches` and `ReadBound` list what the reads of a connection return:
  logins that succeed and fail, a record that makes the loop wait, and the
  command behind it. An outbound queue of two is full after one reply and one
  event. `MaxFailures` is 2 where the code has 5.
- *Client.* `ConnectBound` 2 gives one reconnect; `DamageBound` 1 damages one
  frame, on the first connection; `WireBound` 2 lets a read span two frames.

In `dispatch_shared` the DLQ is deleted on its own, which is what makes
`recover_consumer` raise, and messages have one attempt, so that every failure
needs the DLQ; in `dispatch_wakeup` both queues are deleted. `dispatch_wakeup` has
one consumer and no failing sends: what a disconnect or a failed send leaves to
*another* consumer is not exercised there.

## 5. Fairness

- *Loops and handlers* (`WF` on `LoopStep`, `HandlerStep`): a Python function
  that has begun runs on.
- *Clock and ticker* (`SF` on `AdvanceTime`, `Tick`, `TimePasses`, `TickerTurn`):
  the clock does not depend on the broker, and the event loop serves ready
  callbacks in order, so the ticker's 50 ms sleep ends in a turn however many
  commands come in. Strong fairness, because commands in between disable these
  actions for a while.
- *Consumers* (`ConsumerFairness` in `FairSpec`): `EventuallySettled` is about
  queues whose deliverable messages are reserved, that is, queues with a consumer
  that has a free slot again and again. A consumer that is merely connected need
  not have one (section 7, 1). It does not assume that anyone acknowledges.
- *Clients* (`ClientFairness`): only in the refuted `AtLeastOnce`, where it makes
  the refutation stronger: even clients that always acknowledge are cut off.
- *Server* (`Fairness` in `Server`): the event loop runs every task that is ready,
  the disk finishes its fsync, a read on a connection that is gone or closed
  returns, `drain()` and `wait_closed()` return if the peer reads or has gone, and
  `close()` cancels the write loop after two seconds. Nothing is assumed of a peer
  that does not read.
- *Client* (`Fairness` in `Client`): the event loop resumes a coroutine whose
  future has ended, its timers fire, and the peer reads, so that `drain()`
  returns. A broker whose read loop waits for room in its own outbound queue
  (`broker/server.py:299`) does not read, and `drain()` has no timeout: there
  `RequestsEnd` promises nothing. Nothing is assumed of replies, deliveries or the
  application.
- *Writer* (`WF` on `Writer` and `WaitOver`): the writer task and its thread make
  progress while the process lives. Nothing forces a crash, a restart or a
  command.

## 6. Proofs

The theorems hold for every value of the constants that satisfies the named
assumptions of the module that declares them, which TLC evaluates in every run:
any number of queues, messages, consumers, connections, calls and records. The
assumptions only type the constants (`EngineAssumption`, `RetryDelayAssumption`,
`AofBoundAssumption`, `RoutingAssumption`, `DispatchAssumption`,
`ServerAssumption`, `ClientAssumption`, `SnapshotAssumption`), keep `None` apart
from other values (`NoneAssumption`, `FilesAssumption`), or state what a call made inside the code passes
(`ArgumentsAssumption`: no limit, no delay). `IsFiniteSet(Ids)` is the one that
bounds something: a broker holds finitely many messages.

Every safety property of a run, invariants and action properties alike, is
stated by a theorem. The inductive invariants were model-checked on the run's
instance too (for `RecoveryInv`, with a finite set of numbers for `Nat`).

`QueueEngineProofs` (1681 obligations):

- `TypeCorrect`: `Spec => []TypeOK`. `TypeOK` is inductive. The work is in
  `PushReadyProperties` and `DropReadyProperties`, which say what the two heap
  operators do to a sequence: they stay sequences of identifiers, with the
  elements expected, and without duplicates if there were none.
- `IndexAgrees`: `Spec => []OneHome`. `TypeOK /\ OneHome` is inductive.
  `StepIsHomeStep` reduces all actions to five ways to change `messages` and
  `_by_id` together (kept, arrives, moves, leaves, deleted), and
  `HomeStepKeeps` shows that each keeps the two in agreement. `OneHome` is needed
  for its own proof: `ack` takes a message out of the queue that `_by_id` names.
- `SettledStaysSettled` (`GoneForGood`) and `NothingLostSilently`
  (`NoSilentLoss`): action properties, from `OneHome` and the same five ways, of
  which `Leaves` says how the lease ended (`Ends`).
- `NothingStranded` (`NotStranded`) and `EachInOnePlace` (`OnePlace`), from the
  invariant `Placed`. Neither is inductive. A timeout only ends a lease whose
  deadline is that of the heap entry, so `Placed` says that a lease has an entry
  with *its own* deadline (`LeaseWakes`), and `AdvanceTime` must move both. A
  queue that is declared again must not find leases or delays of the one that was
  deleted under its name (`GoneIsEmpty`). Places are disjoint, and hold nothing
  that has gone, only in ordinary queues (`OnlyHere`): `dlq_requeue` leaves a
  lease behind in the dead-letter queue.
- `LimitsHold` (`WithinLimit`): by counting. In an ordinary queue `depth`, which
  adds up three structures, is the number of messages (`DepthCounts`, from
  `Placed`), and every action keeps or shrinks the set of messages, or adds one
  after it has compared `depth` with the limit (`LimitStep`).

`AofWriterProofs` (686 obligations):

- `AofInvariant`: `AofSpec => []AofInv`. `LogOrdered` and `SettledIsDurable` are
  not inductive: nothing in them says that the batch in the writer's hands ends
  with the record the file ends with, nor what a waiter that is woken but has
  not run may rely on. `AofInv` adds both (`BatchInFile`, `WakesAreDurable`),
  states the order for file, batch and queue separately (`PartsOrdered`,
  `SeqAhead`), and says what is left after a stop (`Stopped`).
- `AofTypeCorrect`, `NumbersNeverRepeat` (`LogOrdered`) and `WaitMeansDurable`
  (`SettledIsDurable`) follow. The delicate case is a restart from a snapshot
  that is ahead of the file: `_durable_seq` then exceeds everything on disk, and
  no connection may be told so. It is not, since a command waits only for a
  number above `_durable_seq`. The invariant holds under all three policies.

`MessageLifeProofs` (689 obligations):

- `EngineImplementsLife`: `Spec => LifeSpec`. Initial states map to initial
  states, and there is a lemma per action that its step is a step of
  `MessageLife` or a stutter. The loops of `tick` and `recover_consumer` show why
  this is not immediate: one entry may retry, dead-letter or drop a message, or
  do nothing because it is stale.
- `LeasesStayAtHome`: `Spec => []LeasesAtHome`. `OneHome` does not exclude a lease
  in an ordinary queue of a message that is elsewhere, under which a timeout or a
  disconnect there would not be a step of the abstract specification. Leases in
  ordinary queues end before their message moves; those in dead-letter queues
  need not.
- `AttemptsAreLeft`: `Spec => []AttemptsLeft`, from the refinement: the abstract
  specification counts a failed delivery only while another try is left.

`DispatchProofs` (1765 obligations):

- `DispatchTyped` (`DispatchTypeOK`) and `BrokerImplementsEngine`:
  `DispatchSpec => Spec`. Each step of a handler is a step of the engine or leaves
  it alone, so that `EngineInvariantsHold` carries `OneHome`, `NotStranded`,
  `OnePlace` and `WithinLimit` over to the whole broker.
- `SlotsCover` (`SlotsCoverLeases`), `NobodyGoneHolds` (`NoOrphanLeases`) and
  `PrefetchHolds` (`PrefetchRespected`), from `SlotInv`. `NoOrphanLeases` says
  nothing while a handler runs, and that is when leases are at risk. `SlotInv` says
  who answers for a lease in between: a registered consumer, or the run of
  `recover_consumer`, which has the queue still ahead or is going to raise
  (`Owned`); that a delivery being sent is one `_by_id` leads to, so that a failed
  send gives it back, and that a CONSUME under way is for somebody not registered
  on a connection that may still ask (`HandlerOK`); and that a registered consumer
  has such a connection or is being cancelled (`Attached`). The theorems have no
  hypothesis: deletions of dead-letter queues and late commands are in the
  specification, and `forsaken` takes the consumers for whom `recover_consumer`
  raised.

`RoutingProofs` (1211 obligations):

- `RoutingTyped`, `BindingsHaveExchanges` (`NoOrphanBindings`) and `RepliesAreTrue`
  (`ReplyIsTrue`), from `RoutingInv`. It adds what the records in the file carry
  (`FileOK`), without which a replay could bind to an exchange that is not there,
  and where the loop over the targets stands (`LoopOK`): a target that existed is
  still to come or has its copy.
- `RestartKeepsRoutes`: `Spec => RoutesSurvive`. The invariant `ReplayInv` speaks
  of a replay that has not happened: there is a sequence of table states that
  starts with what `restore_state` would make of the snapshot, applies the records
  of the log one after the other, and ends in tables that agree with the running
  broker's. Each command extends that sequence by the states of its own records;
  a snapshot begins a new one. While a recovery runs, the tables are the member of
  the sequence it has reached.

`ServerProofs` (930 obligations):

- `ServerTyped`, `TablesStayEqual` (`TablesAgree`) and `OneCommandTooLate`
  (`OneLateCommand`), from `ServerInv`: a connection that has left the table is
  closed, or its drop was cut short; if it was not, a read loop that has handled a
  command too late is at its end, and without such a command nothing of the
  connection is left in a table (`LifeOK`). Most steps only move
  one connection along (`Proceeds`) and need one lemma between them; `_drop`, `accept`, subscriptions and `stop()` have their own.

`ClientProofs` (3297 obligations):

- `FramesReassembled` (`Reassembled`). `FrameReader.feed` and the read loop are
  recursive functions, so what they return for a stream of any length needs
  induction. The library's induction theorems cannot be instantiated here, since
  they take an operator; `SetInduction` states induction for a *set* of numbers,
  from the well-foundedness of `<`, and the sets are those for which the claim
  holds. The invariant `NetOK` says that the cells in the buffer and on the wire
  follow the last handled frame without a gap.
- `ClientTyped`, `RepliesAreOwn` (`OwnReply`), `PendingStaysTrue` (`PendingAgrees`)
  and `EndOfLoopWakes` (`EndWakesRequests`), from `ClientInv`. The essential part
  is that a response on the wire carries the id of the request it answers
  (`TrafficOK`) and that ids are not used twice (`RidsDiffer`): a late reply then
  finds no future or its own.
- `NothingIsMislaid` (`NothingMislaid`), from `TokenInv` beside `ClientInv`: no
  token is sent twice (`SentOnce`) or is in two places (`Apart`, `OnTheWay`), each
  request is answered at most once (`OneReply`), whoever is still to be answered
  waits or has given up (`Owed`), and what was handled has arrived (`Arrived`).

`DurabilityProofs` (2965 obligations):

- `DurabilityTyped`, `EngineStaysWhole` (`Whole`) and `LogStaysOrdered`
  (`LogOrdered` of the composed system), from `DurabilityInv`. It joins
  `EngineInv`, which is `TypeOK /\ OneHome /\ Placed`, and `AofInv` with what is
  new: `SnapshotOK`, what a snapshot has to satisfy for `Restore` to give a state
  in which `EngineInv` holds (a message in one queue, that queue in it, whatever
  waits among its messages), and `PhaseOK`, that before the server runs nothing
  is in flight. Steps of commands, loops and writer are steps of `QueueEngine`
  and `AofWriter` and use the lemmas of those modules; `RestoreKeeps` and
  `ApplyKeeps` are the ones for the restore and for a record.
- `RecoveryBringsBack` (`RecoveryKeeps`), under the hypothesis `NoLimits`: no
  queue is declared with a `max_length`, and the default is none, as
  `broker/config.py` has it. With a limit the property is false (section 7). The
  invariant `RecoveryInv`, beside `DurabilityInv`, compares the broker with the
  records above the snapshot (`Above`) without replaying them, since that would
  take induction over the log:
  - `Tracked`: for each live message the snapshot or a MESSAGE_PUBLISH is a start
    from which it survives the records so far, in the same queue or in one of the
    same base (`BackedBy`), and an ordinary queue is there exactly if the records
    leave it there (`There`). The replay applies no retry and no dead letter, so
    it may find a message in the ordinary queue that the broker had moved to the
    dead-letter queue, and that is why only the base agrees;
  - `Sound`: a queue is deleted, or a message put back into it, only while it is
    there, which is why the replay of such a record finds the queue;
  - `PublishedOnce`: one publication of a message, in the snapshot or above it;
  - `TodoOK`, `RequiredBack`: what is still to replay is the end of the log, in
    order, and brings back each required message from where the replay has it
    now. When nothing is left, the message is there.

  A crash leaves a beginning of the log (`CrashCuts`). The messages that are
  required then are those whose publication is in it or in the snapshot. A record
  that is cut off is missed only if it is the MESSAGE_REQUEUE that took a message
  out before its dead-letter queue was deleted; the log being ordered, that
  QUEUE_DELETE is cut off with it (`ReturnsCut`).
- `FilesAssumption` says which payloads the records have, and that `None`, no
  snapshot and no replay, is neither a snapshot nor a sequence of records.

Left to TLC:

- the liveness properties (`EventuallySettled`, `NoLostWakeup`, `WaiterServed`,
  `SlowAreDropped`, `GoneAreDropped`, `WriterEnds`, `RequestsEnd`), because
  fairness and ENABLED are beyond the prover;
- the refuted properties of section 7.

No module declares a RECURSIVE operator; `Client` uses recursive functions.

## 7. What the violated properties show

1. `AtLeastOnce` (`core/queue.py:582`). A lease that times out, or whose queue is
   deleted, is not reported to the consumer manager. The consumer's
   `unacked_count` keeps the slot, and after `prefetch` such events it gets
   nothing more while it stays connected. `README.md:70` promises at-least-once
   delivery.
2. `ReplyAfterFsync` (`broker/server.py:298`). The reply is queued for sending
   before `wait_durable`. `README.md:78` says that under `always` responses wait
   for the fsync. What holds is `SettledIsDurable`: the connection's *next*
   command waits.
3. `LossBounded` (`persistence/aof.py:107`). Under `everysec` the last batch
   before a pause is not synced until another record is written.
   `README.md:79` bounds the loss by about a second.
4. `RecoveryKeeps` with a limit (`persistence/recovery.py:89`). The replay does
   not apply acknowledgements, because a replayed message is never in flight.
   Acknowledged messages come back, which `README.md:70` allows as duplicates,
   but on a queue with `max_length` they can take the place of a message that was
   never acknowledged, and that one is dropped.

## 8. Reading order and checking

Start with `MessageLife` for what the engine promises, then `QueueEngine` and
`Dispatch`; `AofWriter` is independent of both; `Durability` joins engine and
file. `Routing`, `Server` and `Client` can each be read alone.

    tlc -workers 2 -config EngineOne.cfg MCQueueEngine
    tlapm QueueEngineProofs.tla

`PROJECT.json` lists module and configuration of every run. `tlapm` takes a few
minutes for each of the proof modules, `ClientProofs` and `QueueEngineProofs`
being the longest.

## 9. Not modelled

- *Commands that only read* (INFO, STATS, listings) and the statistics they show.
- *Comparison of credentials*: a login frame carries the role its credentials
  give, or none.
- *A client that is used against its design*: `connect()` while `close()` waits
  (`client/connection.py:92`) or while the read loop runs, which the code does not
  prevent and which leaves two loops on one `_pending`. `parse_metadata` of a frame
  whose checksum agrees does not fail in the model.
- *What became of an old connection's deliveries*: `NothingMislaid` starts afresh
  with each connection. A message that a blocking `consume` took after its caller
  had given up (30 s, `client/sync_client.py:51`) counts as being with that call.
- *Short writes*: `_write_bytes` does not look at the result of `write` on its
  unbuffered file (`persistence/aof.py:100`); the model's write is whole or fails.
- *The client's channel messages*: `subscribe` reads a queue that the read loop
  fills as it fills the queue of deliveries. *Heartbeats* of the client, its TLS
  and the AUTH that `connect()` sends; the thread of the blocking client, which
  runs the same coroutines.
- *Byte layouts* (frames, records, snapshot file): abstracted. `read_aof` is
  modelled by what it returns, the longest prefix of whole, valid records, and
  `os.replace` of the snapshot by its atomicity.
- *Re-used identifiers*: a client may supply a `message_id` or a `consumer_id`
  that is in use. The models use fresh ones.
- *Clock steps backwards*: `time.time()` is not monotonic; the models' clock is.
- *Kombu transport*: a thin layer over the client and a library that is not in
  the repository.
- *Monitoring, configuration, TLS, logging, CLI*: no state that others rely on.

## 10. Plan

Every component that keeps state is modelled as far as section 9 says, and every
safety property is proved. Two extensions would say more: `RecoveryKeeps` with
limits for queues that never were full, and clients that supply an identifier
that is in use (section 9).
