------------------------------- MODULE Server -------------------------------
(***************************************************************************)
(* The server's connections and what lives and dies with them:             *)
(* ClientConnection and BrokerServer of broker/server.py, the dispatch of  *)
(* commands with authorisation (Handler.handle, cmd_auth, security/acl.py) *)
(* and PubSubEngine of pubsub/channels.py.                                 *)
(*                                                                         *)
(* Everything runs on one event loop.  `running' is the connection whose   *)
(* read loop has the loop until its next await; all other tasks (drop      *)
(* tasks, write loops, the AOF's fsync, the ticker's deliveries) move when *)
(* it is None.  A connection_id is a fresh uuid: each connects once.       *)
(*                                                                         *)
(* The outbound queue is the number of its frames and whether close() has  *)
(* put its sentinel behind them.  Commands are reduced to what they do to  *)
(* connections; PUBLISH stands for all that write a record, CONSUME for    *)
(* what makes deliveries come, PING for the rest.                          *)
(***************************************************************************)
EXTENDS Naturals, Sequences, FiniteSets

CONSTANTS
    Conns,            \* connection ids
    Channels,         \* pub/sub channels
    None,             \* Python's None
    Batches,          \* per connection: the sequences of frames one read may return
    ReadBound,        \* bound per connection: reads that return data
    Fragile,          \* connections that may go idle, and whose peer may stall or leave
    OutboundLimit,    \* network.outbound_buffer
    MaxConnections,   \* network.max_connections
    AuthRequired,     \* security.auth.enabled
    MaxFailures,      \* failed authentications that end a connection: 5
    FsyncAlways       \* persistence.fsync = "always"

Roles == {"admin", "producer", "consumer", "subscriber", "monitor"}

Commands == {"PING", "AUTH", "PUBLISH", "CONSUME", "SUBSCRIBE", "UNSUBSCRIBE", "PUBLISH_CHANNEL"}

\* The commands that name a channel; without one they change nothing, as PING.
OnChannel == {"SUBSCRIBE", "UNSUBSCRIBE", "PUBLISH_CHANNEL"}

\* A frame: a command with its channel or the role its credentials give (None:
\* they are wrong), a heartbeat, or one that ends in a ProtocolError.
Frame == [cmd : OnChannel, arg : Channels]
         \cup [cmd : (Commands \ OnChannel) \cup {"HEARTBEAT", "BAD"}, arg : Roles \cup {None}]

\* ROLE_COMMANDS, for the commands of this model.
ROLE_COMMANDS ==
    [r \in Roles |-> CASE r = "admin"      -> Commands
                       [] r = "producer"   -> {"PING", "AUTH", "PUBLISH"}
                       [] r = "consumer"   -> {"PING", "AUTH", "CONSUME"}
                       [] r = "subscriber" -> {"PING", "AUTH", "SUBSCRIBE", "UNSUBSCRIBE",
                                               "PUBLISH_CHANNEL"}
                       [] r = "monitor"    -> {"PING", "AUTH"}]

ASSUME ServerAssumption ==
    /\ Batches \in [Conns -> SUBSET Seq(Frame)]
    /\ OutboundLimit \in Nat \ {0}
    /\ MaxConnections \in Nat
    /\ MaxFailures \in Nat \ {0}
    /\ ReadBound \in [Conns -> Nat]
    /\ Fragile \subseteq Conns
    /\ None \notin Conns \cup Roles \cup Channels
    /\ {AuthRequired, FsyncAlways} \subseteq BOOLEAN

Stages == {"absent", "reading", "frames", "blocked", "wait", "resumed", "leaving", "gone"}

Connection ==
    [stage     : Stages,                        \* where its read loop is
     frames    : Seq(Frame),                    \* frames of the last read still to handle
     reads     : Nat,                           \* reads so far
     out       : 0..OutboundLimit,              \* frames in the outbound queue
     sentinel  : BOOLEAN,                       \* close() has put its None
     closed    : BOOLEAN,                       \* ClientConnection.closed
     writer    : {"idle", "drain", "closing", "done"},    \* its write loop
     closer    : {"none", "waits", "cancelled"},          \* close()'s wait_for
     peer      : {"reads", "stuck", "gone"},    \* the other end
     principal : Roles \cup {None},             \* ctx.principal
     failures  : Nat,                           \* ctx.auth_failures
     late      : Nat]                           \* commands handled after it was dropped

VARIABLES
    conn,           \* each connection
    connections,    \* BrokerServer.connections and _senders
    active,         \* metrics.connections
    cut,            \* connections whose _drop was cut short by an exception
    subs,           \* PubSubEngine._subs
    by_connection,  \* PubSubEngine._by_connection
    consumers,      \* connections with a consumer registered
    last_slow,      \* Handler._last_slow
    forgotten,      \* slow subscribers that the command which found them will not drop
    drops,          \* per connection: tasks of _disconnect_slow that have not run yet
    unsynced,       \* the newest record is not on disk yet
    running,        \* the connection whose read loop has the event loop, or None
    halted          \* stop() was called

countVars  == <<active, cut>>
pubsubVars == <<subs, by_connection>>
slowVars   == <<last_slow, forgotten, drops>>
vars == <<conn, connections, countVars, pubsubVars, consumers, slowVars, unsynced, running, halted>>

New == [stage |-> "absent", frames |-> << >>, reads |-> 0, out |-> 0, sentinel |-> FALSE,
        closed |-> FALSE, writer |-> "idle", closer |-> "none", peer |-> "reads",
        principal |-> None, failures |-> 0, late |-> 0]

Init ==
    /\ conn = [k \in Conns |-> New]
    /\ connections = {}
    /\ active = 0
    /\ cut = {}
    /\ subs = [c \in Channels |-> {}]
    /\ by_connection = [k \in Conns |-> {}]
    /\ consumers = {}
    /\ last_slow = {}
    /\ forgotten = {}
    /\ drops = [k \in Conns |-> 0]
    /\ unsynced = FALSE
    /\ running = None
    /\ halted = FALSE

-----------------------------------------------------------------------------
(* ClientConnection.                                                       *)

Occupied(c) == c.out + (IF c.sentinel THEN 1 ELSE 0)

\* Mutant: the limit is compared off by one.
FitsOneMore(c) == ~c.closed /\ Occupied(c) <= OutboundLimit

Fits(c) == ~c.closed /\ Occupied(c) < OutboundLimit

try_send(c) == IF Fits(c) THEN [c EXCEPT !.out = @ + 1] ELSE c

\* Mutant: close() waits for the write loop without a time limit.
close_unbounded(c) ==
    IF c.closed THEN c
    ELSE [c EXCEPT !.closed = TRUE, !.sentinel = TRUE,
                   !.out = IF Occupied(c) < OutboundLimit THEN @ ELSE @ - 1]

\* close() up to its await: a full queue loses a frame to make room for the
\* sentinel, and the caller waits for the write loop, two seconds.
close(c) ==
    IF c.closed THEN c
    ELSE [c EXCEPT !.closed = TRUE, !.sentinel = TRUE, !.closer = "waits",
                   !.out = IF Occupied(c) < OutboundLimit THEN @ ELSE @ - 1]

\* The `finally' clause of _write_loop closes the transport and waits until it
\* is closed, which takes time when the peer does not read what is buffered.
Finally(c) == IF c.peer = "stuck" THEN "closing" ELSE "done"

\* _write_loop takes a frame, or the sentinel.  drain() waits only for a peer
\* that does not read, and fails when the peer has gone.
WriterTake(k) ==
    /\ running = None
    /\ conn[k].stage # "absent" /\ conn[k].writer = "idle"
    /\ \/ /\ conn[k].out > 0
          /\ \E w \in CASE conn[k].peer = "reads" -> {"idle"}
                        [] conn[k].peer = "stuck" -> {"idle", "drain"}
                        [] conn[k].peer = "gone"  -> {Finally(conn[k])} :
                conn' = [conn EXCEPT ![k].out = @ - 1, ![k].writer = w]
       \/ /\ conn[k].out = 0 /\ conn[k].sentinel
          /\ conn' = [conn EXCEPT ![k].sentinel = FALSE, ![k].writer = Finally(conn[k])]
    /\ UNCHANGED <<connections, countVars, pubsubVars, consumers, slowVars, unsynced, running, halted>>

\* drain() returns or fails.
WriterDrained(k) ==
    /\ running = None
    /\ conn[k].writer = "drain" /\ conn[k].peer # "stuck"
    /\ conn' = [conn EXCEPT ![k].writer = IF conn[k].peer = "reads" THEN "idle" ELSE Finally(conn[k])]
    /\ UNCHANGED <<connections, countVars, pubsubVars, consumers, slowVars, unsynced, running, halted>>

\* wait_closed() returns: with a peer that does not read only if nothing was
\* left to send to it.
WriterClosed(k) ==
    /\ running = None
    /\ conn[k].writer = "closing"
    /\ conn' = [conn EXCEPT ![k].writer = "done"]
    /\ UNCHANGED <<connections, countVars, pubsubVars, consumers, slowVars, unsynced, running, halted>>

\* close() has waited two seconds: wait_for cancels the write loop, once, and
\* goes on waiting for it.  get() and drain() turn the cancellation into the
\* `finally' clause; in wait_closed(), where `except Exception' does not catch
\* it, it ends the task.
WriterTimeout(k) ==
    /\ running = None
    /\ conn[k].closer = "waits" /\ conn[k].writer # "done"
    /\ conn' = [conn EXCEPT ![k].closer = "cancelled",
                            ![k].writer = IF @ = "closing" THEN "done" ELSE Finally(conn[k])]
    /\ UNCHANGED <<connections, countVars, pubsubVars, consumers, slowVars, unsynced, running, halted>>

-----------------------------------------------------------------------------
(* Connecting and dropping.                                                *)

\* _on_connect, unless the server is full or stopping.
Connect(k) ==
    /\ running = None /\ ~halted
    /\ conn[k].stage = "absent"
    /\ active < MaxConnections
    /\ conn' = [conn EXCEPT ![k].stage = "reading"]
    /\ connections' = connections \cup {k}
    /\ active' = active + 1
    /\ UNCHANGED <<cut, pubsubVars, consumers, slowVars, unsynced, running, halted>>

\* PubSubEngine.disconnect
disconnect(k) ==
    /\ by_connection' = [by_connection EXCEPT ![k] = {}]
    /\ subs' = [c \in Channels |-> IF c \in by_connection[k] THEN subs[c] \ {k} ELSE subs[c]]

\* Mutant: the count goes down once per caller.
CountDownTwice(k) == active' = IF active > 0 THEN active - 1 ELSE 0

\* metrics.on_disconnect, for a connection that is still in the table.
CountDown(k) == active' = IF k \in connections /\ active > 0 THEN active - 1 ELSE active

\* What _drop does before its first await; the second caller finds it done.
Drop(k) ==
    /\ CountDown(k)
    /\ IF k \in connections
       THEN /\ connections' = connections \ {k}
            /\ disconnect(k)
            /\ consumers' = consumers \ {k}
       ELSE UNCHANGED <<connections, pubsubVars, consumers>>
    /\ UNCHANGED cut

\* The same when disconnect_connection raises: recover_consumer iterates over
\* queues among which _move_to_dlq may have to declare a dead-letter queue.
\* The consumers not yet cancelled stay, on_disconnect and close() are skipped.
DropCutShort(k) ==
    /\ k \in connections \cap consumers
    /\ connections' = connections \ {k}
    /\ disconnect(k)
    /\ consumers' \in {consumers, consumers \ {k}}
    /\ cut' = cut \cup {k}
    /\ UNCHANGED active

\* A task that _disconnect_slow created.
DropSlow(k) ==
    /\ running = None
    /\ drops[k] > 0
    /\ drops' = [drops EXCEPT ![k] = @ - 1]
    /\ \/ Drop(k) /\ conn' = [conn EXCEPT ![k] = close(@)]
       \/ DropCutShort(k) /\ UNCHANGED conn
    /\ UNCHANGED <<last_slow, forgotten, unsynced, running, halted>>

\* Mutant: the end of the read loop does not drop the connection.
LeaveOnly(k) ==
    /\ running = k
    /\ conn[k].stage = "leaving"
    /\ conn' = [conn EXCEPT ![k] = [close(@) EXCEPT !.stage = "gone"]]
    /\ running' = None
    /\ UNCHANGED <<connections, countVars, pubsubVars, consumers, slowVars, unsynced, halted>>

\* The end of _on_connect.
Leave(k) ==
    /\ running = k
    /\ conn[k].stage = "leaving"
    /\ \/ Drop(k) /\ conn' = [conn EXCEPT ![k] = [close(@) EXCEPT !.stage = "gone"]]
       \/ DropCutShort(k) /\ conn' = [conn EXCEPT ![k].stage = "gone"]
    /\ running' = None
    /\ UNCHANGED <<slowVars, unsynced, halted>>

-----------------------------------------------------------------------------
(* _read_loop.                                                             *)

\* The read returns frames.  It may have had them in hand when the connection
\* was dropped: conn.closed is not looked at again before they are handled.
ReadData(k, batch) ==
    /\ running = None /\ ~halted
    /\ conn[k].stage = "reading"
    /\ conn[k].reads < ReadBound[k]
    /\ conn' = [conn EXCEPT ![k].stage = "frames", ![k].frames = batch, ![k].reads = @ + 1]
    /\ running' = k
    /\ UNCHANGED <<connections, countVars, pubsubVars, consumers, slowVars, unsynced, halted>>

\* The wait for the read has to end: with idle_timeout at the latest, after
\* which `while not conn.closed' is looked at.
Over(k) == conn[k].peer = "gone" \/ conn[k].closed \/ halted

\* The read returns nothing, fails, times out or is ended by _halt.
ReadEnds(k) ==
    /\ running = None
    /\ conn[k].stage = "reading"
    /\ k \in Fragile \/ Over(k)
    /\ conn' = [conn EXCEPT ![k].stage = "leaving"]
    /\ running' = k
    /\ UNCHANGED <<connections, countVars, pubsubVars, consumers, slowVars, unsynced, halted>>

\* No frame is left: `while not conn.closed and not self._halt.is_set()'.
BatchEnd(k) ==
    /\ running = k
    /\ conn[k].stage = "frames" /\ conn[k].frames = << >>
    /\ IF conn[k].closed \/ halted
       THEN conn' = [conn EXCEPT ![k].stage = "leaving"] /\ UNCHANGED running
       ELSE conn' = [conn EXCEPT ![k].stage = "reading"] /\ running' = None
    /\ UNCHANGED <<connections, countVars, pubsubVars, consumers, slowVars, unsynced, halted>>

Next1(k) == [conn[k] EXCEPT !.frames = Tail(@)]

Heartbeat(k) ==
    /\ running = k
    /\ conn[k].stage = "frames" /\ conn[k].frames # << >>
    /\ Head(conn[k].frames).cmd = "HEARTBEAT"
    /\ conn' = [conn EXCEPT ![k] = try_send(Next1(k))]
    /\ UNCHANGED <<connections, countVars, pubsubVars, consumers, slowVars, unsynced, running, halted>>

\* `await conn.send(...)' and return.  With a full queue the loop waits here.
SendAndReturn(c) ==
    [c EXCEPT !.frames = << >>,
              !.stage = IF c.closed \/ Fits(c) THEN "leaving" ELSE "blocked",
              !.out = IF Fits(c) THEN @ + 1 ELSE @]

Malformed(k) ==
    /\ running = k
    /\ conn[k].stage = "frames" /\ conn[k].frames # << >>
    /\ Head(conn[k].frames).cmd = "BAD"
    /\ conn' = [conn EXCEPT ![k] = SendAndReturn(@)]
    /\ running' = IF conn'[k].stage = "leaving" THEN k ELSE None
    /\ UNCHANGED <<connections, countVars, pubsubVars, consumers, slowVars, unsynced, halted>>

Unblock(k) ==
    /\ running = None
    /\ conn[k].stage = "blocked"
    /\ Occupied(conn[k]) < OutboundLimit
    /\ conn' = [conn EXCEPT ![k].stage = "leaving",
                            ![k].out = IF conn[k].sentinel THEN @ ELSE @ + 1]
    /\ running' = k
    /\ UNCHANGED <<connections, countVars, pubsubVars, consumers, slowVars, unsynced, halted>>

-----------------------------------------------------------------------------
(* A command: authorize, the command's method, the reply, wait_durable,    *)
(* and the slow subscribers that a PUBLISH_CHANNEL has found.              *)

\* authorize()
authorize(p, cmd) ==
    \/ cmd \in {"PING", "AUTH"}
    \/ p = None /\ ~AuthRequired
    \/ p # None /\ cmd \in ROLE_COMMANDS[p]

\* What handle() and cmd_auth leave in the context.  FORBIDDEN is not counted.
Context(c, f, ok) ==
    IF f.cmd = "AUTH"
    THEN IF ~AuthRequired THEN [c EXCEPT !.principal = "admin"]
         ELSE IF f.arg \in Roles THEN [c EXCEPT !.principal = f.arg, !.failures = 0]
         ELSE [c EXCEPT !.failures = @ + 1]
    ELSE IF ~ok /\ c.principal = None THEN [c EXCEPT !.failures = @ + 1]
    ELSE c

\* PubSubEngine.publish: the subscribers that _fanout_pubsub can send to.
Reached(f) == {j \in subs[f.arg] : j \in connections /\ Fits(conn[j])}

\* The tables after the command.
Effect(k, f, ok) ==
    /\ subs' = IF ok /\ f.cmd = "SUBSCRIBE" THEN [subs EXCEPT ![f.arg] = @ \cup {k}]
               ELSE IF ok /\ f.cmd = "UNSUBSCRIBE" THEN [subs EXCEPT ![f.arg] = @ \ {k}]
               ELSE subs
    /\ by_connection' =
               IF ok /\ f.cmd = "SUBSCRIBE" THEN [by_connection EXCEPT ![k] = @ \cup {f.arg}]
               ELSE IF ok /\ f.cmd = "UNSUBSCRIBE" THEN [by_connection EXCEPT ![k] = @ \ {f.arg}]
               ELSE by_connection
    /\ consumers' = IF ok /\ f.cmd = "CONSUME" THEN consumers \cup {k} ELSE consumers
    /\ unsynced' = (unsynced \/ (ok /\ f.cmd = "PUBLISH"))

\* _last_slow after the command: PUBLISH_CHANNEL overwrites it.
Slow(f, ok) == IF ok /\ f.cmd = "PUBLISH_CHANNEL" THEN subs[f.arg] \ Reached(f) ELSE last_slow

\* Mutant: the list is cleared and nobody dropped.
TakeSlowOnly(cs, slow) ==
    /\ last_slow' = {}
    /\ conn' = cs
    /\ UNCHANGED drops

\* The loop takes _last_slow and drops who is in it.
TakeSlow(cs, slow) ==
    /\ last_slow' = {}
    /\ drops' = [j \in Conns |-> IF j \in slow \cap connections THEN drops[j] + 1 ELSE drops[j]]
    /\ conn' = [j \in Conns |-> IF j \in slow \cap connections THEN try_send(cs[j]) ELSE cs[j]]

\* The caller's context after the command's method.
Caller(k, f, ok) ==
    [Context(Next1(k), f, ok) EXCEPT !.late = IF k \in connections THEN @ ELSE @ + 1]

\* The connections after the command's method, before its reply.
Handled(k, f, ok) ==
    LET told == IF ok /\ f.cmd = "PUBLISH_CHANNEL" THEN Reached(f) ELSE {}
        c(j) == IF j = k THEN Caller(k, f, ok) ELSE conn[j]
    IN  [j \in Conns |-> IF j \in told THEN [c(j) EXCEPT !.out = @ + 1] ELSE c(j)]

\* ctx.must_close
MustClose(c) == c.failures >= MaxFailures

\* Mutant: a reply that cannot be sent is given up and the loop goes on.
RepliedFailsOpen(c) ==
    IF MustClose(c) THEN [c EXCEPT !.stage = "leaving", !.frames = << >>] ELSE try_send(c)

\* The reply, or, if it cannot be sent, a SLOW_CONSUMER event and the end.
Replied(c) ==
    IF ~Fits(c) THEN SendAndReturn(c)
    ELSE IF MustClose(c) THEN [c EXCEPT !.out = @ + 1, !.stage = "leaving", !.frames = << >>]
    ELSE [c EXCEPT !.out = @ + 1]

Command(k) ==
    /\ running = k
    /\ conn[k].stage = "frames" /\ conn[k].frames # << >>
    /\ Head(conn[k].frames).cmd \in Commands
    /\ LET f  == Head(conn[k].frames)
           ok == authorize(conn[k].principal, f.cmd)
           cs == [Handled(k, f, ok) EXCEPT ![k] = Replied(@)]
           slow == Slow(f, ok)
       IN  /\ Effect(k, f, ok)
           /\ forgotten' = forgotten \cup (last_slow \ slow)
                           \cup (IF cs[k].stage # "frames" THEN slow ELSE {})
           /\ IF cs[k].stage # "frames"
              THEN /\ conn' = cs
                   /\ running' = IF cs[k].stage = "leaving" THEN k ELSE None
                   /\ last_slow' = slow
                   /\ UNCHANGED drops
              ELSE IF FsyncAlways /\ unsynced'
              THEN /\ conn' = [cs EXCEPT ![k].stage = "wait"]
                   /\ running' = None
                   /\ last_slow' = slow
                   /\ UNCHANGED drops
              ELSE /\ TakeSlow(cs, slow)
                   /\ UNCHANGED running
    /\ UNCHANGED <<connections, countVars, halted>>

\* The AOF's fsync wakes everyone who waits for a record up to now.
Synced ==
    /\ running = None
    /\ unsynced
    /\ unsynced' = FALSE
    /\ conn' = [k \in Conns |-> IF conn[k].stage = "wait"
                                THEN [conn[k] EXCEPT !.stage = "resumed"] ELSE conn[k]]
    /\ UNCHANGED <<connections, countVars, pubsubVars, consumers, slowVars, running, halted>>

Resume(k) ==
    /\ running = None
    /\ conn[k].stage = "resumed"
    /\ TakeSlow([conn EXCEPT ![k].stage = "frames"], last_slow)
    /\ running' = k
    /\ UNCHANGED <<connections, countVars, pubsubVars, consumers, forgotten, unsynced, halted>>

-----------------------------------------------------------------------------
(* The ticker's deliveries, the peers, and stop().                         *)

Deliver(k) ==
    /\ running = None /\ ~halted
    /\ k \in consumers \cap connections
    /\ Fits(conn[k])
    /\ conn' = [conn EXCEPT ![k] = try_send(@)]
    /\ UNCHANGED <<connections, countVars, pubsubVars, consumers, slowVars, unsynced, running, halted>>

Peer(k, p) ==
    /\ running = None
    /\ conn[k].stage # "absent"
    /\ conn[k].peer \notin {p, "gone"}
    /\ k \in Fragile
    /\ conn' = [conn EXCEPT ![k].peer = p]
    /\ UNCHANGED <<connections, countVars, pubsubVars, consumers, slowVars, unsynced, running, halted>>

\* stop() up to its first await: the transports are aborted, and close() will
\* find the connections closed.
Stop ==
    /\ running = None /\ ~halted
    /\ halted' = TRUE
    /\ conn' = [k \in Conns |-> IF k \in connections
                                THEN [conn[k] EXCEPT !.closed = TRUE, !.peer = "gone"]
                                ELSE conn[k]]
    /\ UNCHANGED <<connections, countVars, pubsubVars, consumers, slowVars, unsynced, running>>

StopEnd ==
    /\ running = None /\ halted
    /\ connections # {}
    /\ connections' = {}
    /\ UNCHANGED <<conn, countVars, pubsubVars, consumers, slowVars, unsynced, running, halted>>

-----------------------------------------------------------------------------
LoopStep(k) == BatchEnd(k) \/ Heartbeat(k) \/ Malformed(k) \/ Command(k) \/ Leave(k)

Next ==
    \/ \E k \in Conns :
          \/ Connect(k) \/ ReadEnds(k) \/ LoopStep(k) \/ Unblock(k) \/ Resume(k)
          \/ \E batch \in Batches[k] : ReadData(k, batch)
          \/ DropSlow(k) \/ Deliver(k)
          \/ WriterTake(k) \/ WriterDrained(k) \/ WriterClosed(k) \/ WriterTimeout(k)
          \/ \E p \in {"reads", "stuck", "gone"} : Peer(k, p)
    \/ Synced
    \/ Stop
    \/ StopEnd

Spec == Init /\ [][Next]_vars

-----------------------------------------------------------------------------
(* Fairness: the event loop serves every task that is ready, the disk gets *)
(* its fsync done, a read of a connection that is gone or closed returns   *)
(* or meets idle_timeout, drain() and wait_closed() return if the peer     *)
(* reads or has gone, and close()'s two seconds pass.  Nothing is assumed  *)
(* of a peer that does not read.                                           *)

\* A step of the connection's own task, and of its write loop.
Reader(k) == LoopStep(k) \/ Resume(k) \/ Unblock(k) \/ (ReadEnds(k) /\ Over(k))
Writer(k) == \/ WriterTake(k) \/ WriterDrained(k)
             \/ WriterClosed(k) /\ conn[k].peer # "stuck"

Fairness ==
    /\ WF_vars(Synced)
    /\ \A k \in Conns :
          /\ WF_vars(Reader(k))
          /\ WF_vars(Writer(k))
          /\ WF_vars(WriterTimeout(k))
          /\ WF_vars(DropSlow(k))

FairSpec == Spec /\ Fairness

-----------------------------------------------------------------------------
(* Properties.                                                             *)

\* Each connection, the tables and the lists of slow subscribers are well
\* typed; in particular an outbound queue never exceeds its limit.
ServerTypeOK ==
    /\ conn \in [Conns -> Connection]
    /\ \A k \in Conns : Occupied(conn[k]) <= OutboundLimit
    /\ connections \subseteq Conns
    /\ active \in Nat
    /\ subs \in [Channels -> SUBSET Conns]
    /\ by_connection \in [Conns -> SUBSET Channels]
    /\ consumers \cup last_slow \cup forgotten \cup cut \subseteq Conns
    /\ drops \in [Conns -> Nat]
    /\ unsynced \in BOOLEAN /\ halted \in BOOLEAN
    /\ running \in Conns \cup {None}

\* What is kept twice agrees, although a connection may be dropped from two
\* sides: the subscriptions by channel and by connection, so that disconnect()
\* finds all there is of a connection, and the count that max_connections is
\* compared with and the table of connections.  The count is too high by just
\* the connections whose _drop was cut short by an exception: each of them
\* costs one of max_connections until the broker stops.
TablesAgree ==
    /\ \A k \in Conns, c \in Channels : k \in subs[c] <=> c \in by_connection[k]
    /\ ~halted => active = Cardinality(connections) + Cardinality(cut)

\* A connection whose _drop ran to its end leaves no consumer and no
\* subscription behind, except by the one command its read loop may still
\* handle with frames it had in hand: the reply to that cannot be sent and
\* ends the loop.  A _drop cut short has not called close(): that connection
\* goes on, and is exempt.
OneLateCommand ==
    \A k \in Conns \ cut :
        /\ conn[k].late <= 1
        /\ ~halted /\ k \notin connections /\ (k \in consumers \/ by_connection[k] # {})
              => conn[k].late = 1

\* A subscriber that PUBLISH_CHANNEL found slow is dropped, unless another
\* PUBLISH_CHANNEL overwrites the handler's list while the first waits for
\* the disk, or the publisher is too slow itself to get its reply.
SlowAreDropped ==
    \A k \in Conns :
        (k \in last_slow /\ k \in connections) ~> (k \notin connections \/ k \in forgotten)

\* A connection whose peer has gone is dropped, unless its read loop waits to
\* put a frame on a full outbound queue, which nobody empties any more.
GoneAreDropped ==
    \A k \in Conns :
        (conn[k].peer = "gone" /\ k \in connections)
            ~> (k \notin connections \/ conn[k].stage = "blocked")

\* The write loop of a connection that close() has closed ends, also when the
\* outbound queue was full, with one exception: the peer does not read, and
\* the cancellation that ends a drain() has been spent, so that nothing ends
\* the wait_closed() after it before the peer reads or goes.  stop() sets
\* closed itself, and leaves the write loops to the end of the process.
WriterEnds ==
    \A k \in Conns :
        (conn[k].closed /\ ~halted)
            ~> \/ conn[k].writer = "done" \/ halted
               \/ /\ conn[k].writer = "closing" /\ conn[k].closer = "cancelled"
                  /\ conn[k].peer = "stuck"

=============================================================================
