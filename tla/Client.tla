------------------------------- MODULE Client -------------------------------
(***************************************************************************)
(* The client library: FrameReader of protocol/frames.py, ProtocolClient   *)
(* of client/connection.py and the calls of client/async_client.py that    *)
(* use it.  The blocking Broker of client/sync_client.py runs the same     *)
(* calls: when it stops waiting for one, the coroutine goes on as here.    *)
(*                                                                         *)
(* One event loop runs the read loop and the calls.  Each call is a        *)
(* coroutine with three places to wait: drain(), its future, and the queue *)
(* of deliveries.  Handling a chunk of bytes is one step: nothing in it    *)
(* suspends, since the two queues of events are unbounded.                 *)
(*                                                                         *)
(* A frame on the wire is a run of cells, HEADER_SIZE of the header and    *)
(* BodySize of the rest, and a read takes any number of them.  A cell says *)
(* of which frame it is, which is what its bytes say once the header is    *)
(* decoded and the checksum agrees.                                        *)
(*                                                                         *)
(* The broker is external: it executes commands in order, answers each     *)
(* one under its request_id, and sends the deliveries of a consumer.  A    *)
(* token is one such hand-over of a message, in a DELIVER or in a reply to *)
(* GET.  Left out: PUBSUB_MESSAGE, which the read loop queues as it queues *)
(* DELIVER, heartbeats, which neither side begins, and TLS.                *)
(***************************************************************************)
EXTENDS Integers, FiniteSets, Sequences

CONSTANTS
    Calls,            \* calls the application makes, once each
    Kind,             \* Kind[c]: "consume", "get", or "command" for the others
    Cancellable,      \* calls the application may cancel, as asyncio.wait_for does
    Tokens,           \* hand-overs of messages
    None,
    Damages,          \* what a frame may suffer: see decode_header
    DamageBound,      \* on how many connections, the first ones, a frame may suffer
    ConnectBound,     \* how often the application connects
    WireBound         \* frames on their way to the client

ASSUME ClientAssumption ==
    /\ Kind \in [Calls -> {"consume", "get", "command"}]
    /\ Cancellable \subseteq Calls
    /\ Damages \subseteq {"magic", "huge", "longer", "body"}
    /\ DamageBound \in Nat /\ ConnectBound \in Nat /\ WireBound \in Nat
    /\ None \notin Calls \cup Tokens \cup Nat

HEADER_SIZE == 2
BodySize    == 1
FrameSize   == HEADER_SIZE + BodySize
MaxFrameSize == FrameSize + 1

Cell  == [of : Nat \ {0}, at : 1..FrameSize]

\* A response carries the request_id and, for the properties, the call whose
\* command was executed; an event carries neither.
Frame == [type : {"response", "event"}, rid : Nat, call : Calls \cup {None},
          ok : BOOLEAN, token : Tokens \cup {None}, damage : Damages \cup {"none"}]

\* A coroutine: where it waits, its request_id, its future and what the future
\* was given, and the token it took.  late: there was no read loop to answer it.
Call == [at : {"new", "drain", "wait", "deliver", "done"}, rid : Nat,
         future : {"none", "pending", "set", "failed", "cancelled"},
         reply : Frame \cup {None}, token : Tokens \cup {None},
         outcome : {"none", "returned", "timeout", "reset", "cancelled", "error"},
         late : BOOLEAN]

VARIABLES
    writer,        \* _writer: "none", "open", or "closing" while close() waits
    reader,        \* _reader_task: "none", "running" or "ended"
    wire,          \* cells the broker has written and the client has not read
    net,           \* the TCP connection: "none", "up" or "lost"
    connects,      \* calls of connect() so far
    sent,          \* frames the broker wrote on this connection
    buf,           \* FrameReader._buf
    handled,       \* frames of this connection the read loop has handled, by number
    rid,           \* _rid
    pending,       \* the keys of _pending
    calls,         \* Call of each call
    deliveries,    \* the queue of deliveries
    registered,    \* whether _consumers has the queue
    commands,      \* calls whose commands the broker has still to execute
    consuming,     \* whether the broker has a consumer on this connection
    given          \* tokens handed over so far

netVars    == <<wire, net, sent, commands, consuming, given>>
readVars   == <<reader, buf, handled>>
callVars   == <<rid, pending, calls, deliveries, registered>>
vars == <<netVars, readVars, callVars, writer, connects>>

Fresh == [at |-> "new", rid |-> 0, future |-> "none", reply |-> None, token |-> None,
          outcome |-> "none", late |-> FALSE]

Init ==
    /\ writer = "none"
    /\ reader = "none"
    /\ wire = << >>
    /\ net = "none"
    /\ connects = 0
    /\ sent = << >>
    /\ buf = << >>
    /\ handled = << >>
    /\ rid = 0
    /\ pending = {}
    /\ calls = [c \in Calls |-> Fresh]
    /\ deliveries = << >>
    /\ registered = FALSE
    /\ commands = << >>
    /\ consuming = FALSE
    /\ given = {}

-----------------------------------------------------------------------------
(* FrameReader.                                                            *)

encode_frame(n) == [i \in 1..FrameSize |-> [of |-> n, at |-> i]]

\* The total length a header announces, or None if it is refused: its magic
\* is wrong, as that of bytes that are no header is.  A damaged length makes
\* the frame too large, or one cell longer than it is.
decode_header(b) ==
    LET damage == sent[b[1].of].damage
    IN  IF b[1].at # 1 \/ damage = "magic" THEN None
        ELSE IF damage = "huge" THEN MaxFrameSize + 1
        ELSE IF damage = "longer" THEN FrameSize + 1
        ELSE FrameSize

\* The checksum covers the header, the metadata and the payload.
ChecksumAgrees(raw) == raw = encode_frame(raw[1].of) /\ sent[raw[1].of].damage = "none"

\* One turn of feed's loop on [buf, frames, error].
_try_one(r) ==
    LET total == decode_header(r.buf)
    IN  IF r.error \/ Len(r.buf) < HEADER_SIZE THEN r
        ELSE IF total = None THEN [r EXCEPT !.error = TRUE]
        ELSE IF total > MaxFrameSize THEN [r EXCEPT !.error = TRUE]
        ELSE IF Len(r.buf) < total THEN r
        ELSE LET rest == SubSeq(r.buf, total + 1, Len(r.buf))
             IN  IF ChecksumAgrees(SubSeq(r.buf, 1, total))
                 THEN [r EXCEPT !.buf = rest, !.frames = Append(@, r.buf[1].of)]
                 ELSE [r EXCEPT !.buf = rest, !.error = TRUE]

\* Mutant: at most one frame per call.
feed_one(data) == _try_one([buf |-> buf \o data, frames |-> << >>, error |-> FALSE])

\* The loop ends when a turn yields no frame, so it has at most one turn for
\* each cell there is.
feed(data) ==
    LET all == buf \o data
        turn[i \in 0..Len(all)] ==
            IF i = 0 THEN [buf |-> all, frames |-> << >>, error |-> FALSE]
            ELSE _try_one(turn[i - 1])
    IN  turn[Len(all)]

-----------------------------------------------------------------------------
(* The futures.                                                            *)

Waiting(c) == calls[c].at \in {"drain", "wait"}

\* The futures of some requests are given an end, unless they have one.
EndFutures(rids, end) ==
    [c \in Calls |->
        IF Waiting(c) /\ calls[c].future = "pending" /\ calls[c].rid \in rids
        THEN [calls[c] EXCEPT !.future = end] ELSE calls[c]]

\* Mutant: the futures are forgotten.
LoopOverForgets ==
    /\ pending' = {}
    /\ UNCHANGED calls

\* _read_loop's finally clause.
LoopOver ==
    /\ calls' = EndFutures(pending, "failed")
    /\ pending' = {}

-----------------------------------------------------------------------------
(* The connection.                                                         *)

\* connect() of a client that is not connected, or whose connection is over.
\* The code does not prevent a connect() while close() waits or while a read
\* loop is running, which would leave two loops on one _pending: a client that
\* is used so is not modelled.
connect ==
    /\ connects < ConnectBound
    /\ writer = "none" \/ (writer = "open" /\ reader = "ended")
    /\ connects' = connects + 1
    /\ writer' = "open"
    /\ reader' = "running"
    /\ net' = "up"
    /\ wire' = << >>
    /\ sent' = << >>
    /\ buf' = << >>
    /\ handled' = << >>
    /\ commands' = << >>
    /\ consuming' = FALSE
    /\ UNCHANGED <<given, callVars>>

\* close() as far as wait_closed(): the read loop is cancelled and runs its
\* finally clause, the transport is closed.
close ==
    /\ writer = "open"
    /\ writer' = "closing"
    /\ IF reader = "running" THEN LoopOver ELSE UNCHANGED <<calls, pending>>
    /\ reader' = "none"
    /\ net' = "lost"
    /\ wire' = << >>
    /\ commands' = << >>
    /\ UNCHANGED <<sent, consuming, given, buf, handled, rid, deliveries, registered, connects>>

\* The rest of close(), after wait_closed().
CloseEnd ==
    /\ writer = "closing"
    /\ writer' = "none"
    /\ calls' = EndFutures(pending, "cancelled")
    /\ pending' = {}
    /\ UNCHANGED <<netVars, readVars, rid, deliveries, registered, connects>>

-----------------------------------------------------------------------------
(* The read loop.                                                          *)

IsReply(n) == sent[n].type = "response"
IsDelivery(n) == sent[n].type = "event"

\* The requests that these frames answer.
RepliedTo(frames) ==
    {sent[frames[i]].rid : i \in {j \in DOMAIN frames : IsReply(frames[j])}}

\* The futures the replies among these frames find in _pending.
Answered(frames) ==
    [c \in Calls |->
        LET mine == {i \in DOMAIN frames :
                        IsReply(frames[i]) /\ sent[frames[i]].rid = calls[c].rid}
        IN  IF /\ Waiting(c)
               /\ calls[c].future = "pending"
               /\ calls[c].rid \in pending
               /\ mine # {}
            THEN [calls[c] EXCEPT !.future = "set",
                                  !.reply = sent[frames[CHOOSE i \in mine : TRUE]]]
            ELSE calls[c]]

\* The queue of deliveries once the events among them are put.
Queued(frames) ==
    LET q[i \in 0..Len(frames)] ==
            IF i = 0 THEN deliveries
            ELSE IF IsDelivery(frames[i]) THEN Append(q[i - 1], sent[frames[i]].token)
            ELSE q[i - 1]
    IN  q[Len(frames)]

\* One turn of the loop on k cells.  If feed raises, the frames it had found
\* are lost with it and the loop ends.  parse_metadata does not fail here: the
\* metadata of a frame whose checksum agrees is what this broker encoded.
Read(k) ==
    LET r == feed(SubSeq(wire, 1, k))
    IN  /\ reader = "running"
        /\ k \in 1..Len(wire)
        /\ wire' = SubSeq(wire, k + 1, Len(wire))
        /\ buf' = r.buf
        /\ \/ /\ r.error
              /\ reader' = "ended"
              /\ LoopOver
              /\ UNCHANGED <<handled, deliveries>>
           \/ /\ ~r.error
              /\ handled' = handled \o r.frames
              /\ calls' = Answered(r.frames)
              /\ pending' = pending \ RepliedTo(r.frames)
              /\ deliveries' = Queued(r.frames)
              /\ UNCHANGED reader
        /\ UNCHANGED <<net, sent, commands, consuming, given, rid, registered,
                       writer, connects>>

\* read() returns no data, or raises.
ReadEnds ==
    /\ reader = "running"
    /\ net = "lost"
    /\ wire = << >>
    /\ reader' = "ended"
    /\ LoopOver
    /\ UNCHANGED <<netVars, buf, handled, rid, deliveries, registered,
                   writer, connects>>

-----------------------------------------------------------------------------
(* request().                                                              *)

\* Mutant: the number of requests under way is taken for the next id.
NextRidReused == Cardinality(pending) + 1

\* Mutant: the counter is not moved on, and 0 is the id of events.
NextRidZero == rid

NextRid == rid + 1

\* As far as drain().  What is written to a transport that is closing or
\* whose peer is gone is dropped.
request(c) ==
    IF writer = "none"
    THEN /\ calls' = [calls EXCEPT ![c].at = "done", ![c].outcome = "error"]
         /\ UNCHANGED <<rid, pending, commands>>
    ELSE /\ rid' = NextRid
         /\ pending' = pending \cup {NextRid}
         /\ calls' = [calls EXCEPT ![c].at = "drain", ![c].rid = NextRid,
                                   ![c].future = "pending",
                                   ![c].late = reader # "running"]
         /\ commands' = IF net = "up" /\ writer = "open" THEN Append(commands, c)
                        ELSE commands

\* consume() asks for a consumer once; the other calls are one request each.
Start(c) ==
    /\ calls[c].at = "new"
    /\ IF Kind[c] = "consume" /\ registered
       THEN /\ calls' = [calls EXCEPT ![c].at = "deliver"]
            /\ UNCHANGED <<rid, pending, commands>>
       ELSE request(c)
    /\ UNCHANGED <<readVars, wire, net, sent, consuming, given, deliveries, registered,
                   writer, connects>>

Moves(c, r) ==
    /\ calls' = [calls EXCEPT ![c] = r]
    /\ UNCHANGED <<netVars, readVars, rid, deliveries, writer, connects>>

Drained(c) ==
    /\ calls[c].at = "drain"
    /\ Moves(c, [calls[c] EXCEPT !.at = "wait"])
    /\ UNCHANGED <<pending, registered>>

\* drain() raises: the future stays in _pending.
DrainFails(c) ==
    /\ calls[c].at = "drain"
    /\ net = "lost"
    /\ Moves(c, [calls[c] EXCEPT !.at = "done", !.outcome = "reset"])
    /\ UNCHANGED <<pending, registered>>

\* The application cancels the call, wherever it waits.  request() catches only
\* TimeoutError, so the future stays in _pending; a reply it was given is lost.
Cancelled(c) ==
    /\ c \in Cancellable
    /\ calls[c].at \in {"drain", "wait", "deliver"}
    /\ Moves(c, [calls[c] EXCEPT !.at = "done", !.outcome = "cancelled"])
    /\ UNCHANGED <<pending, registered>>

\* Mutant: the future stays in _pending.
TimeoutLeaks(c) ==
    /\ calls[c].at = "wait"
    /\ calls[c].future = "pending"
    /\ Moves(c, [calls[c] EXCEPT !.at = "done", !.outcome = "timeout"])
    /\ UNCHANGED <<pending, registered>>

\* Mutant: the future is awaited without wait_for.
TimeoutNever(c) == FALSE /\ UNCHANGED vars

Timeout(c) ==
    /\ calls[c].at = "wait"
    /\ calls[c].future = "pending"
    /\ pending' = pending \ {calls[c].rid}
    /\ Moves(c, [calls[c] EXCEPT !.at = "done", !.outcome = "timeout"])
    /\ UNCHANGED registered

\* The future has ended.  A reply without ok is raised; consume() goes on to
\* wait for a delivery.
Resume(c) ==
    LET x == calls[c]
        ok == x.future = "set" /\ x.reply.ok
    IN  /\ x.at = "wait"
        /\ x.future # "pending"
        /\ registered' = (registered \/ (ok /\ Kind[c] = "consume"))
        /\ Moves(c, IF ~ok THEN [x EXCEPT !.at = "done", !.outcome = "error"]
                    ELSE IF Kind[c] = "consume" THEN [x EXCEPT !.at = "deliver"]
                    ELSE [x EXCEPT !.at = "done", !.outcome = "returned",
                                   !.token = x.reply.token])
        /\ UNCHANGED pending

\* Mutant: the delivery is looked at and left in the queue.
TakeDeliveryPeeks(c) ==
    /\ calls[c].at = "deliver"
    /\ deliveries # << >>
    /\ calls' = [calls EXCEPT ![c].at = "done", ![c].outcome = "returned",
                              ![c].token = Head(deliveries)]
    /\ UNCHANGED <<netVars, readVars, rid, pending, deliveries, registered, writer, connects>>

\* deliveries.get() in consume().
TakeDelivery(c) ==
    /\ calls[c].at = "deliver"
    /\ deliveries # << >>
    /\ deliveries' = Tail(deliveries)
    /\ calls' = [calls EXCEPT ![c].at = "done", ![c].outcome = "returned",
                              ![c].token = Head(deliveries)]
    /\ UNCHANGED <<netVars, readVars, rid, pending, registered, writer, connects>>

-----------------------------------------------------------------------------
(* The broker and the network (external).                                  *)

Intact == \A n \in DOMAIN sent : sent[n].damage = "none"

Send(frame) ==
    /\ net = "up"
    /\ Len(wire) < WireBound * FrameSize
    /\ frame.damage # "none" => connects <= DamageBound /\ Intact
    /\ sent' = Append(sent, frame)
    /\ wire' = wire \o encode_frame(Len(sent) + 1)
    /\ given' = given \cup ({frame.token} \ {None})
    /\ UNCHANGED <<net, readVars, callVars, writer, connects>>

Hurt == Damages \cup {"none"}

Free == Tokens \ given

\* A command that has been read is executed and answered; a GET may find
\* the queue empty.
Answer(ok, token, damage) ==
    LET c == Head(commands)
    IN  /\ commands # << >>
        /\ token # None => ok /\ Kind[c] = "get"
        /\ Send([type |-> "response", rid |-> calls[c].rid, call |-> c, ok |-> ok,
                 token |-> token, damage |-> damage])
        /\ commands' = Tail(commands)
        /\ consuming' = (consuming \/ (ok /\ Kind[c] = "consume"))

Push(token, damage) ==
    /\ consuming
    /\ Send([type |-> "event", rid |-> 0, call |-> None, ok |-> TRUE,
             token |-> token, damage |-> damage])
    /\ UNCHANGED <<commands, consuming>>

\* The connection breaks; k cells still reach the client.
Lose(k) ==
    /\ net = "up"
    /\ k \in 0..Len(wire)
    /\ net' = "lost"
    /\ wire' = SubSeq(wire, 1, k)
    /\ commands' = << >>
    /\ UNCHANGED <<sent, consuming, given, readVars, callVars, writer, connects>>

-----------------------------------------------------------------------------
Coroutine(c) ==
    \/ Start(c) \/ Drained(c) \/ DrainFails(c) \/ Cancelled(c) \/ Timeout(c)
    \/ Resume(c) \/ TakeDelivery(c)

Broker ==
    \/ \E ok \in BOOLEAN, token \in Free \cup {None}, damage \in Hurt :
          Answer(ok, token, damage)
    \/ \E token \in Free, damage \in Hurt : Push(token, damage)
    \/ \E k \in 0..Len(wire) : Lose(k)

ReadLoop == ReadEnds \/ \E k \in 1..Len(wire) : Read(k)

Next ==
    \/ connect \/ close \/ CloseEnd
    \/ ReadLoop
    \/ \E c \in Calls : Coroutine(c)
    \/ Broker

Spec == Init /\ [][Next]_vars

(* The event loop runs what is ready, its timers fire, and the broker reads *)
(* what is written to it, so that drain() returns.                          *)
Fairness ==
    \A c \in Calls : WF_vars(Drained(c) \/ DrainFails(c) \/ Timeout(c) \/ Resume(c))

FairSpec == Spec /\ Fairness

-----------------------------------------------------------------------------
(* Properties.                                                             *)

\* The client's fields, the wire and the coroutines are well typed.
ClientTypeOK ==
    /\ writer \in {"none", "open", "closing"}
    /\ reader \in {"none", "running", "ended"}
    /\ wire \in Seq(Cell) /\ buf \in Seq(Cell)
    /\ net \in {"none", "up", "lost"}
    /\ connects \in 0..ConnectBound
    /\ sent \in Seq(Frame)
    /\ handled \in Seq(1..Len(sent))
    /\ rid \in Nat
    /\ pending \subseteq 1..rid
    /\ calls \in [Calls -> Call]
    /\ deliveries \in Seq(Tokens)
    /\ registered \in BOOLEAN /\ consuming \in BOOLEAN
    /\ commands \in Seq(Calls)
    /\ given \subseteq Tokens

\* However the bytes are cut into reads, the read loop handles the frames
\* that were sent, in order, each once and never a damaged one; and while
\* the stream is intact FrameReader never holds back a whole frame.
Reassembled ==
    /\ \A i \in DOMAIN handled : handled[i] = i /\ sent[i].damage = "none"
    /\ reader = "running" /\ net = "up" /\ Intact =>
          /\ Len(buf) < FrameSize
          /\ FrameSize * Len(handled) + Len(buf) + Len(wire) = FrameSize * Len(sent)

\* A future is only ever given the reply to its own command: no late reply to
\* a request that timed out, before or after a reconnect, is taken for the
\* reply to a later one.
OwnReply ==
    \A c \in Calls : calls[c].future = "set" => calls[c].reply.call = c

\* _pending has the future of every request that is waiting, so that a reply
\* or the end of the loop finds it; and of no other request than those that
\* were cancelled or whose drain() raised, which a late reply takes out.  A
\* closed client has none, those made while close() was waiting for the
\* transport included.
PendingAgrees ==
    /\ \A c \in Calls :
          Waiting(c) /\ calls[c].future = "pending" => calls[c].rid \in pending
    /\ \A r \in pending : \E c \in Calls :
          /\ calls[c].rid = r
          /\ \/ Waiting(c) /\ calls[c].future = "pending"
             \/ calls[c].outcome \in {"reset", "cancelled"}
    /\ writer = "none" => pending = {}

\* When the read loop ends, by whichever of EOF, a damaged frame and close(),
\* no request that relied on it is left waiting.  Only a request made after
\* the loop's end, on a client that still takes itself for connected, waits
\* for its timeout.
EndWakesRequests ==
    \A c \in Calls :
        Waiting(c) /\ calls[c].future = "pending" /\ ~calls[c].late => reader = "running"

Places(t) ==
    {<<"call", c>> : c \in {x \in Calls : calls[x].token = t}}
    \cup {<<"future", c>> : c \in {x \in Calls : /\ calls[x].at # "done"
                                                  /\ calls[x].future = "set"
                                                  /\ calls[x].reply.token = t}}
    \cup {<<"queue", i>> : i \in {j \in DOMAIN deliveries : deliveries[j] = t}}

\* A message that has reached the client on its current connection is in one
\* place: in the queue of deliveries or with one call.  The exception is the reply to a GET that
\* was given up or cancelled, whose message stays leased at the broker.
NothingMislaid ==
    \A i \in DOMAIN handled :
        LET f == sent[handled[i]]
        IN  f.token # None =>
              \/ Cardinality(Places(f.token)) = 1
              \/ /\ f.type = "response"
                 /\ calls[f.call].outcome \in {"timeout", "reset", "cancelled"}

\* Every request ends: with its reply, with the end of the connection, or
\* with its timeout if nobody is left to answer.
RequestsEnd == \A c \in Calls : Waiting(c) ~> ~Waiting(c)

=============================================================================
