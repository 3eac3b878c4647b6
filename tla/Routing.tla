------------------------------ MODULE Routing ------------------------------
(***************************************************************************)
(* Exchanges, bindings and publications of OneOpen Broker: RoutingEngine   *)
(* of core/routing.py, the commands of broker/handler.py that call it, and *)
(* what a restart makes of it: restore_state from a snapshot, then         *)
(* apply_record of persistence/recovery.py for each record of the file.    *)
(*                                                                         *)
(* A queue is here its name and the publications it holds; what becomes of *)
(* a message in it is QueueEngine's subject.  A command is one action, but *)
(* for publish, which takes one step per target of its loop while `pub'    *)
(* keeps everything else out.                                              *)
(*                                                                         *)
(* `log' holds the records above the seq of the snapshot, the only ones    *)
(* that recover_into applies (AofWriter: later ones have larger numbers).  *)
(* Left out of it are the records that the replay passes over.             *)
(***************************************************************************)
EXTENDS Naturals, Sequences, FiniteSets

CONSTANTS
    Queues,             \* names of ordinary queues
    Exchanges,          \* names of exchanges that clients declare
    Default,            \* DEFAULT_EXCHANGE, the empty name
    Keys,               \* routing keys that are not names of queues
    Pubs,               \* publications
    None,               \* Python's None
    DefaultMaxLength,   \* QueueEngine.max_length
    Rank,               \* the alphabetical order of queue names
    Named,              \* queues that clients declare, GET and publish to by name
    Bindable,           \* the arguments of BIND and UNBIND
    SeqBound            \* bound: records written by commands other than PUBLISH's copies

Names == [base : Queues, kind : {"queue", "dlq"}]
dlq_name(n) == [n EXCEPT !.kind = "dlq"]
Family(n) == {n, dlq_name(n)}

AllExchanges == Exchanges \cup {Default}
RoutingKeys  == Names \cup Keys
Types        == {"direct", "fanout"}
Binding      == [exchange : AllExchanges, queue : Names, routing_key : RoutingKeys]

Ops == {"QUEUE_DECLARE", "QUEUE_DELETE", "EXCHANGE_DECLARE", "EXCHANGE_DELETE",
        "BIND", "UNBIND", "MESSAGE_PUBLISH"}

\* A record of the file: the operation and its arguments, None where it has none.
Record == [op : Ops, exchange : AllExchanges \cup {None}, queue : Names \cup {None},
           routing_key : RoutingKeys \cup {None}, type : Types \cup {None},
           id : Pubs \cup {None}]

\* What a snapshot holds of the tables and the queues.
Snapshot == [exchanges : [AllExchanges -> Types \cup {None}], bindings : SUBSET Binding,
             queues : SUBSET Names, held : [Names -> SUBSET Pubs]]

\* What PUBLISH answers.
Codes == {"OK", "NOT_FOUND", "QUEUE_FULL"}

\* A PUBLISH under way.
Publication == [id : Pubs, targets : SUBSET Names, routed : SUBSET Names,
                existing : SUBSET Names, code : Codes \cup {None}]

ASSUME RoutingAssumption ==
    /\ Default \notin Exchanges
    /\ None \notin AllExchanges \cup Names \cup RoutingKeys \cup Pubs \cup Types \cup Codes
    /\ None \notin Nat
    /\ None \notin Seq(Record)
    /\ None \notin Snapshot
    /\ Rank \in [Names -> Nat]
    /\ \A m, n \in Names : Rank[m] = Rank[n] => m = n
    /\ DefaultMaxLength \in Nat \cup {None}
    /\ Named \subseteq Names
    /\ Bindable \subseteq Binding
    /\ SeqBound \in Nat

VARIABLES
    exchanges,  \* _exchanges: the type of each exchange, None if it is not there
    bindings,   \* _bindings
    queues,     \* the queues that exist
    held,       \* the publications each queue holds a copy of
    pub,        \* PUBLISH under way: targets to come, routed, reply code; or None
    published,  \* publications made so far
    log,        \* the file above the snapshot
    written,    \* how many records have been written, over all restarts
    snapshot,   \* snapshot.dat, or None
    todo,       \* records still to apply during a recovery, else None
    stale,      \* bindings as old as a snapshot that had no queue of that name
    before      \* what a crash that lost no record interrupted, else None

routingVars == <<exchanges, bindings, queues, held>>
fileVars    == <<log, written, snapshot, todo, stale, before>>
vars        == <<routingVars, pub, published, fileVars>>

-----------------------------------------------------------------------------
(* Records and helpers.                                                    *)

Blank(op) == [op |-> op, exchange |-> None, queue |-> None, routing_key |-> None,
              type |-> None, id |-> None]
QueueRecord(op, n) == [Blank(op) EXCEPT !.queue = n]
BindRecord(op, b) ==
    [Blank(op) EXCEPT !.exchange = b.exchange, !.queue = b.queue, !.routing_key = b.routing_key]

\* The binding on_queue_declared makes.
Own(n) == [exchange |-> Default, queue |-> n, routing_key |-> n]

\* What declare_queue adds: the queue, and the dead-letter queue of an ordinary
\* one, each unless it is there.
Declared(n) == IF n \in queues THEN {} ELSE Family(n) \ queues

\* The records of that, the dead-letter queue's first.
DeclareRecords(n) ==
    LET d == Declared(n)
    IN  (IF dlq_name(n) \in d \ {n} THEN <<QueueRecord("QUEUE_DECLARE", dlq_name(n))>> ELSE << >>)
        \o (IF n \in d THEN <<QueueRecord("QUEUE_DECLARE", n)>> ELSE << >>)

\* delete_queue deletes the dead-letter queue of an ordinary queue with it.
Deleted(n) == IF n \in queues THEN Family(n) \cap queues ELSE {}

\* enqueue()'s test against the limit
Full(n) == DefaultMaxLength # None /\ Cardinality(held[n]) >= DefaultMaxLength

\* route_targets: a fanout exchange does not look at the key.
route_targets(bs, x, k) ==
    {b.queue : b \in {c \in bs : c.exchange = x /\ (exchanges[x] = "fanout" \/ c.routing_key = k)}}

Ready == todo = None /\ pub = None

Write(rs) ==
    /\ written + Len(rs) <= SeqBound
    /\ written' = written + Len(rs)
    /\ log' = log \o rs
    /\ UNCHANGED <<snapshot, todo, before>>

NoExchanges == [x \in AllExchanges |-> IF x = Default THEN "direct" ELSE None]

NoCopies == [n \in Names |-> {}]

Init ==
    /\ exchanges = NoExchanges
    /\ bindings = {}
    /\ queues = {}
    /\ held = NoCopies
    /\ pub = None
    /\ published = {}
    /\ log = << >>
    /\ written = 0
    /\ snapshot = None
    /\ todo = None
    /\ stale = {}
    /\ before = None

-----------------------------------------------------------------------------
(* What the engines do, live and in a replay.                              *)

AddExchange(x, t) ==
    exchanges' = IF exchanges[x] = None THEN [exchanges EXCEPT ![x] = t] ELSE exchanges

\* Mutant: the bindings of the exchange stay.
RemoveExchangeOnly(x) ==
    /\ exchanges' = [exchanges EXCEPT ![x] = None]
    /\ UNCHANGED bindings

\* delete_exchange takes the bindings of the exchange with it.
RemoveExchange(x) ==
    /\ exchanges' = [exchanges EXCEPT ![x] = None]
    /\ bindings' = {b \in bindings : b.exchange # x}

RemoveQueues(gone) ==
    /\ queues' = queues \ gone
    /\ held' = [n \in Names |-> IF n \in gone THEN {} ELSE held[n]]

-----------------------------------------------------------------------------
(* Commands.  One that changes nothing (an exchange that is there, a       *)
(* binding that is not, NOT_FOUND) is a stuttering step.                   *)

CmdDeclareExchange(x, t) ==
    /\ Ready
    /\ exchanges[x] = None
    /\ AddExchange(x, t)
    /\ Write(<<[Blank("EXCHANGE_DECLARE") EXCEPT !.exchange = x, !.type = t]>>)
    /\ UNCHANGED <<bindings, queues, held, pub, published, stale>>

\* Mutant: the default exchange may be deleted.
RemovableDefault(x) == exchanges[x] # None

\* delete_exchange's tests.
Removable(x) == x # Default /\ exchanges[x] # None

CmdDeleteExchange(x) ==
    /\ Ready
    /\ Removable(x)
    /\ RemoveExchange(x)
    /\ Write(<<[Blank("EXCHANGE_DELETE") EXCEPT !.exchange = x]>>)
    /\ stale' = {b \in stale : b.exchange # x}
    /\ UNCHANGED <<queues, held, pub, published>>

\* DECLARE_QUEUE binds the queue whether or not it was there.  CONSUME does the
\* same for each of its queues that is not.
CmdDeclareQueue(n) ==
    /\ Ready
    /\ queues' = queues \cup Declared(n)
    /\ bindings' = bindings \cup {Own(n)}
    /\ Write(DeclareRecords(n) \o <<BindRecord("BIND", Own(n))>>)
    /\ stale' = stale \ {Own(n)}
    /\ UNCHANGED <<exchanges, held, pub, published>>

\* GET registers a consumer, which declares the queue and does not bind it.
CmdGet(n) ==
    /\ Ready
    /\ n \notin queues
    /\ queues' = queues \cup Declared(n)
    /\ Write(DeclareRecords(n))
    /\ UNCHANGED <<exchanges, bindings, held, pub, published, stale>>

\* The bindings of a deleted queue stay.
CmdDeleteQueue(n) ==
    /\ Ready
    /\ n \in queues
    /\ RemoveQueues(Deleted(n))
    /\ Write(<<QueueRecord("QUEUE_DELETE", n)>> \o
             (IF dlq_name(n) \in Deleted(n) \ {n}
              THEN <<QueueRecord("QUEUE_DELETE", dlq_name(n))>> ELSE << >>))
    /\ UNCHANGED <<exchanges, bindings, pub, published, stale>>

CmdBind(b) ==
    /\ Ready
    /\ exchanges[b.exchange] # None
    /\ b.queue \in queues
    /\ bindings' = bindings \cup {b}
    /\ Write(<<BindRecord("BIND", b)>>)
    /\ stale' = stale \ {b}
    /\ UNCHANGED <<exchanges, queues, held, pub, published>>

CmdUnbind(b) ==
    /\ Ready
    /\ b \in bindings
    /\ bindings' = bindings \ {b}
    /\ Write(<<BindRecord("UNBIND", b)>>)
    /\ stale' = stale \ {b}
    /\ UNCHANGED <<exchanges, queues, held, pub, published>>

-----------------------------------------------------------------------------
(* PUBLISH.                                                                *)

Started(p, ts, qs) ==
    [id |-> p, targets |-> ts, routed |-> {}, existing |-> ts \cap qs, code |-> None]

\* To a queue: the default exchange, and the queue's name as the key unless one
\* is given; a queue that is missing is declared and bound.
CmdPublishQueue(p, n, key) ==
    LET k == IF key = None THEN n ELSE key
    IN  /\ Ready
        /\ p \notin published
        /\ published' = published \cup {p}
        /\ queues' = queues \cup Declared(n)
        /\ bindings' = IF n \in queues THEN bindings ELSE bindings \cup {Own(n)}
        /\ stale' = IF n \in queues THEN stale ELSE stale \ {Own(n)}
        /\ Write(IF n \in queues THEN << >>
                 ELSE DeclareRecords(n) \o <<BindRecord("BIND", Own(n))>>)
        /\ pub' = Started(p, route_targets(bindings', Default, k), queues')
        /\ UNCHANGED <<exchanges, held>>

\* To an exchange, which may be missing.
CmdPublishExchange(p, x, k) ==
    /\ Ready
    /\ p \notin published
    /\ published' = published \cup {p}
    /\ pub' = Started(p, IF exchanges[x] = None THEN {} ELSE route_targets(bindings, x, k), queues)
    /\ UNCHANGED <<routingVars, fileVars>>

\* Mutant: a full queue is passed over like one that is gone.
RefuseSkips(n) == pub' = [pub EXCEPT !.targets = @ \ {n}]

\* A full queue ends the loop; copies made before it stay.
Refuse(n) == pub' = [pub EXCEPT !.code = "QUEUE_FULL"]

Looping == pub # None /\ pub.code = None

\* One turn of the loop, in the order of the names.  A target whose queue is
\* gone is passed over.
PublishNext(n) ==
    /\ Looping
    /\ n \in pub.targets
    /\ \A m \in pub.targets : Rank[n] <= Rank[m]
    /\ \/ /\ n \notin queues
          /\ pub' = [pub EXCEPT !.targets = @ \ {n}]
          /\ UNCHANGED <<held, log>>
       \/ /\ n \in queues /\ Full(n)
          /\ Refuse(n)
          /\ UNCHANGED <<held, log>>
       \/ /\ n \in queues /\ ~Full(n)
          /\ held' = [held EXCEPT ![n] = @ \cup {pub.id}]
          /\ pub' = [pub EXCEPT !.targets = @ \ {n}, !.routed = @ \cup {n}]
          /\ log' = Append(log, [QueueRecord("MESSAGE_PUBLISH", n) EXCEPT !.id = pub.id])
    /\ UNCHANGED <<exchanges, bindings, queues, published, written, snapshot, todo, stale, before>>

PublishEnd ==
    /\ Looping
    /\ pub.targets = {}
    /\ pub' = [pub EXCEPT !.code = IF pub.routed = {} THEN "NOT_FOUND" ELSE "OK"]
    /\ UNCHANGED <<routingVars, published, fileVars>>

\* cmd_publish has its answer; what it pumps is Dispatch's subject.
PublishReply ==
    /\ pub # None
    /\ pub.code # None
    /\ pub' = None
    /\ UNCHANGED <<routingVars, published, fileVars>>

-----------------------------------------------------------------------------
(* The engine settles a copy, or moves it to the dead-letter queue, which  *)
(* it declares again without a record if it is gone.                       *)

Settle(n, p) ==
    /\ Ready
    /\ p \in held[n]
    /\ held' = [held EXCEPT ![n] = @ \ {p}]
    /\ UNCHANGED <<exchanges, bindings, queues, pub, published, fileVars>>

MoveToDlq(n, p) ==
    /\ Ready
    /\ n.kind = "queue"
    /\ p \in held[n]
    /\ held' = [held EXCEPT ![n] = @ \ {p}, ![dlq_name(n)] = @ \cup {p}]
    /\ queues' = queues \cup {dlq_name(n)}
    /\ UNCHANGED <<exchanges, bindings, pub, published, fileVars>>

-----------------------------------------------------------------------------
(* Snapshots, crashes and recovery.                                        *)

WriteSnapshot ==
    /\ Ready
    /\ snapshot' = [exchanges |-> exchanges, bindings |-> bindings,
                    queues |-> queues, held |-> held]
    /\ log' = << >>
    /\ stale' = {b \in bindings : b.queue \notin queues}
    /\ UNCHANGED <<routingVars, pub, published, written, todo, before>>

\* Mutant: bindings are restored before the queues they name.
RestoredBindingsEarly(s) == {b \in s.bindings : b.queue \in {}}

\* restore_state binds again, which needs the queue.
RestoredBindings(s) == {b \in s.bindings : s.exchanges[b.exchange] # None /\ b.queue \in s.queues}

\* The process ends; of the file a prefix is left.  The new process starts from
\* the snapshot: queues first, then exchanges and bindings.
Restart(kept) ==
    /\ Ready
    /\ before' = IF kept = Len(log)
                 THEN [exchanges |-> exchanges, bindings |-> bindings, queues |-> queues]
                 ELSE None
    /\ log' = SubSeq(log, 1, kept)
    /\ todo' = SubSeq(log, 1, kept)
    /\ IF snapshot = None
       THEN /\ exchanges' = NoExchanges
            /\ bindings' = {}
            /\ queues' = {}
            /\ held' = NoCopies
       ELSE /\ exchanges' = snapshot.exchanges
            /\ bindings' = RestoredBindings(snapshot)
            /\ queues' = snapshot.queues
            /\ held' = snapshot.held
    /\ UNCHANGED <<pub, published, written, snapshot, stale>>

BindingOf(r) == [exchange |-> r.exchange, queue |-> r.queue, routing_key |-> r.routing_key]

\* bind() without a record
Bound(b) == IF exchanges[b.exchange] # None THEN bindings \cup {b} ELSE bindings

\* apply_record.  QUEUE_DECLARE binds the queue to the default exchange, however
\* it had been declared; BIND and MESSAGE_PUBLISH declare a queue that is missing.
apply_record(r) ==
    \/ /\ r.op = "QUEUE_DECLARE"
       /\ queues' = queues \cup Declared(r.queue)
       /\ bindings' = Bound(Own(r.queue))
       /\ UNCHANGED <<exchanges, held>>
    \/ /\ r.op = "QUEUE_DELETE"
       /\ RemoveQueues(Deleted(r.queue))
       /\ UNCHANGED <<exchanges, bindings>>
    \/ /\ r.op = "EXCHANGE_DECLARE"
       /\ AddExchange(r.exchange, r.type)
       /\ UNCHANGED <<bindings, queues, held>>
    \/ /\ r.op = "EXCHANGE_DELETE"
       /\ RemoveExchange(r.exchange)
       /\ UNCHANGED <<queues, held>>
    \/ /\ r.op = "BIND"
       /\ queues' = queues \cup Declared(r.queue)
       /\ bindings' = Bound(BindingOf(r))
       /\ UNCHANGED <<exchanges, held>>
    \/ /\ r.op = "UNBIND"
       /\ bindings' = bindings \ {BindingOf(r)}
       /\ UNCHANGED <<exchanges, queues, held>>
    \/ /\ r.op = "MESSAGE_PUBLISH"
       /\ queues' = queues \cup Declared(r.queue)
       /\ bindings' = IF r.queue \in queues THEN bindings ELSE Bound(Own(r.queue))
       /\ held' = IF Full(r.queue) THEN held ELSE [held EXCEPT ![r.queue] = @ \cup {r.id}]
       /\ UNCHANGED exchanges

Replay ==
    /\ todo \notin {None, << >>}
    /\ apply_record(Head(todo))
    /\ todo' = Tail(todo)
    /\ UNCHANGED <<pub, published, log, written, snapshot, stale, before>>

Recovered ==
    /\ todo = << >>
    /\ todo' = None
    /\ before' = None
    /\ stale' = {}
    /\ UNCHANGED <<routingVars, pub, published, log, written, snapshot>>

-----------------------------------------------------------------------------
Commands ==
    \/ \E x \in AllExchanges, t \in Types : CmdDeclareExchange(x, t)
    \/ \E x \in AllExchanges : CmdDeleteExchange(x)
    \/ \E n \in Named : CmdDeclareQueue(n) \/ CmdGet(n)
    \/ \E n \in Names : CmdDeleteQueue(n)
    \/ \E b \in Bindable : CmdBind(b) \/ CmdUnbind(b)
    \/ \E p \in Pubs, n \in Named, k \in RoutingKeys \cup {None} : CmdPublishQueue(p, n, k)
    \/ \E p \in Pubs, x \in AllExchanges, k \in RoutingKeys : CmdPublishExchange(p, x, k)

Next ==
    \/ Commands
    \/ \E n \in Names : PublishNext(n)
    \/ PublishEnd
    \/ PublishReply
    \/ \E n \in Names, p \in Pubs : Settle(n, p) \/ MoveToDlq(n, p)
    \/ WriteSnapshot
    \/ \E kept \in 0..Len(log) : Restart(kept)
    \/ Replay
    \/ Recovered

Spec == Init /\ [][Next]_vars

-----------------------------------------------------------------------------
(* Properties.                                                             *)

\* The routing tables, the publication under way and the file are well typed.
RoutingTypeOK ==
    /\ exchanges \in [AllExchanges -> Types \cup {None}]
    /\ exchanges[Default] = "direct"
    /\ bindings \subseteq Binding
    /\ queues \subseteq Names
    /\ held \in [Names -> SUBSET Pubs]
    /\ pub # None => pub \in Publication
    /\ published \subseteq Pubs
    /\ log \in Seq(Record)
    /\ written \in Nat
    /\ todo # None => todo \in Seq(Record)
    /\ snapshot # None => snapshot \in Snapshot

\* A binding belongs to an exchange that is there, while the broker runs and
\* at each point of a recovery: an exchange that is deleted and declared again
\* starts without the routes of the old one.
NoOrphanBindings == \A b \in bindings : exchanges[b.exchange] # None

\* What the reply to PUBLISH says is what happened: OK, each target that
\* existed got a copy; NOT_FOUND, none existed; QUEUE_FULL, one that existed
\* got none, while others before it may have theirs.
ReplyIsTrue ==
    pub # None =>
        /\ pub.code = "OK"         => pub.routed = pub.existing /\ pub.routed # {}
        /\ pub.code = "NOT_FOUND"  => pub.existing = {}
        /\ pub.code = "QUEUE_FULL" => pub.routed \subseteq pub.existing /\ pub.routed # pub.existing
        /\ \A n \in pub.routed : pub.id \in held[n]

\* A restart that lost no record keeps the exchanges, and every binding of a
\* queue that exists, and adds no binding but a queue's own to the default
\* exchange.  The exception are bindings that a snapshot saved while their
\* queue was deleted: restore_state drops them, although they route again once
\* the queue is declared again.
RoutesSurvive ==
    [][todo = << >> /\ todo' = None /\ before # None =>
          /\ exchanges' = before.exchanges
          /\ {b \in before.bindings : b.queue \in before.queues} \ stale \subseteq bindings'
          /\ bindings' \ before.bindings \subseteq {Own(n) : n \in Names}]_vars

=============================================================================
