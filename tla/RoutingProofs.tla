---------------------------- MODULE RoutingProofs ----------------------------
(***************************************************************************)
(* Proofs about Routing, for every set of queues, exchanges, keys and      *)
(* publications and every limit: the routing tables are well typed, no     *)
(* binding outlives its exchange, the reply to PUBLISH is true, and a      *)
(* restart that lost no record keeps the routes.                           *)
(***************************************************************************)
EXTENDS Routing, TLAPS

-----------------------------------------------------------------------------
(* The inductive invariant.                                                *)

\* A record carries the arguments that apply_record reads for its operation;
\* nobody deletes the default exchange.
GoodRecord ==
    {r \in Record :
        /\ r.op \in {"QUEUE_DECLARE", "QUEUE_DELETE", "BIND", "UNBIND", "MESSAGE_PUBLISH"}
              => r.queue \in Names
        /\ r.op \in {"EXCHANGE_DECLARE", "BIND", "UNBIND"} => r.exchange \in AllExchanges
        /\ r.op = "EXCHANGE_DECLARE" => r.type \in Types
        /\ r.op = "EXCHANGE_DELETE" => r.exchange \in Exchanges
        /\ r.op \in {"BIND", "UNBIND"} => r.routing_key \in RoutingKeys
        /\ r.op = "MESSAGE_PUBLISH" => r.id \in Pubs}

\* What is in the file, and what a recovery still has to apply.
FileOK ==
    /\ log \in Seq(GoodRecord)
    /\ todo # None => todo \in Seq(GoodRecord) /\ pub = None
    /\ snapshot # None => snapshot.exchanges[Default] = "direct"

\* Where the loop of PUBLISH stands: a target that existed is still to come or
\* has its copy, and none is both.
LoopOK ==
    pub # None =>
        /\ pub.code = None =>
              /\ pub.existing = pub.routed \cup (pub.targets \cap queues)
              /\ pub.routed \cap pub.targets = {}
        /\ pub.code = "OK"         => pub.routed = pub.existing /\ pub.routed # {}
        /\ pub.code = "NOT_FOUND"  => pub.existing = {}
        /\ pub.code = "QUEUE_FULL" => pub.routed \subseteq pub.existing /\ pub.routed # pub.existing
        /\ \A n \in pub.routed : pub.id \in held[n]

RoutingInv == RoutingTypeOK /\ FileOK /\ LoopOK /\ NoOrphanBindings

-----------------------------------------------------------------------------
(* Names and records.                                                      *)

LEMMA NamesProperties ==
    ASSUME NEW n \in Names
    PROVE  /\ dlq_name(n) \in Names
           /\ Family(n) \subseteq Names
           /\ Own(n) \in Binding
           /\ Own(n).exchange = Default
PROOF
<1>1. dlq_name(n) \in Names
  BY DEF Names, dlq_name
<1>2. Own(n) \in Binding /\ Own(n).exchange = Default
  BY DEF Own, Binding, AllExchanges, RoutingKeys
<1> QED  BY <1>1, <1>2 DEF Family

LEMMA QueueRecordGood ==
    ASSUME NEW n \in Names, NEW op \in {"QUEUE_DECLARE", "QUEUE_DELETE"}
    PROVE  /\ QueueRecord(op, n) \in GoodRecord
           /\ QueueRecord(op, n).op = op
           /\ QueueRecord(op, n).queue = n
PROOF BY DEF QueueRecord, Blank, GoodRecord, Record, Ops

LEMMA BindRecordGood ==
    ASSUME NEW b \in Binding, NEW op \in {"BIND", "UNBIND"}
    PROVE  /\ BindRecord(op, b) \in GoodRecord
           /\ BindRecord(op, b).op = op
           /\ BindRecord(op, b).queue = b.queue
           /\ BindingOf(BindRecord(op, b)) = b
PROOF BY DEF BindRecord, BindingOf, Blank, GoodRecord, Record, Ops, Binding

LEMMA ExchangeRecordsGood ==
    /\ \A x \in AllExchanges, t \in Types :
          LET r == [Blank("EXCHANGE_DECLARE") EXCEPT !.exchange = x, !.type = t]
          IN  r \in GoodRecord
    /\ \A x \in Exchanges :
          LET r == [Blank("EXCHANGE_DELETE") EXCEPT !.exchange = x]
          IN  r \in GoodRecord /\ r.op = "EXCHANGE_DELETE" /\ r.exchange = x
PROOF BY DEF Blank, GoodRecord, Record, Ops, AllExchanges

LEMMA PublishRecordGood ==
    ASSUME NEW n \in Names, NEW p \in Pubs
    PROVE  LET r == [QueueRecord("MESSAGE_PUBLISH", n) EXCEPT !.id = p]
           IN  r \in GoodRecord /\ r.op = "MESSAGE_PUBLISH" /\ r.queue = n /\ r.id = p
PROOF BY DEF QueueRecord, Blank, GoodRecord, Record, Ops

LEMMA DeclareRecordsGood ==
    ASSUME NEW n \in Names
    PROVE  DeclareRecords(n) \in Seq(GoodRecord)
PROOF
<1>1. dlq_name(n) \in Names
  BY NamesProperties
<1>2. QueueRecord("QUEUE_DECLARE", n) \in GoodRecord
  BY QueueRecordGood
<1>3. QueueRecord("QUEUE_DECLARE", dlq_name(n)) \in GoodRecord
  BY <1>1, QueueRecordGood
<1> QED  BY <1>2, <1>3 DEF DeclareRecords

\* A good record is a record.
LEMMA GoodRecords == Seq(GoodRecord) \subseteq Seq(Record)
PROOF BY DEF GoodRecord

-----------------------------------------------------------------------------
(* Every step keeps the invariant.                                         *)

\* Writing records keeps the file in order.
LEMMA WriteKeepsFile ==
    ASSUME RoutingInv, Ready, NEW rs \in Seq(GoodRecord), Write(rs)
    PROVE  /\ log' \in Seq(GoodRecord) /\ log' \in Seq(Record)
           /\ written' \in Nat
           /\ todo' = None
           /\ snapshot' = snapshot
           /\ before' = before
PROOF
<1>1. log \in Seq(GoodRecord) /\ written \in Nat
  BY DEF RoutingInv, FileOK, RoutingTypeOK
<1>2. log' \in Seq(GoodRecord) /\ written' \in Nat
  BY <1>1 DEF Write
<1> QED  BY <1>2, GoodRecords DEF Write, Ready

\* The default exchange is there.
LEMMA DefaultThere == RoutingInv => Default \in AllExchanges /\ exchanges[Default] # None
PROOF BY RoutingAssumption DEF RoutingInv, RoutingTypeOK, Types, AllExchanges

LEMMA ExchangeCommands ==
    ASSUME RoutingInv,
           \/ \E x \in AllExchanges, t \in Types : CmdDeclareExchange(x, t)
           \/ \E x \in AllExchanges : CmdDeleteExchange(x)
    PROVE  RoutingInv'
PROOF
<1>1. CASE \E x \in AllExchanges, t \in Types : CmdDeclareExchange(x, t)
  <2> PICK x \in AllExchanges, t \in Types : CmdDeclareExchange(x, t)
    BY <1>1
  <2> DEFINE r == [Blank("EXCHANGE_DECLARE") EXCEPT !.exchange = x, !.type = t]
  <2>0. r \in GoodRecord
    BY ExchangeRecordsGood
  <2>1. <<r>> \in Seq(GoodRecord)
    BY <2>0
  <2>2. Ready /\ Write(<<r>>)
    BY DEF CmdDeclareExchange
  <2> HIDE DEF r
  <2>3. /\ log' \in Seq(GoodRecord) /\ log' \in Seq(Record) /\ written' \in Nat
        /\ todo' = None /\ snapshot' = snapshot
    BY <2>1, <2>2, WriteKeepsFile
  <2>4. /\ pub' = None /\ bindings' = bindings /\ queues' = queues
        /\ held' = held /\ published' = published
        /\ exchanges' = [exchanges EXCEPT ![x] = t]
        /\ exchanges[x] = None
    BY <2>2 DEF CmdDeclareExchange, AddExchange, Ready
  <2>5. RoutingTypeOK'
    BY <2>3, <2>4, DefaultThere DEF RoutingInv, RoutingTypeOK, AllExchanges
  <2>6. FileOK' /\ LoopOK'
    BY <2>3, <2>4 DEF RoutingInv, FileOK, LoopOK
  <2>7. NoOrphanBindings'
    BY <2>4, RoutingAssumption DEF RoutingInv, NoOrphanBindings, RoutingTypeOK
  <2> QED  BY <2>5, <2>6, <2>7 DEF RoutingInv
<1>2. CASE \E x \in AllExchanges : CmdDeleteExchange(x)
  <2> PICK x \in AllExchanges : CmdDeleteExchange(x)
    BY <1>2
  <2> DEFINE r == [Blank("EXCHANGE_DELETE") EXCEPT !.exchange = x]
  <2>1. x \in Exchanges /\ x # Default
    BY DEF CmdDeleteExchange, Removable, AllExchanges
  <2>0. r \in GoodRecord
    BY <2>1, ExchangeRecordsGood
  <2>2. <<r>> \in Seq(GoodRecord)
    BY <2>0
  <2>3. Ready /\ Write(<<r>>)
    BY DEF CmdDeleteExchange
  <2> HIDE DEF r
  <2>4. /\ log' \in Seq(GoodRecord) /\ log' \in Seq(Record) /\ written' \in Nat
        /\ todo' = None /\ snapshot' = snapshot
    BY <2>2, <2>3, WriteKeepsFile
  <2>5. /\ pub' = None /\ queues' = queues
        /\ held' = held /\ published' = published
        /\ exchanges' = [exchanges EXCEPT ![x] = None]
        /\ bindings' = {b \in bindings : b.exchange # x}
    BY <2>3 DEF CmdDeleteExchange, RemoveExchange, Ready
  <2>6. RoutingTypeOK'
    BY <2>1, <2>4, <2>5 DEF RoutingInv, RoutingTypeOK, AllExchanges
  <2>7. FileOK' /\ LoopOK'
    BY <2>4, <2>5 DEF RoutingInv, FileOK, LoopOK
  <2>8. NoOrphanBindings'
    BY <2>5 DEF RoutingInv, NoOrphanBindings, RoutingTypeOK, Binding
  <2> QED  BY <2>6, <2>7, <2>8 DEF RoutingInv
<1> QED  BY <1>1, <1>2

\* Commands that declare queues or change bindings of exchanges that are there.
LEMMA TablesKept ==
    ASSUME RoutingInv, Ready,
           NEW rs \in Seq(GoodRecord), Write(rs),
           exchanges' = exchanges, published' \subseteq Pubs,
           queues' \subseteq Names, held' \in [Names -> SUBSET Pubs],
           bindings' \subseteq Binding,
           \A b \in bindings' : b \in bindings \/ exchanges[b.exchange] # None
    PROVE  /\ FileOK' <=> (todo' # None => pub' = None)
           /\ NoOrphanBindings'
           /\ pub' = None => RoutingInv'
           /\ pub' \in Publication => RoutingTypeOK'
           /\ todo' = None
PROOF
<1>1. /\ log' \in Seq(GoodRecord) /\ log' \in Seq(Record) /\ written' \in Nat
      /\ todo' = None /\ snapshot' = snapshot
  BY WriteKeepsFile
<1>2. FileOK'
  BY <1>1 DEF RoutingInv, FileOK
<1>3. NoOrphanBindings'
  BY DEF RoutingInv, NoOrphanBindings
<1>4. ASSUME pub' # None => pub' \in Publication
      PROVE  RoutingTypeOK'
  BY <1>1, <1>4 DEF RoutingInv, RoutingTypeOK
<1>5. ASSUME pub' = None  PROVE RoutingInv'
  BY <1>2, <1>3, <1>4, <1>5 DEF RoutingInv, LoopOK
<1> QED  BY <1>1, <1>2, <1>3, <1>4, <1>5

LEMMA DeclaredNames ==
    ASSUME NEW n \in Names
    PROVE  Declared(n) \subseteq Names
PROOF BY NamesProperties DEF Declared

LEMMA QueueCommands ==
    ASSUME RoutingInv,
           \/ \E n \in Named : CmdDeclareQueue(n) \/ CmdGet(n)
           \/ \E n \in Names : CmdDeleteQueue(n)
    PROVE  RoutingInv'
PROOF
<1>1. CASE \E n \in Named : CmdDeclareQueue(n)
  <2> PICK n \in Named : CmdDeclareQueue(n)
    BY <1>1
  <2>1. n \in Names
    BY RoutingAssumption
  <2> DEFINE rs == DeclareRecords(n) \o <<BindRecord("BIND", Own(n))>>
  <2>2. rs \in Seq(GoodRecord)
    BY <2>1, DeclareRecordsGood, NamesProperties, BindRecordGood
  <2>3. Ready /\ Write(rs)
    BY DEF CmdDeclareQueue
  <2> HIDE DEF rs
  <2>4. /\ queues' \subseteq Names /\ held' \in [Names -> SUBSET Pubs]
        /\ exchanges' = exchanges /\ published' \subseteq Pubs
    BY <2>1, DeclaredNames DEF CmdDeclareQueue, RoutingInv, RoutingTypeOK
  <2>5. /\ bindings' \subseteq Binding
        /\ \A b \in bindings' : b \in bindings \/ exchanges[b.exchange] # None
    BY <2>1, NamesProperties, DefaultThere DEF CmdDeclareQueue, RoutingInv, RoutingTypeOK
  <2> QED  BY <2>2, <2>3, <2>4, <2>5, TablesKept DEF Ready, CmdDeclareQueue
<1>2. CASE \E n \in Named : CmdGet(n)
  <2> PICK n \in Named : CmdGet(n)
    BY <1>2
  <2>1. n \in Names
    BY RoutingAssumption
  <2>2. DeclareRecords(n) \in Seq(GoodRecord)
    BY <2>1, DeclareRecordsGood
  <2>3. Ready /\ Write(DeclareRecords(n))
    BY DEF CmdGet
  <2>4. /\ queues' \subseteq Names /\ held' \in [Names -> SUBSET Pubs]
        /\ exchanges' = exchanges /\ published' \subseteq Pubs
        /\ bindings' \subseteq Binding /\ bindings' = bindings
    BY <2>1, DeclaredNames DEF CmdGet, RoutingInv, RoutingTypeOK
  <2> QED  BY <2>2, <2>3, <2>4, TablesKept DEF Ready, CmdGet
<1>3. CASE \E n \in Names : CmdDeleteQueue(n)
  <2> PICK n \in Names : CmdDeleteQueue(n)
    BY <1>3
  <2> DEFINE rs == <<QueueRecord("QUEUE_DELETE", n)>> \o
                     (IF dlq_name(n) \in Deleted(n) \ {n}
                      THEN <<QueueRecord("QUEUE_DELETE", dlq_name(n))>> ELSE << >>)
  <2>1. /\ QueueRecord("QUEUE_DELETE", n) \in GoodRecord
        /\ QueueRecord("QUEUE_DELETE", dlq_name(n)) \in GoodRecord
    BY QueueRecordGood, NamesProperties
  <2>2. rs \in Seq(GoodRecord)
    BY <2>1
  <2>3. Ready /\ Write(rs)
    BY DEF CmdDeleteQueue
  <2> HIDE DEF rs
  <2>4. /\ queues' \subseteq Names /\ held' \in [Names -> SUBSET Pubs]
        /\ exchanges' = exchanges /\ published' \subseteq Pubs
        /\ bindings' \subseteq Binding /\ bindings' = bindings
    BY DEF CmdDeleteQueue, RemoveQueues, RoutingInv, RoutingTypeOK
  <2> QED  BY <2>2, <2>3, <2>4, TablesKept DEF Ready, CmdDeleteQueue
<1> QED  BY <1>1, <1>2, <1>3

LEMMA BindCommands ==
    ASSUME RoutingInv, \E b \in Bindable : CmdBind(b) \/ CmdUnbind(b)
    PROVE  RoutingInv'
PROOF
<1> PICK b \in Bindable : CmdBind(b) \/ CmdUnbind(b)
  OBVIOUS
<1>1. b \in Binding
  BY RoutingAssumption
<1>2. /\ <<BindRecord("BIND", b)>> \in Seq(GoodRecord)
      /\ <<BindRecord("UNBIND", b)>> \in Seq(GoodRecord)
  BY <1>1, BindRecordGood
<1>3. /\ Ready
      /\ Write(<<BindRecord("BIND", b)>>) \/ Write(<<BindRecord("UNBIND", b)>>)
  BY DEF CmdBind, CmdUnbind
<1>4. /\ queues' \subseteq Names /\ held' \in [Names -> SUBSET Pubs]
      /\ exchanges' = exchanges /\ published' \subseteq Pubs /\ pub' = None
      /\ bindings' \subseteq Binding
      /\ \A c \in bindings' : c \in bindings \/ exchanges[c.exchange] # None
  BY <1>1 DEF CmdBind, CmdUnbind, RoutingInv, RoutingTypeOK, Ready
<1> QED  BY <1>2, <1>3, <1>4, TablesKept

\* A publication that starts has no copy yet.
LEMMA StartedOK ==
    ASSUME NEW p \in Pubs, NEW ts \in SUBSET Names, NEW qs \in SUBSET Names,
           pub' = Started(p, ts, qs), queues' = qs
    PROVE  /\ pub' \in Publication
           /\ LoopOK'
PROOF BY RoutingAssumption DEF Started, Publication, LoopOK, Codes

LEMMA TargetsAreNames ==
    ASSUME NEW bs \in SUBSET Binding, NEW x, NEW k
    PROVE  route_targets(bs, x, k) \in SUBSET Names
PROOF BY DEF route_targets, Binding

LEMMA PublishCommands ==
    ASSUME RoutingInv,
           \/ \E p \in Pubs, n \in Named, k \in RoutingKeys \cup {None} : CmdPublishQueue(p, n, k)
           \/ \E p \in Pubs, x \in AllExchanges, k \in RoutingKeys : CmdPublishExchange(p, x, k)
    PROVE  RoutingInv'
PROOF
<1>1. CASE \E p \in Pubs, n \in Named, k \in RoutingKeys \cup {None} : CmdPublishQueue(p, n, k)
  <2> PICK p \in Pubs, n \in Named, key \in RoutingKeys \cup {None} : CmdPublishQueue(p, n, key)
    BY <1>1
  <2>1. n \in Names
    BY RoutingAssumption
  <2> DEFINE rs == IF n \in queues THEN << >>
                   ELSE DeclareRecords(n) \o <<BindRecord("BIND", Own(n))>>
             k == IF key = None THEN n ELSE key
  <2>2. rs \in Seq(GoodRecord)
    BY <2>1, DeclareRecordsGood, NamesProperties, BindRecordGood
  <2>3. Ready /\ Write(rs) /\ pub' = Started(p, route_targets(bindings', Default, k), queues')
    BY DEF CmdPublishQueue
  <2> HIDE DEF rs, k
  <2>4. /\ queues' \subseteq Names /\ held' \in [Names -> SUBSET Pubs]
        /\ exchanges' = exchanges /\ published' \subseteq Pubs
    BY <2>1, DeclaredNames DEF CmdPublishQueue, RoutingInv, RoutingTypeOK
  <2>5. /\ bindings' \subseteq Binding
        /\ \A b \in bindings' : b \in bindings \/ exchanges[b.exchange] # None
    BY <2>1, NamesProperties, DefaultThere DEF CmdPublishQueue, RoutingInv, RoutingTypeOK
  <2>6. /\ pub' \in Publication
        /\ LoopOK'
    <3>1. route_targets(bindings', Default, k) \in SUBSET Names
      BY <2>5, TargetsAreNames
    <3> QED  BY <3>1, <2>3, <2>4, StartedOK
  <2>7. RoutingTypeOK' /\ FileOK' /\ NoOrphanBindings'
    BY <2>2, <2>3, <2>4, <2>5, <2>6, TablesKept
  <2> QED  BY <2>6, <2>7 DEF RoutingInv
<1>2. CASE \E p \in Pubs, x \in AllExchanges, k \in RoutingKeys : CmdPublishExchange(p, x, k)
  <2> PICK p \in Pubs, x \in AllExchanges, k \in RoutingKeys : CmdPublishExchange(p, x, k)
    BY <1>2
  <2> DEFINE ts == IF exchanges[x] = None THEN {} ELSE route_targets(bindings, x, k)
  <2>1. /\ UNCHANGED <<exchanges, bindings, queues, held, log, written, snapshot, todo>>
        /\ published' = published \cup {p}
        /\ pub' = Started(p, ts, queues)
        /\ todo = None
    BY DEF CmdPublishExchange, Ready, routingVars, fileVars
  <2>2. ts \in SUBSET Names
    BY TargetsAreNames DEF RoutingInv, RoutingTypeOK
  <2> HIDE DEF ts
  <2>3. /\ pub' \in Publication
        /\ LoopOK'
    BY <2>1, <2>2, StartedOK DEF RoutingInv, RoutingTypeOK
  <2>4. RoutingTypeOK' /\ FileOK' /\ NoOrphanBindings'
    BY <2>1, <2>3 DEF RoutingInv, RoutingTypeOK, FileOK, NoOrphanBindings
  <2> QED  BY <2>3, <2>4 DEF RoutingInv
<1> QED  BY <1>1, <1>2

LEMMA PublishTurn ==
    ASSUME RoutingInv, NEW n \in Names, PublishNext(n)
    PROVE  RoutingInv'
PROOF
<1>1. /\ UNCHANGED <<exchanges, bindings, queues, published, written, snapshot, todo>>
      /\ pub # None /\ pub.code = None /\ n \in pub.targets
      /\ todo = None
  BY DEF PublishNext, Looping, RoutingInv, FileOK
<1>2. /\ pub \in Publication
      /\ pub.existing = pub.routed \cup (pub.targets \cap queues)
      /\ pub.routed \cap pub.targets = {}
      /\ \A m \in pub.routed : pub.id \in held[m]
      /\ held \in [Names -> SUBSET Pubs]
      /\ log \in Seq(GoodRecord)
  BY <1>1 DEF RoutingInv, RoutingTypeOK, Publication, LoopOK, FileOK
<1>3. SUFFICES /\ pub' \in Publication
               /\ held' \in [Names -> SUBSET Pubs]
               /\ log' \in Seq(GoodRecord)
               /\ LoopOK'
  BY <1>1, GoodRecords
     DEF RoutingInv, RoutingTypeOK, Publication, FileOK, NoOrphanBindings
<1>4. CASE n \notin queues /\ pub' = [pub EXCEPT !.targets = @ \ {n}] /\ UNCHANGED <<held, log>>
  BY <1>1, <1>2, <1>4, RoutingAssumption DEF Publication, LoopOK, Codes
<1>5. CASE n \in queues /\ Refuse(n) /\ UNCHANGED <<held, log>>
  BY <1>1, <1>2, <1>5, RoutingAssumption DEF Publication, LoopOK, Codes, Refuse
<1>6. CASE /\ n \in queues
           /\ held' = [held EXCEPT ![n] = @ \cup {pub.id}]
           /\ pub' = [pub EXCEPT !.targets = @ \ {n}, !.routed = @ \cup {n}]
           /\ log' = Append(log, [QueueRecord("MESSAGE_PUBLISH", n) EXCEPT !.id = pub.id])
  <2>1. pub.id \in Pubs
    BY <1>2 DEF Publication
  <2>2. [QueueRecord("MESSAGE_PUBLISH", n) EXCEPT !.id = pub.id] \in GoodRecord
    BY <2>1, PublishRecordGood
  <2>3. log' \in Seq(GoodRecord)
    BY <2>2, <1>2, <1>6
  <2>4. pub' \in Publication /\ held' \in [Names -> SUBSET Pubs]
    BY <1>2, <1>6 DEF Publication
  <2>5. LoopOK'
    BY <1>1, <1>2, <1>6, <2>1, RoutingAssumption DEF Publication, LoopOK, Codes
  <2> QED  BY <2>3, <2>4, <2>5
<1> QED  BY <1>4, <1>5, <1>6 DEF PublishNext

LEMMA PublishEnds ==
    ASSUME RoutingInv, PublishEnd \/ PublishReply
    PROVE  RoutingInv'
PROOF
<1>1. /\ UNCHANGED <<exchanges, bindings, queues, held, published, log, written, snapshot, todo>>
      /\ pub # None
      /\ todo = None
  BY DEF PublishEnd, PublishReply, Looping, routingVars, fileVars, RoutingInv, FileOK
<1>2. pub \in Publication /\ LoopOK
  BY <1>1 DEF RoutingInv, RoutingTypeOK, Publication
<1>3. SUFFICES (pub' # None => pub' \in Publication) /\ LoopOK'
  BY <1>1 DEF RoutingInv, RoutingTypeOK, Publication, FileOK, NoOrphanBindings
<1>4. CASE PublishEnd
  BY <1>1, <1>2, <1>4, RoutingAssumption DEF PublishEnd, Looping, Publication, LoopOK, Codes
<1>5. CASE PublishReply
  BY <1>5 DEF PublishReply, LoopOK
<1> QED  BY <1>4, <1>5

LEMMA EngineSteps ==
    ASSUME RoutingInv, NEW n \in Names, NEW p \in Pubs, Settle(n, p) \/ MoveToDlq(n, p)
    PROVE  RoutingInv'
PROOF
<1>1. /\ UNCHANGED <<exchanges, bindings, pub, published, log, written, snapshot, todo>>
      /\ pub = None /\ todo = None
  BY DEF Settle, MoveToDlq, fileVars, Ready
<1>2. queues' \subseteq Names /\ held' \in [Names -> SUBSET Pubs]
  BY NamesProperties DEF Settle, MoveToDlq, RoutingInv, RoutingTypeOK
<1> QED  BY <1>1, <1>2 DEF RoutingInv, RoutingTypeOK, FileOK, LoopOK, NoOrphanBindings

-----------------------------------------------------------------------------
(* Snapshots and recovery.                                                 *)

LEMMA SnapshotStep ==
    ASSUME RoutingInv, WriteSnapshot
    PROVE  RoutingInv'
PROOF
<1>1. /\ UNCHANGED <<exchanges, bindings, queues, held, pub, published, written, todo>>
      /\ log' = << >>
      /\ pub = None /\ todo = None
      /\ snapshot' = [exchanges |-> exchanges, bindings |-> bindings,
                      queues |-> queues, held |-> held]
  BY DEF WriteSnapshot, Ready, routingVars
<1> QED  BY <1>1 DEF Snapshot, RoutingInv, RoutingTypeOK, FileOK, LoopOK, NoOrphanBindings

\* The file a crash leaves.
LEMMA Prefix ==
    ASSUME NEW S, NEW s \in Seq(S), NEW kept \in 0..Len(s)
    PROVE  /\ SubSeq(s, 1, kept) \in Seq(S)
           /\ Len(SubSeq(s, 1, kept)) = kept
           /\ \A i \in 1..kept : SubSeq(s, 1, kept)[i] = s[i]
           /\ kept = Len(s) => SubSeq(s, 1, kept) = s
PROOF OBVIOUS

LEMMA RestartStep ==
    ASSUME RoutingInv, NEW kept \in 0..Len(log), Restart(kept)
    PROVE  RoutingInv'
PROOF
<1>1. /\ UNCHANGED <<pub, published, written, snapshot>>
      /\ log' = SubSeq(log, 1, kept) /\ todo' = SubSeq(log, 1, kept)
      /\ pub = None
  BY DEF Restart, Ready
<1>2. SubSeq(log, 1, kept) \in Seq(GoodRecord) /\ SubSeq(log, 1, kept) \in Seq(Record)
  BY Prefix, GoodRecords DEF RoutingInv, FileOK
<1>3. /\ exchanges' \in [AllExchanges -> Types \cup {None}] /\ exchanges'[Default] = "direct"
      /\ bindings' \subseteq Binding /\ queues' \subseteq Names
      /\ held' \in [Names -> SUBSET Pubs]
      /\ NoOrphanBindings'
  <2>1. CASE snapshot = None
    BY <2>1 DEF Restart, NoExchanges, NoCopies, NoOrphanBindings, Types, AllExchanges
  <2>2. CASE snapshot # None
    BY <2>2 DEF Snapshot, Restart, RestoredBindings, NoOrphanBindings, RoutingInv,
                RoutingTypeOK, FileOK
  <2> QED  BY <2>1, <2>2
<1>4. RoutingTypeOK'
  BY <1>1, <1>2, <1>3 DEF RoutingInv, RoutingTypeOK
<1>5. FileOK' /\ LoopOK'
  BY <1>1, <1>2 DEF RoutingInv, FileOK, LoopOK
<1> QED  BY <1>3, <1>4, <1>5 DEF RoutingInv

\* Applying a record keeps the tables in order.
LEMMA ApplyOK ==
    ASSUME RoutingInv, NEW r \in GoodRecord, apply_record(r)
    PROVE  /\ exchanges' \in [AllExchanges -> Types \cup {None}] /\ exchanges'[Default] = "direct"
           /\ bindings' \subseteq Binding /\ queues' \subseteq Names
           /\ held' \in [Names -> SUBSET Pubs]
           /\ NoOrphanBindings'
PROOF
<1>1. /\ exchanges \in [AllExchanges -> Types \cup {None}] /\ exchanges[Default] = "direct"
      /\ bindings \subseteq Binding /\ queues \subseteq Names
      /\ held \in [Names -> SUBSET Pubs]
      /\ \A b \in bindings : exchanges[b.exchange] # None
  BY DEF RoutingInv, RoutingTypeOK, NoOrphanBindings
<1>2. ASSUME NEW b \in Binding
      PROVE  Bound(b) \subseteq Binding /\ \A c \in Bound(b) : exchanges[c.exchange] # None
  BY <1>1 DEF Bound
<1>3. CASE r.op = "QUEUE_DECLARE"
  <2>1. r.queue \in Names
    BY <1>3 DEF GoodRecord
  <2>2. Own(r.queue) \in Binding /\ Declared(r.queue) \subseteq Names
    BY <2>1, NamesProperties, DeclaredNames
  <2>3. /\ queues' = queues \cup Declared(r.queue) /\ bindings' = Bound(Own(r.queue))
        /\ UNCHANGED <<exchanges, held>>
    BY <1>3 DEF apply_record
  <2> QED  BY <1>1, <1>2, <2>2, <2>3 DEF NoOrphanBindings
<1>4. CASE r.op = "QUEUE_DELETE"
  <2>1. /\ queues' \subseteq queues /\ held' \in [Names -> SUBSET Pubs]
        /\ UNCHANGED <<exchanges, bindings>>
    BY <1>1, <1>4 DEF apply_record, RemoveQueues
  <2> QED  BY <1>1, <2>1 DEF NoOrphanBindings
<1>5. CASE r.op = "EXCHANGE_DECLARE"
  <2>1. r.exchange \in AllExchanges /\ r.type \in Types
    BY <1>5 DEF GoodRecord
  <2>2. AddExchange(r.exchange, r.type) /\ UNCHANGED <<bindings, queues, held>>
    BY <1>5 DEF apply_record
  <2>3. /\ exchanges' \in [AllExchanges -> Types \cup {None}]
        /\ \A x \in AllExchanges : exchanges[x] # None => exchanges'[x] = exchanges[x]
    BY <1>1, <2>1, <2>2 DEF AddExchange
  <2> QED  BY <1>1, <2>2, <2>3, DefaultThere DEF NoOrphanBindings, Binding
<1>6. CASE r.op = "EXCHANGE_DELETE"
  <2>1. r.exchange \in AllExchanges /\ r.exchange # Default
    BY <1>6, RoutingAssumption DEF GoodRecord, AllExchanges
  <2>2. RemoveExchange(r.exchange) /\ UNCHANGED <<queues, held>>
    BY <1>6 DEF apply_record
  <2> QED  BY <1>1, <2>1, <2>2, DefaultThere DEF NoOrphanBindings, RemoveExchange, Binding
<1>7. CASE r.op = "BIND"
  <2>1. r.queue \in Names /\ BindingOf(r) \in Binding
    BY <1>7 DEF GoodRecord, BindingOf, Binding
  <2>2. Declared(r.queue) \subseteq Names
    BY <2>1, DeclaredNames
  <2>3. /\ queues' = queues \cup Declared(r.queue) /\ bindings' = Bound(BindingOf(r))
        /\ UNCHANGED <<exchanges, held>>
    BY <1>7 DEF apply_record
  <2> QED  BY <1>1, <1>2, <2>1, <2>2, <2>3 DEF NoOrphanBindings
<1>8. CASE r.op = "UNBIND"
  <2>1. bindings' \subseteq bindings /\ UNCHANGED <<exchanges, queues, held>>
    BY <1>8 DEF apply_record
  <2> QED  BY <1>1, <2>1 DEF NoOrphanBindings
<1>9. CASE r.op = "MESSAGE_PUBLISH"
  <2>1. r.queue \in Names /\ r.id \in Pubs
    BY <1>9 DEF GoodRecord
  <2>2. Own(r.queue) \in Binding /\ Declared(r.queue) \subseteq Names
    BY <2>1, NamesProperties, DeclaredNames
  <2>3. /\ queues' = queues \cup Declared(r.queue)
        /\ bindings' = bindings \/ bindings' = Bound(Own(r.queue))
        /\ held' = held \/ held' = [held EXCEPT ![r.queue] = @ \cup {r.id}]
        /\ UNCHANGED exchanges
    BY <1>9 DEF apply_record
  <2>4. held' \in [Names -> SUBSET Pubs]
    BY <1>1, <2>1, <2>3
  <2> QED  BY <1>1, <1>2, <2>2, <2>3, <2>4 DEF NoOrphanBindings
<1> QED  BY <1>3, <1>4, <1>5, <1>6, <1>7, <1>8, <1>9 DEF GoodRecord, Record, Ops

LEMMA RecoverySteps ==
    ASSUME RoutingInv, Replay \/ Recovered
    PROVE  RoutingInv'
PROOF
<1>1. CASE Replay
  <2>1. /\ todo \in Seq(GoodRecord) /\ todo # << >> /\ pub = None
        /\ UNCHANGED <<pub, published, log, written, snapshot>>
        /\ todo' = Tail(todo) /\ apply_record(Head(todo))
    BY <1>1 DEF Replay, RoutingInv, FileOK
  <2>2. Head(todo) \in GoodRecord /\ todo' \in Seq(GoodRecord)
    BY <2>1
  <2>3. /\ exchanges' \in [AllExchanges -> Types \cup {None}] /\ exchanges'[Default] = "direct"
        /\ bindings' \subseteq Binding /\ queues' \subseteq Names
        /\ held' \in [Names -> SUBSET Pubs]
        /\ NoOrphanBindings'
    BY <2>1, <2>2, ApplyOK
  <2>4. RoutingTypeOK'
    BY <2>1, <2>2, <2>3, GoodRecords DEF RoutingInv, RoutingTypeOK
  <2>5. FileOK' /\ LoopOK'
    BY <2>1, <2>2 DEF RoutingInv, FileOK, LoopOK
  <2> QED  BY <2>3, <2>4, <2>5 DEF RoutingInv
<1>2. CASE Recovered
  BY <1>2 DEF Recovered, routingVars, RoutingInv, RoutingTypeOK, FileOK, LoopOK, NoOrphanBindings
<1> QED  BY <1>1, <1>2

LEMMA InitInv == Init => RoutingInv
PROOF BY DEF Init, RoutingInv, RoutingTypeOK, FileOK, LoopOK, NoOrphanBindings,
             NoExchanges, NoCopies, Types, AllExchanges

LEMMA NextInv == RoutingInv /\ [Next]_vars => RoutingInv'
PROOF
<1> SUFFICES ASSUME RoutingInv, [Next]_vars  PROVE RoutingInv'
  OBVIOUS
<1>1. CASE Commands
  BY <1>1, ExchangeCommands, QueueCommands, BindCommands, PublishCommands DEF Commands
<1>2. CASE \E n \in Names : PublishNext(n)
  BY <1>2, PublishTurn
<1>3. CASE PublishEnd \/ PublishReply
  BY <1>3, PublishEnds
<1>4. CASE \E n \in Names, p \in Pubs : Settle(n, p) \/ MoveToDlq(n, p)
  BY <1>4, EngineSteps
<1>5. CASE WriteSnapshot
  BY <1>5, SnapshotStep
<1>6. CASE \E kept \in 0..Len(log) : Restart(kept)
  BY <1>6, RestartStep
<1>7. CASE Replay \/ Recovered
  BY <1>7, RecoverySteps
<1>8. CASE UNCHANGED vars
  BY <1>8 DEF vars, routingVars, fileVars, RoutingInv, RoutingTypeOK, FileOK, LoopOK,
              NoOrphanBindings
<1> QED  BY <1>1, <1>2, <1>3, <1>4, <1>5, <1>6, <1>7, <1>8 DEF Next

LEMMA AlwaysInv == Spec => []RoutingInv
PROOF BY InitInv, NextInv, PTL DEF Spec

-----------------------------------------------------------------------------

\* The tables of RoutingEngine, the publication under way and the records of
\* the file are well typed, whatever clients, crashes and recoveries do.
THEOREM RoutingTyped == Spec => []RoutingTypeOK
PROOF
<1>1. RoutingInv => RoutingTypeOK
  BY DEF RoutingInv
<1> QED  BY <1>1, AlwaysInv, PTL

\* delete_exchange, restore_state and each record that apply_record replays
\* leave no binding without its exchange.
THEOREM BindingsHaveExchanges == Spec => []NoOrphanBindings
PROOF
<1>1. RoutingInv => NoOrphanBindings
  BY DEF RoutingInv
<1> QED  BY <1>1, AlwaysInv, PTL

\* The code PUBLISH answers with is true of the queues that existed when it
\* began and of the copies its loop made, for any number of targets.
THEOREM RepliesAreTrue == Spec => []ReplyIsTrue
PROOF
<1>1. RoutingInv => ReplyIsTrue
  BY DEF RoutingInv, LoopOK, ReplyIsTrue
<1> QED  BY <1>1, AlwaysInv, PTL

-----------------------------------------------------------------------------
(* A restart keeps the routes.  A replay is a sequence of table states: h  *)
(* starts where restore_state leaves the tables and applies the records of *)
(* the file one after the other.  The invariant says that at any moment    *)
(* such a replay would end where the running broker is (but for what       *)
(* RoutesSurvive leaves open), and during a recovery that the tables are   *)
(* the ones it has reached so far.                                         *)

\* The tables as they are.
Live == [exchanges |-> exchanges, bindings |-> bindings, queues |-> queues]

\* The tables restore_state makes.
Restored ==
    IF snapshot = None
    THEN [exchanges |-> NoExchanges, bindings |-> {}, queues |-> {}]
    ELSE [exchanges |-> snapshot.exchanges, bindings |-> RestoredBindings(snapshot),
          queues |-> snapshot.queues]

\* What apply_record makes of tables s.
NowDeclared(s, n) == IF n \in s.queues THEN s.queues ELSE s.queues \cup Family(n)

NowBound(s, b) == IF s.exchanges[b.exchange] # None THEN s.bindings \cup {b} ELSE s.bindings

ExchangesAfter(s, r) ==
    CASE r.op = "EXCHANGE_DECLARE" -> IF s.exchanges[r.exchange] = None
                                      THEN [s.exchanges EXCEPT ![r.exchange] = r.type]
                                      ELSE s.exchanges
      [] r.op = "EXCHANGE_DELETE"  -> [s.exchanges EXCEPT ![r.exchange] = None]
      [] OTHER                     -> s.exchanges

BindingsAfter(s, r) ==
    CASE r.op = "QUEUE_DECLARE"   -> NowBound(s, Own(r.queue))
      [] r.op = "EXCHANGE_DELETE" -> {b \in s.bindings : b.exchange # r.exchange}
      [] r.op = "BIND"            -> NowBound(s, BindingOf(r))
      [] r.op = "UNBIND"          -> s.bindings \ {BindingOf(r)}
      [] r.op = "MESSAGE_PUBLISH" -> IF r.queue \in s.queues THEN s.bindings
                                     ELSE NowBound(s, Own(r.queue))
      [] OTHER                    -> s.bindings

QueuesAfter(s, r) ==
    CASE r.op \in {"QUEUE_DECLARE", "BIND", "MESSAGE_PUBLISH"} -> NowDeclared(s, r.queue)
      [] r.op = "QUEUE_DELETE" /\ r.queue \in s.queues -> s.queues \ Family(r.queue)
      [] OTHER -> s.queues

After(s, r) == [exchanges |-> ExchangesAfter(s, r), bindings |-> BindingsAfter(s, r),
                queues |-> QueuesAfter(s, r)]

\* h is the replay of the records l from tables s on.
Replays(h, s, l) ==
    /\ h = [i \in 0..Len(l) |-> h[i]]
    /\ h[0] = s
    /\ \A i \in 1..Len(l) : h[i] = After(h[i - 1], l[i])

\* Tables s are those of t, but for bindings in `dropped' that may be missing
\* and for queues' own bindings that may have come.
Agree(s, t, dropped) ==
    /\ s.exchanges = t.exchanges
    /\ t.bindings \ dropped \subseteq s.bindings
    /\ s.bindings \ t.bindings \subseteq {Own(n) : n \in Names}

\* How far a recovery has come.
Applied == Len(log) - Len(todo)

ReplayInv ==
    \E h : /\ Replays(h, Restored, log)
           /\ todo = None => Agree(h[Len(log)], Live, stale)
           /\ todo # None =>
                 /\ Applied \in 0..Len(log)
                 /\ todo = SubSeq(log, Applied + 1, Len(log))
                 /\ Live = h[Applied]
                 /\ before # None => Agree(h[Len(log)], before, stale)

\* apply_record does what After says.
LEMMA ApplyIsAfter ==
    ASSUME RoutingInv, NEW r \in GoodRecord, apply_record(r)
    PROVE  Live' = After(Live, r)
PROOF
<1>1. CASE r.op = "QUEUE_DECLARE"
  BY <1>1 DEF apply_record, Live, After, ExchangesAfter, BindingsAfter, QueuesAfter,
             NowDeclared, NowBound, Declared, Bound
<1>2. CASE r.op = "QUEUE_DELETE"
  BY <1>2 DEF apply_record, Live, After, ExchangesAfter, BindingsAfter, QueuesAfter,
             RemoveQueues, Deleted
<1>3. CASE r.op = "EXCHANGE_DECLARE"
  BY <1>3 DEF apply_record, Live, After, ExchangesAfter, BindingsAfter, QueuesAfter, AddExchange
<1>4. CASE r.op = "EXCHANGE_DELETE"
  BY <1>4 DEF apply_record, Live, After, ExchangesAfter, BindingsAfter, QueuesAfter, RemoveExchange
<1>5. CASE r.op = "BIND"
  BY <1>5 DEF apply_record, Live, After, ExchangesAfter, BindingsAfter, QueuesAfter,
             NowDeclared, NowBound, Declared, Bound
<1>6. CASE r.op = "UNBIND"
  BY <1>6 DEF apply_record, Live, After, ExchangesAfter, BindingsAfter, QueuesAfter
<1>7. CASE r.op = "MESSAGE_PUBLISH"
  BY <1>7 DEF apply_record, Live, After, ExchangesAfter, BindingsAfter, QueuesAfter,
             NowDeclared, NowBound, Declared, Bound
<1> QED  BY <1>1, <1>2, <1>3, <1>4, <1>5, <1>6, <1>7 DEF GoodRecord, Record, Ops

\* A replay of a prefix, and of one record more.
LEMMA ReplayPrefix ==
    ASSUME NEW S, NEW l \in Seq(S), NEW k \in 0..Len(l), NEW s, NEW h, Replays(h, s, l)
    PROVE  Replays([i \in 0..k |-> h[i]], s, SubSeq(l, 1, k))
PROOF
<1>1. Len(SubSeq(l, 1, k)) = k /\ \A i \in 1..k : SubSeq(l, 1, k)[i] = l[i]
  BY Prefix
<1>2. h[0] = s /\ \A i \in 1..Len(l) : h[i] = After(h[i - 1], l[i])
  BY DEF Replays
<1> DEFINE g == [i \in 0..k |-> h[i]]
<1>3. \A i \in 0..k : g[i] = h[i]
  OBVIOUS
<1>4. g = [i \in 0..k |-> g[i]]
  OBVIOUS
<1> HIDE DEF g
<1>5. g[0] = s
  BY <1>2, <1>3
<1>6. ASSUME NEW i \in 1..k  PROVE g[i] = After(g[i - 1], SubSeq(l, 1, k)[i])
  <2>1. i \in 1..Len(l) /\ i \in 0..k /\ i - 1 \in 0..k
    OBVIOUS
  <2> QED  BY <1>1, <1>2, <1>3, <2>1
<1>7. Replays(g, s, SubSeq(l, 1, k))
  BY <1>1, <1>4, <1>5, <1>6 DEF Replays
<1> QED  BY <1>7 DEF g

LEMMA ReplayOneMore ==
    ASSUME NEW S, NEW l \in Seq(S), NEW r \in S, NEW s, NEW h, Replays(h, s, l)
    PROVE  \E g : /\ Replays(g, s, Append(l, r))
                  /\ g[Len(Append(l, r))] = After(h[Len(l)], r)
PROOF
<1> DEFINE k == Len(l)
           g == [i \in 0..(k + 1) |-> IF i = k + 1 THEN After(h[k], r) ELSE h[i]]
<1>1. k \in Nat /\ Len(Append(l, r)) = k + 1
  OBVIOUS
<1>2. Append(l, r)[k + 1] = r /\ \A i \in 1..k : Append(l, r)[i] = l[i]
  OBVIOUS
<1>3. h[0] = s /\ \A i \in 1..k : h[i] = After(h[i - 1], l[i])
  BY DEF Replays
<1>4. g[k + 1] = After(h[k], r) /\ \A i \in 0..k : g[i] = h[i]
  BY <1>1
<1>5. \A i \in 1..(k + 1) : g[i] = After(g[i - 1], Append(l, r)[i])
  <2> SUFFICES ASSUME NEW i \in 1..(k + 1)  PROVE g[i] = After(g[i - 1], Append(l, r)[i])
    OBVIOUS
  <2> HIDE DEF k, g
  <2>1. CASE i = k + 1
    BY <2>1, <1>1, <1>2, <1>4
  <2>2. CASE i # k + 1
    <3>1. i \in 1..k /\ i \in 0..k /\ i - 1 \in 0..k
      BY <2>2, <1>1
    <3> QED  BY <3>1, <1>2, <1>3, <1>4
  <2> QED  BY <2>1, <2>2
<1>6. g = [i \in 0..(k + 1) |-> g[i]]
  OBVIOUS
<1> HIDE DEF k, g
<1>7. g[0] = s
  BY <1>1, <1>3, <1>4
<1>8. Replays(g, s, Append(l, r))
  BY <1>1, <1>5, <1>6, <1>7 DEF Replays
<1> QED  BY <1>1, <1>4, <1>8

\* Some replay of the file ends in tables t.
Ends(s, l, t) == \E h : Replays(h, s, l) /\ h[Len(l)] = t

LEMMA EndsOneMore ==
    ASSUME NEW l \in Seq(GoodRecord), NEW r \in GoodRecord, NEW s, NEW t, Ends(s, l, t)
    PROVE  Ends(s, Append(l, r), After(t, r))
PROOF
<1>1. PICK h : Replays(h, s, l) /\ h[Len(l)] = t
  BY DEF Ends
<1>2. PICK g : Replays(g, s, Append(l, r)) /\ g[Len(Append(l, r))] = After(h[Len(l)], r)
  BY <1>1, ReplayOneMore
<1> QED  BY <1>1, <1>2 DEF Ends

\* The records a declaration writes do nothing to the tables but declare
\* queues and bind them to the default exchange.
LEMMA AfterDeclare ==
    ASSUME NEW n \in Names, NEW t, t.exchanges[Default] # None
    PROVE  LET u == After(t, QueueRecord("QUEUE_DECLARE", n))
           IN  u.exchanges = t.exchanges /\ u.bindings = t.bindings \cup {Own(n)}
PROOF
<1>1. QueueRecord("QUEUE_DECLARE", n).op = "QUEUE_DECLARE"
      /\ QueueRecord("QUEUE_DECLARE", n).queue = n
  BY QueueRecordGood
<1>2. Own(n).exchange = Default
  BY NamesProperties
<1> QED  BY <1>1, <1>2 DEF After, ExchangesAfter, BindingsAfter, NowBound

LEMMA AfterBind ==
    ASSUME NEW b \in Binding, NEW t, t.exchanges[b.exchange] # None
    PROVE  LET u == After(t, BindRecord("BIND", b))
           IN  u.exchanges = t.exchanges /\ u.bindings = t.bindings \cup {b}
PROOF
<1>1. BindRecord("BIND", b).op = "BIND" /\ BindingOf(BindRecord("BIND", b)) = b
  BY BindRecordGood
<1> QED  BY <1>1 DEF After, ExchangesAfter, BindingsAfter, NowBound

\* Declaring a queue, in the file: bindings of their own to the default
\* exchange may come.
LEMMA DeclareEnds ==
    ASSUME NEW n \in Names, NEW l \in Seq(GoodRecord), NEW s, NEW t, Ends(s, l, t),
           t.exchanges[Default] # None
    PROVE  \E u : /\ Ends(s, l \o DeclareRecords(n), u)
                  /\ u.exchanges = t.exchanges
                  /\ t.bindings \subseteq u.bindings
                  /\ u.bindings \subseteq t.bindings \cup {Own(m) : m \in Names}
PROOF
<1> DEFINE d == QueueRecord("QUEUE_DECLARE", dlq_name(n))
           q == QueueRecord("QUEUE_DECLARE", n)
<1>1. dlq_name(n) \in Names
  BY NamesProperties
<1>2. d \in GoodRecord /\ q \in GoodRecord
  BY <1>1, QueueRecordGood
<1>3. /\ After(t, d).exchanges = t.exchanges
      /\ After(t, d).bindings = t.bindings \cup {Own(dlq_name(n))}
      /\ After(t, q).exchanges = t.exchanges
      /\ After(t, q).bindings = t.bindings \cup {Own(n)}
  BY <1>1, AfterDeclare
<1>4. /\ After(After(t, d), q).exchanges = t.exchanges
      /\ After(After(t, d), q).bindings = t.bindings \cup {Own(dlq_name(n)), Own(n)}
  BY <1>3, AfterDeclare
<1> HIDE DEF d, q
<1>5. /\ Ends(s, Append(l, d), After(t, d))
      /\ Ends(s, Append(l, q), After(t, q))
  BY <1>2, EndsOneMore
<1>6. Ends(s, Append(Append(l, d), q), After(After(t, d), q))
  <2>1. Append(l, d) \in Seq(GoodRecord)
    BY <1>2
  <2> QED  BY <1>2, <1>5, <2>1, EndsOneMore
<1>7. DeclareRecords(n) \in {<< >>, <<d>>, <<q>>, <<d>> \o <<q>>}
  <2>1. DeclareRecords(n) =
          (IF dlq_name(n) \in Declared(n) \ {n} THEN <<d>> ELSE << >>)
          \o (IF n \in Declared(n) THEN <<q>> ELSE << >>)
    BY DEF DeclareRecords, d, q
  <2>2. /\ << >> \o << >> = << >> /\ <<d>> \o << >> = <<d>>
        /\ << >> \o <<q>> = <<q>>
    BY <1>2
  <2> QED  BY <2>1, <2>2
<1>8. /\ l \o << >> = l
      /\ l \o <<d>> = Append(l, d)
      /\ l \o <<q>> = Append(l, q)
      /\ l \o (<<d>> \o <<q>>) = Append(Append(l, d), q)
  BY <1>2
<1>9. Own(n) \in {Own(m) : m \in Names} /\ Own(dlq_name(n)) \in {Own(m) : m \in Names}
  BY <1>1
<1>10. CASE DeclareRecords(n) = << >>
  BY <1>8, <1>10
<1>11. CASE DeclareRecords(n) = <<d>>
  BY <1>3, <1>5, <1>8, <1>9, <1>11
<1>12. CASE DeclareRecords(n) = <<q>>
  BY <1>3, <1>5, <1>8, <1>9, <1>12
<1>13. CASE DeclareRecords(n) = <<d>> \o <<q>>
  BY <1>4, <1>6, <1>8, <1>9, <1>13
<1> QED  BY <1>7, <1>10, <1>11, <1>12, <1>13

\* While the broker runs: a replay would end in tables that agree.
IdleInv == \E t : Ends(Restored, log, t) /\ Agree(t, Live, stale)

LEMMA IdleReplay == todo = None => (ReplayInv <=> IdleInv)
PROOF BY DEF ReplayInv, IdleInv, Ends

\* A command leaves the snapshot alone, and its records do to the tables of a
\* replay what the command does to the broker's.
LEMMA ReplayKept ==
    ASSUME ReplayInv, todo = None, todo' = None, snapshot' = snapshot,
           \A t : Ends(Restored, log, t) /\ Agree(t, Live, stale)
                     => \E u : Ends(Restored, log', u) /\ Agree(u, Live', stale')
    PROVE  ReplayInv'
PROOF
<1>1. IdleInv
  BY IdleReplay
<1>2. Restored' = Restored
  BY DEF Restored, RestoredBindings
<1>3. IdleInv'
  BY <1>1, <1>2 DEF IdleInv
<1>4. (todo = None => (ReplayInv <=> IdleInv))'
  BY IdleReplay, PTL
<1> QED  BY <1>3, <1>4

\* Live, field by field.
LEMMA LiveView ==
    /\ Live.exchanges = exchanges /\ Live.bindings = bindings /\ Live.queues = queues
    /\ Live'.exchanges = exchanges' /\ Live'.bindings = bindings' /\ Live'.queues = queues'
PROOF BY DEF Live

LEMMA ExchangeCommandsReplay ==
    ASSUME RoutingInv, ReplayInv,
           \/ \E x \in AllExchanges, t \in Types : CmdDeclareExchange(x, t)
           \/ \E x \in AllExchanges : CmdDeleteExchange(x)
    PROVE  ReplayInv'
PROOF
<1>0. log \in Seq(GoodRecord)
  BY DEF RoutingInv, FileOK
<1>1. CASE \E x \in AllExchanges, t \in Types : CmdDeclareExchange(x, t)
  <2> PICK x \in AllExchanges, ty \in Types : CmdDeclareExchange(x, ty)
    BY <1>1
  <2> DEFINE r == [Blank("EXCHANGE_DECLARE") EXCEPT !.exchange = x, !.type = ty]
  <2>0. r.op = "EXCHANGE_DECLARE" /\ r.exchange = x /\ r.type = ty
    BY DEF Blank
  <2>1. r \in GoodRecord /\ r.op = "EXCHANGE_DECLARE" /\ r.exchange = x /\ r.type = ty
    BY <2>0, ExchangeRecordsGood
  <2>2. /\ todo = None /\ todo' = None /\ snapshot' = snapshot /\ log' = log \o <<r>>
        /\ bindings' = bindings /\ queues' = queues /\ stale' = stale
        /\ exchanges' = [exchanges EXCEPT ![x] = ty] /\ exchanges[x] = None
    BY DEF CmdDeclareExchange, AddExchange, Write, Ready
  <2> HIDE DEF r
  <2>3. log' = Append(log, r)
    BY <1>0, <2>1, <2>2
  <2>4. ASSUME NEW t, Ends(Restored, log, t), Agree(t, Live, stale)
        PROVE  Ends(Restored, log', After(t, r)) /\ Agree(After(t, r), Live', stale')
    <3>1. Ends(Restored, log', After(t, r))
      BY <1>0, <2>1, <2>3, <2>4, EndsOneMore
    <3>2. /\ After(t, r).exchanges = IF t.exchanges[x] = None
                                     THEN [t.exchanges EXCEPT ![x] = ty] ELSE t.exchanges
          /\ After(t, r).bindings = t.bindings
      BY <2>1 DEF After, ExchangesAfter, BindingsAfter
    <3> QED  BY <2>2, <2>4, <3>1, <3>2, LiveView DEF Agree
  <2> QED  BY <2>2, <2>4, ReplayKept
<1>2. CASE \E x \in AllExchanges : CmdDeleteExchange(x)
  <2> PICK x \in AllExchanges : CmdDeleteExchange(x)
    BY <1>2
  <2> DEFINE r == [Blank("EXCHANGE_DELETE") EXCEPT !.exchange = x]
  <2>0. x \in Exchanges
    BY DEF CmdDeleteExchange, Removable, AllExchanges
  <2>1. r \in GoodRecord /\ r.op = "EXCHANGE_DELETE" /\ r.exchange = x
    BY <2>0, ExchangeRecordsGood
  <2>2. /\ todo = None /\ todo' = None /\ snapshot' = snapshot /\ log' = log \o <<r>>
        /\ bindings' = {b \in bindings : b.exchange # x}
        /\ stale' = {b \in stale : b.exchange # x}
        /\ exchanges' = [exchanges EXCEPT ![x] = None]
    BY DEF CmdDeleteExchange, RemoveExchange, Write, Ready
  <2> HIDE DEF r
  <2>3. log' = Append(log, r)
    BY <1>0, <2>1, <2>2
  <2>4. ASSUME NEW t, Ends(Restored, log, t), Agree(t, Live, stale)
        PROVE  Ends(Restored, log', After(t, r)) /\ Agree(After(t, r), Live', stale')
    <3>1. Ends(Restored, log', After(t, r))
      BY <1>0, <2>1, <2>3, <2>4, EndsOneMore
    <3>2. /\ After(t, r).exchanges = [t.exchanges EXCEPT ![x] = None]
          /\ After(t, r).bindings = {b \in t.bindings : b.exchange # x}
      BY <2>1 DEF After, ExchangesAfter, BindingsAfter
    <3> QED  BY <2>2, <2>4, <3>1, <3>2, LiveView DEF Agree
  <2> QED  BY <2>2, <2>4, ReplayKept
<1> QED  BY <1>1, <1>2

\* DECLARE_QUEUE, and PUBLISH to a queue that is missing.
LEMMA DeclareAndBindReplay ==
    ASSUME RoutingInv, ReplayInv, NEW n \in Names, Ready,
           Write(DeclareRecords(n) \o <<BindRecord("BIND", Own(n))>>),
           exchanges' = exchanges, bindings' = bindings \cup {Own(n)},
           stale' = stale \ {Own(n)}
    PROVE  ReplayInv'
PROOF
<1> DEFINE b == BindRecord("BIND", Own(n))
           l == log \o DeclareRecords(n)
<1>1. b \in GoodRecord /\ Own(n) \in Binding /\ Own(n).exchange = Default
  BY NamesProperties, BindRecordGood
<1>2. log \in Seq(GoodRecord) /\ DeclareRecords(n) \in Seq(GoodRecord)
  BY DeclareRecordsGood DEF RoutingInv, FileOK
<1>3. log' = log \o (DeclareRecords(n) \o <<b>>) /\ snapshot' = snapshot
      /\ todo = None /\ todo' = None
  BY DEF Write, Ready
<1> HIDE DEF b
<1>4. l \in Seq(GoodRecord) /\ log' = Append(l, b)
  BY <1>1, <1>2, <1>3
<1>5. ASSUME NEW t, Ends(Restored, log, t), Agree(t, Live, stale)
      PROVE  \E v : Ends(Restored, log', v) /\ Agree(v, Live', stale')
  <2>1. t.exchanges = exchanges /\ t.exchanges[Default] # None
    BY <1>5, DefaultThere, LiveView DEF Agree
  <2>2. PICK u : /\ Ends(Restored, l, u)
                 /\ u.exchanges = t.exchanges
                 /\ t.bindings \subseteq u.bindings
                 /\ u.bindings \subseteq t.bindings \cup {Own(m) : m \in Names}
    BY <1>2, <1>5, <2>1, DeclareEnds
  <2> HIDE DEF l
  <2>3. Ends(Restored, log', After(u, b))
    BY <1>1, <1>4, <2>2, EndsOneMore
  <2>4. After(u, b).exchanges = u.exchanges /\ After(u, b).bindings = u.bindings \cup {Own(n)}
    BY <1>1, <2>1, <2>2, AfterBind DEF b
  <2>5. /\ t.bindings \subseteq After(u, b).bindings
        /\ After(u, b).bindings \subseteq t.bindings \cup {Own(m) : m \in Names}
        /\ Own(n) \in After(u, b).bindings
    BY <2>2, <2>4
  <2>6. Agree(After(u, b), Live', stale')
    BY <1>5, <2>1, <2>2, <2>4, <2>5, LiveView DEF Agree
  <2> QED  BY <2>3, <2>6
<1> QED  BY <1>3, <1>5, ReplayKept

LEMMA QueueCommandsReplay ==
    ASSUME RoutingInv, ReplayInv,
           \/ \E n \in Named : CmdDeclareQueue(n) \/ CmdGet(n)
           \/ \E n \in Names : CmdDeleteQueue(n)
    PROVE  ReplayInv'
PROOF
<1>0. log \in Seq(GoodRecord)
  BY DEF RoutingInv, FileOK
<1>1. CASE \E n \in Named : CmdDeclareQueue(n)
  BY <1>1, DeclareAndBindReplay, RoutingAssumption DEF CmdDeclareQueue
<1>2. CASE \E n \in Named : CmdGet(n)
  <2> PICK n \in Named : CmdGet(n)
    BY <1>2
  <2>1. n \in Names
    BY RoutingAssumption
  <2>2. /\ todo = None /\ todo' = None /\ snapshot' = snapshot
        /\ log' = log \o DeclareRecords(n)
        /\ exchanges' = exchanges /\ bindings' = bindings /\ stale' = stale
    BY DEF CmdGet, Write, Ready
  <2>3. ASSUME NEW t, Ends(Restored, log, t), Agree(t, Live, stale)
        PROVE  \E u : Ends(Restored, log', u) /\ Agree(u, Live', stale')
    <3>1. t.exchanges[Default] # None
      BY <2>3, DefaultThere, LiveView DEF Agree
    <3>2. PICK u : /\ Ends(Restored, log', u)
                   /\ u.exchanges = t.exchanges
                   /\ t.bindings \subseteq u.bindings
                   /\ u.bindings \subseteq t.bindings \cup {Own(m) : m \in Names}
      BY <1>0, <2>1, <2>2, <2>3, <3>1, DeclareEnds
    <3>3. Agree(u, Live', stale')
      BY <2>2, <2>3, <3>2, LiveView DEF Agree
    <3> QED  BY <3>2, <3>3
  <2> QED  BY <2>2, <2>3, ReplayKept
<1>3. CASE \E n \in Names : CmdDeleteQueue(n)
  <2> PICK n \in Names : CmdDeleteQueue(n)
    BY <1>3
  <2> DEFINE q == QueueRecord("QUEUE_DELETE", n)
             d == QueueRecord("QUEUE_DELETE", dlq_name(n))
  <2>1. /\ q \in GoodRecord /\ q.op = "QUEUE_DELETE"
        /\ d \in GoodRecord /\ d.op = "QUEUE_DELETE"
    BY NamesProperties, QueueRecordGood
  <2>2. /\ todo = None /\ todo' = None /\ snapshot' = snapshot
        /\ log' = log \o (<<q>> \o (IF dlq_name(n) \in Deleted(n) \ {n} THEN <<d>> ELSE << >>))
        /\ exchanges' = exchanges /\ bindings' = bindings /\ stale' = stale
    BY DEF CmdDeleteQueue, Write, Ready
  <2> HIDE DEF q, d
  <2>3. log' = Append(log, q) \/ log' = Append(Append(log, q), d)
    BY <1>0, <2>1, <2>2
  <2>4. ASSUME NEW t, NEW r, r.op = "QUEUE_DELETE", Agree(t, Live, stale)
        PROVE  Agree(After(t, r), Live, stale)
    BY <2>4 DEF Agree, After, ExchangesAfter, BindingsAfter
  <2>5. ASSUME NEW t, Ends(Restored, log, t), Agree(t, Live, stale)
        PROVE  \E u : Ends(Restored, log', u) /\ Agree(u, Live', stale')
    <3>1. Append(log, q) \in Seq(GoodRecord)
      BY <1>0, <2>1
    <3>2. /\ Ends(Restored, Append(log, q), After(t, q))
          /\ Agree(After(t, q), Live, stale)
      BY <1>0, <2>1, <2>4, <2>5, EndsOneMore
    <3>3. /\ Ends(Restored, Append(Append(log, q), d), After(After(t, q), d))
          /\ Agree(After(After(t, q), d), Live, stale)
      BY <2>1, <2>4, <3>1, <3>2, EndsOneMore
    <3>4. \A u : Agree(u, Live, stale) => Agree(u, Live', stale')
      BY <2>2, LiveView DEF Agree
    <3> QED  BY <2>3, <3>2, <3>3, <3>4
  <2> QED  BY <2>2, <2>5, ReplayKept
<1> QED  BY <1>1, <1>2, <1>3

LEMMA BindCommandsReplay ==
    ASSUME RoutingInv, ReplayInv, \E b \in Bindable : CmdBind(b) \/ CmdUnbind(b)
    PROVE  ReplayInv'
PROOF
<1>0. log \in Seq(GoodRecord)
  BY DEF RoutingInv, FileOK
<1> PICK b \in Bindable : CmdBind(b) \/ CmdUnbind(b)
  OBVIOUS
<1>1. b \in Binding
  BY RoutingAssumption
<1>2. CASE CmdBind(b)
  <2> DEFINE r == BindRecord("BIND", b)
  <2>1. r \in GoodRecord
    BY <1>1, BindRecordGood
  <2>2. /\ todo = None /\ todo' = None /\ snapshot' = snapshot /\ log' = log \o <<r>>
        /\ bindings' = bindings \cup {b} /\ stale' = stale \ {b} /\ exchanges' = exchanges
        /\ exchanges[b.exchange] # None
    BY <1>2 DEF CmdBind, Write, Ready
  <2>3. ASSUME NEW t, Ends(Restored, log, t), Agree(t, Live, stale)
        PROVE  Ends(Restored, log', After(t, r)) /\ Agree(After(t, r), Live', stale')
    <3>1. t.exchanges = exchanges
      BY <2>3, LiveView DEF Agree
    <3>2. After(t, r).exchanges = t.exchanges /\ After(t, r).bindings = t.bindings \cup {b}
      BY <1>1, <2>2, <3>1, AfterBind
    <3> HIDE DEF r
    <3>3. log' = Append(log, r)
      BY <1>0, <2>1, <2>2
    <3>4. Ends(Restored, log', After(t, r))
      BY <1>0, <2>1, <2>3, <3>3, EndsOneMore
    <3> QED  BY <2>2, <2>3, <3>2, <3>4, LiveView DEF Agree
  <2> QED  BY <2>2, <2>3, ReplayKept
<1>3. CASE CmdUnbind(b)
  <2> DEFINE r == BindRecord("UNBIND", b)
  <2>1. r \in GoodRecord /\ r.op = "UNBIND" /\ BindingOf(r) = b
    BY <1>1, BindRecordGood
  <2>2. /\ todo = None /\ todo' = None /\ snapshot' = snapshot /\ log' = log \o <<r>>
        /\ bindings' = bindings \ {b} /\ stale' = stale \ {b} /\ exchanges' = exchanges
    BY <1>3 DEF CmdUnbind, Write, Ready
  <2>3. ASSUME NEW t, Ends(Restored, log, t), Agree(t, Live, stale)
        PROVE  Ends(Restored, log', After(t, r)) /\ Agree(After(t, r), Live', stale')
    <3> HIDE DEF r
    <3>2. After(t, r).exchanges = t.exchanges /\ After(t, r).bindings = t.bindings \ {b}
      BY <2>1 DEF After, ExchangesAfter, BindingsAfter
    <3>3. log' = Append(log, r)
      BY <1>0, <2>1, <2>2
    <3>4. Ends(Restored, log', After(t, r))
      BY <1>0, <2>1, <2>3, <3>3, EndsOneMore
    <3> QED  BY <2>2, <2>3, <3>2, <3>4, LiveView DEF Agree
  <2> QED  BY <2>2, <2>3, ReplayKept
<1> QED  BY <1>2, <1>3

\* Steps that touch neither the tables RoutesSurvive is about nor the file.
LEMMA NothingWritten ==
    ASSUME ReplayInv, todo = None,
           UNCHANGED <<exchanges, bindings, log, snapshot, todo, stale>>
    PROVE  ReplayInv'
PROOF
<1>1. ASSUME NEW t, Agree(t, Live, stale)  PROVE Agree(t, Live', stale')
  BY <1>1, LiveView DEF Agree
<1> QED  BY <1>1, ReplayKept

LEMMA PublishCommandsReplay ==
    ASSUME RoutingInv, ReplayInv,
           \/ \E p \in Pubs, n \in Named, k \in RoutingKeys \cup {None} : CmdPublishQueue(p, n, k)
           \/ \E p \in Pubs, x \in AllExchanges, k \in RoutingKeys : CmdPublishExchange(p, x, k)
    PROVE  ReplayInv'
PROOF
<1>1. CASE \E p \in Pubs, n \in Named, k \in RoutingKeys \cup {None} : CmdPublishQueue(p, n, k)
  <2> PICK p \in Pubs, n \in Named, k \in RoutingKeys \cup {None} : CmdPublishQueue(p, n, k)
    BY <1>1
  <2>1. CASE n \in queues
    <3>1. log \in Seq(GoodRecord) /\ todo = None /\ Write(<< >>)
          /\ UNCHANGED <<exchanges, bindings, stale>>
      BY <2>1 DEF CmdPublishQueue, Ready, RoutingInv, FileOK
    <3>2. UNCHANGED <<log, snapshot, todo>>
      BY <3>1 DEF Write
    <3> QED  BY <3>1, <3>2, NothingWritten
  <2>2. CASE n \notin queues
    <3>1. /\ n \in Names /\ Ready
          /\ Write(DeclareRecords(n) \o <<BindRecord("BIND", Own(n))>>)
          /\ exchanges' = exchanges /\ bindings' = bindings \cup {Own(n)}
          /\ stale' = stale \ {Own(n)}
      BY <2>2, RoutingAssumption DEF CmdPublishQueue
    <3> QED  BY <3>1, DeclareAndBindReplay
  <2> QED  BY <2>1, <2>2
<1>2. CASE \E p \in Pubs, x \in AllExchanges, k \in RoutingKeys : CmdPublishExchange(p, x, k)
  BY <1>2, NothingWritten DEF CmdPublishExchange, Ready, routingVars, fileVars
<1> QED  BY <1>1, <1>2

LEMMA PublishTurnReplay ==
    ASSUME RoutingInv, ReplayInv, NEW n \in Names, PublishNext(n)
    PROVE  ReplayInv'
PROOF
<1>1. /\ UNCHANGED <<exchanges, bindings, snapshot, todo, stale>>
      /\ todo = None /\ pub.id \in Pubs /\ log \in Seq(GoodRecord)
  BY DEF PublishNext, Looping, RoutingInv, FileOK, RoutingTypeOK, Publication
<1> DEFINE r == [QueueRecord("MESSAGE_PUBLISH", n) EXCEPT !.id = pub.id]
<1>2. log' = log \/ log' = Append(log, r)
  BY DEF PublishNext
<1>3. r \in GoodRecord /\ r.op = "MESSAGE_PUBLISH" /\ r.queue = n
  BY <1>1, PublishRecordGood
<1> HIDE DEF r
<1>4. CASE log' = log
  BY <1>1, <1>4, NothingWritten
<1>5. CASE log' = Append(log, r)
  <2>1. ASSUME NEW t, Ends(Restored, log, t), Agree(t, Live, stale)
        PROVE  Ends(Restored, log', After(t, r)) /\ Agree(After(t, r), Live', stale')
    <3>1. Ends(Restored, log', After(t, r))
      BY <1>1, <1>3, <1>5, <2>1, EndsOneMore
    <3>2. /\ After(t, r).exchanges = t.exchanges
          /\ After(t, r).bindings \in {t.bindings, t.bindings \cup {Own(n)}}
      BY <1>3 DEF After, ExchangesAfter, BindingsAfter, NowBound
    <3> QED  BY <1>1, <2>1, <3>1, <3>2, LiveView DEF Agree
  <2> QED  BY <1>1, <2>1, ReplayKept
<1> QED  BY <1>2, <1>4, <1>5

LEMMA SnapshotReplay ==
    ASSUME RoutingInv, ReplayInv, WriteSnapshot
    PROVE  ReplayInv'
PROOF
<1>1. /\ UNCHANGED <<exchanges, bindings, queues, todo>>
      /\ log' = << >> /\ todo = None
      /\ snapshot' = [exchanges |-> exchanges, bindings |-> bindings,
                      queues |-> queues, held |-> held]
      /\ stale' = {b \in bindings : b.queue \notin queues}
  BY DEF WriteSnapshot, Ready, routingVars
<1> DEFINE t == [exchanges |-> exchanges,
                 bindings |-> {b \in bindings : exchanges[b.exchange] # None /\ b.queue \in queues},
                 queues |-> queues]
<1>2. Restored' = t \/ snapshot' = None
  BY <1>1 DEF Restored, RestoredBindings
<1>3. snapshot' # None => Agree(t, Live', stale')
  BY <1>1, LiveView DEF Agree, RoutingInv, NoOrphanBindings
<1>4. snapshot' # None
  BY <1>1, RoutingAssumption DEF Snapshot, RoutingInv, RoutingTypeOK
<1> HIDE DEF t
<1> DEFINE h == [i \in 0..0 |-> t]
<1>5. h[0] = t /\ Len(log') = 0
  BY <1>1
<1>6. Replays(h, t, log')
  BY <1>5 DEF Replays
<1>7. IdleInv'
  BY <1>2, <1>3, <1>4, <1>5, <1>6 DEF IdleInv, Ends
<1>8. (todo = None => (ReplayInv <=> IdleInv))'
  BY IdleReplay, PTL
<1> QED  BY <1>1, <1>7, <1>8

LEMMA RestartReplay ==
    ASSUME RoutingInv, ReplayInv, NEW kept \in 0..Len(log), Restart(kept)
    PROVE  ReplayInv'
PROOF
<1> DEFINE l == SubSeq(log, 1, kept)
<1>1. /\ UNCHANGED <<snapshot, stale>>
      /\ log' = l /\ todo' = l /\ todo = None
      /\ before' = IF kept = Len(log) THEN Live ELSE None
      /\ Live' = Restored
  BY DEF Restart, Ready, Live, Restored
<1>2. log \in Seq(GoodRecord)
  BY DEF RoutingInv, FileOK
<1>3. l \in Seq(GoodRecord) /\ Len(l) = kept /\ (kept = Len(log) => l = log)
  BY <1>2, Prefix
<1>4. PICK h : Replays(h, Restored, log) /\ Agree(h[Len(log)], Live, stale)
  BY <1>1 DEF ReplayInv
<1> DEFINE g == [i \in 0..kept |-> h[i]]
<1>5. Replays(g, Restored, l)
  BY <1>2, <1>4, ReplayPrefix
<1>6. g[0] = h[0] /\ g[kept] = h[kept]
  OBVIOUS
<1>7. h[0] = Restored
  BY <1>4 DEF Replays
<1>8. Restored' = Restored
  BY <1>1 DEF Restored, RestoredBindings
<1>9. SubSeq(l, 1, kept) = l
  BY <1>3
<1> HIDE DEF g, l
<1>10. Applied' = 0
  BY <1>1, <1>3 DEF Applied
<1>11. before' # None => Agree(g[Len(log')], before', stale')
  BY <1>1, <1>3, <1>4, <1>6
<1>12. todo' = SubSeq(log', Applied' + 1, Len(log'))
  BY <1>1, <1>3, <1>9, <1>10
<1>13. todo' # None
  BY <1>1, <1>3, GoodRecords, RoutingAssumption
<1>14. /\ Applied' \in 0..Len(log')
       /\ Live' = g[Applied']
  BY <1>1, <1>3, <1>6, <1>7, <1>10
<1> QED  BY <1>1, <1>5, <1>8, <1>11, <1>12, <1>13, <1>14 DEF ReplayInv

\* One turn of a recovery, in the file: the records that are left are a suffix.
LEMMA SuffixTail ==
    ASSUME NEW S, NEW s \in Seq(S), NEW k \in 0..Len(s),
           SubSeq(s, k + 1, Len(s)) # << >>
    PROVE  /\ k + 1 \in 1..Len(s)
           /\ Head(SubSeq(s, k + 1, Len(s))) = s[k + 1]
           /\ Tail(SubSeq(s, k + 1, Len(s))) = SubSeq(s, k + 2, Len(s))
           /\ Len(SubSeq(s, k + 2, Len(s))) = Len(s) - (k + 1)
PROOF OBVIOUS

LEMMA RecoveryReplay ==
    ASSUME RoutingInv, ReplayInv, Replay
    PROVE  ReplayInv'
PROOF
<1>1. /\ UNCHANGED <<log, snapshot, stale, before>>
      /\ todo # None /\ todo # << >> /\ todo' = Tail(todo)
      /\ apply_record(Head(todo))
      /\ log \in Seq(GoodRecord) /\ todo \in Seq(GoodRecord)
  BY DEF Replay, RoutingInv, FileOK
<1>2. PICK h : /\ Replays(h, Restored, log)
               /\ Applied \in 0..Len(log)
               /\ todo = SubSeq(log, Applied + 1, Len(log))
               /\ Live = h[Applied]
               /\ before # None => Agree(h[Len(log)], before, stale)
  BY <1>1 DEF ReplayInv
<1>3. /\ Applied + 1 \in 1..Len(log)
      /\ Head(todo) = log[Applied + 1]
      /\ todo' = SubSeq(log, Applied + 2, Len(log))
      /\ Len(todo') = Len(log) - (Applied + 1)
  BY <1>1, <1>2, SuffixTail
<1>4. Head(todo) \in GoodRecord /\ todo' \in Seq(GoodRecord)
  BY <1>1
<1>5. Live' = After(h[Applied], log[Applied + 1])
  BY <1>1, <1>2, <1>3, <1>4, ApplyIsAfter
<1>6. h[Applied + 1] = After(h[Applied], log[Applied + 1])
  <2>1. (Applied + 1) - 1 = Applied
    BY <1>2
  <2> QED  BY <1>2, <1>3, <2>1 DEF Replays
<1>7. Applied' = Applied + 1
  BY <1>1, <1>2, <1>3 DEF Applied
<1>8. Restored' = Restored
  BY <1>1 DEF Restored, RestoredBindings
<1>9. todo' # None
  BY <1>4, GoodRecords, RoutingAssumption
<1>10. /\ Applied' \in 0..Len(log')
       /\ todo' = SubSeq(log', Applied' + 1, Len(log'))
       /\ Live' = h[Applied']
  BY <1>1, <1>2, <1>3, <1>5, <1>6, <1>7
<1>11. before' # None => Agree(h[Len(log')], before', stale')
  BY <1>1, <1>2
<1> QED  BY <1>1, <1>2, <1>8, <1>9, <1>10, <1>11 DEF ReplayInv

LEMMA EmptyIsNotNone == << >> # None
PROOF
<1>1. << >> \in Seq(Record)
  OBVIOUS
<1> QED  BY <1>1, RoutingAssumption

\* When nothing is left to apply, the tables are those at the end of the replay.
LEMMA AllApplied ==
    ASSUME RoutingInv, ReplayInv, todo = << >>
    PROVE  \E h : /\ Replays(h, Restored, log)
                  /\ Live = h[Len(log)]
                  /\ before # None => Agree(h[Len(log)], before, stale)
PROOF
<1>1. todo # None /\ log \in Seq(GoodRecord)
  BY EmptyIsNotNone DEF RoutingInv, FileOK
<1>2. Applied = Len(log)
  BY <1>1 DEF Applied
<1> QED  BY <1>1, <1>2 DEF ReplayInv

LEMMA RecoveredReplay ==
    ASSUME RoutingInv, ReplayInv, Recovered
    PROVE  ReplayInv'
PROOF
<1>1. /\ UNCHANGED <<exchanges, bindings, queues, log, snapshot>>
      /\ todo = << >> /\ todo' = None /\ stale' = {}
  BY DEF Recovered, routingVars
<1>2. PICK h : Replays(h, Restored, log) /\ Live = h[Len(log)]
  BY <1>1, AllApplied
<1>3. Restored' = Restored
  BY <1>1 DEF Restored, RestoredBindings
<1>4. Agree(h[Len(log')], Live', stale')
  BY <1>1, <1>2, LiveView DEF Agree
<1> QED  BY <1>1, <1>2, <1>3, <1>4 DEF ReplayInv

LEMMA InitReplay == Init => ReplayInv
PROOF
<1> SUFFICES ASSUME Init  PROVE ReplayInv
  OBVIOUS
<1>1. Restored = Live /\ log = << >> /\ todo = None /\ stale = {} /\ Len(log) = 0
  BY DEF Init, Restored, Live
<1> DEFINE h == [i \in 0..0 |-> Live]
<1>2. h[0] = Live
  OBVIOUS
<1>3. Replays(h, Restored, log)
  BY <1>1, <1>2 DEF Replays
<1>4. Agree(h[0], Live, stale)
  BY <1>1, <1>2 DEF Agree
<1> HIDE DEF h
<1> QED  BY <1>1, <1>3, <1>4 DEF ReplayInv

LEMMA NextReplay == RoutingInv /\ ReplayInv /\ [Next]_vars => ReplayInv'
PROOF
<1> SUFFICES ASSUME RoutingInv, ReplayInv, [Next]_vars  PROVE ReplayInv'
  OBVIOUS
<1>1. CASE Commands
  BY <1>1, ExchangeCommandsReplay, QueueCommandsReplay, BindCommandsReplay, PublishCommandsReplay
     DEF Commands
<1>2. CASE \E n \in Names : PublishNext(n)
  BY <1>2, PublishTurnReplay
<1>3. CASE PublishEnd \/ PublishReply
  <2>1. todo = None /\ UNCHANGED <<exchanges, bindings, log, snapshot, todo, stale>>
    BY <1>3 DEF PublishEnd, PublishReply, Looping, routingVars, fileVars, RoutingInv, FileOK
  <2> QED  BY <2>1, NothingWritten
<1>4. CASE \E n \in Names, p \in Pubs : Settle(n, p) \/ MoveToDlq(n, p)
  <2>1. todo = None /\ UNCHANGED <<exchanges, bindings, log, snapshot, todo, stale>>
    BY <1>4 DEF Settle, MoveToDlq, Ready, fileVars
  <2> QED  BY <2>1, NothingWritten
<1>5. CASE WriteSnapshot
  BY <1>5, SnapshotReplay
<1>6. CASE \E kept \in 0..Len(log) : Restart(kept)
  BY <1>6, RestartReplay
<1>7. CASE Replay \/ Recovered
  BY <1>7, RecoveryReplay, RecoveredReplay
<1>8. CASE UNCHANGED vars
  <2>1. UNCHANGED <<Restored, log, todo, Live, stale, before, Applied>>
    BY <1>8 DEF vars, routingVars, fileVars, Restored, RestoredBindings, Live, Applied
  <2> QED  BY <2>1 DEF ReplayInv
<1> QED  BY <1>1, <1>2, <1>3, <1>4, <1>5, <1>6, <1>7, <1>8 DEF Next

\* What RoutesSurvive says of a step.
SurvivalStep ==
    todo = << >> /\ todo' = None /\ before # None =>
        /\ exchanges' = before.exchanges
        /\ {b \in before.bindings : b.queue \in before.queues} \ stale \subseteq bindings'
        /\ bindings' \ before.bindings \subseteq {Own(n) : n \in Names}

LEMMA StepSurvives == RoutingInv /\ ReplayInv /\ [Next]_vars => [SurvivalStep]_vars
PROOF
<1> SUFFICES ASSUME RoutingInv, ReplayInv, [Next]_vars,
                    todo = << >>, todo' = None, before # None
             PROVE  /\ exchanges' = before.exchanges
                    /\ {b \in before.bindings : b.queue \in before.queues} \ stale
                          \subseteq bindings'
                    /\ bindings' \ before.bindings \subseteq {Own(n) : n \in Names}
  BY DEF SurvivalStep
<1>1. todo # None /\ ~Ready /\ pub = None /\ ~UNCHANGED todo
  BY EmptyIsNotNone DEF Ready, RoutingInv, FileOK
<1>2. ~Commands
  BY <1>1 DEF Commands, CmdDeclareExchange, CmdDeleteExchange, CmdDeclareQueue, CmdGet,
              CmdDeleteQueue, CmdBind, CmdUnbind, CmdPublishQueue, CmdPublishExchange
<1>3. Recovered
  BY <1>1, <1>2 DEF Next, PublishNext, PublishEnd, PublishReply, Looping, Settle, MoveToDlq,
                    WriteSnapshot, Restart, Replay, vars, fileVars
<1>4. UNCHANGED <<exchanges, bindings>>
  BY <1>3 DEF Recovered, routingVars
<1>5. PICK h : Live = h[Len(log)] /\ Agree(h[Len(log)], before, stale)
  BY AllApplied
<1> QED  BY <1>4, <1>5, LiveView DEF Agree

\* After a crash that lost no record, restore_state and the replay of the file
\* bring back the exchanges and the bindings that were there, for any number of
\* commands, snapshots and restarts before it: no binding is missing but those
\* that a snapshot saved while their queue was deleted, and none has come but a
\* queue's own to the default exchange.
THEOREM RestartKeepsRoutes == Spec => RoutesSurvive
PROOF
<1>1. Spec => []ReplayInv
  BY AlwaysInv, InitReplay, NextReplay, PTL DEF Spec
<1>2. Spec => [][SurvivalStep]_vars
  BY <1>1, AlwaysInv, StepSurvives, PTL DEF Spec
<1> QED  BY <1>2, PTL DEF RoutesSurvive, SurvivalStep

=============================================================================
