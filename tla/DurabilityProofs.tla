--------------------------- MODULE DurabilityProofs ---------------------------
(***************************************************************************)
(* Proofs about Durability, for any number of queues, messages, records,   *)
(* crashes and snapshots: what is on disk stays well formed, the engine    *)
(* that restore_state and the replay build is as whole as one that never   *)
(* stopped, and, where no queue has a limit, it holds every message that   *)
(* the files can bring back.                                               *)
(***************************************************************************)
EXTENDS Durability, QueueEngineProofs, AofWriterProofs

-----------------------------------------------------------------------------
(* The engine.                                                             *)

EngineInv == TypeOK /\ OneHome /\ Placed

LEMMA EngineInit == Init => EngineInv
<1> SUFFICES ASSUME Init PROVE EngineInv
  OBVIOUS
<1>1. TypeOK
  BY NoneAssumption DEF Init, TypeOK, NoLeases, Phases
<1>2. OneHome
  BY NoneAssumption DEF Init, OneHome
<1>3. Placed
  <2>1. \A n \in Names : ready[n] = << >> /\ messages[n] = {} /\ delayed_ids[n] = {}
    BY DEF Init
  <2>2. \A n \in Names, m \in Ids : inflight[n][m] = None
    BY DEF Init, NoLeases
  <2>3. Elements(<< >>) = {} /\ Distinct(<< >>)
    BY DEF Elements, Distinct
  <2> QED
    BY <2>1, <2>2, <2>3
       DEF Placed, PlacedAt, Stocked, LeaseWakes, DelayWakes, GoneIsEmpty, OnlyHere
<1> QED
  BY <1>1, <1>2, <1>3 DEF EngineInv

LEMMA EngineNext ==
    ASSUME EngineInv, [Next]_vars
    PROVE  EngineInv'
BY StepTyped, StepIsHomeStep, HomeStepKeeps, StepPlaced DEF EngineInv

LEMMA EngineDeclares ==
    ASSUME EngineInv, NEW n \in Names, NEW l \in Nat \cup {None}, DeclareQueue(n, l)
    PROVE  EngineInv'
<1>1. HomeStep
  BY DEF DeclareQueue, HomeStep, HomesKept
<1> QED
  BY <1>1, DeclareQueueTyped, DeclareQueuePlaced, HomeStepKeeps DEF EngineInv

LEMMA EngineEnqueues ==
    ASSUME EngineInv, NEW n \in Names, NEW m \in Ids, NEW t \in Nat, Enqueue(n, m, t)
    PROVE  EngineInv'
<1>1. Arrives(n, m)
  BY DEF Enqueue, Arrives
<1>2. HomeStep
  BY <1>1 DEF HomeStep
<1> QED
  BY <1>2, EnqueueTyped, EnqueuePlaced, HomeStepKeeps DEF EngineInv

LEMMA EngineStarts == EngineGone => EngineInv'
<1>1. EngineGone => Init'
  BY DEF EngineGone, Init, NoLeases
<1> QED
  BY <1>1, EngineInit, PTL

\* A message that is replayed into a queue, which is declared if need be: the
\* same as an enqueue, of a message that may have been there before.
LEMMA ReplayPublishKeeps ==
    ASSUME EngineInv, NEW n \in Names, NEW m \in Ids, ReplayPublish(n, m)
    PROVE  EngineInv'
<1> USE DEF EngineInv
<1>1. /\ queues \subseteq queues' /\ n \in queues' /\ queues' \subseteq Names
      /\ UNCHANGED <<delayed_ids, inflight, recent_acks, delayed, visibility_heap, running, cursor>>
  BY NameFacts DEF ReplayPublish, TypeOK, loopVars
<1>2. max_length' \in [Names -> Nat \cup {None}]
  BY EngineAssumption DEF ReplayPublish, TypeOK
<1>3. CASE UNCHANGED <<used, messages, by_id, attempts, ready>>
  <2>1. TypeOK'
    BY <1>1, <1>2, <1>3 DEF TypeOK
  <2>2. OneHome'
    BY <1>1, <1>3 DEF OneHome
  <2>3. Placed'
    BY <1>1, <1>3
       DEF Placed, PlacedAt, Stocked, LeaseWakes, DelayWakes, GoneIsEmpty, OnlyHere, Distinct
  <2> QED
    BY <2>1, <2>2, <2>3
<1>4. CASE ~UNCHANGED <<used, messages, by_id, attempts, ready>>
  <2>1. /\ by_id[m] = None
        /\ used' = used \cup {m}
        /\ messages' = [messages EXCEPT ![n] = @ \cup {m}]
        /\ by_id' = [by_id EXCEPT ![m] = n]
        /\ attempts' = [attempts EXCEPT ![m] = 0]
        /\ ready' = [ready EXCEPT ![n] = PushReady(@, m)]
    BY <1>4 DEF ReplayPublish
  <2>2. /\ PushReady(ready[n], m) \in Seq(Ids)
        /\ Elements(PushReady(ready[n], m)) = Elements(ready[n]) \cup {m}
        /\ Distinct(ready[n]) /\ m \notin Elements(ready[n]) => Distinct(PushReady(ready[n], m))
    BY PushReadyProperties DEF TypeOK, Distinct
  <2>3. TypeOK'
    BY <1>1, <1>2, <2>1, <2>2 DEF TypeOK
  <2>4. \A x \in Names : m \notin messages[x]
    BY <2>1, NoneAssumption DEF OneHome
  <2>5. ASSUME NEW x \in Names, NEW y \in Ids
        PROVE  y \in messages'[x] <=> y \in messages[x] \/ (x = n /\ y = m)
    BY <2>1 DEF TypeOK
  <2>6. ASSUME NEW y \in Ids
        PROVE  by_id'[y] = IF y = m THEN n ELSE by_id[y]
    BY <2>1 DEF TypeOK
  <2>7. OneHome'
    BY <1>1, <2>1, <2>4, <2>5, <2>6 DEF OneHome
  <2>8. ~is_dlq(n) =>
           m \notin Elements(ready[n]) /\ inflight[n][m] = None /\ m \notin delayed_ids[n]
    BY <2>4 DEF Placed, PlacedAt, OnlyHere
  <2>9. ASSUME NEW x \in Names, NEW y \in Ids
        PROVE  PlacedAt(x, y)'
    <3>1. PlacedAt(x, y)
      BY DEF Placed
    <3>2. y \in Elements(ready'[x]) <=> y \in Elements(ready[x]) \/ (x = n /\ y = m)
      BY <2>1, <2>2 DEF TypeOK
    <3>3. Stocked(x, y)' /\ LeaseWakes(x, y)' /\ GoneIsEmpty(x, y)' /\ DelayWakes(x, y)'
      BY <1>1, <2>5, <3>1, <3>2 DEF PlacedAt, Stocked, LeaseWakes, GoneIsEmpty, DelayWakes
    <3>4. OnlyHere(x, y)'
      BY <1>1, <2>5, <2>8, <3>1, <3>2 DEF PlacedAt, OnlyHere
    <3> QED
      BY <3>3, <3>4 DEF PlacedAt
  <2>10. ASSUME NEW x \in Names, ~is_dlq(x)
         PROVE  Distinct(ready'[x])
    <3>1. ready'[x] = ready[x] \/ (x = n /\ ready'[x] = PushReady(ready[n], m))
      BY <2>1 DEF TypeOK
    <3> QED
      BY <2>2, <2>8, <2>10, <3>1 DEF Placed
  <2>11. Placed'
    BY <2>9, <2>10 DEF Placed, Distinct
  <2> QED
    BY <2>3, <2>7, <2>11
<1> QED
  BY <1>3, <1>4

-----------------------------------------------------------------------------
(* The snapshot.                                                           *)

SnapshotOK == snapshot # None => snapshot \in Images /\ Coherent(snapshot)

LEMMA WaitsTyped ==
    ASSUME EngineInv, NEW w \in Waits
    PROVE  w \subseteq HeapEntry
<1>1. \A n \in Names, m \in Ids : AvailableAt(n, m) \subseteq HeapEntry
  BY DEF AvailableAt, HeapEntry, EngineInv, TypeOK
<1> QED
  BY <1>1 DEF Waits

LEMMA ImageOK ==
    ASSUME EngineInv, TakeImage
    PROVE  SnapshotOK'
<1> USE DEF EngineInv
<1>0. PICK w \in Waits : snapshot' = Image(w)
  BY DEF TakeImage
<1>1. Image(w) \in Images
  BY WaitsTyped DEF Image, Images, TypeOK
<1>2. /\ Image(w).messages = messages /\ Image(w).queues = queues
      /\ \A e \in Image(w).waiting : e.id \in messages[e.queue]
  BY DEF Image, Waits, DelayedState
<1>3. \A n \in Names : messages[n] # {} => n \in queues
  BY NoneAssumption DEF OneHome, TypeOK
<1>4. \A n, x \in Names : messages[n] \cap messages[x] # {} => n = x
  BY DEF OneHome, TypeOK
<1>5. Coherent(Image(w))
  BY <1>2, <1>3, <1>4 DEF Coherent
<1> QED
  BY <1>0, <1>1, <1>5 DEF SnapshotOK, Coherent

\* Time passes for the messages in it.
LEMMA AgedOK ==
    ASSUME SnapshotOK,
           snapshot' = IF snapshot = None THEN None
                       ELSE [snapshot EXCEPT !.waiting = {Sooner(e) : e \in @}]
    PROVE  SnapshotOK'
<1>1. CASE snapshot = None
  BY <1>1 DEF SnapshotOK, Coherent
<1>2. CASE snapshot # None
  <2>1. \A e \in HeapEntry : /\ Sooner(e) \in HeapEntry
                             /\ Sooner(e).queue = e.queue /\ Sooner(e).id = e.id
    BY DEF Sooner, HeapEntry
  <2>2. snapshot \in Images /\ snapshot.waiting \subseteq HeapEntry
    BY <1>2 DEF SnapshotOK, Images
  <2>3. /\ snapshot'.queues = snapshot.queues /\ snapshot'.messages = snapshot.messages
        /\ snapshot'.waiting = {Sooner(e) : e \in snapshot.waiting}
        /\ snapshot' \in Images
    BY <1>2, <2>1, <2>2 DEF Images
  <2> QED
    BY <1>2, <2>1, <2>2, <2>3 DEF SnapshotOK, Coherent
<1> QED
  BY <1>1, <1>2

\* restore_state pushes each message that does not wait once.
LEMMA OrdersProperties ==
    ASSUME NEW S \in SUBSET Ids, NEW s \in Orders(S)
    PROVE  s \in Seq(Ids) /\ Elements(s) = S /\ Distinct(s)
<1>1. IsFiniteSet(S) /\ Cardinality(S) \in Nat
  BY EngineAssumption, FS_Subset, FS_CardinalityType
<1> DEFINE k == Cardinality(S)
<1>2. s \in [1..k -> S] /\ \A i, j \in 1..k : i < j => s[i] # s[j]
  BY DEF Orders
<1>3. s \in Seq(S) /\ DOMAIN s = 1..k
  BY <1>1, <1>2
<1>4. Distinct(s)
  BY <1>1, <1>2, <1>3 DEF Distinct
<1>5. s \in Injection(1..k, S)
  BY <1>3, <1>4, <1>2 DEF Injection, IsInjective, Distinct
<1>6. IsFiniteSet(1..k) /\ Cardinality(1..k) = k
  BY <1>1, FS_Interval
<1>7. s \in Surjection(1..k, S)
  BY <1>1, <1>5, <1>6, FS_Injection
<1>8. Elements(s) = S
  BY <1>3, <1>7 DEF Elements, Surjection
<1> QED
  BY <1>3, <1>4, <1>8

LEMMA RestoreKeeps ==
    ASSUME EngineInv, SnapshotOK, snapshot # None, Restore,
           \A n \in Names, m \in Ids : inflight[n][m] = None
    PROVE  EngineInv'
<1> DEFINE S == snapshot
<1>1. /\ S \in Images
      /\ \A n \in Names : S.messages[n] # {} => n \in S.queues
      /\ \A n, x \in Names : S.messages[n] \cap S.messages[x] # {} => n = x
      /\ \A e \in S.waiting : e.id \in S.messages[e.queue]
  BY DEF SnapshotOK, Coherent
<1>2. /\ S.queues \subseteq Names /\ S.max_length \in [Names -> Nat \cup {None}]
      /\ S.messages \in [Names -> SUBSET Ids] /\ S.attempts \in [Ids -> Nat]
      /\ S.waiting \subseteq HeapEntry
  BY <1>1 DEF Images
<1>3. /\ queues' = S.queues /\ max_length' = S.max_length /\ messages' = S.messages
      /\ delayed' = S.waiting
      /\ UNCHANGED <<inflight, recent_acks, visibility_heap, running, cursor>>
  BY DEF Restore, RestoredHeap, loopVars
<1>4. ASSUME NEW n \in Names
      PROVE  /\ delayed_ids'[n] = Waiting(n)
             /\ Waiting(n) \subseteq S.messages[n]
             /\ \A m \in Waiting(n) : \E e \in S.waiting : e.queue = n /\ e.id = m
  BY <1>1 DEF Restore, Waiting
<1>5. delayed_ids' \in [Names -> SUBSET Ids]
  BY <1>2, <1>4 DEF Restore
<1>6. ASSUME NEW n \in Names
      PROVE  /\ ready'[n] \in Seq(Ids) /\ Distinct(ready'[n])
             /\ Elements(ready'[n]) = S.messages[n] \ Waiting(n)
  <2>1. ready'[n] \in Orders(S.messages[n] \ Waiting(n))
    BY DEF Restore
  <2>2. S.messages[n] \ Waiting(n) \in SUBSET Ids
    BY <1>2
  <2> QED
    BY <2>1, <2>2, OrdersProperties
<1>7. ready' \in [Names -> Seq(Ids)]
  <2>1. ready' = [n \in Names |-> ready'[n]]
    BY DEF Restore
  <2> QED
    BY <1>6, <2>1
<1>8. ASSUME NEW m \in Ids
      PROVE  /\ \A n \in Names : m \in S.messages[n] => by_id'[m] = n
             /\ (\A n \in Names : m \notin S.messages[n]) => by_id'[m] = None
             /\ by_id'[m] \in Names \cup {None}
  <2>1. by_id'[m] = IF \E n \in Names : m \in S.messages[n]
                    THEN CHOOSE n \in Names : m \in S.messages[n] ELSE None
    BY DEF Restore, RestoredIndex
  <2> QED
    BY <1>1, <2>1
<1>9. by_id' \in [Ids -> Names \cup {None}]
  <2>1. by_id' = [m \in Ids |-> by_id'[m]]
    BY DEF Restore, RestoredIndex
  <2> QED
    BY <1>8, <2>1
<1>10. attempts' \in [Ids -> Nat]
  BY <1>2 DEF Restore
<1>11. used' = UNION {S.messages[n] : n \in Names} /\ used' \subseteq Ids
  BY <1>2 DEF Restore
<1> HIDE DEF S
<1>12. TypeOK'
  BY <1>2, <1>3, <1>5, <1>7, <1>9, <1>10, <1>11 DEF EngineInv, TypeOK
<1>13. OneHome'
  <2>1. ASSUME NEW n \in Names, NEW m \in Ids
        PROVE  m \in messages'[n] <=> by_id'[m] = n
    BY <1>3, <1>8, NoneAssumption
  <2>2. ASSUME NEW m \in Ids, by_id'[m] # None
        PROVE  by_id'[m] \in queues' /\ m \in used'
    BY <1>1, <1>3, <1>8, <1>11, <2>2
  <2> QED
    BY <2>1, <2>2 DEF OneHome
<1>14. ASSUME NEW x \in Names, NEW y \in Ids
       PROVE  PlacedAt(x, y)'
  <2>1. inflight'[x][y] = None
    BY <1>3
  <2>2. Stocked(x, y)' /\ LeaseWakes(x, y)' /\ OnlyHere(x, y)'
    BY <1>3, <1>4, <1>6, <2>1 DEF Stocked, LeaseWakes, OnlyHere
  <2>3. GoneIsEmpty(x, y)'
    BY <1>1, <1>3, <1>4, <2>1 DEF GoneIsEmpty
  <2>4. DelayWakes(x, y)'
    BY <1>3, <1>4 DEF DelayWakes
  <2> QED
    BY <2>2, <2>3, <2>4 DEF PlacedAt
<1>15. Placed'
  BY <1>6, <1>14 DEF Placed, Distinct
<1> QED
  BY <1>12, <1>13, <1>15 DEF EngineInv

\* One record.  While no message is in flight its acks and nacks do nothing.
LEMMA ApplyKeeps ==
    ASSUME EngineInv, NEW b \in Payloads, apply_record(b),
           \A n \in Names, m \in Ids : inflight[n][m] = None
    PROVE  EngineInv' /\ UNCHANGED <<inflight, running>>
<1>1. /\ b.queue \in Names
      /\ b.op = "QUEUE_DECLARE" => b.max_length \in Nat \cup {None}
      /\ b.op \in MessageOps => b.id \in Ids
  BY EngineAssumption DEF Payloads, Body, MessageOps, Limit
<1>2. ASSUME b.id \in Ids PROVE ~InFlight(b.id)
  BY <1>2 DEF InFlight, EngineInv, TypeOK
<1>3. ASSUME UNCHANGED vars PROVE EngineInv' /\ UNCHANGED <<inflight, running>>
  BY <1>3, EngineNext DEF vars, queueVars, loopVars
<1>4. CASE b.op = "QUEUE_DECLARE"
  <2>1. ASSUME DeclareQueue(b.queue, b.max_length)
        PROVE  EngineInv' /\ UNCHANGED <<inflight, running>>
    BY <1>1, <1>4, <2>1, EngineDeclares DEF DeclareQueue, loopVars
  <2> QED
    BY <1>3, <1>4, <2>1 DEF apply_record
<1>5. CASE b.op = "QUEUE_DELETE"
  <2>1. ASSUME DeleteQueue(b.queue)
        PROVE  EngineInv' /\ UNCHANGED <<inflight, running>>
    <3>1. EngineInv'
      BY <1>1, <2>1, EngineNext DEF Next, Client
    <3>2. inflight' = inflight
      BY <2>1 DEF DeleteQueue, NoLeases, EngineInv, TypeOK
    <3> QED
      BY <2>1, <3>1, <3>2 DEF DeleteQueue, loopVars
  <2> QED
    BY <1>3, <1>5, <2>1 DEF apply_record
<1>6. CASE b.op = "MESSAGE_PUBLISH"
  <2>1. ReplayPublish(b.queue, b.id)
    BY <1>6 DEF apply_record
  <2> QED
    BY <1>1, <1>6, <2>1, ReplayPublishKeeps DEF ReplayPublish, MessageOps, loopVars
<1>7. CASE b.op \in {"MESSAGE_ACK", "MESSAGE_NACK", "NACK_DROP", "MESSAGE_DEAD", "RETRY"}
  BY <1>1, <1>2, <1>3, <1>7 DEF apply_record, MessageOps
<1>8. CASE b.op = "MESSAGE_REQUEUE"
  <2>1. ASSUME DlqRequeue(b.queue, b.id)
        PROVE  EngineInv' /\ UNCHANGED <<inflight, running>>
    BY <1>1, <1>8, <2>1, EngineNext DEF DlqRequeue, Next, Client, MessageOps, loopVars
  <2> QED
    BY <1>3, <1>8, <2>1 DEF apply_record
<1> QED
  BY <1>4, <1>5, <1>6, <1>7, <1>8 DEF apply_record

-----------------------------------------------------------------------------
(* The invariant of the whole.                                             *)

NoneHeld == \A n \in Names, m \in Ids : inflight[n][m] = None

\* Nothing is in flight before the server runs, and there is nothing at all
\* before recovery begins.
PhaseOK ==
    /\ online => todo = None
    /\ ~online => Idle /\ NoneHeld
    /\ ~online /\ todo = None => queues = {} /\ \A m \in Ids : by_id[m] = None

RecoveryTyped ==
    /\ todo \in Seq(Record) \cup {None}
    /\ issued \subseteq Ids
    /\ required \subseteq Ids

DurabilityInv == EngineInv /\ AofInv /\ SnapshotOK /\ PhaseOK /\ RecoveryTyped

\* The records of a step are what the file may hold.
LEMMA RecordsTyped ==
    ASSUME TypeOK
    PROVE  /\ \A n \in Names, l \in MaxLengths : DeclareRecords(n, l) \in Seq(Bodies)
           /\ \A n \in Names : DeleteRecords(n) \in Seq(Bodies)
           /\ \A op \in MessageOps, n \in Names, m \in Ids :
                 <<Body(op, n, m, None)>> \in Seq(Bodies)
           /\ \A n \in Names, m \in Ids : RetryRecords(n, m) \in Seq(Bodies)
           /\ \A m \in Ids, requeue \in BOOLEAN :
                 by_id[m] # None => NackRecords(m, requeue) \in Seq(Bodies)
           /\ << >> \in Seq(Bodies)
<1>1. Bodies = Payloads
  BY FilesAssumption
<1> DEFINE B == Bodies
<1>a. \A b \in B : <<b>> \in Seq(B)
  OBVIOUS
<1>b. \A b, d \in B : <<b>> \o <<d>> \in Seq(B) /\ <<b, d>> \in Seq(B)
  OBVIOUS
<1>c. << >> \in Seq(B) /\ \A s \in Seq(B) : << >> \o s = s /\ s \o << >> = s
  OBVIOUS
<1>2. ASSUME NEW n \in Names, NEW l \in MaxLengths
      PROVE  /\ Body("QUEUE_DECLARE", n, None, Limit(l)) \in Bodies
             /\ Body("QUEUE_DECLARE", dlq_name(n), None, DefaultMaxLength) \in Bodies
  <2>1. dlq_name(n) \in Names /\ Limit(None) = DefaultMaxLength
    BY NameFacts DEF Limit
  <2>2. Body("QUEUE_DECLARE", dlq_name(n), None, Limit(None)) \in Payloads
    BY <2>1 DEF Payloads
  <2> QED
    BY <1>1, <2>1, <2>2 DEF Payloads
<1>3. ASSUME NEW n \in Names PROVE Body("QUEUE_DELETE", n, None, None) \in Bodies
  BY <1>1 DEF Payloads
<1>4. ASSUME NEW op \in MessageOps, NEW n \in Names, NEW m \in Ids
      PROVE  Body(op, n, m, None) \in Bodies
  BY <1>1 DEF Payloads
<1>5. ASSUME NEW n \in Names, NEW l \in MaxLengths
      PROVE  DeclareRecords(n, l) \in Seq(Bodies)
  <2> DEFINE d == Body("QUEUE_DECLARE", dlq_name(n), None, DefaultMaxLength)
             b == Body("QUEUE_DECLARE", n, None, Limit(l))
  <2>1. d \in Bodies /\ b \in Bodies
    BY <1>2
  <2>2. \/ DeclareRecords(n, l) = <<d>> \o <<b>>
        \/ DeclareRecords(n, l) = << >> \o <<b>>
    BY DEF DeclareRecords
  <2> HIDE DEF d, b
  <2> QED
    BY <1>a, <1>b, <1>c, <2>1, <2>2
<1>6. ASSUME NEW n \in Names PROVE DeleteRecords(n) \in Seq(Bodies)
  <2> DEFINE b == Body("QUEUE_DELETE", n, None, None)
             d == Body("QUEUE_DELETE", dlq_name(n), None, None)
  <2>1. d \in Bodies /\ b \in Bodies
    BY <1>3, NameFacts
  <2>2. \/ DeleteRecords(n) = <<b>> \o <<d>>
        \/ DeleteRecords(n) = <<b>> \o << >>
    BY DEF DeleteRecords
  <2> HIDE DEF d, b
  <2> QED
    BY <1>a, <1>b, <1>c, <2>1, <2>2
<1>7. ASSUME NEW n \in Names, NEW m \in Ids
      PROVE  \E b \in Bodies : RetryRecords(n, m) = <<b>>
  <2>1. (IF Exhausted(m) THEN "MESSAGE_DEAD" ELSE "RETRY") \in MessageOps
    BY DEF MessageOps
  <2> QED
    BY <1>4, <2>1 DEF RetryRecords
<1>8. ASSUME NEW m \in Ids, NEW requeue \in BOOLEAN, by_id[m] # None
      PROVE  NackRecords(m, requeue) \in Seq(Bodies)
  <2>1. by_id[m] \in Names
    BY <1>8 DEF TypeOK
  <2> DEFINE a == Body("MESSAGE_NACK", by_id[m], m, None)
             b == Body("NACK_DROP", by_id[m], m, None)
             c == Body("MESSAGE_DEAD", by_id[m], m, None)
  <2>2. a \in Bodies /\ b \in Bodies /\ c \in Bodies
    BY <1>4, <2>1 DEF MessageOps
  <2>3. PICK d \in Bodies : RetryRecords(by_id[m], m) = <<d>>
    BY <1>7, <2>1
  <2>4. NackRecords(m, requeue) = <<a>> \o <<d>> \/ NackRecords(m, requeue) = <<b, c>>
    BY <2>3 DEF NackRecords
  <2> HIDE DEF a, b, c
  <2> QED
    BY <1>b, <2>2, <2>4
<1>9. \A n \in Names, m \in Ids : RetryRecords(n, m) \in Seq(Bodies)
  BY <1>7, <1>a
<1>10. \A op \in MessageOps, n \in Names, m \in Ids : <<Body(op, n, m, None)>> \in Seq(Bodies)
  BY <1>4, <1>a
<1> QED
  BY <1>c, <1>5, <1>6, <1>8, <1>9, <1>10

\* A step of the running broker that leaves the snapshot alone.
LEMMA OnlineStep ==
    ASSUME DurabilityInv, online, online', EngineInv', AofInv',
           UNCHANGED <<snapshot, todo, required>>, issued' \subseteq Ids
    PROVE  DurabilityInv'
BY DEF DurabilityInv, SnapshotOK, Coherent, PhaseOK, RecoveryTyped

\* Commands: an engine call and its records.
LEMMA CommandsKeep ==
    ASSUME DurabilityInv, NEW k \in Clients, NEW bodies \in Seq(Bodies), Command(k, bodies),
           EngineInv', UNCHANGED <<snapshot, todo, required>>, issued' \subseteq Ids
    PROVE  DurabilityInv'
<1>1. online /\ online'
  BY DEF Command, append
<1>2. AofInv'
  BY CommandKeeps DEF DurabilityInv
<1> QED
  BY <1>1, <1>2, OnlineStep

LEMMA ReplayedTyped ==
    ASSUME AofInv
    PROVE  Replayed \in Seq(Record)
<1>1. file \in Seq(Record)
  BY DEF AofInv, AofTypeOK
<1> QED
  BY <1>1, EntriesProperties DEF Replayed

LEMMA DurabilityKept == DurabilityInv /\ [DurabilityNext]_durabilityVars => DurabilityInv'
<1> SUFFICES ASSUME DurabilityInv, [DurabilityNext]_durabilityVars PROVE DurabilityInv'
  OBVIOUS
<1>1. /\ EngineInv /\ TypeOK /\ AofInv /\ SnapshotOK
      /\ issued \subseteq Ids /\ required \subseteq Ids /\ todo \in Seq(Record) \cup {None}
      /\ online \in BOOLEAN
  BY DEF DurabilityInv, EngineInv, RecoveryTyped, AofInv, AofTypeOK
<1>2. ASSUME NEW k \in Clients, NEW n \in Names, NEW l \in MaxLengths, Declare(k, n, l)
      PROVE  DurabilityInv'
  <2>1. EngineInv'
    BY <1>1, <1>2, EngineNext DEF Declare, Next, Client
  <2> QED
    BY <1>1, <1>2, <2>1, CommandsKeep, RecordsTyped DEF Declare, recoveryVars
<1>3. ASSUME NEW k \in Clients, NEW n \in Names, Delete(k, n)
      PROVE  DurabilityInv'
  <2>1. EngineInv'
    BY <1>1, <1>3, EngineNext DEF Delete, Next, Client
  <2> QED
    BY <1>1, <1>3, <2>1, CommandsKeep, RecordsTyped DEF Delete, recoveryVars
<1>4. ASSUME NEW k \in Clients, NEW n \in Names, NEW m \in Ids, Publish(k, n, m)
      PROVE  DurabilityInv'
  <2>1. EngineInv'
    BY <1>1, <1>4, EngineEnqueues, 0 \in Nat DEF Publish
  <2>2. <<Body("MESSAGE_PUBLISH", n, m, None)>> \in Seq(Bodies)
    BY <1>1, RecordsTyped DEF MessageOps
  <2> QED
    BY <1>1, <1>4, <2>1, <2>2, CommandsKeep DEF Publish
<1>5. ASSUME NEW k \in Clients, NEW n \in Names, NEW m \in Ids, Requeue(k, n, m)
      PROVE  DurabilityInv'
  <2>1. EngineInv'
    BY <1>1, <1>5, EngineNext DEF Requeue, Next, Client
  <2>2. <<Body("MESSAGE_REQUEUE", origin_queue(n), m, None)>> \in Seq(Bodies)
    BY <1>1, RecordsTyped, NameFacts DEF MessageOps
  <2>3. << >> \in Seq(Bodies)
    OBVIOUS
  <2> QED
    BY <1>1, <1>5, <2>1, <2>2, <2>3, CommandsKeep DEF Requeue, recoveryVars
<1>6. ASSUME NEW k \in Clients, NEW m \in Ids, AckCommand(k, m)
      PROVE  DurabilityInv'
  <2>1. EngineInv'
    BY <1>1, <1>6, EngineNext DEF AckCommand, Next, Deliveries
  <2>2. by_id[m] \in Names
    BY <1>1, <1>6 DEF AckCommand, Ack, TypeOK
  <2>3. <<Body("MESSAGE_ACK", by_id[m], m, None)>> \in Seq(Bodies)
    BY <1>1, <2>2, RecordsTyped DEF MessageOps
  <2> QED
    BY <1>1, <1>6, <2>1, <2>3, CommandsKeep DEF AckCommand, recoveryVars
<1>7. ASSUME NEW k \in Clients, NEW m \in Ids, NEW requeue \in BOOLEAN,
             NackCommand(k, m, requeue)
      PROVE  DurabilityInv'
  <2>1. EngineInv'
    BY <1>1, <1>7, EngineNext DEF NackCommand, Next, Deliveries
  <2>2. NackRecords(m, requeue) \in Seq(Bodies)
    BY <1>1, <1>7, RecordsTyped DEF NackCommand, Nack
  <2> QED
    BY <1>1, <1>7, <2>1, <2>2, CommandsKeep DEF NackCommand, recoveryVars
<1>8. ASSUME online, UNCHANGED <<aofVars, recoveryVars>>, Next
      PROVE  DurabilityInv'
  <2>1. EngineInv'
    BY <1>1, <1>8, EngineNext
  <2>2. AofInv' /\ online'
    BY <1>1, <1>8, AofNextInv DEF aofVars
  <2> QED
    BY <1>1, <1>8, <2>1, <2>2, OnlineStep DEF recoveryVars
<1>9. CASE \/ \E n \in Names, c \in Consumers : Deliver(n, c)
           \/ \E c \in Consumers : Disconnect(c)
           \/ Loop
  BY <1>8, <1>9 DEF Deliver, Disconnect, Loop, Next, Deliveries, Recovery, Ticker
<1>10. ASSUME NEW bodies \in Seq(Bodies), Unasked(bodies), Next, UNCHANGED recoveryVars
       PROVE  DurabilityInv'
  <2>1. EngineInv'
    BY <1>1, <1>10, EngineNext
  <2>2. AofInv' /\ online /\ online'
    BY <1>1, <1>10, UnaskedKeeps DEF Unasked, append
  <2> QED
    BY <1>1, <1>10, <2>1, <2>2, OnlineStep DEF recoveryVars
<1>11. ASSUME NEW m \in Ids, DisconnectLease(m)
       PROVE  DurabilityInv'
  <2>1. Next
    BY <1>11 DEF DisconnectLease, Next, Recovery
  <2>2. m \in messages[cursor.queue] => cursor.queue \in Names
    BY <1>1, <1>11 DEF DisconnectLease, RecoverLease, HeldHere, TypeOK, Cursor
  <2>3. (IF m \in messages[cursor.queue] THEN RetryRecords(cursor.queue, m) ELSE << >>)
           \in Seq(Bodies)
    BY <1>1, <2>2, RecordsTyped
  <2> QED
    BY <1>10, <1>11, <2>1, <2>3 DEF DisconnectLease
<1>12. ASSUME NEW e \in visibility_heap, TimeOut(e)
       PROVE  DurabilityInv'
  <2>1. Next
    BY <1>12 DEF TimeOut, Next, Ticker
  <2>2. e.queue \in Names /\ e.id \in Ids
    BY <1>1 DEF TypeOK, HeapEntry
  <2>3. RetryRecords(e.queue, e.id) \in Seq(Bodies) /\ << >> \in Seq(Bodies)
    BY <1>1, <2>2, RecordsTyped
  <2> QED
    BY <1>10, <1>12, <2>1, <2>3 DEF TimeOut
<1>13. CASE WriterStep
  <2>1. AofInv'
    BY <1>1, <1>13, TakeBatchKeeps, WriteBytesKeeps, SyncBytesKeeps, ResolveKeeps, WaitOverKeeps
       DEF WriterStep
  <2>2. online /\ online'
    BY <1>13 DEF WriterStep, TakeBatch, WriteBytes, SyncBytes, Resolve, WaitOver
  <2>3. EngineInv'
    BY <1>1, <1>13, EngineNext DEF WriterStep
  <2> QED
    BY <1>1, <1>13, <2>1, <2>2, <2>3, OnlineStep DEF WriterStep, recoveryVars
<1>14. CASE WriteSnapshot
  <2>1. AofInv' /\ online /\ online'
    BY <1>1, <1>14, SnapshotSeqKeeps DEF WriteSnapshot, SnapshotSeq
  <2>2. EngineInv'
    BY <1>1, <1>14, EngineNext DEF WriteSnapshot
  <2>3. SnapshotOK'
    BY <1>1, <1>14, ImageOK DEF WriteSnapshot
  <2> QED
    BY <1>1, <1>14, <2>1, <2>2, <2>3 DEF WriteSnapshot, DurabilityInv, PhaseOK, RecoveryTyped
<1>15. ASSUME EngineGone
       PROVE  EngineInv' /\ Idle' /\ NoneHeld' /\ queues' = {} /\ \A m \in Ids : by_id'[m] = None
  <2>1. Idle' /\ NoneHeld' /\ queues' = {} /\ \A m \in Ids : by_id'[m] = None
    BY <1>15 DEF EngineGone, Idle, NoneHeld, NoLeases
  <2> QED
    BY <1>15, <2>1, EngineStarts
<1>16. CASE ProcessCrash
  <2>1. AofInv' /\ online /\ ~online'
    BY <1>1, <1>16, CrashKeeps DEF ProcessCrash, Crash, Forget
  <2>2. required' \subseteq Ids
    BY <1>16 DEF ProcessCrash, OnFile, Live
  <2>3. SnapshotOK' /\ todo' = todo /\ issued' = issued
    BY <1>1, <1>16 DEF ProcessCrash, SnapshotOK, Coherent
  <2>4. EngineGone
    BY <1>16 DEF ProcessCrash
  <2> QED
    BY <1>1, <1>15, <2>1, <2>2, <2>3, <2>4 DEF DurabilityInv, PhaseOK, RecoveryTyped
<1>17. ASSUME NEW s \in SnapshotOnShutdown, CleanShutdown(s)
       PROVE  DurabilityInv'
  <2>1. AofInv' /\ online /\ ~online'
    BY <1>1, <1>17, ShutdownKeeps, SnapshotAssumption DEF CleanShutdown, Shutdown, Forget
  <2>2. required' \subseteq Ids
    BY <1>17 DEF CleanShutdown, Live
  <2>3. SnapshotOK'
    <3>1. CASE s
      BY <1>1, <1>17, <3>1, ImageOK DEF CleanShutdown
    <3>2. CASE ~s
      BY <1>1, <1>17, <3>2 DEF CleanShutdown, SnapshotOK, Coherent
    <3> QED
      BY <3>1, <3>2
  <2>4. EngineGone /\ todo' = todo /\ issued' = issued
    BY <1>17 DEF CleanShutdown
  <2> QED
    BY <1>1, <1>15, <2>1, <2>2, <2>3, <2>4 DEF DurabilityInv, PhaseOK, RecoveryTyped
<1>18. CASE Restart
  <2>1. ~online /\ ~online' /\ AofInv'
    BY <1>1, <1>18, AofNextInv DEF Restart, aofVars
  <2>2. Idle /\ NoneHeld
    BY <2>1 DEF DurabilityInv, PhaseOK
  <2>3. EngineInv' /\ Idle' /\ NoneHeld'
    <3>1. CASE snapshot = None
      BY <1>1, <1>18, <2>2, <3>1, EngineNext
         DEF Restart, vars, queueVars, loopVars, Idle, NoneHeld
    <3>2. CASE snapshot # None
      <4>1. Restore
        BY <1>18, <3>2 DEF Restart
      <4>2. EngineInv'
        BY <1>1, <2>2, <3>2, <4>1, RestoreKeeps DEF NoneHeld
      <4> QED
        BY <2>2, <4>1, <4>2 DEF Restore, loopVars, Idle, NoneHeld
    <3> QED
      BY <3>1, <3>2
  <2>4. todo' \in Seq(Record) /\ todo' # None
    BY <1>1, <1>18, ReplayedTyped, FilesAssumption DEF Restart
  <2>5. UNCHANGED <<snapshot, issued, required>>
    BY <1>18 DEF Restart
  <2> QED
    BY <1>1, <2>1, <2>3, <2>4, <2>5 DEF DurabilityInv, PhaseOK, RecoveryTyped, SnapshotOK, Coherent
<1>19. CASE Replay
  <2>1. ~online /\ ~online' /\ AofInv'
    BY <1>1, <1>19, AofNextInv DEF Replay, aofVars
  <2>2. Idle /\ NoneHeld
    BY <2>1 DEF DurabilityInv, PhaseOK
  <2>3. todo \in Seq(Record) /\ todo # << >>
    BY <1>1, <1>19 DEF Replay
  <2>4. Tail(todo) \in Seq(Record) /\ Head(todo) \in Record
    BY <2>3
  <2>5. Head(todo).body \in Payloads
    BY <2>4, FilesAssumption DEF Record
  <2>6. EngineInv' /\ UNCHANGED <<inflight, running>>
    BY <1>1, <1>19, <2>2, <2>5, ApplyKeeps DEF Replay, NoneHeld
  <2>7. Idle' /\ NoneHeld'
    BY <2>2, <2>6 DEF Idle, NoneHeld
  <2>8. todo' \in Seq(Record) /\ todo' # None /\ UNCHANGED <<snapshot, issued, required>>
    BY <1>19, <2>4, FilesAssumption DEF Replay
  <2> QED
    BY <1>1, <2>1, <2>6, <2>7, <2>8 DEF DurabilityInv, PhaseOK, RecoveryTyped, SnapshotOK, Coherent
<1>20. CASE Recovered
  <2>1. AofInv' /\ online'
    BY <1>1, <1>20, AttachKeeps DEF Recovered, Attach
  <2>2. EngineInv'
    BY <1>1, <1>20, EngineNext DEF Recovered, Next, Ticker
  <2>3. todo' = None /\ UNCHANGED <<snapshot, issued, required>>
    BY <1>20 DEF Recovered
  <2> QED
    BY <1>1, <2>1, <2>2, <2>3 DEF DurabilityInv, PhaseOK, RecoveryTyped, SnapshotOK, Coherent
<1>21. CASE Clock
  <2>1. AofInv' /\ online' = online
    BY <1>1, <1>21, AofNextInv DEF Clock, aofVars
  <2>2. EngineInv'
    BY <1>1, <1>21, EngineNext DEF Clock, Next
  <2>3. SnapshotOK'
    BY <1>1, <1>21, AgedOK DEF Clock
  <2>4. todo' = todo /\ UNCHANGED <<issued, required, queues, by_id, running>>
    BY <1>21 DEF Clock, AdvanceTime, vars, queueVars, loopVars
  <2>5. NoneHeld => NoneHeld'
    BY <1>21 DEF Clock, AdvanceTime, vars, queueVars, NoneHeld
  <2> QED
    BY <1>1, <2>1, <2>2, <2>3, <2>4, <2>5 DEF DurabilityInv, PhaseOK, RecoveryTyped, Idle
<1>22. CASE UNCHANGED durabilityVars
  <2>1. AofInv' /\ online' = online
    BY <1>1, <1>22, AofNextInv DEF durabilityVars, aofVars
  <2>2. EngineInv' /\ UNCHANGED <<queues, by_id, running, inflight>>
    BY <1>1, <1>22, EngineNext DEF durabilityVars, vars, queueVars, loopVars
  <2>3. UNCHANGED <<snapshot, todo, issued, required>>
    BY <1>22 DEF durabilityVars, recoveryVars
  <2> QED
    BY <1>1, <2>1, <2>2, <2>3
       DEF DurabilityInv, PhaseOK, RecoveryTyped, SnapshotOK, Coherent, Idle, NoneHeld
<1> QED
  BY <1>2, <1>3, <1>4, <1>5, <1>6, <1>7, <1>9, <1>11, <1>12, <1>13, <1>14, <1>16, <1>17, <1>18,
     <1>19, <1>20, <1>21, <1>22
     DEF DurabilityNext

LEMMA DurabilityAlways == DurabilitySpec => []DurabilityInv
<1>1. DurabilityInit => DurabilityInv
  BY EngineInit, AofInitInv
     DEF DurabilityInit, DurabilityInv, SnapshotOK, Coherent, PhaseOK, RecoveryTyped, AofInit
<1> QED
  BY <1>1, DurabilityKept, PTL DEF DurabilitySpec

\* Whatever is stored and read back, the snapshot, the records to replay and
\* the sets of messages are well typed.
THEOREM DurabilityTyped == DurabilitySpec => []DurabilityTypeOK
<1>1. DurabilityInv => DurabilityTypeOK
  BY DEF DurabilityInv, SnapshotOK, RecoveryTyped, DurabilityTypeOK, Coherent
<1> QED
  BY <1>1, DurabilityAlways, PTL

\* Whole: the engine that restore_state builds from a snapshot, and each record
\* of the replay, is as good as one that never stopped: _by_id and the queues
\* agree, and no message is stranded.
THEOREM EngineStaysWhole == DurabilitySpec => []Whole
<1>1. DurabilityInv => Whole
  BY PlacedNotStranded DEF DurabilityInv, EngineInv, Whole
<1> QED
  BY <1>1, DurabilityAlways, PTL

\* LogOrdered holds with the engine's records, snapshots and recoveries too.
THEOREM LogStaysOrdered == DurabilitySpec => []LogOrdered
<1>1. DurabilityInv => LogOrdered
  BY LogFromParts DEF DurabilityInv, LogOrdered, Ordered, AtMost, AofInv, SeqAhead
<1> QED
  BY <1>1, DurabilityAlways, PTL

-----------------------------------------------------------------------------
(* RecoveryKeeps.  The records above the snapshot, in the order of their   *)
(* numbers, say what a replay makes of a message: it begins where the      *)
(* snapshot or its MESSAGE_PUBLISH puts it, a MESSAGE_REQUEUE takes it out *)
(* of the dead-letter queue, and a QUEUE_DELETE of the queue it is in, or  *)
(* of the ordinary one, removes it.  The replay moves no message into a    *)
(* dead-letter queue, which is why it and the broker may disagree about    *)
(* the queue of a message, though never about its base.                    *)

Deletes(R, n) == {d \in R : d.body.op = "QUEUE_DELETE" /\ d.body.queue = n}

\* The records whose replay declares the queue.
Makers(R, n) == {c \in R : /\ c.body.op \in {"QUEUE_DECLARE", "MESSAGE_PUBLISH"}
                           /\ c.body.queue = n}

Lifts(R, m, n) == {u \in R : /\ u.body.op = "MESSAGE_REQUEUE" /\ u.body.id = m
                             /\ u.body.queue = origin_queue(n)}

Publishes(R, m) == {p \in R : p.body.op = "MESSAGE_PUBLISH" /\ p.body.id = m}

\* An ordinary queue is there after the replay of R, from queues Q on.
There(Q, R, q) ==
    \/ q \in Q /\ Deletes(R, q) = {}
    \/ \E c \in Makers(R, q) : \A d \in Deletes(R, q) : d.seq < c.seq

\* Message m is put into queue n at s: it is there from the beginning, at home
\* h, or it is published.
StartsAt(h, R, m, n, s) ==
    \/ n = h /\ s = 0
    \/ \E p \in Publishes(R, m) : p.body.queue = n /\ p.seq = s

\* Nothing in R removes it afterwards.
Survives(R, m, n, s) ==
    /\ \A d \in Deletes(R, origin_queue(n)) : d.seq <= s
    /\ is_dlq(n) =>
          \A d \in Deletes(R, n) :
             d.seq <= s \/ \E u \in Lifts(R, m, n) : s < u.seq /\ u.seq < d.seq

Returns(h, R, m) ==
    \E n \in Names, s \in Nat : StartsAt(h, R, m, n, s) /\ Survives(R, m, n, s)

\* The replay of R keeps message m, which the broker has in queue b; and if it
\* is in the ordinary queue there, then so it is after the replay.
BackedBy(h, R, m, b) ==
    \E n \in Names, s \in Nat :
        /\ StartsAt(h, R, m, n, s)
        /\ origin_queue(n) = origin_queue(b)
        /\ Survives(R, m, n, s)
        /\ is_dlq(n) /\ ~is_dlq(b) => \E u \in Lifts(R, m, n) : s < u.seq

\* The records N come after all of R.
Later(R, N) == \A a \in R, x \in N : a.seq < x.seq

LEMMA RecordFacts ==
    ASSUME NEW r \in Record
    PROVE  /\ r.seq \in Nat /\ r.seq > 0 /\ r.body \in Payloads /\ r.body.queue \in Names
           /\ r.body.op = "QUEUE_DECLARE" => r.body.max_length \in {Limit(l) : l \in MaxLengths \cup {None}}
           /\ r.body.op \in MessageOps => r.body.id \in Ids
<1>1. r.seq \in Nat /\ r.seq > 0 /\ r.body \in Payloads
  BY FilesAssumption DEF Record
<1>2. /\ r.body.queue \in Names
      /\ r.body.op = "QUEUE_DECLARE" => r.body.max_length \in {Limit(l) : l \in MaxLengths \cup {None}}
      /\ r.body.op \in MessageOps => r.body.id \in Ids
  BY <1>1 DEF Payloads, Body, MessageOps
<1> QED
  BY <1>1, <1>2

\* What later records do to the existence of a queue.
LEMMA ThereLater ==
    ASSUME NEW Q, NEW R \in SUBSET Record, NEW N \in SUBSET Record, Later(R, N), NEW q
    PROVE  /\ Deletes(N, q) = {} /\ There(Q, R, q) => There(Q, R \cup N, q)
           /\ Deletes(N, q) = {} /\ Makers(N, q) # {} => There(Q, R \cup N, q)
           /\ Deletes(N, q) = {} /\ Makers(N, q) = {} => (There(Q, R \cup N, q) <=> There(Q, R, q))
           /\ Deletes(N, q) # {} /\ Makers(N, q) = {} => ~There(Q, R \cup N, q)
<1>1. /\ Deletes(R \cup N, q) = Deletes(R, q) \cup Deletes(N, q)
      /\ Makers(R \cup N, q) = Makers(R, q) \cup Makers(N, q)
  BY DEF Deletes, Makers
<1>2. \A c \in Makers(R, q), d \in Deletes(N, q) : c.seq < d.seq /\ ~(d.seq < c.seq)
  BY DEF Makers, Deletes, Later, Record
<1>3. \A c \in Makers(N, q), d \in Deletes(R, q) : d.seq < c.seq
  BY DEF Makers, Deletes, Later
<1>4. Deletes(N, q) = {} /\ There(Q, R, q) => There(Q, R \cup N, q)
  BY <1>1 DEF There
<1>5. Deletes(N, q) = {} /\ Makers(N, q) # {} => There(Q, R \cup N, q)
  BY <1>1, <1>3 DEF There
<1>6. Deletes(N, q) = {} /\ Makers(N, q) = {} => (There(Q, R \cup N, q) <=> There(Q, R, q))
  BY <1>1 DEF There
<1>7. Deletes(N, q) # {} /\ Makers(N, q) = {} => ~There(Q, R \cup N, q)
  BY <1>1, <1>2 DEF There
<1> QED
  BY <1>4, <1>5, <1>6, <1>7

LEMMA SameBase ==
    ASSUME NEW n \in Names, NEW b \in Names, origin_queue(n) = origin_queue(b)
    PROVE  /\ dlq_name(n) = dlq_name(b)
           /\ is_dlq(n) => n = dlq_name(b)
           /\ ~is_dlq(n) => n = origin_queue(b)
BY DEF Names, origin_queue, dlq_name, is_dlq

\* Later records that delete nothing of the message keep it, where the broker
\* leaves it, moves it to the dead-letter queue, or records its way back.
LEMMA BackedLater ==
    ASSUME NEW h, NEW R \in SUBSET Record, NEW N \in SUBSET Record, Later(R, N), NEW m,
           NEW b \in Names, NEW c \in Names, origin_queue(c) = origin_queue(b),
           BackedBy(h, R, m, b),
           Deletes(N, origin_queue(b)) = {},
           Deletes(N, dlq_name(b)) # {} => ~is_dlq(b),
           c = b \/ is_dlq(c) \/ Lifts(N, m, b) # {}
    PROVE  BackedBy(h, R \cup N, m, c)
<1>1. PICK n \in Names, s \in Nat :
         /\ StartsAt(h, R, m, n, s)
         /\ origin_queue(n) = origin_queue(b)
         /\ Survives(R, m, n, s)
         /\ is_dlq(n) /\ ~is_dlq(b) => \E u \in Lifts(R, m, n) : s < u.seq
  BY DEF BackedBy
<1>2. \A x \in N : s < x.seq
  BY <1>1 DEF StartsAt, Publishes, Later, Record
<1>3. StartsAt(h, R \cup N, m, n, s)
  BY <1>1 DEF StartsAt, Publishes
<1>4. Lifts(R, m, n) \subseteq Lifts(R \cup N, m, n)
  BY DEF Lifts
<1>5. Lifts(N, m, b) # {} => \E u \in Lifts(R \cup N, m, n) : s < u.seq
  BY <1>1, <1>2 DEF Lifts
<1>6. is_dlq(n) /\ ~is_dlq(c) => \E u \in Lifts(R \cup N, m, n) : s < u.seq
  BY <1>1, <1>4, <1>5
<1>7. Survives(R \cup N, m, n, s)
  <2>1. \A d \in Deletes(R \cup N, origin_queue(n)) : d.seq <= s
    BY <1>1 DEF Survives, Deletes
  <2>2. ASSUME is_dlq(n), NEW d \in Deletes(R \cup N, n)
        PROVE  d.seq <= s \/ \E u \in Lifts(R \cup N, m, n) : s < u.seq /\ u.seq < d.seq
    <3>1. CASE d \in R
      <4>1. d \in Deletes(R, n)
        BY <2>2, <3>1 DEF Deletes
      <4> QED
        BY <1>1, <1>4, <2>2, <4>1 DEF Survives
    <3>2. CASE d \in N
      <4>1. n = dlq_name(b) /\ d \in Deletes(N, n)
        BY <1>1, <2>2, <3>2, SameBase DEF Deletes
      <4>2. PICK u \in Lifts(R, m, n) : s < u.seq
        BY <1>1, <2>2, <4>1
      <4>3. u.seq < d.seq
        BY <3>2 DEF Lifts, Later
      <4> QED
        BY <1>4, <4>2, <4>3
    <3> QED
      BY <3>1, <3>2 DEF Deletes
  <2> QED
    BY <2>1, <2>2 DEF Survives
<1> QED
  BY <1>1, <1>3, <1>6, <1>7 DEF BackedBy

\* A message that is published last.
LEMMA BackedNew ==
    ASSUME NEW h, NEW R \in SUBSET Record, NEW N \in SUBSET Record, Later(R, N), NEW m,
           NEW p \in Publishes(N, m), N = {p}
    PROVE  BackedBy(h, R \cup N, m, p.body.queue)
<1>1. p \in Record /\ p.body.queue \in Names /\ p.seq \in Nat
  BY RecordFacts DEF Publishes
<1>2. StartsAt(h, R \cup N, m, p.body.queue, p.seq)
  BY DEF StartsAt, Publishes
<1>3. \A d \in R : d.seq <= p.seq
  BY <1>1 DEF Later, Record
<1>4. \A n : \A d \in Deletes(R \cup N, n) : d.seq <= p.seq
  BY <1>1, <1>3 DEF Deletes
<1>5. Survives(R \cup N, m, p.body.queue, p.seq)
  BY <1>4 DEF Survives
<1> QED
  BY <1>1, <1>2, <1>5 DEF BackedBy

-----------------------------------------------------------------------------
(* The invariant behind RecoveryKeeps.                                     *)

\* Every record that was appended and is not lost, and those that a replay
\* would apply, is still to apply, and has applied.
Logged == Elements(file) \cup Elements(Unwritten) \cup Elements(tail)
Above == {r \in Logged : r.seq > snap_seq}
Todo == IF todo = None THEN {} ELSE Elements(todo)
Done == Above \ Todo

\* What the restore of the snapshot makes.
SnapHome == IF snapshot = None THEN [m \in Ids |-> None] ELSE RestoredIndex
SnapQueues == IF snapshot = None THEN {} ELSE snapshot.queues

\* A broker, or a replay, that is as far as the records R.
Consistent(R) ==
    /\ \A m \in Ids : by_id[m] # None => BackedBy(SnapHome[m], R, m, by_id[m])
    /\ \A q \in Names : ~is_dlq(q) => (q \in queues <=> There(SnapQueues, R, q))

Tracked == online \/ todo # None => Consistent(Done)

\* An ordinary queue is deleted, and a message put back into it, only while it
\* is there.
Sound(R) ==
    \A r \in R :
        /\ r.body.op = "MESSAGE_REQUEUE" => ~is_dlq(r.body.queue)
        /\ r.body.op \in {"QUEUE_DELETE", "MESSAGE_REQUEUE"} /\ ~is_dlq(r.body.queue) =>
              There(SnapQueues, {x \in R : x.seq < r.seq}, r.body.queue)

PublishedOnce ==
    /\ \A m \in Ids : \A p, r \in Publishes(Logged, m) : p = r
    /\ \A m \in Ids : Publishes(Logged, m) # {} \/ SnapHome[m] # None => m \in issued
    /\ \A m \in Ids : Publishes(Above, m) # {} => SnapHome[m] = None

TodoOK ==
    todo # None => Todo \subseteq Above /\ Ordered(todo) /\ Later(Done, Todo)

RequiredBack ==
    /\ ~online /\ todo = None => \A m \in required : Returns(SnapHome[m], Above, m)
    /\ ~online /\ todo # None => \A m \in required : Returns(by_id[m], Todo, m)

\* No queue is declared with a limit.
NoLimits == DefaultMaxLength = None /\ MaxLengths \subseteq {None}

Unlimited ==
    /\ \A n \in Names : max_length[n] = None
    /\ snapshot # None => \A n \in Names : snapshot.max_length[n] = None

RecoveryInv ==
    Tracked /\ Sound(Above) /\ PublishedOnce /\ TodoOK /\ RequiredBack /\ Unlimited

LEMMA LoggedTyped ==
    ASSUME AofInv
    PROVE  /\ Logged \subseteq Record /\ Above \subseteq Record /\ snap_seq \in Nat
           /\ online => seq \in Nat /\ \A r \in Logged : r.seq <= seq
           /\ ~online => Logged = Elements(file)
<1>1. /\ file \in Seq(Record) /\ Unwritten \in Seq(Record) /\ tail \in Seq(Record)
      /\ snap_seq \in Nat /\ seq \in Nat
  BY DEF AofInv, AofTypeOK, Unwritten
<1>2. Logged \subseteq Record
  BY <1>1 DEF Logged, Elements
<1>3. online => \A r \in Logged : r.seq <= seq
  BY DEF AofInv, SeqAhead, AtMost, Logged, Elements
<1>4. ~online => Logged = Elements(file)
  BY DEF AofInv, Stopped, Logged, Elements, Unwritten
<1> QED
  BY <1>1, <1>2, <1>3, <1>4 DEF Above

\* What a step does to the messages and the queues, and its records N say so.
Follows(N) ==
    /\ \A m \in Ids : by_id'[m] # None =>
          \/ \E p \in Publishes(N, m) : N = {p} /\ by_id'[m] = p.body.queue
          \/ /\ by_id[m] # None
             /\ origin_queue(by_id'[m]) = origin_queue(by_id[m])
             /\ Deletes(N, origin_queue(by_id[m])) = {}
             /\ Deletes(N, dlq_name(by_id[m])) # {} => ~is_dlq(by_id[m])
             /\ by_id'[m] = by_id[m] \/ is_dlq(by_id'[m]) \/ Lifts(N, m, by_id[m]) # {}
    /\ \A q \in Names : ~is_dlq(q) =>
          \/ Makers(N, q) # {} /\ Deletes(N, q) = {} /\ q \in queues'
          \/ Makers(N, q) = {} /\ Deletes(N, q) # {} /\ q \notin queues'
          \/ Makers(N, q) = {} /\ Deletes(N, q) = {} /\ (q \in queues' <=> q \in queues)

LEMMA FollowsKeeps ==
    ASSUME TypeOK, TypeOK', NEW R \in SUBSET Record, NEW N \in SUBSET Record, Later(R, N),
           Consistent(R), Follows(N), SnapHome' = SnapHome, SnapQueues' = SnapQueues
    PROVE  Consistent(R \cup N)'
<1>1. ASSUME NEW m \in Ids, by_id'[m] # None
      PROVE  BackedBy(SnapHome[m], R \cup N, m, by_id'[m])
  <2>1. CASE \E p \in Publishes(N, m) : N = {p} /\ by_id'[m] = p.body.queue
    BY <2>1, BackedNew
  <2>2. CASE /\ by_id[m] # None
             /\ origin_queue(by_id'[m]) = origin_queue(by_id[m])
             /\ Deletes(N, origin_queue(by_id[m])) = {}
             /\ Deletes(N, dlq_name(by_id[m])) # {} => ~is_dlq(by_id[m])
             /\ by_id'[m] = by_id[m] \/ is_dlq(by_id'[m]) \/ Lifts(N, m, by_id[m]) # {}
    <3>1. by_id[m] \in Names /\ by_id'[m] \in Names
      BY <1>1, <2>2 DEF TypeOK
    <3>2. BackedBy(SnapHome[m], R, m, by_id[m])
      BY <2>2 DEF Consistent
    <3> QED
      BY <2>2, <3>1, <3>2, BackedLater
  <2> QED
    BY <1>1, <2>1, <2>2 DEF Follows
<1>2. ASSUME NEW q \in Names, ~is_dlq(q)
      PROVE  q \in queues' <=> There(SnapQueues, R \cup N, q)
  <2>1. q \in queues <=> There(SnapQueues, R, q)
    BY <1>2 DEF Consistent
  <2>2. \/ Makers(N, q) # {} /\ Deletes(N, q) = {} /\ q \in queues'
        \/ Makers(N, q) = {} /\ Deletes(N, q) # {} /\ q \notin queues'
        \/ Makers(N, q) = {} /\ Deletes(N, q) = {} /\ (q \in queues' <=> q \in queues)
    BY <1>2 DEF Follows
  <2> QED
    BY <2>1, <2>2, ThereLater
<1> QED
  BY <1>1, <1>2 DEF Consistent


-----------------------------------------------------------------------------
(* Steps of the running broker.                                            *)

\* The new records delete, and put messages back into, queues that are there.
Entitled(N) ==
    \A r \in N :
        /\ r.body.op = "MESSAGE_REQUEUE" => ~is_dlq(r.body.queue)
        /\ r.body.op \in {"QUEUE_DELETE", "MESSAGE_REQUEUE"} /\ ~is_dlq(r.body.queue) =>
              r.body.queue \in queues /\ \A d \in Deletes(N, r.body.queue) : ~(d.seq < r.seq)

\* They publish only what was not published before.
Fresh(N) ==
    /\ issued \subseteq issued'
    /\ \A m \in Ids : Publishes(N, m) # {} =>
          m \notin issued /\ m \in issued' /\ \A p, r \in Publishes(N, m) : p = r

LEMMA OnlineKeeps ==
    ASSUME DurabilityInv, DurabilityInv', RecoveryInv, online, online',
           NEW N \in SUBSET Record, Logged' = Logged \cup N, \A x \in N : x.seq > seq,
           UNCHANGED <<snapshot, snap_seq>>, Follows(N), Entitled(N), Fresh(N),
           \A n \in Names : max_length'[n] = None
    PROVE  RecoveryInv'
<1>1. /\ TypeOK /\ TypeOK' /\ todo = None /\ todo' = None
      /\ AofInv
  BY DEF DurabilityInv, EngineInv, PhaseOK
<1>2. SnapHome' = SnapHome /\ SnapQueues' = SnapQueues
  BY DEF SnapHome, SnapQueues, RestoredIndex
<1>3. PICK R : R = Above
  OBVIOUS
<1>4. /\ R \subseteq Record /\ snap_seq \in Nat /\ seq \in Nat /\ snap_seq <= seq
      /\ \A r \in Logged : r.seq <= seq
  BY <1>1, <1>3, LoggedTyped DEF AofInv, SeqAhead
<1>5. \A x \in N : x.seq \in Nat
  BY DEF Record
<1>6. Later(R, N)
  BY <1>3, <1>4, <1>5 DEF Later, Above, Record
<1>7. Above' = R \cup N
  BY <1>3, <1>4, <1>5 DEF Above
<1>8. Done = R /\ Done' = R \cup N
  BY <1>1, <1>3, <1>7 DEF Done, Todo
<1>9. Tracked'
  <2>1. Consistent(R)
    BY <1>8 DEF RecoveryInv, Tracked
  <2>2. Consistent(R \cup N)'
    BY <1>1, <1>2, <1>4, <1>6, <2>1, FollowsKeeps
  <2>3. Consistent(Done)'
    BY <1>8, <2>2 DEF Consistent
  <2> QED
    BY <2>3 DEF Tracked
<1>10. Sound(Above)'
  <2> SUFFICES ASSUME NEW r \in R \cup N
               PROVE  /\ r.body.op = "MESSAGE_REQUEUE" => ~is_dlq(r.body.queue)
                      /\ r.body.op \in {"QUEUE_DELETE", "MESSAGE_REQUEUE"}
                         /\ ~is_dlq(r.body.queue) =>
                         There(SnapQueues, {x \in R \cup N : x.seq < r.seq}, r.body.queue)
    BY <1>2, <1>7 DEF Sound
  <2>1. CASE r \in R
    <3>1. {x \in R \cup N : x.seq < r.seq} = {x \in R : x.seq < r.seq}
      BY <1>4, <1>5, <1>6, <2>1 DEF Later, Record
    <3>2. Sound(R)
      BY <1>3 DEF RecoveryInv
    <3> QED
      BY <2>1, <3>1, <3>2 DEF Sound
  <2>2. CASE r \in N
    <3> DEFINE E == {x \in N : x.seq < r.seq}
    <3>1. {x \in R \cup N : x.seq < r.seq} = R \cup E
      BY <1>6, <2>2 DEF Later
    <3>2. SUFFICES ASSUME r.body.op \in {"QUEUE_DELETE", "MESSAGE_REQUEUE"},
                          ~is_dlq(r.body.queue)
                   PROVE  There(SnapQueues, R \cup E, r.body.queue)
      BY <2>2, <3>1 DEF Entitled
    <3>3. r.body.queue \in queues /\ \A d \in Deletes(N, r.body.queue) : ~(d.seq < r.seq)
      BY <2>2, <3>2 DEF Entitled
    <3>4. Deletes(E, r.body.queue) = {}
      BY <3>3 DEF Deletes
    <3>5. Later(R, E) /\ E \in SUBSET Record
      BY <1>6 DEF Later
    <3>6. r.body.queue \in Names
      BY <2>2, RecordFacts
    <3>7. There(SnapQueues, R, r.body.queue)
      BY <1>8, <3>2, <3>3, <3>6 DEF RecoveryInv, Tracked, Consistent
    <3> HIDE DEF E
    <3> QED
      BY <1>4, <3>4, <3>5, <3>7, ThereLater
  <2> QED
    BY <2>1, <2>2
<1>11. PublishedOnce'
  <2>1. \A m \in Ids : /\ Publishes(Logged', m) = Publishes(Logged, m) \cup Publishes(N, m)
                       /\ Publishes(Above', m) = Publishes(Above, m) \cup Publishes(N, m)
    BY <1>3, <1>7 DEF Publishes
  <2>2. PublishedOnce
    BY DEF RecoveryInv
  <2>3. \A m \in Ids : \A p, r \in Publishes(Logged', m) : p = r
    BY <2>1, <2>2 DEF PublishedOnce, Fresh
  <2>4. \A m \in Ids : Publishes(Logged', m) # {} \/ SnapHome'[m] # None => m \in issued'
    BY <1>2, <2>1, <2>2 DEF PublishedOnce, Fresh
  <2>5. \A m \in Ids : Publishes(Above', m) # {} => SnapHome'[m] = None
    BY <1>2, <2>1, <2>2 DEF PublishedOnce, Fresh
  <2> QED
    BY <2>3, <2>4, <2>5 DEF PublishedOnce
<1>12. TodoOK' /\ RequiredBack' /\ Unlimited'
  BY <1>1 DEF TodoOK, RequiredBack, Unlimited, RecoveryInv
<1> QED
  BY <1>9, <1>10, <1>11, <1>12 DEF RecoveryInv

\* A step that takes messages away or moves them into dead-letter queues, and
\* records at most that.
Settles ==
    /\ \A m \in Ids : \/ by_id'[m] \in {by_id[m], None}
                      \/ by_id[m] # None /\ by_id'[m] = dlq_name(by_id[m])
    /\ \A q \in Names : ~is_dlq(q) => (q \in queues' <=> q \in queues)
    /\ \A n \in Names : max_length'[n] \in {max_length[n], DefaultMaxLength}

Quiet(N) ==
    \A r \in N : r.body.op \in {"MESSAGE_ACK", "MESSAGE_NACK", "NACK_DROP", "MESSAGE_DEAD", "RETRY"}

LEMMA QuietFollows ==
    ASSUME TypeOK, Settles, NEW N, Quiet(N)
    PROVE  Follows(N) /\ Entitled(N) /\ \A m \in Ids : Publishes(N, m) = {}
<1>1. \A n : Makers(N, n) = {} /\ Deletes(N, n) = {} /\ Publishes(N, n) = {}
  BY DEF Quiet, Makers, Deletes, Publishes
<1>2. Entitled(N)
  BY DEF Quiet, Entitled
<1>3. ASSUME NEW m \in Ids, by_id'[m] # None
      PROVE  /\ by_id[m] # None
             /\ origin_queue(by_id'[m]) = origin_queue(by_id[m])
             /\ by_id'[m] = by_id[m] \/ is_dlq(by_id'[m])
  <2>1. \/ by_id'[m] = by_id[m]
        \/ by_id[m] # None /\ by_id'[m] = dlq_name(by_id[m])
    BY <1>3 DEF Settles
  <2>2. \A n \in Names : origin_queue(dlq_name(n)) = origin_queue(n) /\ is_dlq(dlq_name(n))
    BY DEF Names, origin_queue, dlq_name, is_dlq
  <2> QED
    BY <1>3, <2>1, <2>2 DEF TypeOK
<1> QED
  BY <1>1, <1>2, <1>3 DEF Follows, Settles

LEMMA QuietKeeps ==
    ASSUME NoLimits, DurabilityInv, DurabilityInv', RecoveryInv, online, online',
           NEW N \in SUBSET Record, Logged' = Logged \cup N, \A x \in N : x.seq > seq,
           UNCHANGED <<snapshot, snap_seq, issued>>, Settles, Quiet(N)
    PROVE  RecoveryInv'
<1>1. Follows(N) /\ Entitled(N) /\ \A m \in Ids : Publishes(N, m) = {}
  BY QuietFollows DEF DurabilityInv, EngineInv
<1>2. Fresh(N)
  BY <1>1 DEF Fresh
<1>3. \A n \in Names : max_length'[n] = None
  BY DEF Settles, NoLimits, RecoveryInv, Unlimited
<1> QED
  BY <1>1, <1>2, <1>3, OnlineKeeps


LEMMA MoveSettles ==
    ASSUME TypeOK, OneHome, NEW n \in Names, NEW m \in Ids, m \in messages[n], MoveToDlq(n, m)
    PROVE  Settles
<1>1. by_id[m] = n /\ n # None
  BY NoneAssumption DEF OneHome
<1>2. dlq_name(n) \in Names /\ is_dlq(dlq_name(n))
  BY NameFacts
<1>3. \A x \in Ids : by_id'[x] = IF x # m THEN by_id[x]
                                 ELSE IF dead_letter(n) THEN dlq_name(n) ELSE None
  BY DEF MoveToDlq, TypeOK
<1>4. queues' \in {queues, queues \cup {dlq_name(n)}}
  BY DEF MoveToDlq
<1>5. \A x \in Names : max_length'[x] \in {max_length[x], DefaultMaxLength}
  BY <1>2 DEF MoveToDlq, TypeOK
<1> QED
  BY <1>1, <1>2, <1>3, <1>4, <1>5 DEF Settles

LEMMA EngineSettles ==
    ASSUME TypeOK, OneHome, Deliveries \/ Recovery \/ Ticker \/ AdvanceTime \/ UNCHANGED vars
    PROVE  Settles
<1>1. ASSUME UNCHANGED <<queues, max_length, by_id>> PROVE Settles
  BY <1>1 DEF Settles
<1>2. ASSUME NEW n \in Names, NEW m \in Ids, EndLease(n, m) PROVE Settles
  <2>1. CASE m \in messages[n] /\ Exhausted(m)
    BY <1>2, <2>1, MoveSettles DEF EndLease, RetryOrDead
  <2>2. CASE ~(m \in messages[n] /\ Exhausted(m))
    BY <1>1, <1>2, <2>2 DEF EndLease, RetryOrDead
  <2> QED
    BY <2>1, <2>2
<1>3. CASE \E n \in Names, c \in Consumers : Reserve(n, c)
  BY <1>1, <1>3 DEF Reserve
<1>4. CASE \E n \in Names : ReserveNothing(n)
  BY <1>1, <1>4 DEF ReserveNothing
<1>5. ASSUME NEW m \in Ids, Ack(m) PROVE Settles
  <2>1. \A x \in Ids : by_id'[x] \in {by_id[x], None}
    BY <1>5 DEF Ack, TypeOK
  <2> QED
    BY <1>5, <2>1 DEF Ack, Settles
<1>6. ASSUME NEW m \in Ids, NEW requeue \in BOOLEAN, Nack(m, requeue) PROVE Settles
  <2>1. by_id[m] \in Names
    BY <1>6 DEF Nack, TypeOK
  <2> QED
    BY <1>2, <1>6, <2>1, MoveSettles DEF Nack
<1>7. ASSUME NEW m \in Ids, RecoverLease(m) PROVE Settles
  <2>1. cursor.queue \in Names
    BY <1>7 DEF RecoverLease, HeldHere, TypeOK, Cursor
  <2> QED
    BY <1>2, <1>7, <2>1 DEF RecoverLease
<1>8. ASSUME NEW e \in visibility_heap, TimeoutInflight(e) PROVE Settles
  <2>1. e.queue \in Names /\ e.id \in Ids
    BY DEF TypeOK, HeapEntry
  <2> QED
    BY <1>1, <1>2, <1>8, <2>1 DEF TimeoutInflight, queueVars
<1>9. CASE \/ \E c \in Consumers : RecoverConsumer(c)
           \/ \E n \in Names : RecoverNextQueue(n)
           \/ RecoverEnd \/ Tick \/ ReleaseEnd \/ TimeoutEnd
           \/ UNCHANGED vars
  BY <1>1, <1>9
     DEF RecoverConsumer, RecoverNextQueue, RecoverEnd, Tick, ReleaseEnd, TimeoutEnd, vars, queueVars
<1>10. CASE AdvanceTime \/ \E e \in delayed : ReleaseDelayed(e)
  BY <1>1, <1>10 DEF AdvanceTime, ReleaseDelayed
<1> QED
  BY <1>3, <1>4, <1>5, <1>6, <1>7, <1>8, <1>9, <1>10 DEF Deliveries, Recovery, Ticker

-----------------------------------------------------------------------------
(* The records of a step.                                                  *)

LEMMA Pairs ==
    ASSUME NEW S, NEW b \in S, NEW d \in S
    PROVE  /\ <<b>> \o <<d>> = <<b, d>>
           /\ << >> \o <<b>> = <<b>> /\ <<b>> \o << >> = <<b>>
<1>1. <<b>> \o <<d>> = <<b, d>>
  <2>1. <<b>> \in Seq(S) /\ <<d>> \in Seq(S) /\ <<b, d>> \in Seq(S) /\ <<b>> \o <<d>> \in Seq(S)
    OBVIOUS
  <2>2. /\ Len(<<b>> \o <<d>>) = Len(<<b, d>>)
        /\ \A i \in 1..Len(<<b, d>>) : (<<b>> \o <<d>>)[i] = <<b, d>>[i]
    OBVIOUS
  <2>3. \A s, t \in Seq(S) : Len(s) = Len(t) /\ (\A i \in 1..Len(t) : s[i] = t[i]) => s = t
    OBVIOUS
  <2> QED
    BY <2>1, <2>2, <2>3
<1>2. << >> \o <<b>> = <<b>> /\ <<b>> \o << >> = <<b>>
  OBVIOUS
<1> QED
  BY <1>1, <1>2

NextRecord(i, b) == [seq |-> seq + i, body |-> b]

LEMMA NumberedFew ==
    ASSUME NEW b \in Bodies, NEW d \in Bodies
    PROVE  /\ Elements(Numbered(<< >>)) = {}
           /\ Elements(Numbered(<<b>>)) = {NextRecord(1, b)}
           /\ Elements(Numbered(<<b, d>>)) = {NextRecord(1, b), NextRecord(2, d)}
<1>1. Elements(Numbered(<< >>)) = {}
  BY DEF Elements, Numbered
<1>2. Elements(Numbered(<<b>>)) = {NextRecord(1, b)}
  <2>1. DOMAIN Numbered(<<b>>) = {1} /\ Numbered(<<b>>)[1] = NextRecord(1, b)
    BY DEF Numbered, NextRecord
  <2> QED
    BY <2>1 DEF Elements
<1>3. Elements(Numbered(<<b, d>>)) = {NextRecord(1, b), NextRecord(2, d)}
  <2>1. /\ DOMAIN Numbered(<<b, d>>) = {1, 2}
        /\ Numbered(<<b, d>>)[1] = NextRecord(1, b) /\ Numbered(<<b, d>>)[2] = NextRecord(2, d)
    BY DEF Numbered, NextRecord
  <2> QED
    BY <2>1 DEF Elements
<1> QED
  BY <1>1, <1>2, <1>3

LEMMA ElementsConcat ==
    ASSUME NEW a \in Seq(Record), NEW b \in Seq(Record)
    PROVE  Elements(a \o b) = Elements(a) \cup Elements(b)
<1>1. /\ \A i \in DOMAIN a : i \in DOMAIN (a \o b) /\ (a \o b)[i] = a[i]
      /\ \A i \in DOMAIN b : Len(a) + i \in DOMAIN (a \o b) /\ (a \o b)[Len(a) + i] = b[i]
      /\ \A i \in DOMAIN (a \o b) : \/ i \in DOMAIN a /\ (a \o b)[i] = a[i]
                                    \/ i - Len(a) \in DOMAIN b /\ (a \o b)[i] = b[i - Len(a)]
  OBVIOUS
<1>2. \A r \in Elements(a \o b) : r \in Elements(a) \/ r \in Elements(b)
  BY <1>1 DEF Elements
<1>3. \A r \in Elements(a) : r \in Elements(a \o b)
  BY <1>1 DEF Elements
<1>4. ASSUME NEW r \in Elements(b) PROVE r \in Elements(a \o b)
  <2>1. PICK i \in DOMAIN b : r = b[i]
    BY DEF Elements
  <2>2. Len(a) + i \in DOMAIN (a \o b) /\ (a \o b)[Len(a) + i] = r
    BY <1>1, <2>1
  <2> QED
    BY <2>2 DEF Elements
<1> QED
  BY <1>2, <1>3, <1>4

LEMMA Appended ==
    ASSUME AofInv, online, NEW bodies \in Seq(Bodies), append(bodies)
    PROVE  /\ Logged' = Logged \cup Elements(Numbered(bodies))
           /\ Elements(Numbered(bodies)) \in SUBSET Record
           /\ \A x \in Elements(Numbered(bodies)) : x.seq > seq
           /\ online' /\ snap_seq' = snap_seq
<1> DEFINE s == Numbered(bodies)
<1>1. /\ tail \in Seq(Record) /\ seq \in Nat
  BY DEF AofInv, AofTypeOK
<1>2. /\ s \in Seq(Record) /\ \A i \in DOMAIN s : s[i].seq > seq
  BY <1>1, NumberedRecords
<1>3. tail' = tail \o s /\ file' = file /\ Unwritten' = Unwritten /\ online' /\ snap_seq' = snap_seq
  BY DEF append, Unwritten
<1> HIDE DEF s
<1>4. Elements(tail \o s) = Elements(tail) \cup Elements(s)
  BY <1>1, <1>2, ElementsConcat
<1>5. Elements(s) \subseteq Record /\ \A x \in Elements(s) : x.seq > seq
  BY <1>2 DEF Elements
<1> QED
  BY <1>3, <1>4, <1>5 DEF Logged, s


\* Records that nobody replays.
LEMMA QuietRecords ==
    ASSUME AofInv, TypeOK
    PROVE  /\ Quiet({}) /\ Elements(Numbered(<< >>)) = {}
           /\ \A n \in Names, m \in Ids :
                 /\ Quiet(Elements(Numbered(<<Body("MESSAGE_ACK", n, m, None)>>)))
                 /\ Quiet(Elements(Numbered(RetryRecords(n, m))))
           /\ \A m \in Ids, requeue \in BOOLEAN :
                 by_id[m] # None => Quiet(Elements(Numbered(NackRecords(m, requeue))))
<1> DEFINE Q == {b \in Bodies : b.op \in {"MESSAGE_ACK", "MESSAGE_NACK", "NACK_DROP",
                                         "MESSAGE_DEAD", "RETRY"}}
<1>1. \A op \in {"MESSAGE_ACK", "MESSAGE_NACK", "NACK_DROP", "MESSAGE_DEAD", "RETRY"},
         n \in Names, m \in Ids : Body(op, n, m, None) \in Q
  BY FilesAssumption DEF Body, Payloads, MessageOps
<1>2. ASSUME NEW b \in Q, NEW d \in Q
      PROVE  Quiet(Elements(Numbered(<<b>>))) /\ Quiet(Elements(Numbered(<<b, d>>)))
  <2>1. /\ Elements(Numbered(<<b>>)) = {NextRecord(1, b)}
        /\ Elements(Numbered(<<b, d>>)) = {NextRecord(1, b), NextRecord(2, d)}
    BY NumberedFew
  <2>2. /\ NextRecord(1, b).body = b /\ NextRecord(2, d).body = d
    BY DEF NextRecord
  <2> QED
    BY <2>1, <2>2 DEF Quiet
<1>3. ASSUME NEW n \in Names, NEW m \in Ids
      PROVE  \E b \in Q : RetryRecords(n, m) = <<b>>
  BY <1>1 DEF RetryRecords
<1>4. ASSUME NEW m \in Ids, NEW requeue \in BOOLEAN, by_id[m] # None
      PROVE  \E b, d \in Q : NackRecords(m, requeue) = <<b, d>>
  <2>1. by_id[m] \in Names
    BY <1>4 DEF TypeOK
  <2>2. PICK d \in Q : RetryRecords(by_id[m], m) = <<d>>
    BY <1>3, <2>1
  <2>3. PICK b \in Q : b = Body("MESSAGE_NACK", by_id[m], m, None)
    BY <1>1, <2>1
  <2>4. <<b>> \o <<d>> = <<b, d>>
    BY Pairs
  <2>5. requeue => NackRecords(m, requeue) = <<b, d>>
    BY <2>2, <2>3, <2>4 DEF NackRecords
  <2>6. ~requeue => \E a, c \in Q : NackRecords(m, requeue) = <<a, c>>
    BY <1>1, <2>1 DEF NackRecords
  <2> QED
    BY <2>5, <2>6
<1>5. Quiet({}) /\ Elements(Numbered(<< >>)) = {}
  BY DEF Quiet, Elements, Numbered
<1> HIDE DEF Q
<1> QED
  BY <1>1, <1>2, <1>3, <1>4, <1>5

\* One new record, or two.
LEMMA AppendedOne ==
    ASSUME AofInv, online, NEW b \in Bodies, append(<<b>>)
    PROVE  \E r \in Record :
              /\ Logged' = Logged \cup {r} /\ r.seq > seq /\ r.body = b
              /\ online' /\ snap_seq' = snap_seq
<1>1. <<b>> \in Seq(Bodies)
  OBVIOUS
<1>2. Elements(Numbered(<<b>>)) = {NextRecord(1, b)}
  BY NumberedFew
<1>3. NextRecord(1, b).body = b
  BY DEF NextRecord
<1> QED
  BY <1>1, <1>2, <1>3, Appended

LEMMA AppendedTwo ==
    ASSUME AofInv, online, NEW b \in Bodies, NEW d \in Bodies, append(<<b, d>>)
    PROVE  \E r, x \in Record :
              /\ Logged' = Logged \cup {r, x} /\ r.seq > seq /\ x.seq > r.seq
              /\ r.body = b /\ x.body = d
              /\ online' /\ snap_seq' = snap_seq
<1>1. <<b, d>> \in Seq(Bodies)
  OBVIOUS
<1>2. Elements(Numbered(<<b, d>>)) = {NextRecord(1, b), NextRecord(2, d)}
  BY NumberedFew
<1>3. seq \in Nat
  BY DEF AofInv, AofTypeOK
<1>4. /\ NextRecord(1, b).body = b /\ NextRecord(2, d).body = d
      /\ NextRecord(2, d).seq > NextRecord(1, b).seq
  BY <1>3 DEF NextRecord
<1> QED
  BY <1>1, <1>2, <1>4, Appended

LEMMA DeclareRecovers ==
    ASSUME NoLimits, DurabilityInv, DurabilityInv', RecoveryInv,
           NEW k \in Clients, NEW n \in Names, NEW l \in MaxLengths, Declare(k, n, l)
    PROVE  RecoveryInv'
<1>1. PICK b : b = Body("QUEUE_DECLARE", n, None, Limit(l))
  OBVIOUS
<1>2. PICK d : d = Body("QUEUE_DECLARE", dlq_name(n), None, DefaultMaxLength)
  OBVIOUS
<1>3. /\ dlq_name(n) \in Names /\ is_dlq(dlq_name(n)) /\ TypeOK /\ AofInv
  BY NameFacts DEF DurabilityInv, EngineInv
<1>4. b \in Bodies /\ d \in Bodies
  <2>1. Limit(None) = DefaultMaxLength
    BY DEF Limit
  <2> QED
    BY <1>1, <1>2, <1>3, <2>1, FilesAssumption DEF Payloads
<1>5. DeclareRecords(n, l) = <<b>> \/ DeclareRecords(n, l) = <<d, b>>
  <2>1. <<d>> \o <<b>> = <<d, b>> /\ << >> \o <<b>> = <<b>>
    BY <1>4, Pairs
  <2> QED
    BY <1>1, <1>2, <2>1 DEF DeclareRecords
<1>6. online /\ append(DeclareRecords(n, l)) /\ DeclareQueue(n, l)
      /\ UNCHANGED <<snapshot, issued>>
  BY DEF Declare, Command, recoveryVars
<1>7. /\ b.op = "QUEUE_DECLARE" /\ b.queue = n
      /\ d.op = "QUEUE_DECLARE" /\ d.queue = dlq_name(n)
  BY <1>1, <1>2 DEF Body
<1>8. PICK N \in SUBSET Record :
         /\ Logged' = Logged \cup N /\ (\A x \in N : x.seq > seq) /\ online' /\ snap_seq' = snap_seq
         /\ \A x \in N : x.body \in {b, d}
         /\ \E x \in N : x.body = b
  <2>1. CASE DeclareRecords(n, l) = <<b>>
    <3>1. append(<<b>>)
      BY <1>6, <2>1
    <3>2. PICK r \in Record : /\ Logged' = Logged \cup {r} /\ r.seq > seq /\ r.body = b
                              /\ online' /\ snap_seq' = snap_seq
      BY <1>3, <1>4, <1>6, <3>1, AppendedOne
    <3> WITNESS {r} \in SUBSET Record
    <3> QED
      BY <3>2
  <2>2. CASE DeclareRecords(n, l) = <<d, b>>
    <3>1. append(<<d, b>>)
      BY <1>6, <2>2
    <3>2. PICK r, x \in Record :
             /\ Logged' = Logged \cup {r, x} /\ r.seq > seq /\ x.seq > r.seq
             /\ r.body = d /\ x.body = b /\ online' /\ snap_seq' = snap_seq
      BY <1>3, <1>4, <1>6, <3>1, AppendedTwo
    <3>3. r.seq \in Nat /\ x.seq \in Nat /\ seq \in Nat
      BY <1>3 DEF Record, AofInv, AofTypeOK
    <3> WITNESS {r, x} \in SUBSET Record
    <3> QED
      BY <3>2, <3>3
  <2> QED
    BY <1>5, <2>1, <2>2
<1>9. /\ queues' = queues \cup {n, dlq_name(n)}
      /\ by_id' = by_id
      /\ \A x \in Names : max_length'[x] \in {Limit(l), DefaultMaxLength, max_length[x]}
  BY <1>6 DEF DeclareQueue
<1>10. \A x \in Names : max_length'[x] = None
  BY <1>9 DEF NoLimits, Limit, RecoveryInv, Unlimited
<1>11. /\ \A q : Deletes(N, q) = {} /\ Publishes(N, q) = {}
       /\ Makers(N, n) # {}
       /\ \A q \in Names : q \notin {n, dlq_name(n)} => Makers(N, q) = {}
  BY <1>7, <1>8 DEF Deletes, Publishes, Makers
<1>12. Follows(N)
  BY <1>3, <1>9, <1>11 DEF Follows, TypeOK
<1>13. Entitled(N) /\ Fresh(N)
  BY <1>6, <1>7, <1>8, <1>11 DEF Entitled, Fresh
<1> QED
  BY <1>6, <1>8, <1>10, <1>12, <1>13, OnlineKeeps


\* What delete_queue takes away.
Gone(n) == {n} \cup (IF dead_letter(n) THEN {dlq_name(n)} ELSE {})

LEMMA DeleteView ==
    ASSUME TypeOK, OneHome, NEW n \in Names, DeleteQueue(n)
    PROVE  /\ n \in queues /\ queues' = queues \ Gone(n)
           /\ n \in Gone(n) /\ (~is_dlq(n) => dlq_name(n) \in Gone(n))
           /\ \A q \in Gone(n) : q = n \/ (~is_dlq(n) /\ q = dlq_name(n) /\ is_dlq(q))
           /\ \A x \in Names : max_length'[x] \in {max_length[x], None}
           /\ \A m \in Ids : by_id'[m] = IF by_id[m] \in Gone(n) THEN None ELSE by_id[m]
<1>1. Gone(n) \subseteq Names
  BY NameFacts DEF Gone
<1>2. /\ queues' = queues \ Gone(n)
      /\ by_id' = [m \in Ids |-> IF \E x \in Gone(n) : m \in messages[x] THEN None ELSE by_id[m]]
      /\ max_length' = [x \in Names |-> IF x \in Gone(n) THEN None ELSE max_length[x]]
      /\ n \in queues
  BY DEF DeleteQueue, Gone
<1>3. \A m \in Ids : (\E x \in Gone(n) : m \in messages[x]) <=> by_id[m] \in Gone(n)
  BY <1>1 DEF OneHome
<1>4. /\ n \in Gone(n) /\ (~is_dlq(n) => dlq_name(n) \in Gone(n))
      /\ \A q \in Gone(n) : q = n \/ (~is_dlq(n) /\ q = dlq_name(n) /\ is_dlq(q))
  BY NameFacts DEF Gone, dead_letter
<1> QED
  BY <1>2, <1>3, <1>4

LEMMA DeleteRecovers ==
    ASSUME NoLimits, DurabilityInv, DurabilityInv', RecoveryInv,
           NEW k \in Clients, NEW n \in Names, Delete(k, n)
    PROVE  RecoveryInv'
<1>1. PICK b : b = Body("QUEUE_DELETE", n, None, None)
  OBVIOUS
<1>2. PICK d : d = Body("QUEUE_DELETE", dlq_name(n), None, None)
  OBVIOUS
<1>3. /\ dlq_name(n) \in Names /\ is_dlq(dlq_name(n)) /\ TypeOK /\ OneHome /\ AofInv
  BY NameFacts DEF DurabilityInv, EngineInv
<1>4. b \in Bodies /\ d \in Bodies
  BY <1>1, <1>2, <1>3, FilesAssumption DEF Payloads
<1>5. \/ DeleteRecords(n) = <<b>>
      \/ ~is_dlq(n) /\ DeleteRecords(n) = <<b, d>>
  <2>1. <<b>> \o <<d>> = <<b, d>> /\ <<b>> \o << >> = <<b>>
    BY <1>4, Pairs
  <2> QED
    BY <1>1, <1>2, <2>1 DEF DeleteRecords, dead_letter
<1>6. online /\ append(DeleteRecords(n)) /\ DeleteQueue(n) /\ UNCHANGED <<snapshot, issued>>
  BY DEF Delete, Command, recoveryVars
<1>7. /\ b.op = "QUEUE_DELETE" /\ b.queue = n
      /\ d.op = "QUEUE_DELETE" /\ d.queue = dlq_name(n)
  BY <1>1, <1>2 DEF Body
<1>8. seq \in Nat
  BY <1>3 DEF AofInv, AofTypeOK
<1>9. PICK N \in SUBSET Record, r \in Record :
         /\ r \in N
         /\ Logged' = Logged \cup N /\ (\A x \in N : x.seq > seq) /\ online' /\ snap_seq' = snap_seq
         /\ r.body = b
         /\ \A x \in N : x = r \/ (~is_dlq(n) /\ x.body = d)
  <2>1. CASE DeleteRecords(n) = <<b>>
    <3>1. append(<<b>>)
      BY <1>6, <2>1
    <3>2. PICK r \in Record : /\ Logged' = Logged \cup {r} /\ r.seq > seq /\ r.body = b
                              /\ online' /\ snap_seq' = snap_seq
      BY <1>3, <1>4, <1>6, <3>1, AppendedOne
    <3> WITNESS {r} \in SUBSET Record, r \in Record
    <3> QED
      BY <3>2
  <2>2. CASE ~is_dlq(n) /\ DeleteRecords(n) = <<b, d>>
    <3>1. append(<<b, d>>)
      BY <1>6, <2>2
    <3>2. PICK r, x \in Record :
             /\ Logged' = Logged \cup {r, x} /\ r.seq > seq /\ x.seq > r.seq
             /\ r.body = b /\ x.body = d /\ online' /\ snap_seq' = snap_seq
      BY <1>3, <1>4, <1>6, <3>1, AppendedTwo
    <3>3. r.seq \in Nat /\ x.seq \in Nat
      BY DEF Record
    <3> WITNESS {r, x} \in SUBSET Record, r \in Record
    <3> QED
      BY <1>8, <2>2, <3>2, <3>3
  <2> QED
    BY <1>5, <2>1, <2>2
<1>10. PICK gone : gone = Gone(n)
  OBVIOUS
<1>11. /\ n \in gone /\ n \in queues
       /\ ~is_dlq(n) => dlq_name(n) \in gone
       /\ \A q \in gone : q = n \/ is_dlq(q)
       /\ queues' = queues \ gone
       /\ \A x \in Names : max_length'[x] \in {max_length[x], None}
       /\ \A m \in Ids : by_id'[m] = IF by_id[m] \in gone THEN None ELSE by_id[m]
  BY <1>3, <1>6, <1>10, DeleteView
<1>12. ASSUME NEW m \in Ids, by_id'[m] # None
       PROVE  by_id'[m] = by_id[m] /\ by_id[m] \in Names /\ by_id[m] \notin gone
  BY <1>3, <1>11, <1>12 DEF TypeOK
<1>13. \A q : q \notin gone => Deletes(N, q) = {}
  BY <1>7, <1>9, <1>11 DEF Deletes
<1>14. \A q : Makers(N, q) = {} /\ Publishes(N, q) = {}
  BY <1>7, <1>9 DEF Makers, Publishes
<1>15. ASSUME NEW m \in Ids, by_id'[m] # None
       PROVE  /\ Deletes(N, origin_queue(by_id[m])) = {}
              /\ Deletes(N, dlq_name(by_id[m])) # {} => ~is_dlq(by_id[m])
  <2>1. by_id[m] \in Names /\ by_id[m] \notin gone
    BY <1>12, <1>15
  <2>2. origin_queue(by_id[m]) \notin gone
    <3>1. /\ ~is_dlq(origin_queue(by_id[m]))
          /\ by_id[m] = origin_queue(by_id[m]) \/ by_id[m] = dlq_name(origin_queue(by_id[m]))
      BY <2>1 DEF Names, is_dlq, origin_queue, dlq_name
    <3> QED
      BY <1>11, <2>1, <3>1
  <2>3. is_dlq(by_id[m]) => dlq_name(by_id[m]) = by_id[m]
    BY <2>1, NameFacts
  <2> QED
    BY <1>13, <2>1, <2>2, <2>3
<1>16. ASSUME NEW q \in Names, ~is_dlq(q)
       PROVE  \/ Deletes(N, q) # {} /\ q \notin queues'
              \/ Deletes(N, q) = {} /\ (q \in queues' <=> q \in queues)
  <2>1. CASE q = n
    BY <1>7, <1>9, <1>11, <2>1 DEF Deletes
  <2>2. CASE q # n
    BY <1>11, <1>13, <1>16, <2>2
  <2> QED
    BY <2>1, <2>2
<1>17. Follows(N)
  BY <1>12, <1>14, <1>15, <1>16 DEF Follows
<1>18. ASSUME NEW x \in N
       PROVE  /\ x.body.op = "QUEUE_DELETE"
              /\ ~is_dlq(x.body.queue) =>
                    /\ x.body.queue \in queues
                    /\ \A y \in Deletes(N, x.body.queue) : ~(y.seq < x.seq)
  <2>1. x.body.op = "QUEUE_DELETE"
    BY <1>7, <1>9
  <2>2. ASSUME ~is_dlq(x.body.queue) PROVE x = r /\ x.body.queue = n
    BY <1>3, <1>7, <1>9, <2>2
  <2>3. ASSUME ~is_dlq(x.body.queue), NEW y \in Deletes(N, x.body.queue) PROVE y = r
    BY <1>3, <1>7, <1>9, <2>2, <2>3 DEF Deletes
  <2>4. r.seq \in Nat
    BY DEF Record
  <2> QED
    BY <1>11, <2>1, <2>2, <2>3, <2>4
<1>19. Entitled(N) /\ Fresh(N)
  BY <1>6, <1>14, <1>18 DEF Entitled, Fresh
<1>20. \A x \in Names : max_length'[x] = None
  BY <1>11 DEF RecoveryInv, Unlimited
<1> QED
  BY <1>6, <1>9, <1>17, <1>19, <1>20, OnlineKeeps

LEMMA PublishRecovers ==
    ASSUME NoLimits, DurabilityInv, DurabilityInv', RecoveryInv,
           NEW k \in Clients, NEW n \in Names, NEW m \in Ids, Publish(k, n, m)
    PROVE  RecoveryInv'
<1>1. PICK b : b = Body("MESSAGE_PUBLISH", n, m, None)
  OBVIOUS
<1>2. b \in Bodies /\ b.op = "MESSAGE_PUBLISH" /\ b.queue = n /\ b.id = m
  BY <1>1, FilesAssumption DEF Payloads, MessageOps, Body
<1>3. TypeOK /\ AofInv
  BY DEF DurabilityInv, EngineInv
<1>4. /\ online /\ append(<<b>>) /\ Enqueue(n, m, 0) /\ m \notin issued /\ issued' = issued \cup {m}
      /\ UNCHANGED snapshot
  BY <1>1 DEF Publish, Command
<1>5. PICK p \in Record : /\ Logged' = Logged \cup {p} /\ p.seq > seq /\ p.body = b
                          /\ online' /\ snap_seq' = snap_seq
  BY <1>2, <1>3, <1>4, AppendedOne
<1>6. PICK N : N = {p}
  OBVIOUS
<1>7. /\ n \in queues /\ queues' = queues /\ max_length' = max_length
      /\ \A x \in Ids : by_id'[x] = IF x = m THEN n ELSE by_id[x]
  BY <1>3, <1>4 DEF Enqueue, TypeOK
<1>8. /\ \A q : Deletes(N, q) = {}
      /\ Makers(N, n) # {} /\ \A q : q # n => Makers(N, q) = {}
      /\ p \in Publishes(N, m) /\ \A x : x # m => Publishes(N, x) = {}
  BY <1>2, <1>5, <1>6 DEF Deletes, Makers, Publishes
<1>9. Follows(N)
  <2>1. ASSUME NEW x \in Ids, by_id'[x] # None
        PROVE  \/ \E y \in Publishes(N, x) : N = {y} /\ by_id'[x] = y.body.queue
               \/ by_id[x] # None /\ by_id'[x] = by_id[x]
    BY <1>2, <1>5, <1>6, <1>7, <1>8, <2>1
  <2> QED
    BY <1>7, <1>8, <2>1 DEF Follows
<1>10. Entitled(N) /\ Fresh(N)
  BY <1>2, <1>4, <1>5, <1>6, <1>8 DEF Entitled, Fresh, Publishes
<1>11. \A x \in Names : max_length'[x] = None
  BY <1>7 DEF RecoveryInv, Unlimited
<1>12. N \in SUBSET Record /\ Logged' = Logged \cup N /\ \A x \in N : x.seq > seq
  BY <1>5, <1>6
<1> QED
  BY <1>4, <1>5, <1>9, <1>10, <1>11, <1>12, OnlineKeeps

LEMMA RequeueRecovers ==
    ASSUME NoLimits, DurabilityInv, DurabilityInv', RecoveryInv,
           NEW k \in Clients, NEW n \in Names, NEW m \in Ids, Requeue(k, n, m)
    PROVE  RecoveryInv'
<1> DEFINE o == origin_queue(n)
           d == dlq_name(n)
<1>1. PICK b : b = Body("MESSAGE_REQUEUE", o, m, None)
  OBVIOUS
<1>2. /\ o \in Names /\ ~is_dlq(o) /\ d \in Names /\ is_dlq(d)
      /\ origin_queue(d) = o /\ origin_queue(o) = o
  BY DEF Names, is_dlq, origin_queue, dlq_name
<1>3. TypeOK /\ AofInv /\ OneHome
  BY DEF DurabilityInv, EngineInv
<1>4. b \in Bodies /\ b.op = "MESSAGE_REQUEUE" /\ b.queue = o /\ b.id = m
  BY <1>1, <1>2, FilesAssumption DEF Payloads, MessageOps, Body
<1>5. ~Full(o)
  BY <1>2 DEF Full, RecoveryInv, Unlimited
<1>6. online /\ append(<<b>>) /\ DlqRequeue(n, m) /\ UNCHANGED <<snapshot, issued>>
  BY <1>1, <1>5 DEF Requeue, Command, recoveryVars
<1>7. PICK r \in Record : /\ Logged' = Logged \cup {r} /\ r.seq > seq /\ r.body = b
                          /\ online' /\ snap_seq' = snap_seq
  BY <1>3, <1>4, <1>6, AppendedOne
<1>8. PICK N : N = {r}
  OBVIOUS
<1>9. /\ o \in queues /\ queues' = queues /\ max_length' = max_length
      /\ m \in messages[d] /\ by_id' = [by_id EXCEPT ![m] = o]
  BY <1>5, <1>6 DEF DlqRequeue
<1>10. by_id[m] = d /\ \A x \in Ids : by_id'[x] = IF x = m THEN o ELSE by_id[x]
  BY <1>2, <1>3, <1>9 DEF OneHome, TypeOK
<1>11. /\ \A q : Deletes(N, q) = {} /\ Makers(N, q) = {} /\ Publishes(N, q) = {}
       /\ Lifts(N, m, d) # {}
  BY <1>2, <1>4, <1>7, <1>8 DEF Deletes, Makers, Publishes, Lifts
<1> HIDE DEF o, d
<1>12. Follows(N)
  <2>1. ASSUME NEW x \in Ids, by_id'[x] # None
        PROVE  /\ by_id[x] # None
               /\ origin_queue(by_id'[x]) = origin_queue(by_id[x])
               /\ by_id'[x] = by_id[x] \/ Lifts(N, x, by_id[x]) # {}
    BY <1>2, <1>10, <1>11, <2>1, NoneAssumption
  <2> QED
    BY <1>9, <1>11, <2>1 DEF Follows
<1>13. Entitled(N) /\ Fresh(N)
  BY <1>2, <1>4, <1>6, <1>7, <1>8, <1>9, <1>11 DEF Entitled, Fresh
<1>14. \A x \in Names : max_length'[x] = None
  BY <1>9 DEF RecoveryInv, Unlimited
<1>15. N \in SUBSET Record /\ Logged' = Logged \cup N /\ \A x \in N : x.seq > seq
  BY <1>7, <1>8
<1> QED
  BY <1>6, <1>7, <1>12, <1>13, <1>14, <1>15, OnlineKeeps


\* The writer moves records on and loses none.
LEMMA WriterKeepsLog ==
    ASSUME AofInv, WriterStep
    PROVE  Logged' = Logged /\ online /\ online' /\ snap_seq' = snap_seq
<1>1. file \in Seq(Record) /\ batch \in Seq(Record)
  BY DEF AofInv, AofTypeOK
<1>2. CASE TakeBatch
  BY <1>2 DEF TakeBatch, Logged, Unwritten, Elements
<1>3. CASE WriteBytes
  <2>1. /\ file' = file \o batch /\ Unwritten = batch /\ Unwritten' = << >> /\ tail' = tail
        /\ online /\ online' /\ snap_seq' = snap_seq
    BY <1>3 DEF WriteBytes, Unwritten
  <2>2. Elements(file') = Elements(file) \cup Elements(batch)
    BY <1>1, <2>1, ElementsConcat
  <2>3. Elements(<< >>) = {}
    BY DEF Elements
  <2> QED
    BY <2>1, <2>2, <2>3 DEF Logged
<1>4. CASE SyncBytes
  BY <1>4 DEF SyncBytes, Logged, Unwritten
<1>5. CASE Resolve
  BY <1>5 DEF Resolve, Logged, Unwritten, clockVars
<1>6. CASE \E k \in Clients : WaitOver(k)
  BY <1>6 DEF WaitOver, Logged, Unwritten, writerVars
<1> QED
  BY <1>2, <1>3, <1>4, <1>5, <1>6 DEF WriterStep

\* Acks, nacks, deliveries, timeouts, disconnects and the writer.
LEMMA QuietRecovers ==
    ASSUME NoLimits, DurabilityInv, DurabilityInv', RecoveryInv,
           \/ \E k \in Clients, m \in Ids :
                 AckCommand(k, m) \/ \E requeue \in BOOLEAN : NackCommand(k, m, requeue)
           \/ \E n \in Names, c \in Consumers : Deliver(n, c)
           \/ \E c \in Consumers : Disconnect(c)
           \/ \E m \in Ids : DisconnectLease(m)
           \/ \E e \in visibility_heap : TimeOut(e)
           \/ Loop
           \/ WriterStep
    PROVE  RecoveryInv'
<1>1. TypeOK /\ OneHome /\ AofInv
  BY DEF DurabilityInv, EngineInv
<1>2. ASSUME NEW bodies \in Seq(Bodies), append(bodies), online,
             Quiet(Elements(Numbered(bodies))), UNCHANGED recoveryVars,
             Deliveries \/ Recovery \/ Ticker
      PROVE  RecoveryInv'
  <2>1. PICK N : N = Elements(Numbered(bodies))
    OBVIOUS
  <2>2. /\ N \in SUBSET Record /\ Logged' = Logged \cup N /\ \A x \in N : x.seq > seq
        /\ online' /\ snap_seq' = snap_seq /\ UNCHANGED <<snapshot, issued>>
    BY <1>1, <1>2, <2>1, Appended DEF recoveryVars
  <2>3. Settles
    BY <1>1, <1>2, EngineSettles
  <2> QED
    BY <1>2, <2>1, <2>2, <2>3, QuietKeeps
<1>3. ASSUME Logged' = Logged, online, online', snap_seq' = snap_seq, UNCHANGED recoveryVars,
             Deliveries \/ Recovery \/ Ticker \/ UNCHANGED vars
      PROVE  RecoveryInv'
  <2>1. Settles
    BY <1>1, <1>3, EngineSettles
  <2>2. PICK N : N = {}
    OBVIOUS
  <2>3. /\ N \in SUBSET Record /\ Logged' = Logged \cup N /\ \A x \in N : x.seq > seq
    BY <1>3, <2>2
  <2>4. Quiet(N) /\ UNCHANGED <<snapshot, issued>>
    BY <1>3, <2>2 DEF Quiet, recoveryVars
  <2> QED
    BY <1>3, <2>1, <2>3, <2>4, QuietKeeps
<1>4. ASSUME NEW k \in Clients, NEW m \in Ids, AckCommand(k, m) PROVE RecoveryInv'
  <2>1. by_id[m] \in Names
    BY <1>1, <1>4 DEF AckCommand, Ack, TypeOK
  <2>2. PICK bodies : bodies = <<Body("MESSAGE_ACK", by_id[m], m, None)>>
    OBVIOUS
  <2>3. bodies \in Seq(Bodies) /\ Quiet(Elements(Numbered(bodies)))
    BY <1>1, <2>1, <2>2, RecordsTyped, QuietRecords DEF MessageOps
  <2> QED
    BY <1>2, <1>4, <2>2, <2>3 DEF AckCommand, Command, Deliveries
<1>5. ASSUME NEW k \in Clients, NEW m \in Ids, NEW requeue \in BOOLEAN, NackCommand(k, m, requeue)
      PROVE  RecoveryInv'
  <2>1. PICK bodies : bodies = NackRecords(m, requeue)
    OBVIOUS
  <2>2. bodies \in Seq(Bodies) /\ Quiet(Elements(Numbered(bodies)))
    BY <1>1, <1>5, <2>1, RecordsTyped, QuietRecords DEF NackCommand, Nack
  <2> QED
    BY <1>2, <1>5, <2>1, <2>2 DEF NackCommand, Command, Deliveries
<1>6. ASSUME NEW m \in Ids, DisconnectLease(m) PROVE RecoveryInv'
  <2>1. m \in messages[cursor.queue] => cursor.queue \in Names
    BY <1>1, <1>6 DEF DisconnectLease, RecoverLease, HeldHere, TypeOK, Cursor
  <2>2. PICK bodies : bodies = IF m \in messages[cursor.queue]
                               THEN RetryRecords(cursor.queue, m) ELSE << >>
    OBVIOUS
  <2>3. bodies \in Seq(Bodies) /\ Quiet(Elements(Numbered(bodies)))
    BY <1>1, <2>1, <2>2, RecordsTyped, QuietRecords
  <2> QED
    BY <1>2, <1>6, <2>2, <2>3 DEF DisconnectLease, Unasked, Recovery
<1>7. ASSUME NEW e \in visibility_heap, TimeOut(e) PROVE RecoveryInv'
  <2>1. e.queue \in Names /\ e.id \in Ids
    BY <1>1 DEF TypeOK, HeapEntry
  <2>2. PICK bodies : /\ bodies \in {RetryRecords(e.queue, e.id), << >>}
                      /\ Unasked(bodies)
    BY <1>7 DEF TimeOut
  <2>3. bodies \in Seq(Bodies) /\ Quiet(Elements(Numbered(bodies)))
    BY <1>1, <2>1, <2>2, RecordsTyped, QuietRecords
  <2> QED
    BY <1>2, <1>7, <2>2, <2>3 DEF TimeOut, Unasked, Ticker
<1>8. CASE \/ \E n \in Names, c \in Consumers : Deliver(n, c)
           \/ \E c \in Consumers : Disconnect(c)
           \/ Loop
  <2>1. /\ online /\ UNCHANGED <<aofVars, recoveryVars>>
        /\ Deliveries \/ Recovery \/ Ticker
    BY <1>8 DEF Deliver, Disconnect, Loop, Deliveries, Recovery, Ticker
  <2>2. Logged' = Logged /\ online' /\ snap_seq' = snap_seq
    BY <2>1 DEF aofVars, writerVars, Logged, Unwritten
  <2> QED
    BY <1>3, <2>1, <2>2
<1>9. CASE WriterStep
  <2>1. Logged' = Logged /\ online /\ online' /\ snap_seq' = snap_seq
    BY <1>1, <1>9, WriterKeepsLog
  <2> QED
    BY <1>3, <1>9, <2>1 DEF WriterStep
<1> QED
  BY <1>4, <1>5, <1>6, <1>7, <1>8, <1>9


-----------------------------------------------------------------------------
(* Snapshots, crashes and shutdowns.                                       *)

\* A message that is where it begins, and nothing to replay.
LEMMA BackedAtHome ==
    ASSUME NEW m, NEW b \in Names
    PROVE  BackedBy(b, {}, m, b) /\ Returns(b, {}, m)
<1>1. StartsAt(b, {}, m, b, 0) /\ Survives({}, m, b, 0) /\ 0 \in Nat
  BY DEF StartsAt, Survives, Deletes
<1> QED
  BY <1>1 DEF BackedBy, Returns

LEMMA BackedReturns ==
    ASSUME NEW h, NEW R, NEW m, NEW b, BackedBy(h, R, m, b)
    PROVE  Returns(h, R, m)
BY DEF BackedBy, Returns

\* The snapshot is taken of the broker as it is.
LEMMA ImageHomes ==
    ASSUME EngineInv, TakeImage
    PROVE  /\ snapshot' # None /\ snapshot'.max_length = max_length
           /\ SnapQueues' = queues
           /\ \A m \in Ids : SnapHome'[m] = by_id[m]
<1>0. PICK w \in Waits : snapshot' = Image(w)
  BY DEF TakeImage
<1>1. /\ snapshot'.messages = messages /\ snapshot'.queues = queues
      /\ snapshot'.max_length = max_length
  BY <1>0 DEF Image
<1>2. snapshot' # None
  <2>1. Image(w) \in Images
    BY WaitsTyped DEF Image, Images, EngineInv, TypeOK
  <2> QED
    BY <1>0, <2>1, FilesAssumption
<1>3. ASSUME NEW m \in Ids PROVE RestoredIndex'[m] = by_id[m]
  <2>1. RestoredIndex'[m] = IF \E n \in Names : m \in messages[n]
                            THEN CHOOSE n \in Names : m \in messages[n] ELSE None
    BY <1>1 DEF RestoredIndex
  <2>2. /\ by_id[m] \in Names \cup {None}
        /\ \A n \in Names : m \in messages[n] <=> by_id[m] = n
    BY DEF EngineInv, TypeOK, OneHome
  <2> QED
    BY <2>1, <2>2, NoneAssumption
<1> QED
  BY <1>1, <1>2, <1>3 DEF SnapHome, SnapQueues

LEMMA LiveIssued ==
    ASSUME DurabilityInv, RecoveryInv, online, NEW m \in Ids, by_id[m] # None
    PROVE  m \in issued
<1>1. BackedBy(SnapHome[m], Done, m, by_id[m])
  BY DEF RecoveryInv, Tracked, Consistent
<1>2. PICK n \in Names, s \in Nat : StartsAt(SnapHome[m], Done, m, n, s)
  BY <1>1 DEF BackedBy
<1>3. n = SnapHome[m] \/ Publishes(Logged, m) # {}
  BY <1>2 DEF StartsAt, Publishes, Done, Above
<1> QED
  BY <1>2, <1>3, NoneAssumption DEF RecoveryInv, PublishedOnce

\* The log has nothing above a snapshot that was just taken.
LEMMA SnapshotCovers ==
    ASSUME DurabilityInv, RecoveryInv, online, TakeImage, snap_seq' = seq,
           Logged' \subseteq Logged, issued' = issued
    PROVE  /\ Above' = {} /\ Sound(Above)' /\ PublishedOnce'
           /\ snapshot' # None /\ \A n \in Names : snapshot'.max_length[n] = None
<1>1. /\ snapshot' # None /\ snapshot'.max_length = max_length
      /\ \A m \in Ids : SnapHome'[m] = by_id[m]
  BY ImageHomes DEF DurabilityInv
<1>2. Above' = {}
  <2>1. /\ \A r \in Logged : r \in Record /\ r.seq <= seq
        /\ seq \in Nat
    BY LoggedTyped DEF DurabilityInv
  <2> QED
    BY <2>1 DEF Above, Record
<1>3. Sound(Above)'
  BY <1>2 DEF Sound
<1>4. /\ \A m \in Ids : Publishes(Logged', m) \subseteq Publishes(Logged, m)
      /\ \A m \in Ids : Publishes(Above', m) = {}
  BY <1>2 DEF Publishes
<1>5. \A m \in Ids : SnapHome'[m] # None => m \in issued'
  BY <1>1, LiveIssued
<1>6. PublishedOnce'
  BY <1>4, <1>5 DEF PublishedOnce, RecoveryInv
<1> QED
  BY <1>1, <1>2, <1>3, <1>6 DEF RecoveryInv, Unlimited

LEMMA SnapshotRecovers ==
    ASSUME DurabilityInv, DurabilityInv', RecoveryInv, WriteSnapshot
    PROVE  RecoveryInv'
<1>1. /\ online /\ online' /\ snap_seq' = seq /\ TakeImage /\ issued' = issued
      /\ UNCHANGED vars /\ Logged' = Logged
  BY DEF WriteSnapshot, SnapshotSeq, writerVars, Logged, Unwritten
<1>2. todo' = None
  BY <1>1 DEF DurabilityInv, PhaseOK
<1>3. /\ Above' = {} /\ Sound(Above)' /\ PublishedOnce'
      /\ snapshot' # None /\ \A n \in Names : snapshot'.max_length[n] = None
  BY <1>1, SnapshotCovers
<1>4. Done' = {}
  BY <1>3 DEF Done
<1>5. /\ SnapQueues' = queues /\ \A m \in Ids : SnapHome'[m] = by_id[m]
      /\ by_id' = by_id /\ queues' = queues /\ max_length' = max_length
  BY <1>1, ImageHomes DEF DurabilityInv, vars, queueVars
<1>6. ASSUME NEW m \in Ids, by_id'[m] # None
      PROVE  BackedBy(SnapHome'[m], {}, m, by_id'[m])
  <2>1. by_id[m] \in Names
    BY <1>5, <1>6 DEF DurabilityInv, EngineInv, TypeOK
  <2> QED
    BY <1>5, <2>1, BackedAtHome
<1>7. \A q : q \in queues' <=> There(SnapQueues', {}, q)
  BY <1>5 DEF There, Deletes, Makers
<1>8. Tracked'
  BY <1>4, <1>6, <1>7 DEF Tracked, Consistent
<1>9. TodoOK' /\ RequiredBack' /\ Unlimited'
  BY <1>1, <1>2, <1>3, <1>5 DEF TodoOK, RequiredBack, Unlimited, RecoveryInv
<1> QED
  BY <1>3, <1>8, <1>9 DEF RecoveryInv

\* The surviving part of the file is the beginning of the log.
LEMMA CrashCuts ==
    ASSUME AofInv, Crash
    PROVE  /\ Logged' \subseteq Logged /\ Logged' = Elements(file')
           /\ \A r \in Logged', x \in Logged : x.seq < r.seq => x \in Logged'
           /\ snap_seq' = snap_seq /\ ~online'
<1>1. /\ file \in Seq(Record) /\ Unwritten \in Seq(Record) /\ tail \in Seq(Record)
      /\ synced \in 0..Len(file)
  BY DEF AofInv, AofTypeOK, Unwritten
<1>2. PICK s : s = file \o Unwritten
  OBVIOUS
<1>3. PICK j \in synced..Len(s) : file' = SubSeq(s, 1, j)
  BY <1>2 DEF Crash
<1>4. /\ s \in Seq(Record) /\ Elements(s) = Elements(file) \cup Elements(Unwritten)
      /\ Ordered(s)
  BY <1>1, <1>2, Concat, ElementsConcat, OrderedConcat DEF AofInv, PartsOrdered
<1>5. j \in 0..Len(s)
  BY <1>1, <1>3, <1>4
<1>6. /\ file' \in Seq(Record) /\ Len(file') = j /\ \A i \in 1..j : file'[i] = s[i]
  BY <1>3, <1>4, <1>5, Prefix
<1>7. tail' = << >> /\ stage' = "idle" /\ snap_seq' = snap_seq /\ ~online'
  BY DEF Crash, Forget
<1>8. Logged' = Elements(file')
  BY <1>7 DEF Logged, Unwritten, Elements
<1>9. DOMAIN file' = 1..j /\ DOMAIN s = 1..Len(s) /\ Len(s) \in Nat /\ j \in Nat
  BY <1>4, <1>5, <1>6
<1>10. Elements(file') = {s[i] : i \in 1..j} /\ Elements(file') \subseteq Elements(s)
  BY <1>5, <1>6, <1>9 DEF Elements
<1>11. ASSUME NEW r \in Elements(file'), NEW x \in Logged, x.seq < r.seq
       PROVE  x \in Elements(file')
  <2>1. PICK i \in 1..j : r = s[i]
    BY <1>10
  <2>2. CASE x \in Elements(s)
    <3>1. PICK a \in DOMAIN s : x = s[a]
      BY <2>2 DEF Elements
    <3>2. s[a].seq \in Nat /\ s[i].seq \in Nat /\ i \in DOMAIN s
      BY <1>4, <1>5, <1>9, RecordSeq
    <3>3. ~(i <= a)
      BY <1>4, <1>11, <2>1, <3>1, <3>2, LaterIsHigher
    <3> QED
      BY <1>9, <1>10, <2>1, <3>1, <3>3
  <2>3. CASE x \in Elements(tail)
    <3>1. Below(s, tail)
      BY <1>1, <1>2, BelowConcat DEF AofInv, PartsOrdered
    <3>2. PICK a \in DOMAIN tail : x = tail[a]
      BY <2>3 DEF Elements
    <3>3. i \in DOMAIN s
      BY <1>5, <1>9
    <3>4. s[i].seq \in Nat /\ tail[a].seq \in Nat
      BY <1>1, <1>4, <3>3, RecordSeq
    <3>5. s[i].seq < tail[a].seq
      BY <3>1, <3>3 DEF Below
    <3> QED
      BY <1>11, <2>1, <3>2, <3>4, <3>5
  <2> QED
    BY <1>4, <2>2, <2>3 DEF Logged
<1> QED
  BY <1>4, <1>7, <1>8, <1>10, <1>11 DEF Logged


\* A shorter log that holds the start of a message, and all that comes before
\* what it holds, brings the message back if the longer one does.
LEMMA ReturnsCut ==
    ASSUME NEW h, NEW R \in SUBSET Record, NEW S \in SUBSET R, NEW m,
           \A r \in S, x \in R : x.seq < r.seq => x \in S,
           Returns(h, R, m), Publishes(R, m) \subseteq S
    PROVE  Returns(h, S, m)
<1>1. PICK n \in Names, s \in Nat : StartsAt(h, R, m, n, s) /\ Survives(R, m, n, s)
  BY DEF Returns
<1>2. StartsAt(h, S, m, n, s)
  BY <1>1 DEF StartsAt, Publishes
<1>3. Survives(S, m, n, s)
  <2>1. \A d \in Deletes(S, origin_queue(n)) : d.seq <= s
    BY <1>1 DEF Survives, Deletes
  <2>2. ASSUME is_dlq(n), NEW d \in Deletes(S, n)
        PROVE  d.seq <= s \/ \E u \in Lifts(S, m, n) : s < u.seq /\ u.seq < d.seq
    <3>1. d \in Deletes(R, n) /\ d \in S
      BY DEF Deletes
    <3>2. CASE d.seq <= s
      BY <3>2
    <3>3. ASSUME NEW u \in Lifts(R, m, n), s < u.seq, u.seq < d.seq
          PROVE  u \in Lifts(S, m, n)
      BY <3>1, <3>3 DEF Lifts
    <3> QED
      BY <1>1, <2>2, <3>1, <3>2, <3>3 DEF Survives
  <2> QED
    BY <2>1, <2>2 DEF Survives
<1> QED
  BY <1>1, <1>2, <1>3 DEF Returns

LEMMA CrashRecovers ==
    ASSUME DurabilityInv, DurabilityInv', RecoveryInv, ProcessCrash
    PROVE  RecoveryInv'
<1>1. /\ Crash /\ required' = OnFile(file') /\ EngineGone /\ online
      /\ UNCHANGED <<snapshot, todo, issued>> /\ AofInv
  BY DEF ProcessCrash, Crash, DurabilityInv
<1>2. todo = None /\ todo' = None
  BY <1>1 DEF DurabilityInv, PhaseOK
<1>3. SnapHome' = SnapHome /\ SnapQueues' = SnapQueues
  BY <1>1 DEF SnapHome, SnapQueues, RestoredIndex
<1>4. /\ Logged' \subseteq Logged /\ Logged' = Elements(file')
      /\ \A r \in Logged', x \in Logged : x.seq < r.seq => x \in Logged'
      /\ snap_seq' = snap_seq /\ ~online'
  BY <1>1, CrashCuts
<1>5. PICK R : R = Above
  OBVIOUS
<1>6. PICK S : S = Above'
  OBVIOUS
<1>7. /\ R \in SUBSET Record /\ S \in SUBSET R
      /\ \A r \in S, x \in R : x.seq < r.seq => x \in S
  BY <1>1, <1>4, <1>5, <1>6, LoggedTyped DEF Above
<1>8. Sound(Above)'
  <2>1. Sound(R)
    BY <1>5 DEF RecoveryInv
  <2>2. ASSUME NEW r \in S
        PROVE  {x \in S : x.seq < r.seq} = {x \in R : x.seq < r.seq}
    BY <1>7
  <2> QED
    BY <1>3, <1>6, <1>7, <2>1, <2>2 DEF Sound
<1>9. /\ \A m \in Ids : Publishes(Logged', m) \subseteq Publishes(Logged, m)
      /\ \A m \in Ids : Publishes(Above', m) \subseteq Publishes(Above, m)
  BY <1>4, <1>5, <1>6, <1>7 DEF Publishes
<1>10. PublishedOnce'
  BY <1>1, <1>3, <1>9 DEF PublishedOnce, RecoveryInv
<1>11. ASSUME NEW m \in required'
       PROVE  Returns(SnapHome[m], S, m)
  <2>1. /\ m \in Ids /\ by_id[m] # None
        /\ \/ \E i \in DOMAIN file' : file'[i].body.op = "MESSAGE_PUBLISH" /\ file'[i].body.id = m
           \/ snapshot # None /\ \E n \in Names : m \in snapshot.messages[n]
    BY <1>1 DEF OnFile, Live
  <2>2. Returns(SnapHome[m], R, m)
    <3>1. BackedBy(SnapHome[m], Done, m, by_id[m]) /\ Done = R
      BY <1>1, <1>2, <1>5, <2>1 DEF RecoveryInv, Tracked, Consistent, Done, Todo
    <3> QED
      BY <3>1, BackedReturns
  <2>3. Publishes(R, m) \subseteq S
    <3>1. CASE \E i \in DOMAIN file' :
                  file'[i].body.op = "MESSAGE_PUBLISH" /\ file'[i].body.id = m
      <4>1. PICK p \in Logged' : p.body.op = "MESSAGE_PUBLISH" /\ p.body.id = m
        BY <1>4, <3>1 DEF Elements
      <4>2. p \in Publishes(Logged, m)
        BY <1>4, <4>1 DEF Publishes
      <4>3. \A r \in Publishes(R, m) : r = p
        BY <1>5, <2>1, <4>2 DEF RecoveryInv, PublishedOnce, Publishes, Above
      <4>4. \A r \in R : r \in Logged' => r \in S
        BY <1>4, <1>5, <1>6 DEF Above
      <4> QED
        BY <4>1, <4>3, <4>4 DEF Publishes
    <3>2. CASE snapshot # None /\ \E n \in Names : m \in snapshot.messages[n]
      <4>1. SnapHome[m] \in Names
        BY <2>1, <3>2 DEF SnapHome, RestoredIndex
      <4>2. Publishes(R, m) = {}
        BY <1>5, <2>1, <4>1, NoneAssumption DEF RecoveryInv, PublishedOnce
      <4> QED
        BY <4>2
    <3> QED
      BY <2>1, <3>1, <3>2
  <2> QED
    BY <1>7, <2>2, <2>3, ReturnsCut
<1>12. RequiredBack'
  BY <1>2, <1>3, <1>6, <1>11 DEF RequiredBack
<1>13. Tracked' /\ TodoOK'
  BY <1>2, <1>4 DEF Tracked, TodoOK
<1>14. Unlimited'
  BY <1>1 DEF EngineGone, Unlimited, RecoveryInv
<1> QED
  BY <1>8, <1>10, <1>12, <1>13, <1>14 DEF RecoveryInv

LEMMA ShutdownRecovers ==
    ASSUME DurabilityInv, DurabilityInv', RecoveryInv,
           NEW s \in SnapshotOnShutdown, CleanShutdown(s)
    PROVE  RecoveryInv'
<1>1. /\ online /\ ~online' /\ required' = Live /\ EngineGone /\ UNCHANGED <<todo, issued>>
      /\ IF s THEN TakeImage ELSE UNCHANGED snapshot
      /\ snap_seq' = (IF s THEN seq ELSE snap_seq)
      /\ Logged' = Logged
  BY DEF CleanShutdown, Shutdown, Forget, Logged, Unwritten, Elements
<1>2. todo = None /\ todo' = None
  BY <1>1 DEF DurabilityInv, PhaseOK
<1>3. Tracked' /\ TodoOK'
  BY <1>1, <1>2 DEF Tracked, TodoOK
<1>4. \A n \in Names : max_length'[n] = None
  BY <1>1 DEF EngineGone
<1>5. CASE s
  <2>1. /\ Above' = {} /\ Sound(Above)' /\ PublishedOnce'
        /\ snapshot' # None /\ \A n \in Names : snapshot'.max_length[n] = None
    BY <1>1, <1>5, SnapshotCovers
  <2>2. \A m \in Ids : SnapHome'[m] = by_id[m]
    BY <1>1, <1>5, ImageHomes DEF DurabilityInv
  <2>3. \A m \in required' : Returns(SnapHome'[m], {}, m)
    <3>1. \A m \in required' : m \in Ids /\ by_id[m] \in Names
      BY <1>1 DEF Live, DurabilityInv, EngineInv, TypeOK
    <3> QED
      BY <2>2, <3>1, BackedAtHome
  <2>4. RequiredBack'
    BY <1>2, <2>1, <2>3 DEF RequiredBack
  <2> QED
    BY <1>3, <1>4, <2>1, <2>4 DEF RecoveryInv, Unlimited
<1>6. CASE ~s
  <2>1. UNCHANGED <<snapshot, snap_seq>>
    BY <1>1, <1>6
  <2>2. SnapHome' = SnapHome /\ SnapQueues' = SnapQueues /\ Above' = Above
    BY <1>1, <2>1 DEF SnapHome, SnapQueues, RestoredIndex, Above
  <2>3. Sound(Above)'
    BY <2>2 DEF Sound, RecoveryInv
  <2>4. PublishedOnce'
    BY <1>1, <2>2 DEF PublishedOnce, RecoveryInv
  <2>5. ASSUME NEW m \in required' PROVE Returns(SnapHome[m], Above, m)
    <3>1. BackedBy(SnapHome[m], Above, m, by_id[m])
      BY <1>1, <1>2 DEF RecoveryInv, Tracked, Consistent, Live, Done, Todo
    <3> QED
      BY <3>1, BackedReturns
  <2>6. RequiredBack'
    BY <1>2, <2>2, <2>5 DEF RequiredBack
  <2> QED
    BY <1>3, <1>4, <2>1, <2>3, <2>4, <2>6 DEF RecoveryInv, Unlimited
<1> QED
  BY <1>5, <1>6, SnapshotAssumption


-----------------------------------------------------------------------------
(* Recovery.                                                               *)

LEMMA RestartRecovers ==
    ASSUME DurabilityInv, DurabilityInv', RecoveryInv, Restart
    PROVE  RecoveryInv'
<1>1. /\ ~online /\ ~online' /\ todo = None /\ todo' = Replayed /\ AofInv
      /\ UNCHANGED <<file, snap_seq, snapshot, issued, required, Unwritten, tail>>
  BY DEF Restart, aofVars, writerVars, DurabilityInv, Unwritten
<1>2. /\ SnapHome' = SnapHome /\ SnapQueues' = SnapQueues /\ Logged' = Logged /\ Above' = Above
  BY <1>1 DEF SnapHome, SnapQueues, RestoredIndex, Logged, Above
<1>3. file \in Seq(Record) /\ Ordered(file) /\ Logged = Elements(file)
  BY <1>1, LoggedTyped DEF AofInv, AofTypeOK, PartsOrdered
<1>4. /\ todo' # None
      /\ Elements(todo') = Above
      /\ Ordered(todo')
  <2>1. PICK kept : kept = {i \in DOMAIN file : IsNew(file[i])}
    OBVIOUS
  <2>2. kept \in SUBSET DOMAIN file /\ todo' = Entries(file, kept)
    BY <1>1, <2>1 DEF Replayed
  <2>3. /\ todo' \in Seq(Record) /\ Elements(todo') = {file[i] : i \in kept}
        /\ \A a, b \in DOMAIN todo' : a < b =>
              \E i, j \in kept : i < j /\ todo'[a] = file[i] /\ todo'[b] = file[j]
    BY <1>3, <2>2, EntriesProperties
  <2>4. Elements(todo') = Above
    <3>1. \A r : r \in Above <=> r \in Elements(file) /\ r.seq > snap_seq
      BY <1>3 DEF Above
    <3>2. \A r : r \in Elements(file) <=> \E i \in DOMAIN file : r = file[i]
      BY DEF Elements
    <3>3. \A r : r \in Elements(todo') <=> \E i \in DOMAIN file : r = file[i] /\ r.seq > snap_seq
      BY <2>1, <2>3 DEF IsNew
    <3> QED
      BY <3>1, <3>2, <3>3
  <2>5. Ordered(todo')
    BY <1>3, <2>2, <2>3 DEF Ordered
  <2> QED
    BY <2>3, <2>4, <2>5, FilesAssumption
<1>5. Todo' = Above /\ Done' = {}
  BY <1>2, <1>4 DEF Todo, Done
<1>6. /\ \A m \in Ids : by_id'[m] = SnapHome[m]
      /\ queues' = SnapQueues
      /\ \A n \in Names : max_length'[n] = None
  <2>1. CASE snapshot = None
    <3>1. /\ UNCHANGED <<queues, by_id, max_length>>
          /\ queues = {} /\ \A m \in Ids : by_id[m] = None
      BY <1>1, <2>1 DEF Restart, vars, queueVars, DurabilityInv, PhaseOK
    <3> QED
      BY <2>1, <3>1 DEF SnapHome, SnapQueues, RecoveryInv, Unlimited
  <2>2. CASE snapshot # None
    BY <2>2 DEF Restart, Restore, SnapHome, SnapQueues, RecoveryInv, Unlimited
  <2> QED
    BY <2>1, <2>2
<1>7. ASSUME NEW m \in Ids, by_id'[m] # None
      PROVE  BackedBy(SnapHome'[m], {}, m, by_id'[m])
  <2>1. by_id'[m] \in Names
    BY <1>7 DEF DurabilityInv, EngineInv, TypeOK
  <2> QED
    BY <1>2, <1>6, <2>1, BackedAtHome
<1>8. \A q : q \in queues' <=> There(SnapQueues', {}, q)
  BY <1>2, <1>6 DEF There, Deletes, Makers
<1>9. Tracked'
  BY <1>5, <1>7, <1>8 DEF Tracked, Consistent
<1>10. Sound(Above)' /\ PublishedOnce'
  BY <1>1, <1>2 DEF Sound, PublishedOnce, RecoveryInv
<1>11. TodoOK'
  BY <1>2, <1>4, <1>5 DEF TodoOK, Later
<1>12. RequiredBack'
  <2>1. \A m \in required : Returns(SnapHome[m], Above, m) /\ m \in Ids
    BY <1>1 DEF RecoveryInv, RequiredBack, DurabilityInv, RecoveryTyped
  <2> QED
    BY <1>1, <1>4, <1>5, <1>6, <2>1 DEF RequiredBack
<1>13. Unlimited'
  BY <1>1, <1>6 DEF Unlimited, RecoveryInv
<1> QED
  BY <1>9, <1>10, <1>11, <1>12, <1>13 DEF RecoveryInv

\* The replay of a record does what the record says.
Applies(r) ==
    /\ \A n \in Names : max_length'[n] = None
    /\ \A m \in Ids :
          /\ r \in Publishes({r}, m) /\ by_id[m] = None => by_id'[m] = r.body.queue
          /\ by_id[m] # None =>
                \/ r \in Deletes({r}, by_id[m]) \cup Deletes({r}, origin_queue(by_id[m]))
                \/ /\ is_dlq(by_id[m]) /\ r \in Lifts({r}, m, by_id[m])
                   /\ by_id'[m] = origin_queue(by_id[m])
                \/ /\ ~(is_dlq(by_id[m]) /\ r \in Lifts({r}, m, by_id[m]))
                   /\ by_id'[m] = by_id[m]

LEMMA UnchangedApplies ==
    ASSUME TypeOK, Unlimited, UNCHANGED <<by_id, queues, max_length>>, NEW r,
           r.body.op = "QUEUE_DECLARE" => r.body.queue \in queues,
           r.body.op = "QUEUE_DELETE" => is_dlq(r.body.queue) /\ r.body.queue \notin queues,
           r.body.op # "MESSAGE_PUBLISH", OneHome,
           \A m \in Ids : by_id[m] # None => ~(is_dlq(by_id[m]) /\ r \in Lifts({r}, m, by_id[m]))
    PROVE  Follows({r}) /\ Applies(r)
<1>1. \A m \in Ids : by_id[m] # None => by_id[m] \in queues /\ by_id[m] \in Names
  BY DEF OneHome, TypeOK
<1>2. \A n \in Names : ~is_dlq(n) => Deletes({r}, n) = {}
  BY DEF Deletes
<1>3. \A n \in Names : n \in queues => Deletes({r}, n) = {}
  BY DEF Deletes
<1>4. \A m : Publishes({r}, m) = {}
  BY DEF Publishes
<1>5. \A n \in Names : Makers({r}, n) # {} => n \in queues
  BY DEF Makers
<1>6. ASSUME NEW m \in Ids, by_id[m] # None
      PROVE  /\ Deletes({r}, origin_queue(by_id[m])) = {}
             /\ Deletes({r}, dlq_name(by_id[m])) # {} => ~is_dlq(by_id[m])
  <2>1. /\ origin_queue(by_id[m]) \in Names /\ ~is_dlq(origin_queue(by_id[m]))
        /\ is_dlq(by_id[m]) => dlq_name(by_id[m]) = by_id[m]
    BY <1>1, <1>6, NameFacts
  <2> QED
    BY <1>1, <1>2, <1>3, <1>6, <2>1
<1>7. Follows({r})
  BY <1>2, <1>5, <1>6 DEF Follows
<1>8. Applies(r)
  BY <1>4 DEF Applies, Unlimited
<1> QED
  BY <1>7, <1>8


LEMMA RecordApplies ==
    ASSUME NoLimits, EngineInv, NoneHeld, Idle, Unlimited, NEW r \in Record, apply_record(r.body),
           r.body.op = "MESSAGE_REQUEUE" => ~is_dlq(r.body.queue),
           r.body.op \in {"QUEUE_DELETE", "MESSAGE_REQUEUE"} /\ ~is_dlq(r.body.queue) =>
              r.body.queue \in queues
    PROVE  Follows({r}) /\ Applies(r)
<1> DEFINE b == r.body
           n == b.queue
<1>1. /\ TypeOK /\ OneHome
      /\ n \in Names /\ dlq_name(n) \in Names /\ is_dlq(dlq_name(n))
      /\ b.op \in MessageOps => b.id \in Ids
      /\ b.op = "QUEUE_DECLARE" => b.max_length = None
  <2>1. /\ n \in Names /\ (b.op \in MessageOps => b.id \in Ids)
        /\ b.op = "QUEUE_DECLARE" => b.max_length \in {Limit(l) : l \in MaxLengths \cup {None}}
    BY RecordFacts
  <2>2. {Limit(l) : l \in MaxLengths \cup {None}} \subseteq {None}
    BY DEF NoLimits, Limit
  <2> QED
    BY <2>1, <2>2, NameFacts DEF EngineInv
<1>2. \A m \in Ids : by_id[m] # None => by_id[m] \in queues /\ by_id[m] \in Names
  BY <1>1 DEF OneHome, TypeOK
<1>3. ASSUME UNCHANGED vars PROVE UNCHANGED <<by_id, queues, max_length>>
  BY <1>3 DEF vars, queueVars
<1>4. b.op # "MESSAGE_REQUEUE" => \A m, x : r \notin Lifts({r}, m, x)
  BY DEF Lifts
<1>5. CASE b.op = "QUEUE_DECLARE"
  <2>1. CASE n \in queues
    <3>1. UNCHANGED <<by_id, queues, max_length>>
      BY <1>3, <1>5, <2>1 DEF apply_record
    <3> QED
      BY <1>1, <1>4, <1>5, <2>1, <3>1, UnchangedApplies
  <2>2. CASE n \notin queues
    <3>1. DeclareQueue(n, b.max_length)
      BY <1>5, <2>2 DEF apply_record
    <3>2. /\ queues' = queues \cup {n, dlq_name(n)} /\ by_id' = by_id
          /\ \A x \in Names : max_length'[x] \in {Limit(b.max_length), DefaultMaxLength, max_length[x]}
      BY <3>1 DEF DeclareQueue
    <3>3. \A x \in Names : max_length'[x] = None
      BY <1>1, <1>5, <3>2 DEF NoLimits, Limit, Unlimited
    <3>4. /\ \A q : Deletes({r}, q) = {} /\ Publishes({r}, q) = {}
          /\ Makers({r}, n) # {}
          /\ \A q \in Names : q # n => Makers({r}, q) = {}
      BY <1>5 DEF Deletes, Publishes, Makers
    <3>5. Follows({r})
      BY <1>1, <3>2, <3>4 DEF Follows, TypeOK
    <3> QED
      BY <1>4, <1>5, <3>2, <3>3, <3>4, <3>5 DEF Applies
  <2> QED
    BY <2>1, <2>2
<1>6. CASE b.op = "QUEUE_DELETE"
  <2>1. CASE n \notin queues
    <3>1. UNCHANGED <<by_id, queues, max_length>> /\ is_dlq(n)
      BY <1>3, <1>6, <2>1 DEF apply_record
    <3> QED
      BY <1>1, <1>4, <1>6, <2>1, <3>1, UnchangedApplies
  <2>2. CASE n \in queues
    <3>1. DeleteQueue(n)
      BY <1>6, <2>2 DEF apply_record
    <3>2. PICK gone : gone = Gone(n)
      OBVIOUS
    <3>3. /\ n \in queues /\ queues' = queues \ gone
          /\ n \in gone /\ (~is_dlq(n) => dlq_name(n) \in gone)
          /\ \A q \in gone : q = n \/ (~is_dlq(n) /\ q = dlq_name(n) /\ is_dlq(q))
          /\ \A x \in Names : max_length'[x] \in {max_length[x], None}
          /\ \A m \in Ids : by_id'[m] = IF by_id[m] \in gone THEN None ELSE by_id[m]
      BY <1>1, <3>1, <3>2, DeleteView
    <3>4. /\ r \in Deletes({r}, n) /\ \A q : q # n => Deletes({r}, q) = {}
          /\ \A q : Makers({r}, q) = {} /\ Publishes({r}, q) = {}
      BY <1>6 DEF Deletes, Makers, Publishes
    <3>5. \A x \in Names : max_length'[x] = None
      BY <3>3 DEF Unlimited
    <3>6. ASSUME NEW m \in Ids, by_id'[m] # None
          PROVE  /\ by_id'[m] = by_id[m] /\ by_id[m] \in Names /\ by_id[m] \notin gone
                 /\ Deletes({r}, origin_queue(by_id[m])) = {}
                 /\ Deletes({r}, dlq_name(by_id[m])) # {} => ~is_dlq(by_id[m])
      <4>1. by_id'[m] = by_id[m] /\ by_id[m] \in Names /\ by_id[m] \notin gone
        BY <1>2, <3>3, <3>6
      <4>2. /\ ~is_dlq(origin_queue(by_id[m]))
            /\ by_id[m] = origin_queue(by_id[m]) \/ by_id[m] = dlq_name(origin_queue(by_id[m]))
            /\ is_dlq(by_id[m]) => dlq_name(by_id[m]) = by_id[m]
        BY <4>1 DEF Names, is_dlq, origin_queue, dlq_name
      <4>3. origin_queue(by_id[m]) # n
        BY <3>3, <4>1, <4>2
      <4> QED
        BY <3>3, <3>4, <4>1, <4>2, <4>3
    <3>7. \A q \in Names : ~is_dlq(q) /\ q # n => (q \in queues' <=> q \in queues)
      BY <3>3
    <3>8. Follows({r})
      BY <3>3, <3>4, <3>6, <3>7 DEF Follows
    <3>9. ASSUME NEW m \in Ids, by_id[m] # None
          PROVE  \/ r \in Deletes({r}, by_id[m]) \cup Deletes({r}, origin_queue(by_id[m]))
                 \/ by_id'[m] = by_id[m]
      <4>1. CASE by_id[m] \in gone
        <5>1. by_id[m] = n \/ (~is_dlq(n) /\ by_id[m] = dlq_name(n))
          BY <3>3, <4>1
        <5>2. ~is_dlq(n) => origin_queue(dlq_name(n)) = n
          BY <1>1 DEF Names, is_dlq, origin_queue, dlq_name
        <5> QED
          BY <3>4, <5>1, <5>2
      <4>2. CASE by_id[m] \notin gone
        BY <3>3, <4>2
      <4> QED
        BY <4>1, <4>2
    <3> QED
      BY <1>4, <1>6, <3>4, <3>5, <3>8, <3>9 DEF Applies
  <2> QED
    BY <2>1, <2>2
<1>7. CASE b.op = "MESSAGE_PUBLISH"
  <2>1. ReplayPublish(n, b.id) /\ b.id \in Ids
    BY <1>1, <1>7 DEF apply_record, MessageOps
  <2>2. /\ n \in queues'
        /\ \A q : q \in queues' <=> q \in queues \/ (n \notin queues /\ q \in {n, dlq_name(n)})
        /\ \A x \in Names : max_length'[x] \in {DefaultMaxLength, max_length[x]}
    BY <2>1 DEF ReplayPublish
  <2>3. \A x \in Names : max_length'[x] = None
    BY <2>2 DEF NoLimits, Unlimited
  <2>4. \A x \in Ids : by_id'[x] = IF x = b.id /\ by_id[x] = None THEN n ELSE by_id[x]
    BY <1>1, <2>1, <2>3 DEF ReplayPublish, TypeOK
  <2>5. /\ \A q : Deletes({r}, q) = {}
        /\ Makers({r}, n) # {} /\ \A q : q # n => Makers({r}, q) = {}
        /\ r \in Publishes({r}, b.id) /\ \A x : x # b.id => Publishes({r}, x) = {}
    BY <1>7 DEF Deletes, Makers, Publishes
  <2>6. Follows({r})
    <3>1. ASSUME NEW x \in Ids, by_id'[x] # None
          PROVE  \/ \E y \in Publishes({r}, x) : {r} = {y} /\ by_id'[x] = y.body.queue
                 \/ by_id[x] # None /\ by_id'[x] = by_id[x]
      BY <2>4, <2>5, <3>1
    <3>2. \A q \in Names : ~is_dlq(q) /\ q # n => (q \in queues' <=> q \in queues)
      BY <1>1, <2>2
    <3> QED
      BY <2>2, <2>5, <3>1, <3>2 DEF Follows
  <2> QED
    BY <1>4, <1>7, <2>3, <2>4, <2>5, <2>6 DEF Applies
<1>8. CASE b.op = "MESSAGE_REQUEUE"
  <2>1. b.id \in Ids /\ ~is_dlq(n) /\ n \in queues /\ origin_queue(n) = n
        /\ origin_queue(dlq_name(n)) = n
    BY <1>1, <1>8 DEF MessageOps, Names, is_dlq, origin_queue, dlq_name
  <2>2. ASSUME NEW m \in Ids, NEW x \in Names, is_dlq(x)
        PROVE  r \in Lifts({r}, m, x) <=> m = b.id /\ x = dlq_name(n)
    <3>1. origin_queue(x) = n <=> x = dlq_name(n)
      BY <1>1, <2>1, <2>2 DEF Names, is_dlq, origin_queue, dlq_name
    <3> QED
      BY <1>8, <3>1 DEF Lifts
  <2>3. CASE dlq_name(n) \in queues /\ b.id \in messages[dlq_name(n)]
    <3>1. DlqRequeue(n, b.id)
      BY <1>8, <2>1, <2>3 DEF apply_record
    <3>2. ~Full(n)
      BY <1>1 DEF Full, Unlimited
    <3>3. /\ queues' = queues /\ max_length' = max_length /\ by_id' = [by_id EXCEPT ![b.id] = n]
      BY <2>1, <3>1, <3>2 DEF DlqRequeue
    <3>4. /\ by_id[b.id] = dlq_name(n)
          /\ \A x \in Ids : by_id'[x] = IF x = b.id THEN n ELSE by_id[x]
      BY <1>1, <2>1, <2>3, <3>3 DEF OneHome, TypeOK
    <3>5. \A q : Deletes({r}, q) = {} /\ Makers({r}, q) = {} /\ Publishes({r}, q) = {}
      BY <1>8 DEF Deletes, Makers, Publishes
    <3>6. Follows({r})
      <4>1. ASSUME NEW x \in Ids, by_id'[x] # None
            PROVE  /\ by_id[x] # None
                   /\ origin_queue(by_id'[x]) = origin_queue(by_id[x])
                   /\ by_id'[x] = by_id[x] \/ Lifts({r}, x, by_id[x]) # {}
        BY <1>1, <2>1, <2>2, <3>4, <4>1, NoneAssumption
      <4> QED
        BY <3>3, <3>5, <4>1 DEF Follows
    <3>7. ASSUME NEW m \in Ids, by_id[m] # None
          PROVE  \/ /\ is_dlq(by_id[m]) /\ r \in Lifts({r}, m, by_id[m])
                    /\ by_id'[m] = origin_queue(by_id[m])
                 \/ /\ ~(is_dlq(by_id[m]) /\ r \in Lifts({r}, m, by_id[m]))
                    /\ by_id'[m] = by_id[m]
      BY <1>1, <1>2, <2>1, <2>2, <3>4, <3>7
    <3> QED
      BY <3>3, <3>5, <3>6, <3>7 DEF Applies, Unlimited
  <2>4. CASE ~(dlq_name(n) \in queues /\ b.id \in messages[dlq_name(n)])
    <3>1. UNCHANGED <<by_id, queues, max_length>>
      BY <1>3, <1>8, <2>4 DEF apply_record
    <3>2. ASSUME NEW m \in Ids, by_id[m] # None, is_dlq(by_id[m]), r \in Lifts({r}, m, by_id[m])
          PROVE  FALSE
      <4>1. m = b.id /\ by_id[m] = dlq_name(n)
        BY <1>2, <2>2, <3>2
      <4> QED
        BY <1>1, <1>2, <2>4, <3>2, <4>1 DEF OneHome
    <3> QED
      BY <1>1, <1>8, <3>1, <3>2, UnchangedApplies
  <2> QED
    BY <2>3, <2>4
<1>9. CASE b.op \in {"MESSAGE_ACK", "MESSAGE_NACK", "NACK_DROP", "MESSAGE_DEAD", "RETRY"}
  <2>1. ~InFlight(b.id)
    BY <1>1, <1>2, <1>9 DEF InFlight, NoneHeld, MessageOps
  <2>2. UNCHANGED <<by_id, queues, max_length>>
    BY <1>3, <1>9, <2>1 DEF apply_record
  <2> QED
    BY <1>1, <1>4, <1>9, <2>2, UnchangedApplies
<1> QED
  BY <1>5, <1>6, <1>7, <1>8, <1>9 DEF apply_record


LEMMA HeadTail ==
    ASSUME NEW s \in Seq(Record), s # << >>, Ordered(s)
    PROVE  /\ Head(s) \in Record /\ Tail(s) \in Seq(Record)
           /\ Elements(s) = {Head(s)} \cup Elements(Tail(s))
           /\ Ordered(Tail(s)) /\ Later({Head(s)}, Elements(Tail(s)))
<1>1. /\ Head(s) \in Record /\ Tail(s) \in Seq(Record)
      /\ 1 \in DOMAIN s /\ Head(s) = s[1]
      /\ \A i \in DOMAIN Tail(s) : i \in Nat /\ i + 1 \in DOMAIN s /\ 1 < i + 1 /\ Tail(s)[i] = s[i + 1]
      /\ \A i \in DOMAIN s : i = 1 \/ (i - 1 \in DOMAIN Tail(s) /\ Tail(s)[i - 1] = s[i])
  OBVIOUS
<1>2. Elements(s) = {Head(s)} \cup Elements(Tail(s))
  <2>1. ASSUME NEW r \in Elements(s) PROVE r = Head(s) \/ r \in Elements(Tail(s))
    <3>1. PICK i \in DOMAIN s : r = s[i]
      BY DEF Elements
    <3>2. i = 1 \/ (i - 1 \in DOMAIN Tail(s) /\ Tail(s)[i - 1] = s[i])
      BY <1>1
    <3> QED
      BY <1>1, <3>1, <3>2 DEF Elements
  <2>2. \A r \in Elements(Tail(s)) : r \in Elements(s)
    BY <1>1 DEF Elements
  <2>3. Head(s) \in Elements(s)
    BY <1>1 DEF Elements
  <2> QED
    BY <2>1, <2>2, <2>3
<1>3. Ordered(Tail(s))
  <2> SUFFICES ASSUME NEW i \in DOMAIN Tail(s), NEW j \in DOMAIN Tail(s), i < j
               PROVE  Tail(s)[i].seq < Tail(s)[j].seq
    BY DEF Ordered
  <2>1. i + 1 \in DOMAIN s /\ j + 1 \in DOMAIN s /\ i + 1 < j + 1
    BY <1>1
  <2>2. s[i + 1].seq < s[j + 1].seq
    BY <2>1 DEF Ordered
  <2> QED
    BY <1>1, <2>2
<1>4. \A x \in Elements(Tail(s)) : Head(s).seq < x.seq
  <2> SUFFICES ASSUME NEW i \in DOMAIN Tail(s) PROVE Head(s).seq < Tail(s)[i].seq
    BY DEF Elements
  <2>1. s[1].seq < s[i + 1].seq
    BY <1>1 DEF Ordered
  <2> QED
    BY <1>1, <2>1
<1> QED
  BY <1>1, <1>2, <1>3, <1>4 DEF Later

\* A message that the rest of the records bring back is still brought back by
\* what is left once the first of them is applied.
LEMMA ReturnsApplied ==
    ASSUME TypeOK, NEW r \in Record, NEW T \in SUBSET Record, Later({r}, T), Applies(r),
           NEW m \in Ids, r \in Publishes({r}, m) => by_id[m] = None,
           Returns(by_id[m], {r} \cup T, m)
    PROVE  Returns(by_id'[m], T, m)
<1>1. PICK n \in Names, s \in Nat :
         StartsAt(by_id[m], {r} \cup T, m, n, s) /\ Survives({r} \cup T, m, n, s)
  BY DEF Returns
<1>2. /\ r.seq \in Nat /\ r.seq > 0
      /\ \A x \in T : x.seq \in Nat /\ r.seq < x.seq
  BY RecordFacts DEF Later
<1>3. /\ \A q : Deletes(T, q) \subseteq Deletes({r} \cup T, q)
      /\ \A q : Deletes(T, q) \subseteq T
      /\ \A q : Lifts({r} \cup T, m, q) \subseteq {r} \cup Lifts(T, m, q)
      /\ \A q : Lifts(T, m, q) \subseteq T
      /\ \A q : r \in Lifts({r} \cup T, m, q) => r \in Lifts({r}, m, q)
      /\ \A q : r \in Deletes({r}, q) => r \in Deletes({r} \cup T, q)
  BY DEF Deletes, Lifts
<1>4. /\ origin_queue(n) \in Names /\ ~is_dlq(origin_queue(n))
      /\ origin_queue(origin_queue(n)) = origin_queue(n)
      /\ ~is_dlq(n) => origin_queue(n) = n
  BY DEF Names, origin_queue, is_dlq
<1>5. n # None
  BY NoneAssumption
<1>6. ASSUME NEW x \in Names, by_id'[m] = x, Survives(T, m, x, 0)
      PROVE  Returns(by_id'[m], T, m)
  BY <1>6 DEF Returns, StartsAt
<1>7. CASE n = by_id[m] /\ s = 0
  <2>1. r \notin Deletes({r}, origin_queue(n))
    <3>1. \A d \in Deletes({r} \cup T, origin_queue(n)) : d.seq <= 0
      BY <1>1, <1>7 DEF Survives
    <3>2. ~(r.seq <= 0)
      BY <1>2
    <3> QED
      BY <1>3, <3>1, <3>2
  <2>2. r \notin Deletes({r}, n)
    <3>1. CASE is_dlq(n)
      <4>1. ~(r.seq <= 0) /\ ~(r.seq < r.seq) /\ \A u \in T : ~(u.seq < r.seq)
        BY <1>2
      <4>2. \A u \in Lifts({r} \cup T, m, n) : ~(u.seq < r.seq)
        BY <4>1 DEF Lifts
      <4>3. \A d \in Deletes({r} \cup T, n) :
               d.seq <= 0 \/ \E u \in Lifts({r} \cup T, m, n) : 0 < u.seq /\ u.seq < d.seq
        BY <1>1, <1>7, <3>1 DEF Survives
      <4> QED
        BY <1>3, <4>1, <4>2, <4>3
    <3>2. CASE ~is_dlq(n)
      BY <1>4, <2>1, <3>2
    <3> QED
      BY <3>1, <3>2
  <2>3. CASE is_dlq(n) /\ r \in Lifts({r}, m, n)
    <3>1. by_id'[m] = origin_queue(n)
      BY <1>5, <1>7, <2>1, <2>2, <2>3 DEF Applies
    <3>2. Survives(T, m, origin_queue(n), 0)
      BY <1>1, <1>3, <1>4, <1>7 DEF Survives
    <3> QED
      BY <1>4, <1>6, <3>1, <3>2
  <2>4. CASE ~(is_dlq(n) /\ r \in Lifts({r}, m, n))
    <3>1. by_id'[m] = n
      BY <1>5, <1>7, <2>1, <2>2, <2>4 DEF Applies
    <3>2. is_dlq(n) => Lifts({r} \cup T, m, n) \subseteq Lifts(T, m, n)
      BY <1>3, <2>4
    <3>3. Survives(T, m, n, 0)
      BY <1>1, <1>3, <1>7, <3>2 DEF Survives
    <3> QED
      BY <1>6, <3>1, <3>3
  <2> QED
    BY <2>3, <2>4
<1>8. ASSUME NEW p \in Publishes({r} \cup T, m), p.body.queue = n, p.seq = s
      PROVE  Returns(by_id'[m], T, m)
  <2>1. \A u \in Lifts({r} \cup T, m, n) : s < u.seq => u \in Lifts(T, m, n)
    <3>1. r.seq <= s
      BY <1>2, <1>8 DEF Publishes
    <3> QED
      BY <1>2, <1>3, <3>1
  <2>2. CASE p = r
    <3>1. r \in Publishes({r}, m)
      BY <1>8, <2>2 DEF Publishes
    <3>2. by_id'[m] = n
      BY <1>8, <2>2, <3>1 DEF Applies
    <3>3. \A q : \A d \in Deletes(T, q) : ~(d.seq <= s)
      BY <1>2, <1>3, <1>8, <2>2
    <3>4. \A u \in Lifts(T, m, n) : 0 < u.seq
      BY <1>2, <1>3
    <3>5. Survives(T, m, n, 0)
      BY <1>1, <1>3, <2>1, <3>3, <3>4 DEF Survives
    <3> QED
      BY <1>6, <3>2, <3>5
  <2>3. CASE p # r
    <3>1. p \in Publishes(T, m)
      BY <1>8, <2>3 DEF Publishes
    <3>2. Survives(T, m, n, s)
      BY <1>1, <1>3, <2>1 DEF Survives
    <3> QED
      BY <1>8, <3>1, <3>2 DEF Returns, StartsAt
  <2> QED
    BY <2>2, <2>3
<1> QED
  BY <1>1, <1>7, <1>8 DEF StartsAt


LEMMA ReplayRecovers ==
    ASSUME NoLimits, DurabilityInv, DurabilityInv', RecoveryInv, Replay
    PROVE  RecoveryInv'
<1>1. /\ ~online /\ ~online' /\ todo # None /\ todo # << >>
      /\ apply_record(Head(todo).body) /\ todo' = Tail(todo)
      /\ UNCHANGED <<file, snap_seq, snapshot, issued, required, Unwritten, tail>>
  BY DEF Replay, aofVars, writerVars, Unwritten
<1>2. /\ SnapHome' = SnapHome /\ SnapQueues' = SnapQueues /\ Logged' = Logged /\ Above' = Above
  BY <1>1 DEF SnapHome, SnapQueues, RestoredIndex, Logged, Above
<1>3. /\ TypeOK /\ TypeOK' /\ EngineInv /\ Idle /\ NoneHeld /\ AofInv
      /\ todo \in Seq(Record) /\ required \subseteq Ids
  BY <1>1 DEF DurabilityInv, EngineInv, PhaseOK, RecoveryTyped
<1>4. /\ Todo \subseteq Above /\ Ordered(todo) /\ Later(Done, Todo) /\ Todo = Elements(todo)
      /\ Consistent(Done) /\ Sound(Above) /\ PublishedOnce /\ Unlimited
      /\ \A m \in required : Returns(by_id[m], Todo, m)
  BY <1>1 DEF RecoveryInv, TodoOK, Todo, Tracked, RequiredBack
<1>5. PICK r \in Record : r = Head(todo)
  BY <1>1, <1>3, <1>4, HeadTail
<1>6. PICK T : T = Elements(Tail(todo))
  OBVIOUS
<1>7. PICK D : D = Done
  OBVIOUS
<1>8. /\ Todo = {r} \cup T /\ Ordered(Tail(todo)) /\ Later({r}, T) /\ Tail(todo) \in Seq(Record)
      /\ T \subseteq Above /\ r \in Above /\ Above \subseteq Record
  BY <1>1, <1>3, <1>4, <1>5, <1>6, HeadTail, LoggedTyped
<1>9. todo' # None
  BY <1>1, <1>8, FilesAssumption
<1>10. r \notin T
  BY <1>8 DEF Later, Record
<1>11. Todo' = T /\ Done' = D \cup {r}
  <2>1. Todo' = T
    BY <1>1, <1>6, <1>9 DEF Todo
  <2> QED
    BY <1>2, <1>7, <1>8, <1>10, <2>1 DEF Done
<1>12. /\ D \in SUBSET Record /\ T \in SUBSET Record /\ {r} \in SUBSET Record
       /\ Later(D, {r}) /\ Later(D, T) /\ D \subseteq Above
  BY <1>4, <1>7, <1>8 DEF Later, Done
<1>13. {x \in Above : x.seq < r.seq} = D
  <2>1. \A x \in D : x.seq < r.seq
    BY <1>12 DEF Later
  <2>2. \A x \in Above : x \in D \/ x = r \/ x \in T
    BY <1>7, <1>8 DEF Done
  <2>3. \A x \in T : ~(x.seq < r.seq)
    BY <1>8, <1>12 DEF Later, Record
  <2>4. ~(r.seq < r.seq)
    BY DEF Record
  <2> QED
    BY <1>12, <2>1, <2>2, <2>3, <2>4
<1>14. r.body.op = "MESSAGE_REQUEUE" => ~is_dlq(r.body.queue)
  BY <1>4, <1>8 DEF Sound
<1>15. ASSUME r.body.op \in {"QUEUE_DELETE", "MESSAGE_REQUEUE"}, ~is_dlq(r.body.queue)
       PROVE  r.body.queue \in queues
  <2>1. There(SnapQueues, D, r.body.queue)
    BY <1>4, <1>8, <1>13, <1>15 DEF Sound
  <2>2. r.body.queue \in Names
    BY RecordFacts
  <2> QED
    BY <1>4, <1>7, <1>15, <2>1, <2>2 DEF Consistent
<1>16. Follows({r}) /\ Applies(r)
  BY <1>1, <1>3, <1>4, <1>5, <1>14, <1>15, RecordApplies
<1>17. Tracked'
  <2>1. Consistent(D)
    BY <1>4, <1>7
  <2>2. Consistent(D \cup {r})'
    BY <1>2, <1>3, <1>12, <1>16, <2>1, FollowsKeeps
  <2>3. Consistent(Done)'
    BY <1>11, <2>2 DEF Consistent
  <2> QED
    BY <2>3 DEF Tracked
<1>18. Sound(Above)' /\ PublishedOnce'
  BY <1>1, <1>2, <1>4 DEF Sound, PublishedOnce
<1>19. TodoOK'
  <2>1. Later(D \cup {r}, T)
    BY <1>8, <1>12 DEF Later
  <2> QED
    BY <1>1, <1>2, <1>8, <1>11, <2>1 DEF TodoOK
<1>20. RequiredBack'
  <2> SUFFICES ASSUME NEW m \in required PROVE Returns(by_id'[m], T, m)
    BY <1>1, <1>9, <1>11 DEF RequiredBack
  <2>1. m \in Ids /\ Returns(by_id[m], {r} \cup T, m)
    BY <1>3, <1>4, <1>8
  <2>2. ASSUME r \in Publishes({r}, m), by_id[m] # None PROVE FALSE
    <3>1. r \in Publishes(Above, m) /\ SnapHome[m] = None
      BY <1>4, <1>8, <2>1, <2>2 DEF Publishes, PublishedOnce
    <3>2. PICK n \in Names, s \in Nat : StartsAt(SnapHome[m], D, m, n, s)
      BY <1>4, <1>7, <2>1, <2>2 DEF Consistent, BackedBy
    <3>3. PICK p : p \in Publishes(D, m)
      BY <3>1, <3>2, NoneAssumption DEF StartsAt
    <3>4. p \in Publishes(Logged, m) /\ r \in Publishes(Logged, m)
      BY <1>12, <3>1, <3>3 DEF Publishes, Above
    <3>5. p = r
      BY <1>4, <2>1, <3>4 DEF PublishedOnce
    <3> QED
      BY <1>7, <1>8, <3>3, <3>5 DEF Publishes, Done
  <2> QED
    BY <1>3, <1>8, <1>12, <1>16, <2>1, <2>2, ReturnsApplied
<1>21. Unlimited'
  BY <1>1, <1>4, <1>16 DEF Unlimited, Applies
<1> QED
  BY <1>17, <1>18, <1>19, <1>20, <1>21 DEF RecoveryInv

\* With nothing left to apply, every required message is back.
LEMMA RecoveredRecovers ==
    ASSUME DurabilityInv, DurabilityInv', RecoveryInv, Recovered
    PROVE  RecoveryInv' /\ required \subseteq Live'
<1>1. /\ ~online /\ online' /\ todo = << >> /\ todo' = None
      /\ UNCHANGED <<file, snap_seq, snapshot, issued, required, Unwritten, tail>>
      /\ UNCHANGED <<by_id, queues, max_length>>
  BY DEF Recovered, Attach, Unwritten, Tick, vars, queueVars
<1>2. /\ SnapHome' = SnapHome /\ SnapQueues' = SnapQueues /\ Logged' = Logged /\ Above' = Above
  BY <1>1 DEF SnapHome, SnapQueues, RestoredIndex, Logged, Above
<1>3. /\ todo # None /\ Todo = {} /\ Done = Above
      /\ Todo' = {} /\ Done' = Above
  <2>1. todo # None
    <3>1. << >> \in Seq(Record)
      OBVIOUS
    <3> QED
      BY <1>1, <3>1, FilesAssumption
  <2>2. Elements(<< >>) = {}
    BY DEF Elements
  <2> QED
    BY <1>1, <1>2, <2>1, <2>2 DEF Todo, Done
<1>4. Tracked'
  BY <1>1, <1>2, <1>3 DEF RecoveryInv, Tracked, Consistent
<1>5. Sound(Above)' /\ PublishedOnce'
  BY <1>1, <1>2 DEF Sound, PublishedOnce, RecoveryInv
<1>6. TodoOK' /\ RequiredBack' /\ Unlimited'
  BY <1>1 DEF TodoOK, RequiredBack, Unlimited, RecoveryInv
<1>7. ASSUME NEW m \in required PROVE m \in Live'
  <2>1. m \in Ids /\ Returns(by_id[m], {}, m)
    BY <1>1, <1>3 DEF RecoveryInv, RequiredBack, DurabilityInv, RecoveryTyped
  <2>2. by_id[m] \in Names
    BY <2>1 DEF Returns, StartsAt, Publishes
  <2> QED
    BY <1>1, <2>1, <2>2, NoneAssumption DEF Live
<1> QED
  BY <1>4, <1>5, <1>6, <1>7 DEF RecoveryInv

\* The passing of time leaves the messages, the queues and the log alone.
LEMMA ClockRecovers ==
    ASSUME DurabilityInv, RecoveryInv, Clock \/ UNCHANGED durabilityVars
    PROVE  RecoveryInv'
<1>1. /\ UNCHANGED <<online, todo, file, snap_seq, issued, required, Unwritten, tail>>
      /\ UNCHANGED <<by_id, queues, max_length>>
  BY DEF Clock, AdvanceTime, durabilityVars, aofVars, writerVars, recoveryVars, vars, queueVars, Unwritten
<1>2. /\ snapshot' = None <=> snapshot = None
      /\ snapshot # None => /\ snapshot'.messages = snapshot.messages
                            /\ snapshot'.queues = snapshot.queues
                            /\ snapshot'.max_length = snapshot.max_length
  <2>1. snapshot \in Images \cup {None}
    BY DEF DurabilityInv, SnapshotOK, Coherent
  <2>2. CASE UNCHANGED durabilityVars
    BY <2>2 DEF durabilityVars, recoveryVars
  <2>3. CASE Clock
    <3>1. CASE snapshot = None
      BY <2>3, <3>1 DEF Clock
    <3>2. CASE snapshot # None
      <4>1. snapshot' = [snapshot EXCEPT !.waiting = {Sooner(e) : e \in @}] /\ snapshot \in Images
        BY <2>1, <2>3, <3>2 DEF Clock
      <4>2. {Sooner(e) : e \in snapshot.waiting} \in SUBSET HeapEntry
        BY <4>1 DEF Images, Sooner, HeapEntry
      <4>3. snapshot' \in Images
        BY <4>1, <4>2 DEF Images
      <4> QED
        BY <3>2, <4>1, <4>3, FilesAssumption DEF Images
    <3> QED
      BY <3>1, <3>2
  <2> QED
    BY <2>2, <2>3
<1>3. SnapHome' = SnapHome /\ SnapQueues' = SnapQueues
  BY <1>2 DEF SnapHome, SnapQueues, RestoredIndex
<1>4. Logged' = Logged /\ Above' = Above /\ Todo' = Todo /\ Done' = Done
  BY <1>1 DEF Logged, Above, Todo, Done
<1>5. Tracked' /\ Sound(Above)' /\ PublishedOnce'
  BY <1>1, <1>3, <1>4 DEF Tracked, Consistent, Sound, PublishedOnce, RecoveryInv
<1>6. TodoOK' /\ RequiredBack'
  BY <1>1, <1>3, <1>4 DEF TodoOK, RequiredBack, RecoveryInv
<1>7. Unlimited'
  BY <1>1, <1>2 DEF Unlimited, RecoveryInv
<1> QED
  BY <1>5, <1>6, <1>7 DEF RecoveryInv


LEMMA RecoveryKept ==
    ASSUME NoLimits, DurabilityInv, DurabilityInv', RecoveryInv, [DurabilityNext]_durabilityVars
    PROVE  RecoveryInv' /\ (~online /\ online' => required \subseteq Live')
<1>1. CASE \E k \in Clients, n \in Names : \E l \in MaxLengths : Declare(k, n, l)
  <2>1. RecoveryInv'
    BY <1>1, DeclareRecovers
  <2> QED
    BY <1>1, <2>1 DEF Declare, Command
<1>2. CASE \E k \in Clients, n \in Names : Delete(k, n)
  <2>1. RecoveryInv'
    BY <1>2, DeleteRecovers
  <2> QED
    BY <1>2, <2>1 DEF Delete, Command
<1>3. CASE \E k \in Clients, n \in Names, m \in Ids : Publish(k, n, m) \/ Requeue(k, n, m)
  <2>1. RecoveryInv'
    BY <1>3, PublishRecovers, RequeueRecovers
  <2> QED
    BY <1>3, <2>1 DEF Publish, Requeue, Command
<1>4. CASE \/ \E k \in Clients, m \in Ids :
                 AckCommand(k, m) \/ \E requeue \in BOOLEAN : NackCommand(k, m, requeue)
           \/ \E n \in Names, c \in Consumers : Deliver(n, c)
           \/ \E c \in Consumers : Disconnect(c)
           \/ \E m \in Ids : DisconnectLease(m)
           \/ \E e \in visibility_heap : TimeOut(e)
           \/ Loop
           \/ WriterStep
  <2>1. RecoveryInv'
    BY <1>4, QuietRecovers
  <2>2. online \/ ~online'
    <3>1. CASE WriterStep
      BY <3>1 DEF WriterStep, TakeBatch, WriteBytes, SyncBytes, Resolve, WaitOver, writerVars
    <3> QED
      BY <1>4, <3>1
         DEF AckCommand, NackCommand, Command, Deliver, Disconnect, DisconnectLease, TimeOut,
             Unasked, Loop
  <2> QED
    BY <2>1, <2>2
<1>5. CASE WriteSnapshot
  <2>1. RecoveryInv'
    BY <1>5, SnapshotRecovers
  <2> QED
    BY <1>5, <2>1 DEF WriteSnapshot, SnapshotSeq
<1>6. CASE ProcessCrash
  <2>1. RecoveryInv'
    BY <1>6, CrashRecovers
  <2> QED
    BY <1>6, <2>1 DEF ProcessCrash, Crash
<1>7. CASE \E s \in SnapshotOnShutdown : CleanShutdown(s)
  <2>1. RecoveryInv'
    BY <1>7, ShutdownRecovers
  <2> QED
    BY <1>7, <2>1 DEF CleanShutdown, Shutdown
<1>8. CASE Restart
  <2>1. RecoveryInv'
    BY <1>8, RestartRecovers
  <2> QED
    BY <1>8, <2>1 DEF Restart, aofVars, writerVars
<1>9. CASE Replay
  <2>1. RecoveryInv'
    BY <1>9, ReplayRecovers
  <2> QED
    BY <1>9, <2>1 DEF Replay, aofVars, writerVars
<1>10. CASE Recovered
  BY <1>10, RecoveredRecovers
<1>11. CASE Clock \/ UNCHANGED durabilityVars
  <2>1. RecoveryInv'
    BY <1>11, ClockRecovers
  <2> QED
    BY <1>11, <2>1 DEF Clock, durabilityVars, aofVars, writerVars
<1> QED
  BY <1>1, <1>2, <1>3, <1>4, <1>5, <1>6, <1>7, <1>8, <1>9, <1>10, <1>11 DEF DurabilityNext

LEMMA RecoveryBegins == DurabilityInit => RecoveryInv
<1> SUFFICES ASSUME DurabilityInit PROVE RecoveryInv
  OBVIOUS
<1>1. /\ online /\ todo = None /\ snapshot = None
      /\ queues = {} /\ by_id = [m \in Ids |-> None] /\ max_length = [n \in Names |-> None]
      /\ file = << >> /\ tail = << >> /\ Unwritten = << >>
  BY DEF DurabilityInit, Init, AofInit, Unwritten
<1>2. Logged = {} /\ Above = {} /\ Todo = {} /\ Done = {}
  <2>1. Elements(<< >>) = {}
    BY DEF Elements
  <2>2. Logged = {} /\ Todo = {}
    BY <1>1, <2>1 DEF Logged, Todo
  <2> QED
    BY <2>2 DEF Above, Done
<1>3. SnapQueues = {} /\ \A m \in Ids : SnapHome[m] = None
  BY <1>1 DEF SnapQueues, SnapHome
<1>4. \A q : ~There({}, {}, q)
  BY DEF There, Makers
<1>5. Tracked
  BY <1>1, <1>2, <1>3, <1>4 DEF Tracked, Consistent
<1>6. Sound(Above) /\ PublishedOnce
  BY <1>2, <1>3 DEF Sound, PublishedOnce, Publishes
<1>7. TodoOK /\ RequiredBack /\ Unlimited
  BY <1>1 DEF TodoOK, RequiredBack, Unlimited
<1> QED
  BY <1>5, <1>6, <1>7 DEF RecoveryInv

\* RecoveryKeeps: where no queue has a limit, recover_into brings back every
\* message that was in the broker when it stopped and whose publication the
\* snapshot or the surviving part of the file holds, leased or not
\* (README.md:82), for any number of queues, messages, crashes, snapshots and
\* restarts.
THEOREM RecoveryBringsBack ==
    ASSUME NoLimits
    PROVE  DurabilitySpec => RecoveryKeeps
<1>1. /\ DurabilityInv /\ DurabilityInv' /\ RecoveryInv /\ [DurabilityNext]_durabilityVars
      => RecoveryInv' /\ [~online /\ online' => required \subseteq Live']_durabilityVars
  BY RecoveryKept
<1> QED
  BY <1>1, RecoveryBegins, DurabilityAlways, PTL DEF DurabilitySpec, RecoveryKeeps


=============================================================================
