------------------------- MODULE MessageLifeProofs -------------------------
(***************************************************************************)
(* QueueEngine implements MessageLife, for any sets of queues, messages    *)
(* and consumers.  Beside OneHome the argument needs one fact about leases *)
(* (LeasesAtHome): an ordinary queue holds a lease only of a message that  *)
(* is in it, so that a message which is published into a queue, or comes   *)
(* back to it from the dead-letter queue, is not held there by anybody.    *)
(***************************************************************************)
EXTENDS QueueEngineProofs

LeasesAtHome ==
    \A n \in Names, m \in Ids :
        ~is_dlq(n) /\ inflight[n][m] # None => m \in messages[n]

-----------------------------------------------------------------------------
(* LeasesAtHome.                                                           *)

\* _move_to_dlq of a message whose lease has been popped.
LEMMA MoveToDlqLeases ==
    ASSUME TypeOK, LeasesAtHome, NEW n \in Names, NEW m \in Ids, m \in messages[n],
           MoveToDlq(n, m), inflight' = [inflight EXCEPT ![n][m] = None]
    PROVE  LeasesAtHome'
<1>1. /\ inflight \in [Names -> [Ids -> InflightRecord \cup {None}]]
      /\ messages \in [Names -> SUBSET Ids]
      /\ dlq_name(n) \in Names
  BY NameFacts DEF TypeOK
<1>2. SUFFICES ASSUME NEW x \in Names, NEW y \in Ids, ~is_dlq(x), inflight'[x][y] # None
               PROVE  y \in messages'[x]
  BY DEF LeasesAtHome
<1>3. inflight[x][y] # None /\ ~(x = n /\ y = m)
  BY <1>1, <1>2
<1>4. y \in messages[x]
  BY <1>2, <1>3 DEF LeasesAtHome
<1>5. messages' = [messages EXCEPT ![n] = @ \ {m}, ![dlq_name(n)] = @ \cup {m}]
      \/ messages' = [messages EXCEPT ![n] = @ \ {m}]
  BY DEF MoveToDlq
<1> QED
  BY <1>1, <1>3, <1>4, <1>5

\* The end of a lease.
LEMMA EndLeaseLeases ==
    ASSUME TypeOK, LeasesAtHome, NEW n \in Names, NEW m \in Ids, EndLease(n, m)
    PROVE  LeasesAtHome'
<1>1. inflight' = [inflight EXCEPT ![n][m] = None]
  BY DEF EndLease
<1>2. CASE m \in messages[n] /\ Exhausted(m)
  <2>1. MoveToDlq(n, m)
    BY <1>2 DEF EndLease, RetryOrDead
  <2> QED
    BY <1>1, <1>2, <2>1, MoveToDlqLeases
<1>3. CASE ~(m \in messages[n] /\ Exhausted(m))
  <2>1. messages' = messages
    BY <1>3 DEF EndLease, RetryOrDead
  <2> QED
    BY <1>1, <2>1 DEF LeasesAtHome, TypeOK
<1> QED
  BY <1>2, <1>3

\* An ordinary queue leases its own messages only.
THEOREM LeasesStayAtHome == Spec => []LeasesAtHome
<1>1. Init => LeasesAtHome
  BY DEF Init, LeasesAtHome, NoLeases
<1>2. ASSUME TypeOK, OneHome, LeasesAtHome, [Next]_vars
      PROVE  LeasesAtHome'
  <2>1. /\ inflight \in [Names -> [Ids -> InflightRecord \cup {None}]]
        /\ messages \in [Names -> SUBSET Ids]
        /\ by_id \in [Ids -> Names \cup {None}]
        /\ \A n \in Names, m \in Ids : ~is_dlq(n) /\ inflight[n][m] # None => m \in messages[n]
    BY <1>2 DEF TypeOK, LeasesAtHome
  <2>2. ASSUME NEW n \in Names, DeleteQueue(n)
        PROVE  LeasesAtHome'
    <3> DEFINE gone == {n} \cup (IF dead_letter(n) THEN {dlq_name(n)} ELSE {})
    <3>1. /\ inflight' = [x \in Names |-> IF x \in gone THEN NoLeases ELSE inflight[x]]
          /\ messages' = [x \in Names |-> IF x \in gone THEN {} ELSE messages[x]]
      BY <2>2 DEF DeleteQueue
    <3> HIDE DEF gone
    <3> QED
      BY <2>1, <3>1 DEF LeasesAtHome, NoLeases
  <2>3. ASSUME NEW n \in Names, NEW m \in Ids, NEW t \in EnqueueDelays, Enqueue(n, m, t)
        PROVE  LeasesAtHome'
    <3>1. inflight' = inflight /\ messages' = [messages EXCEPT ![n] = @ \cup {m}]
      BY <2>3 DEF Enqueue
    <3> QED
      BY <2>1, <3>1 DEF LeasesAtHome
  <2>4. ASSUME NEW n \in Names, NEW m \in Ids, DlqRequeue(n, m)
        PROVE  LeasesAtHome'
    <3>1. /\ dlq_name(n) \in Names /\ is_dlq(dlq_name(n))
          /\ origin_queue(n) \in Names /\ dlq_name(n) # origin_queue(n)
      BY NameFacts
    <3>2. inflight' = inflight
      BY <2>4 DEF DlqRequeue
    <3>3. \/ messages' = messages
          \/ messages' = [messages EXCEPT ![dlq_name(n)] = @ \ {m},
                                          ![origin_queue(n)] = @ \cup {m}]
      BY <2>4 DEF DlqRequeue
    <3>4. CASE messages' = messages
      BY <2>1, <3>2, <3>4 DEF LeasesAtHome
    <3>5. CASE messages' = [messages EXCEPT ![dlq_name(n)] = @ \ {m},
                                            ![origin_queue(n)] = @ \cup {m}]
      <4>1. \A x \in Names : x # dlq_name(n) => messages[x] \subseteq messages'[x]
        BY <2>1, <3>1, <3>5
      <4>2. \A x \in Names : ~is_dlq(x) => x # dlq_name(n)
        BY <3>1
      <4> QED
        BY <2>1, <3>2, <4>1, <4>2 DEF LeasesAtHome
    <3> QED
      BY <3>3, <3>4, <3>5
  <2>5. ASSUME NEW n \in Names, NEW c \in Consumers, Reserve(n, c)
        PROVE  LeasesAtHome'
    <3>1. PICK k \in DOMAIN ready[n] :
             /\ Deliverable(n, k)
             /\ inflight' = [inflight EXCEPT ![n][ready[n][k]] =
                                 [consumer_id |-> c, left |-> VisibilityTimeout]]
      BY <2>5 DEF Reserve
    <3>2. messages' = messages
      BY <2>5 DEF Reserve
    <3>3. ready[n][k] \in messages[n]
      BY <3>1 DEF Deliverable
    <3> QED
      BY <2>1, <3>1, <3>2, <3>3 DEF LeasesAtHome
  <2>6. ASSUME NEW m \in Ids, Ack(m)
        PROVE  LeasesAtHome'
    <3>1. /\ by_id[m] \in Names
          /\ inflight' = [inflight EXCEPT ![by_id[m]][m] = None]
          /\ messages' = [messages EXCEPT ![by_id[m]] = @ \ {m}]
      BY <2>1, <2>6 DEF Ack
    <3> QED
      BY <2>1, <3>1 DEF LeasesAtHome
  <2>7. ASSUME NEW m \in Ids, NEW requeue \in BOOLEAN, Nack(m, requeue)
        PROVE  LeasesAtHome'
    <3>1. by_id[m] \in Names
      BY <2>1, <2>7 DEF Nack
    <3>2. \/ EndLease(by_id[m], m)
          \/ /\ m \in messages[by_id[m]]
             /\ inflight' = [inflight EXCEPT ![by_id[m]][m] = None]
             /\ MoveToDlq(by_id[m], m)
      BY <2>7 DEF Nack
    <3> QED
      BY <1>2, <3>1, <3>2, EndLeaseLeases, MoveToDlqLeases
  <2>8. ASSUME NEW m \in Ids, RecoverLease(m)
        PROVE  LeasesAtHome'
    <3>1. cursor.queue \in Names /\ EndLease(cursor.queue, m)
      BY <1>2, <2>8 DEF RecoverLease, HeldHere, TypeOK, Cursor
    <3> QED
      BY <1>2, <3>1, EndLeaseLeases
  <2>9. ASSUME NEW e \in visibility_heap, TimeoutInflight(e)
        PROVE  LeasesAtHome'
    <3>1. e.queue \in Names /\ e.id \in Ids
      BY <1>2, <2>9 DEF TypeOK, HeapEntry
    <3>2. EndLease(e.queue, e.id) \/ (UNCHANGED <<inflight, messages>>)
      BY <2>9 DEF TimeoutInflight, queueVars
    <3>3. CASE UNCHANGED <<inflight, messages>>
      BY <2>1, <3>3 DEF LeasesAtHome
    <3> QED
      BY <1>2, <3>1, <3>2, <3>3, EndLeaseLeases
  <2>10. CASE AdvanceTime
    <3>1. /\ inflight' = [n \in Names |-> [m \in Ids |->
                            IF inflight[n][m] = None THEN None ELSE Sooner(inflight[n][m])]]
          /\ messages' = messages
      BY <2>10 DEF AdvanceTime
    <3> QED
      BY <2>1, <3>1 DEF LeasesAtHome
  <2>11. CASE \/ \E n \in Names, l \in MaxLengths : DeclareQueue(n, l)
              \/ \E n \in Names : ReserveNothing(n)
              \/ \E c \in Consumers : RecoverConsumer(c)
              \/ \E n \in Names : RecoverNextQueue(n)
              \/ RecoverEnd \/ Tick \/ ReleaseEnd \/ TimeoutEnd
              \/ \E e \in delayed : ReleaseDelayed(e)
              \/ UNCHANGED vars
    <3>1. UNCHANGED <<inflight, messages>>
      BY <2>11 DEF DeclareQueue, ReserveNothing, RecoverConsumer, RecoverNextQueue,
                   RecoverEnd, Tick, ReleaseEnd, TimeoutEnd, ReleaseDelayed, vars, queueVars
    <3> QED
      BY <2>1, <3>1 DEF LeasesAtHome
  <2> QED
    BY <1>2, <2>2, <2>3, <2>4, <2>5, <2>6, <2>7, <2>8, <2>9, <2>10, <2>11
       DEF Next, Client, Deliveries, Recovery, Ticker
<1>3. TypeOK /\ OneHome /\ LeasesAtHome /\ [Next]_vars => LeasesAtHome'
  BY <1>2
<1> QED
  BY <1>1, <1>3, TypeCorrect, IndexAgrees, PTL DEF Spec

-----------------------------------------------------------------------------
(* The refinement.  A step touches the life of one message at most, or     *)
(* deletes a queue.                                                        *)

LifeUnchanged == UNCHANGED <<queues, used, by_id, Held, Tries>>

LifeStep == Life!Next \/ LifeUnchanged

\* The facts every case below starts from.
Facts ==
    /\ inflight \in [Names -> [Ids -> InflightRecord \cup {None}]]
    /\ messages \in [Names -> SUBSET Ids]
    /\ attempts \in [Ids -> Nat]
    /\ by_id \in [Ids -> Names \cup {None}]
    /\ queues \subseteq Names
    /\ None \notin Names /\ None \notin InflightRecord
    /\ \A n \in Names, m \in Ids : m \in messages[n] <=> by_id[m] = n
    /\ \A m \in Ids : by_id[m] # None => by_id[m] \in queues /\ m \in used
    /\ \A n \in Names, m \in Ids : ~is_dlq(n) /\ inflight[n][m] # None => m \in messages[n]

LEMMA FactsHold ==
    ASSUME TypeOK, OneHome, LeasesAtHome
    PROVE  Facts
BY NoneAssumption DEF Facts, TypeOK, OneHome, LeasesAtHome

\* The kinds of queues, as the two modules name them.
LEMMA LifeNames ==
    ASSUME NEW n \in Names
    PROVE  /\ Life!Dlq(n) = dlq_name(n)
           /\ Life!Main(n) = origin_queue(n)
           /\ n.kind \in {"queue", "dlq"}
           /\ n.kind = "dlq" <=> is_dlq(n)
           /\ n.kind = "queue" <=> ~is_dlq(n)
BY DEF Life!Dlq, Life!Main, dlq_name, origin_queue, is_dlq, Names

\* A step that leaves alone where messages are, whether they are leased, and
\* how often those in ordinary queues have failed.
LEMMA NothingForLife ==
    ASSUME by_id' = by_id,
           \A y \in Ids : AtWork(y) =>
              /\ inflight'[by_id[y]][y] = None <=> inflight[by_id[y]][y] = None
              /\ attempts'[y] = attempts[y]
    PROVE  Held' = Held /\ Tries' = Tries
<1>1. \A y \in Ids : AtWork(y)' <=> AtWork(y)
  BY DEF AtWork
<1>2. Held' = Held
  BY <1>1 DEF Held
<1>3. Tries' = Tries
  BY <1>1 DEF Tries
<1> QED
  BY <1>2, <1>3

\* A step that touches one message.
LEMMA OneMessage ==
    ASSUME NEW m \in Ids,
           \A y \in Ids \ {m} :
              /\ by_id'[y] = by_id[y]
              /\ attempts'[y] = attempts[y]
              /\ AtWork(y) =>
                    (inflight'[by_id[y]][y] = None <=> inflight[by_id[y]][y] = None)
    PROVE  /\ m \in Held' => Held' = Held \cup {m}
           /\ m \notin Held' => Held' = Held \ {m}
           /\ Tries' = [Tries EXCEPT ![m] = Tries'[m]]
<1>1. \A y \in Ids \ {m} : AtWork(y)' <=> AtWork(y)
  BY DEF AtWork
<1>2. \A y \in Ids \ {m} : y \in Held' <=> y \in Held
  BY <1>1 DEF Held
<1>3. Held \subseteq Ids /\ Held' \subseteq Ids
  BY DEF Held
<1>4. \A y \in Ids \ {m} : Tries'[y] = Tries[y]
  BY <1>1 DEF Tries
<1>5. Tries' = [Tries EXCEPT ![m] = Tries'[m]]
  <2>1. Tries' = [y \in Ids |-> Tries'[y]] /\ Tries = [y \in Ids |-> Tries[y]]
    BY DEF Tries
  <2> HIDE DEF Tries
  <2> QED
    BY <1>4, <2>1
<1> QED
  BY <1>2, <1>3, <1>5

\* _move_to_dlq of a leased message: a dead letter, or the end of it.
LEMMA MoveToDlqLife ==
    ASSUME Facts, NEW n \in Names, NEW m \in Ids, m \in messages[n], inflight[n][m] # None,
           MoveToDlq(n, m), inflight' = [inflight EXCEPT ![n][m] = None],
           \A y \in Ids \ {m} : attempts'[y] = attempts[y], used' = used
    PROVE  LifeStep
<1>1. /\ by_id[m] = n /\ n # None /\ dlq_name(n) \in Names /\ is_dlq(dlq_name(n))
      /\ dlq_name(n) # None
  BY NameFacts DEF Facts
<1>2. \A y \in Ids \ {m} : by_id'[y] = by_id[y]
  BY DEF MoveToDlq, Facts
<1>3. \A y \in Ids \ {m} : AtWork(y) =>
         (inflight'[by_id[y]][y] = None <=> inflight[by_id[y]][y] = None)
  BY DEF Facts, AtWork
<1>4. by_id'[m] = IF is_dlq(n) THEN None ELSE dlq_name(n)
  BY DEF MoveToDlq, dead_letter, Facts
<1>5. ~AtWork(m)'
  BY <1>1, <1>4 DEF AtWork
<1>6. m \notin Held' /\ Tries'[m] = 0
  BY <1>5 DEF Held, Tries
<1>7. Held' = Held \ {m} /\ Tries' = [Tries EXCEPT ![m] = 0]
  BY <1>2, <1>3, <1>6, OneMessage
<1>8. CASE is_dlq(n)
  <2>1. by_id' = [by_id EXCEPT ![m] = None] /\ queues' = queues
    BY <1>8 DEF MoveToDlq, dead_letter
  <2>2. Life!In(m, "dlq")
    BY <1>1, <1>8, LifeNames DEF Life!In
  <2>3. Life!Leave(m)
    BY <1>7, <2>1, <2>2 DEF Life!Leave
  <2> QED
    BY <2>3 DEF LifeStep, Life!Next
<1>9. CASE ~is_dlq(n)
  <2>1. by_id' = [by_id EXCEPT ![m] = dlq_name(n)] /\ queues' = queues \cup {dlq_name(n)}
    BY <1>9 DEF MoveToDlq, dead_letter
  <2>2. m \in Held
    BY <1>1, <1>9 DEF Held, AtWork
  <2>3. Life!Dlq(by_id[m]) = dlq_name(n)
    BY <1>1, LifeNames
  <2>4. by_id' = [by_id EXCEPT ![m] = Life!Dlq(@)]
    BY <2>1, <2>3
  <2>5. Life!DeadLetter(m)
    BY <1>7, <2>1, <2>2, <2>3, <2>4 DEF Life!DeadLetter
  <2> QED
    BY <2>5 DEF LifeStep, Life!Next
<1> QED
  BY <1>8, <1>9, NameFacts

\* The end of a lease: a retry, a dead letter, or nothing if the message is
\* in another queue by now or in a dead-letter queue.
LEMMA EndLeaseLife ==
    ASSUME Facts, NEW n \in Names, NEW m \in Ids, inflight[n][m] # None,
           EndLease(n, m), used' = used
    PROVE  LifeStep
<1>1. inflight' = [inflight EXCEPT ![n][m] = None]
  BY DEF EndLease
<1>2. CASE m \notin messages[n]
  <2>1. UNCHANGED <<queues, by_id, attempts>>
    BY <1>2 DEF EndLease
  <2>2. by_id[m] # n
    BY <1>2 DEF Facts
  <2>3. \A y \in Ids : AtWork(y) =>
           (inflight'[by_id[y]][y] = None <=> inflight[by_id[y]][y] = None)
    BY <1>1, <2>2 DEF Facts, AtWork
  <2>4. Held' = Held /\ Tries' = Tries
    BY <2>1, <2>3, NothingForLife
  <2> QED
    BY <2>1, <2>4 DEF LifeStep, LifeUnchanged
<1>3. CASE m \in messages[n]
  <2>1. RetryOrDead(n, m)
    BY <1>3 DEF EndLease
  <2>2. attempts' = [attempts EXCEPT ![m] = attempts[m] + 1]
    BY <2>1 DEF RetryOrDead
  <2>3. \A y \in Ids \ {m} : attempts'[y] = attempts[y]
    BY <2>2 DEF Facts
  <2>4. CASE Exhausted(m)
    <3>1. MoveToDlq(n, m)
      BY <2>1, <2>4 DEF RetryOrDead
    <3> QED
      BY <1>1, <1>3, <2>3, <3>1, MoveToDlqLife
  <2>5. CASE ~Exhausted(m)
    <3>1. UNCHANGED <<queues, by_id>>
      BY <2>1, <2>5 DEF RetryOrDead
    <3>2. by_id[m] = n /\ n # None
      BY <1>3 DEF Facts
    <3>3. \A y \in Ids \ {m} : AtWork(y) =>
             (inflight'[by_id[y]][y] = None <=> inflight[by_id[y]][y] = None)
      BY <1>1 DEF Facts, AtWork
    <3>4. CASE is_dlq(n)
      <4>1. ~AtWork(m)
        BY <3>2, <3>4 DEF AtWork
      <4>2. Held' = Held /\ Tries' = Tries
        BY <2>3, <3>1, <3>3, <4>1, NothingForLife
      <4> QED
        BY <3>1, <4>2 DEF LifeStep, LifeUnchanged
    <3>5. CASE ~is_dlq(n)
      <4>1. AtWork(m) /\ AtWork(m)'
        BY <3>1, <3>2, <3>5 DEF AtWork
      <4>2. inflight'[n][m] = None
        BY <1>1 DEF Facts
      <4>3. m \in Held /\ m \notin Held'
        BY <3>1, <3>2, <4>1, <4>2 DEF Held
      <4>4. Tries[m] = attempts[m] /\ Tries'[m] = attempts[m] + 1
        BY <2>2, <4>1 DEF Tries, Facts
      <4>5. Held' = Held \ {m} /\ Tries' = [Tries EXCEPT ![m] = attempts[m] + 1]
        BY <2>3, <3>1, <3>3, <4>3, <4>4, OneMessage
      <4>6. Tries' = [Tries EXCEPT ![m] = @ + 1]
        BY <4>4, <4>5
      <4>7. Tries[m] + 1 < MaxAttempts[m]
        BY <2>5, <4>4, EngineAssumption DEF Exhausted, Facts
      <4>8. Life!Retry(m)
        BY <3>1, <4>3, <4>5, <4>6, <4>7 DEF Life!Retry
      <4> QED
        BY <4>8 DEF LifeStep, Life!Next
    <3> QED
      BY <3>4, <3>5
  <2> QED
    BY <2>4, <2>5
<1> QED
  BY <1>2, <1>3

\* Each action of the engine is a step of MessageLife, or leaves it alone.
LEMMA StepIsLifeStep ==
    ASSUME TypeOK, OneHome, LeasesAtHome, [Next]_vars
    PROVE  LifeStep
<1>0. Facts
  BY FactsHold
<1>1. ASSUME NEW n \in Names, NEW l \in MaxLengths, DeclareQueue(n, l)
      PROVE  LifeStep
  <2>1. /\ n \notin queues
        /\ queues' = queues \cup ({n, dlq_name(n)} \ queues)
        /\ UNCHANGED <<inflight, attempts, by_id, used>>
    BY <1>1 DEF DeclareQueue
  <2>2. Held' = Held /\ Tries' = Tries
    BY <2>1, NothingForLife
  <2>3. queues' = queues \cup {n, Life!Dlq(n)}
    BY <2>1, LifeNames
  <2>4. Life!Declare(n)
    BY <2>1, <2>2, <2>3 DEF Life!Declare
  <2> QED
    BY <2>4 DEF LifeStep, Life!Next, Life!Names, Names
<1>2. ASSUME NEW n \in Names, DeleteQueue(n)
      PROVE  LifeStep
  <2> DEFINE gone == {n, Life!Dlq(n)}
  <2>1. gone = {n} \cup (IF dead_letter(n) THEN {dlq_name(n)} ELSE {})
    BY LifeNames, NameFacts DEF dead_letter
  <2>2. gone \subseteq Names
    BY LifeNames, NameFacts
  <2>3. /\ n \in queues
        /\ queues' = queues \ gone
        /\ by_id' = [m \in Ids |-> IF \E x \in gone : m \in messages[x] THEN None ELSE by_id[m]]
        /\ inflight' = [x \in Names |-> IF x \in gone THEN NoLeases ELSE inflight[x]]
        /\ UNCHANGED <<attempts, used>>
    BY <1>2, <2>1 DEF DeleteQueue
  <2> HIDE DEF gone
  <2>4. \A m \in Ids : (\E x \in gone : m \in messages[x]) <=> by_id[m] \in gone
    BY <1>0, <2>2 DEF Facts
  <2>5. by_id' = [m \in Ids |-> IF by_id[m] \in gone THEN None ELSE by_id[m]]
    BY <2>3, <2>4
  <2>6. \A m \in Ids : AtWork(m)' <=> AtWork(m) /\ by_id[m] \notin gone
    BY <2>5 DEF AtWork
  <2>7. Held' = {m \in Held : by_id[m] \notin gone}
    <3>1. \A m \in Ids : AtWork(m)' => inflight'[by_id'[m]][m] = inflight[by_id[m]][m]
      BY <1>0, <2>3, <2>5, <2>6 DEF Facts, AtWork
    <3> QED
      BY <2>6, <3>1 DEF Held
  <2>8. Tries' = [m \in Ids |-> IF by_id[m] \in gone THEN 0 ELSE Tries[m]]
    BY <2>3, <2>6 DEF Tries
  <2>9. Life!Delete(n)
    BY <2>3, <2>5, <2>7, <2>8 DEF Life!Delete, gone
  <2> QED
    BY <2>9 DEF LifeStep, Life!Next, Life!Names, Names
<1>3. ASSUME NEW n \in Names, NEW m \in Ids, NEW t \in EnqueueDelays, Enqueue(n, m, t)
      PROVE  LifeStep
  <2>1. /\ n \in queues /\ m \notin used
        /\ used' = used \cup {m}
        /\ by_id' = [by_id EXCEPT ![m] = n]
        /\ attempts' = [attempts EXCEPT ![m] = 0]
        /\ UNCHANGED <<queues, inflight>>
    BY <1>3 DEF Enqueue
  <2>2. by_id[m] = None /\ by_id'[m] = n /\ n # None /\ attempts'[m] = 0
    BY <1>0, <2>1 DEF Facts
  <2>3. ~is_dlq(n) => inflight[n][m] = None
    BY <1>0, <2>2 DEF Facts
  <2>4. m \notin Held /\ m \notin Held'
    BY <2>1, <2>2, <2>3 DEF Held, AtWork
  <2>5. Tries[m] = 0 /\ Tries'[m] = 0
    BY <2>2 DEF Tries, AtWork
  <2>6. \A y \in Ids \ {m} : by_id'[y] = by_id[y] /\ attempts'[y] = attempts[y]
    BY <1>0, <2>1 DEF Facts
  <2>7. Held' = Held \ {m} /\ Tries' = [Tries EXCEPT ![m] = 0]
    BY <2>1, <2>4, <2>5, <2>6, OneMessage
  <2>8. Held' = Held /\ Tries' = Tries
    <3>1. Tries = [y \in Ids |-> Tries[y]]
      BY DEF Tries
    <3> QED
      BY <2>4, <2>5, <2>7, <3>1
  <2>9. Life!Publish(n, m)
    BY <2>1, <2>8 DEF Life!Publish
  <2> QED
    BY <2>9 DEF LifeStep, Life!Next, Life!Names, Names
<1>4. ASSUME NEW n \in Names, NEW m \in Ids, DlqRequeue(n, m)
      PROVE  LifeStep
  <2> DEFINE d == dlq_name(n)
             o == origin_queue(n)
  <2>1. /\ d \in Names /\ o \in Names /\ is_dlq(d) /\ ~is_dlq(o) /\ d # None /\ o # None
        /\ Life!Main(d) = o
    <3>1. d \in Names /\ o \in Names /\ is_dlq(d) /\ ~is_dlq(o)
      BY NameFacts
    <3>2. Life!Main(d) = o
      BY DEF Life!Main, origin_queue, dlq_name, Names
    <3> QED
      BY <1>0, <3>1, <3>2 DEF Facts
  <2>2. /\ o \in queues
        /\ m \in messages[d]
        /\ attempts' = [attempts EXCEPT ![m] = 0]
        /\ by_id' = by_id \/ by_id' = [by_id EXCEPT ![m] = o]
        /\ UNCHANGED <<queues, inflight, used>>
    BY <1>4 DEF DlqRequeue
  <2> HIDE DEF d, o
  <2>3. by_id[m] = d /\ ~AtWork(m) /\ Tries[m] = 0 /\ m \notin Held
    BY <1>0, <2>1, <2>2 DEF Facts, AtWork, Tries, Held
  <2>4. \A y \in Ids \ {m} : by_id'[y] = by_id[y] /\ attempts'[y] = attempts[y]
    BY <1>0, <2>2 DEF Facts
  <2>5. CASE by_id' = by_id
    <3>1. Held' = Held /\ Tries' = Tries
      BY <2>2, <2>3, <2>4, <2>5, NothingForLife
    <3> QED
      BY <2>2, <2>5, <3>1 DEF LifeStep, LifeUnchanged
  <2>6. CASE by_id' = [by_id EXCEPT ![m] = o]
    <3>1. by_id'[m] = o /\ attempts'[m] = 0 /\ d # o
      BY <1>0, <2>1, <2>2, <2>6 DEF Facts
    <3>2. inflight[o][m] = None
      BY <1>0, <2>1, <2>3, <3>1 DEF Facts
    <3>3. m \notin Held' /\ Tries'[m] = 0
      BY <2>2, <3>1, <3>2 DEF Held, Tries
    <3>4. Held' = Held \ {m} /\ Tries' = [Tries EXCEPT ![m] = 0]
      BY <2>2, <2>4, <3>3, OneMessage
    <3>5. Held' = Held /\ Tries' = Tries
      <4>1. Tries = [y \in Ids |-> Tries[y]]
        BY DEF Tries
      <4> QED
        BY <2>3, <3>4, <4>1
    <3>6. Life!In(m, "dlq")
      BY <2>1, <2>3, LifeNames DEF Life!In
    <3>7. by_id' = [by_id EXCEPT ![m] = Life!Main(@)]
      BY <2>1, <2>3, <2>6
    <3>8. Life!Requeue(m)
      BY <2>1, <2>2, <2>3, <3>5, <3>6, <3>7 DEF Life!Requeue
    <3> QED
      BY <3>8 DEF LifeStep, Life!Next
  <2> QED
    BY <2>2, <2>5, <2>6
<1>5. ASSUME NEW n \in Names, NEW c \in Consumers, Reserve(n, c)
      PROVE  LifeStep
  <2>1. PICK k \in DOMAIN ready[n] :
           /\ Deliverable(n, k)
           /\ inflight' = [inflight EXCEPT ![n][ready[n][k]] =
                               [consumer_id |-> c, left |-> VisibilityTimeout]]
    BY <1>5 DEF Reserve
  <2>2. UNCHANGED <<queues, by_id, attempts, used>>
    BY <1>5 DEF Reserve
  <2>3. PICK m \in messages[n] : m = ready[n][k] /\ inflight[n][m] = None
    BY <2>1 DEF Deliverable
  <2>4. [consumer_id |-> c, left |-> VisibilityTimeout] # None
    BY <1>0, EngineAssumption DEF Facts, InflightRecord
  <2>5. m \in Ids /\ by_id[m] = n /\ n # None
    BY <1>0, <2>3 DEF Facts
  <2>6. inflight' = [inflight EXCEPT ![n][m] =
                         [consumer_id |-> c, left |-> VisibilityTimeout]]
    BY <2>1, <2>3
  <2>7. \A y \in Ids \ {m} : AtWork(y) =>
           (inflight'[by_id[y]][y] = None <=> inflight[by_id[y]][y] = None)
    BY <1>0, <2>6 DEF Facts, AtWork
  <2>8. CASE is_dlq(n)
    <3>1. ~AtWork(m)
      BY <2>5, <2>8 DEF AtWork
    <3>2. Held' = Held /\ Tries' = Tries
      BY <2>2, <2>7, <3>1, NothingForLife
    <3> QED
      BY <2>2, <3>2 DEF LifeStep, LifeUnchanged
  <2>9. CASE ~is_dlq(n)
    <3>1. AtWork(m) /\ AtWork(m)'
      BY <2>2, <2>5, <2>9 DEF AtWork
    <3>2. inflight'[n][m] # None
      BY <1>0, <2>4, <2>5, <2>6 DEF Facts
    <3>3. m \notin Held /\ m \in Held'
      BY <2>2, <2>3, <2>5, <3>1, <3>2 DEF Held
    <3>4. Held' = Held \cup {m}
      BY <2>2, <2>5, <2>7, <3>3, OneMessage
    <3>5. Tries' = Tries
      BY <2>2 DEF Tries, AtWork
    <3>6. Life!In(m, "queue")
      BY <2>5, <2>9, LifeNames DEF Life!In
    <3>7. Life!Deliver(m)
      BY <2>2, <3>3, <3>4, <3>5, <3>6 DEF Life!Deliver
    <3> QED
      BY <2>5, <3>7 DEF LifeStep, Life!Next
  <2> QED
    BY <2>8, <2>9
<1>6. ASSUME NEW m \in Ids, Ack(m)
      PROVE  LifeStep
  <2> DEFINE n == by_id[m]
  <2>1. /\ n # None /\ inflight[n][m] # None
        /\ inflight' = [inflight EXCEPT ![n][m] = None]
        /\ by_id' = [by_id EXCEPT ![m] = None]
        /\ UNCHANGED <<queues, attempts, used>>
    BY <1>6 DEF Ack
  <2>2. n \in Names
    BY <1>0, <2>1 DEF Facts
  <2>3. \A y \in Ids \ {m} :
           /\ by_id'[y] = by_id[y]
           /\ AtWork(y) => (inflight'[by_id[y]][y] = None <=> inflight[by_id[y]][y] = None)
    BY <1>0, <2>1 DEF Facts, AtWork
  <2>4. by_id'[m] = None
    BY <1>0, <2>1 DEF Facts
  <2>5. m \notin Held' /\ Tries'[m] = 0
    BY <2>4 DEF Held, Tries, AtWork
  <2>6. Held' = Held \ {m} /\ Tries' = [Tries EXCEPT ![m] = 0]
    BY <2>1, <2>3, <2>5, OneMessage
  <2>7. m \in Held \/ Life!In(m, "dlq")
    BY <2>1, <2>2, LifeNames DEF Held, AtWork, Life!In
  <2>8. Life!Leave(m)
    BY <2>1, <2>6, <2>7 DEF Life!Leave
  <2> QED
    BY <2>8 DEF LifeStep, Life!Next
<1>7. ASSUME NEW m \in Ids, NEW requeue \in BOOLEAN, Nack(m, requeue)
      PROVE  LifeStep
  <2>1. by_id[m] \in Names /\ inflight[by_id[m]][m] # None /\ used' = used
    BY <1>0, <1>7 DEF Nack, Facts
  <2>2. \/ EndLease(by_id[m], m)
        \/ /\ m \in messages[by_id[m]]
           /\ inflight' = [inflight EXCEPT ![by_id[m]][m] = None]
           /\ MoveToDlq(by_id[m], m)
           /\ attempts' = attempts
    BY <1>7 DEF Nack
  <2> QED
    BY <1>0, <2>1, <2>2, EndLeaseLife, MoveToDlqLife
<1>8. ASSUME NEW m \in Ids, RecoverLease(m)
      PROVE  LifeStep
  <2>1. /\ cursor.queue \in Names /\ inflight[cursor.queue][m] # None
        /\ EndLease(cursor.queue, m) /\ used' = used
    BY <1>8 DEF RecoverLease, HeldHere, TypeOK, Cursor
  <2> QED
    BY <1>0, <2>1, EndLeaseLife
<1>9. ASSUME NEW e \in visibility_heap, TimeoutInflight(e)
      PROVE  LifeStep
  <2>1. e.queue \in Names /\ e.id \in Ids /\ used' = used
    BY <1>9 DEF TypeOK, HeapEntry, TimeoutInflight
  <2>2. \/ inflight[e.queue][e.id] # None /\ EndLease(e.queue, e.id)
        \/ UNCHANGED <<queues, inflight, attempts, by_id>>
    BY <1>9 DEF TimeoutInflight, queueVars
  <2>3. CASE UNCHANGED <<queues, inflight, attempts, by_id>>
    BY <2>1, <2>3, NothingForLife DEF LifeStep, LifeUnchanged
  <2> QED
    BY <1>0, <2>1, <2>2, <2>3, EndLeaseLife
<1>10. CASE AdvanceTime
  <2>1. /\ inflight' = [n \in Names |-> [m \in Ids |->
                          IF inflight[n][m] = None THEN None ELSE Sooner(inflight[n][m])]]
        /\ UNCHANGED <<queues, attempts, by_id, used>>
    BY <1>10 DEF AdvanceTime
  <2>2. \A n \in Names, m \in Ids : inflight[n][m] # None => Sooner(inflight[n][m]) # None
    <3>1. \A x \in InflightRecord : Sooner(x) \in InflightRecord
      BY DEF InflightRecord, Sooner
    <3> QED
      BY <1>0, <3>1 DEF Facts
  <2>3. \A y \in Ids : AtWork(y) =>
           (inflight'[by_id[y]][y] = None <=> inflight[by_id[y]][y] = None)
    BY <1>0, <2>1, <2>2 DEF Facts, AtWork
  <2>4. Held' = Held /\ Tries' = Tries
    BY <2>1, <2>3, NothingForLife
  <2> QED
    BY <2>1, <2>4 DEF LifeStep, LifeUnchanged
<1>11. CASE \/ \E n \in Names : ReserveNothing(n)
            \/ \E c \in Consumers : RecoverConsumer(c)
            \/ \E n \in Names : RecoverNextQueue(n)
            \/ RecoverEnd \/ Tick \/ ReleaseEnd \/ TimeoutEnd
            \/ \E e \in delayed : ReleaseDelayed(e)
            \/ UNCHANGED vars
  <2>1. UNCHANGED <<queues, inflight, attempts, by_id, used>>
    BY <1>11 DEF ReserveNothing, RecoverConsumer, RecoverNextQueue, RecoverEnd, Tick,
                 ReleaseEnd, TimeoutEnd, ReleaseDelayed, vars, queueVars
  <2> QED
    BY <2>1, NothingForLife DEF LifeStep, LifeUnchanged
<1> QED
  BY <1>1, <1>2, <1>3, <1>4, <1>5, <1>6, <1>7, <1>8, <1>9, <1>10, <1>11
     DEF Next, Client, Deliveries, Recovery, Ticker

\* The queue engine implements MessageLife: each message has one home and one
\* holder at a time, leaves only by an ack of its holder, by the deletion of
\* its queue or from a dead-letter queue, and is retried less often than
\* max_attempts, whatever order acks, nacks, timeouts, disconnects, deletions
\* and dlq_requeue come in.
THEOREM EngineImplementsLife == Spec => LifeSpec
<1>1. Init => Life!Init
  <2> SUFFICES ASSUME Init PROVE Life!Init
    OBVIOUS
  <2>1. queues = {} /\ used = {} /\ by_id = [m \in Ids |-> None]
    BY DEF Init
  <2>2. \A m \in Ids : ~AtWork(m)
    BY <2>1 DEF AtWork
  <2>3. Held = {} /\ Tries = [m \in Ids |-> 0]
    BY <2>2 DEF Held, Tries
  <2> QED
    BY <2>1, <2>3 DEF Life!Init
<1>2. TypeOK /\ OneHome /\ LeasesAtHome /\ [Next]_vars => [Life!Next]_Life!lifeVars
  BY StepIsLifeStep DEF LifeStep, LifeUnchanged, Life!lifeVars
<1> QED
  BY <1>1, <1>2, TypeCorrect, IndexAgrees, LeasesStayAtHome, PTL
     DEF Spec, LifeSpec, Life!Spec

\* AttemptsLeft, by way of MessageLife, where only Retry counts a try and only
\* while there is another one left.
THEOREM AttemptsAreLeft == Spec => []AttemptsLeft
<1> DEFINE TriesLeft == \A m \in Ids : Tries[m] < MaxAttempts[m]
<1>1. Init => TriesLeft
  BY EngineAssumption DEF Init, Tries, AtWork
<1>2. ASSUME TypeOK, OneHome, LeasesAtHome, TriesLeft, [Next]_vars
      PROVE  TriesLeft'
  <2>1. \A m \in Ids : MaxAttempts[m] \in Nat \ {0}
    BY EngineAssumption
  <2>2. Tries \in [Ids -> Nat]
    BY <1>2 DEF Tries, TypeOK
  <2>3. \/ Tries' = Tries
        \/ \E m \in Ids : Tries' = [Tries EXCEPT ![m] = 0]
        \/ \E m \in Ids : /\ Tries[m] + 1 < MaxAttempts[m]
                          /\ Tries' = [Tries EXCEPT ![m] = @ + 1]
        \/ \E gone : Tries' = [m \in Ids |-> IF by_id[m] \in gone THEN 0 ELSE Tries[m]]
    <3>1. LifeStep
      BY <1>2, StepIsLifeStep
    <3> HIDE DEF Tries
    <3> QED
      BY <3>1 DEF LifeStep, LifeUnchanged, Life!Next, Life!Declare, Life!Delete, Life!Publish,
                  Life!Deliver, Life!Leave, Life!Retry, Life!DeadLetter, Life!Requeue
  <2>4. SUFFICES ASSUME NEW m \in Ids PROVE Tries'[m] < MaxAttempts[m]
    OBVIOUS
  <2>5. Tries[m] < MaxAttempts[m]
    BY <1>2
  <2> HIDE DEF Tries
  <2> QED
    BY <2>1, <2>2, <2>3, <2>5
<1>3. TypeOK /\ OneHome /\ TriesLeft => AttemptsLeft
  <2> SUFFICES ASSUME TypeOK, OneHome, TriesLeft,
                      NEW n \in Names, NEW m \in messages[n], ~is_dlq(n)
               PROVE  attempts[m] < MaxAttempts[m]
    BY DEF AttemptsLeft
  <2>1. m \in Ids /\ by_id[m] = n /\ n # None
    BY NoneAssumption DEF TypeOK, OneHome
  <2>2. Tries[m] = attempts[m]
    BY <2>1 DEF Tries, AtWork
  <2> QED
    BY <2>1, <2>2
<1> HIDE DEF TriesLeft
<1>4. TypeOK /\ OneHome /\ LeasesAtHome /\ TriesLeft /\ [Next]_vars => TriesLeft'
  BY <1>2
<1> QED
  BY <1>1, <1>3, <1>4, TypeCorrect, IndexAgrees, LeasesStayAtHome, PTL DEF Spec

=============================================================================
