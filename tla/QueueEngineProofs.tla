------------------------- MODULE QueueEngineProofs -------------------------
(***************************************************************************)
(* Theorems about QueueEngine, for any sets of queues, messages and        *)
(* consumers, any limits, delays and priorities.                           *)
(***************************************************************************)
EXTENDS QueueEngine, FiniteSetTheorems, TLAPS

-----------------------------------------------------------------------------
(* The helpers on the ready heap.                                          *)

\* Pushing onto a ready heap gives a heap that is one longer; every entry that
\* was there is still there, the message is there, and nothing else is.
LEMMA PushReadyProperties ==
    ASSUME NEW s \in Seq(Ids), NEW m \in Ids
    PROVE  /\ PushReady(s, m) \in Seq(Ids)
           /\ Len(PushReady(s, m)) = Len(s) + 1
           /\ Elements(PushReady(s, m)) = Elements(s) \cup {m}
           /\ (/\ \A i, j \in DOMAIN s : s[i] = s[j] => i = j
               /\ m \notin Elements(s))
              => \A i, j \in DOMAIN PushReady(s, m) :
                    PushReady(s, m)[i] = PushReady(s, m)[j] => i = j
<1> DEFINE ahead == {i \in DOMAIN s : Priority[s[i]] >= Priority[m]}
           k == Cardinality(ahead)
           t == [i \in 1..(Len(s) + 1) |->
                    IF i <= k THEN s[i] ELSE IF i = k + 1 THEN m ELSE s[i - 1]]
<1>1. PushReady(s, m) = t
  BY DEF PushReady
<1>2. k \in 0..Len(s)
  <2>1. DOMAIN s = 1..Len(s) /\ Len(s) \in Nat
    OBVIOUS
  <2>2. IsFiniteSet(1..Len(s)) /\ Cardinality(1..Len(s)) = Len(s)
    BY <2>1, FS_Interval
  <2>3. ahead \subseteq 1..Len(s)
    BY <2>1
  <2>4. IsFiniteSet(ahead) /\ Cardinality(ahead) <= Len(s)
    BY <2>2, <2>3, FS_Subset
  <2>5. Cardinality(ahead) \in Nat
    BY <2>4, FS_CardinalityType
  <2> QED
    BY <2>1, <2>4, <2>5
<1> HIDE DEF k
<1>3. t \in Seq(Ids) /\ Len(t) = Len(s) + 1 /\ DOMAIN t = 1..(Len(s) + 1)
  BY <1>2
<1>4. \A i \in DOMAIN s : t[IF i <= k THEN i ELSE i + 1] = s[i]
  BY <1>2
<1>5. t[k + 1] = m
  BY <1>2
<1>6. Elements(t) = Elements(s) \cup {m}
  <2>1. Elements(t) \subseteq Elements(s) \cup {m}
    BY <1>2, <1>3 DEF Elements
  <2>2. m \in Elements(t)
    BY <1>2, <1>3, <1>5 DEF Elements
  <2>3. ASSUME NEW x \in Elements(s) PROVE x \in Elements(t)
    <3>1. PICK i \in DOMAIN s : x = s[i]
      BY DEF Elements
    <3>2. (IF i <= k THEN i ELSE i + 1) \in DOMAIN t
      BY <1>2, <1>3
    <3> QED
      BY <1>4, <3>1, <3>2 DEF Elements
  <2> QED
    BY <2>1, <2>2, <2>3
<1>7. ASSUME \A i, j \in DOMAIN s : s[i] = s[j] => i = j, m \notin Elements(s),
             NEW i \in DOMAIN t, NEW j \in DOMAIN t, t[i] = t[j]
      PROVE  i = j
  <2>1. \A x \in DOMAIN s : s[x] # m
    BY <1>7 DEF Elements
  <2> QED
    BY <1>2, <1>3, <1>7, <2>1
<1> QED
  BY <1>1, <1>3, <1>6, <1>7

\* The entries at some positions are a sequence of exactly these, in order.
LEMMA EntriesProperties ==
    ASSUME NEW S, NEW s \in Seq(S), NEW kept \in SUBSET DOMAIN s
    PROVE  /\ Entries(s, kept) \in Seq(S)
           /\ Elements(Entries(s, kept)) = {s[i] : i \in kept}
           /\ \A a, b \in DOMAIN Entries(s, kept) : a < b =>
                 \E i, j \in kept :
                    i < j /\ Entries(s, kept)[a] = s[i] /\ Entries(s, kept)[b] = s[j]
<1> DEFINE upto(i) == {j \in kept : j <= i}
           rank(i) == Cardinality(upto(i))
           n == Cardinality(kept)
           f == [i \in kept |-> rank(i)]
           at(r) == CHOOSE i \in kept : rank(i) = r
           t == [r \in 1..n |-> s[at(r)]]
<1>1. Entries(s, kept) = t
  BY DEF Entries
<1>2. kept \subseteq 1..Len(s) /\ Len(s) \in Nat
  OBVIOUS
<1>3. IsFiniteSet(kept) /\ n \in Nat
  <2>1. IsFiniteSet(1..Len(s))
    BY <1>2, FS_Interval
  <2>2. IsFiniteSet(kept)
    BY <1>2, <2>1, FS_Subset
  <2> QED
    BY <2>2, FS_CardinalityType
<1>4. ASSUME NEW i \in kept
      PROVE  IsFiniteSet(upto(i)) /\ rank(i) \in 1..n
  <2>1. upto(i) \subseteq kept
    OBVIOUS
  <2>2. IsFiniteSet(upto(i)) /\ Cardinality(upto(i)) <= n
    BY <1>3, <2>1, FS_Subset
  <2>3. Cardinality(upto(i)) \in Nat
    BY <2>2, FS_CardinalityType
  <2>4. i \in upto(i)
    BY <1>2
  <2>5. Cardinality(upto(i)) # 0
    BY <2>2, <2>4, FS_EmptySet
  <2> QED
    BY <1>3, <2>2, <2>3, <2>5
<1>ranks. \A i \in kept : IsFiniteSet(upto(i)) /\ rank(i) \in 1..n
  BY <1>4
<1>5. ASSUME NEW i \in kept, NEW j \in kept, i < j
      PROVE  rank(i) < rank(j)
  <2>1. upto(i) \subseteq upto(j) /\ j \in upto(j) /\ j \notin upto(i)
    BY <1>2, <1>5
  <2>2. IsFiniteSet(upto(j)) /\ rank(j) \in Nat /\ rank(i) \in Nat
    <3> HIDE DEF upto, rank, n
    <3> QED
      BY <1>3, <1>ranks
  <2>3. Cardinality(upto(i)) <= Cardinality(upto(j))
    BY <2>1, <2>2, FS_Subset
  <2>4. upto(i) # upto(j)
    BY <2>1
  <2>5. Cardinality(upto(i)) # Cardinality(upto(j))
    BY <2>1, <2>2, <2>4, FS_Subset
  <2> QED
    BY <2>2, <2>3, <2>5
<1>grow. \A i, j \in kept : i < j => rank(i) < rank(j)
  BY <1>5
<1> HIDE DEF rank, upto, n
<1>6. \A i, j \in kept : rank(i) = rank(j) => i = j
  <2>1. \A i \in kept : i \in Int
    BY <1>2
  <2> QED
    BY <1>3, <1>ranks, <1>grow, <2>1
<1>7. f \in Injection(kept, 1..n)
  BY <1>ranks, <1>6 DEF Injection, IsInjective
<1>8. f \in Surjection(kept, 1..n)
  <2>1. IsFiniteSet(1..n) /\ Cardinality(1..n) = n
    BY <1>3, FS_Interval
  <2>2. Cardinality(kept) = Cardinality(1..n)
    BY <2>1 DEF n
  <2> HIDE DEF f
  <2> QED
    BY <1>7, <2>1, <2>2, FS_Injection
<1>9. \A r \in 1..n : at(r) \in kept /\ rank(at(r)) = r
  <2> SUFFICES ASSUME NEW r \in 1..n
               PROVE  \E i \in kept : rank(i) = r
    OBVIOUS
  <2>1. \E i \in kept : f[i] = r
    BY <1>8 DEF Surjection
  <2> QED
    BY <2>1
<1>10. t \in Seq(S)
  <2>0. \A i \in kept : s[i] \in S
    BY <1>2
  <2>1. \A r \in 1..n : s[at(r)] \in S
    <3>1. \A r \in 1..n : at(r) \in kept
      BY <1>9
    <3> HIDE DEF at
    <3> QED
      BY <2>0, <3>1
  <2> HIDE DEF at
  <2> QED
    BY <1>3, <2>1
<1>11. Elements(t) \subseteq {s[i] : i \in kept}
  BY <1>9 DEF Elements
<1>12. ASSUME NEW i \in kept
       PROVE  s[i] \in Elements(t)
  <2>1. rank(i) \in 1..n
    BY <1>ranks
  <2>2. at(rank(i)) = i
    <3>1. at(rank(i)) \in kept /\ rank(at(rank(i))) = rank(i)
      BY <1>9, <2>1
    <3> HIDE DEF at
    <3> QED
      BY <1>6, <3>1
  <2>3. t[rank(i)] = s[i] /\ rank(i) \in DOMAIN t
    BY <2>1, <2>2
  <2> HIDE DEF t
  <2> QED
    BY <2>3 DEF Elements
<1>13. ASSUME NEW a \in 1..n, NEW b \in 1..n, a < b
       PROVE  at(a) < at(b)
  <2>1. at(a) \in kept /\ at(b) \in kept /\ rank(at(a)) = a /\ rank(at(b)) = b
    BY <1>9
  <2>2. at(b) < at(a) => rank(at(b)) < rank(at(a))
    BY <1>grow, <2>1
  <2>3. at(a) \in Int /\ at(b) \in Int /\ at(a) # at(b)
    BY <1>2, <1>13, <2>1
  <2> HIDE DEF at
  <2> QED
    BY <1>3, <1>13, <2>1, <2>2, <2>3
<1>14. DOMAIN t = 1..n /\ \A a \in 1..n : at(a) \in kept /\ t[a] = s[at(a)]
  BY <1>9
<1> HIDE DEF at, t
<1> QED
  BY <1>1, <1>10, <1>11, <1>12, <1>13, <1>14

\* Without an entry, exactly the other entries are left.
LEMMA WithoutProperties ==
    ASSUME NEW S, NEW s \in Seq(S), NEW m
    PROVE  /\ Without(s, m) \in Seq(S)
           /\ Elements(Without(s, m)) = Elements(s) \ {m}
<1> DEFINE kept == {i \in DOMAIN s : s[i] # m}
<1>1. kept \in SUBSET DOMAIN s /\ Without(s, m) = Entries(s, kept)
  BY DEF Without
<1>2. {s[i] : i \in kept} = Elements(s) \ {m}
  BY DEF Elements
<1> HIDE DEF kept
<1> QED
  BY <1>1, <1>2, EntriesProperties

\* Dropping a message from a ready heap.
LEMMA DropReadyProperties ==
    ASSUME NEW s \in Seq(Ids), NEW m \in Ids
    PROVE  /\ DropReady(s, m) \in Seq(Ids)
           /\ Elements(DropReady(s, m)) = Elements(s) \ {m}
BY WithoutProperties DEF DropReady

-----------------------------------------------------------------------------
(* Queue names.                                                            *)

\* A queue's dead-letter queue and its origin are names again; the one is a
\* DLQ, the other is not, so they differ.
LEMMA NameFacts ==
    ASSUME NEW n \in Names
    PROVE  /\ is_dlq(n) \in BOOLEAN
           /\ dlq_name(n) \in Names /\ is_dlq(dlq_name(n))
           /\ origin_queue(n) \in Names /\ ~is_dlq(origin_queue(n))
           /\ dlq_name(n) # origin_queue(n)
           /\ ~is_dlq(n) => dlq_name(n) # n /\ origin_queue(n) = n
           /\ is_dlq(n) => dlq_name(n) = n
BY DEF Names, is_dlq, dlq_name, origin_queue

-----------------------------------------------------------------------------
(* Type correctness.                                                       *)

\* Moving a message to the dead-letter queue keeps the types.
LEMMA MoveToDlqTyping ==
    ASSUME TypeOK, NEW n \in Names, NEW m \in Ids, MoveToDlq(n, m)
    PROVE  /\ queues' \subseteq Names
           /\ max_length' \in [Names -> Nat \cup {None}]
           /\ ready' \in [Names -> Seq(Ids)]
           /\ messages' \in [Names -> SUBSET Ids]
           /\ by_id' \in [Ids -> Names \cup {None}]
<1> DEFINE d == dlq_name(n)
<1>1. d \in Names
  BY NameFacts
<1>2. PushReady(ready[d], m) \in Seq(Ids)
  BY <1>1, PushReadyProperties DEF TypeOK
<1> HIDE DEF d
<1>3. CASE dead_letter(n)
  <2>1. /\ messages' = [messages EXCEPT ![n] = @ \ {m}, ![d] = @ \cup {m}]
        /\ by_id' = [by_id EXCEPT ![m] = d]
        /\ queues' = queues \cup {d}
        /\ max_length' = IF d \in queues THEN max_length
                         ELSE [max_length EXCEPT ![d] = DefaultMaxLength]
        /\ ready' = [ready EXCEPT ![d] = PushReady(@, m)]
    BY <1>3 DEF MoveToDlq, d
  <2>2. queues' \subseteq Names
    BY <1>1, <2>1 DEF TypeOK
  <2>3. max_length' \in [Names -> Nat \cup {None}]
    BY <1>1, <2>1, EngineAssumption DEF TypeOK
  <2>4. ready' \in [Names -> Seq(Ids)]
    BY <1>1, <1>2, <2>1 DEF TypeOK
  <2>5. messages' \in [Names -> SUBSET Ids]
    BY <1>1, <2>1 DEF TypeOK
  <2>6. by_id' \in [Ids -> Names \cup {None}]
    BY <1>1, <2>1 DEF TypeOK
  <2> QED
    BY <2>2, <2>3, <2>4, <2>5, <2>6
<1>4. CASE ~dead_letter(n)
  <2>1. /\ messages' = [messages EXCEPT ![n] = @ \ {m}]
        /\ by_id' = [by_id EXCEPT ![m] = None]
        /\ UNCHANGED <<queues, max_length, ready>>
    BY <1>4 DEF MoveToDlq
  <2> QED
    BY <2>1 DEF TypeOK
<1> QED
  BY <1>3, <1>4

\* Ending a lease keeps the types.
LEMMA EndLeaseTyping ==
    ASSUME TypeOK, NEW n \in Names, NEW m \in Ids, EndLease(n, m)
    PROVE  /\ queues' \subseteq Names
           /\ max_length' \in [Names -> Nat \cup {None}]
           /\ ready' \in [Names -> Seq(Ids)]
           /\ delayed_ids' \in [Names -> SUBSET Ids]
           /\ inflight' \in [Names -> [Ids -> InflightRecord \cup {None}]]
           /\ messages' \in [Names -> SUBSET Ids]
           /\ attempts' \in [Ids -> Nat]
           /\ by_id' \in [Ids -> Names \cup {None}]
           /\ delayed' \subseteq HeapEntry
<1>1. inflight' \in [Names -> [Ids -> InflightRecord \cup {None}]]
  BY DEF TypeOK, EndLease
<1>2. CASE m \notin messages[n]
  BY <1>1, <1>2 DEF TypeOK, EndLease
<1>3. CASE m \in messages[n]
  <2> DEFINE a == attempts[m] + 1
  <2>1. RetryOrDead(n, m)
    BY <1>3 DEF EndLease
  <2>2. a \in Nat /\ attempts' \in [Ids -> Nat]
    BY <2>1 DEF TypeOK, RetryOrDead
  <2>3. CASE a >= MaxAttempts[m]
    <3>1. MoveToDlq(n, m) /\ UNCHANGED <<delayed_ids, delayed>>
      BY <2>1, <2>3 DEF RetryOrDead, Exhausted
    <3> QED
      BY <1>1, <2>2, <3>1, MoveToDlqTyping DEF TypeOK
  <2>4. CASE ~(a >= MaxAttempts[m])
    <3>1. a \in 0..MaxAttempts[m]
      BY <2>2, <2>4, EngineAssumption
    <3>2. [left |-> retry_delay(a), queue |-> n, id |-> m] \in HeapEntry
      BY <3>1, RetryDelayAssumption DEF HeapEntry
    <3>3. /\ delayed_ids' = [delayed_ids EXCEPT ![n] = @ \cup {m}]
          /\ delayed' = delayed \cup {[left |-> retry_delay(a), queue |-> n, id |-> m]}
          /\ UNCHANGED <<queues, max_length, ready, messages, by_id>>
      BY <2>1, <2>4 DEF RetryOrDead, Exhausted
    <3> QED
      BY <1>1, <2>2, <3>2, <3>3 DEF TypeOK
  <2> QED
    BY <2>3, <2>4
<1> QED
  BY <1>2, <1>3

LEMMA DeclareQueueTyped ==
    ASSUME TypeOK, NEW n \in Names, NEW l \in Nat \cup {None}, DeclareQueue(n, l)
    PROVE  TypeOK'
<1>1. dlq_name(n) \in Names
  BY NameFacts
<1>2. Limit(l) \in Nat \cup {None}
  BY EngineAssumption DEF Limit
<1>3. queues' \subseteq Names
  BY <1>1 DEF DeclareQueue, TypeOK
<1>4. max_length' \in [Names -> Nat \cup {None}]
  BY <1>1, <1>2, EngineAssumption DEF DeclareQueue, TypeOK
<1> QED
  BY <1>3, <1>4 DEF DeclareQueue, TypeOK, loopVars

LEMMA EnqueueTyped ==
    ASSUME TypeOK, NEW n \in Names, NEW m \in Ids, NEW t \in Nat, Enqueue(n, m, t)
    PROVE  TypeOK'
<1>1. PushReady(ready[n], m) \in Seq(Ids)
  BY PushReadyProperties DEF TypeOK
<1>2. [left |-> t, queue |-> n, id |-> m] \in HeapEntry
  BY EngineAssumption DEF HeapEntry
<1>3. /\ used' \subseteq Ids
      /\ messages' \in [Names -> SUBSET Ids]
      /\ by_id' \in [Ids -> Names \cup {None}]
      /\ attempts' \in [Ids -> Nat]
  BY DEF Enqueue, TypeOK
<1>4. /\ ready' \in [Names -> Seq(Ids)]
      /\ delayed_ids' \in [Names -> SUBSET Ids]
      /\ delayed' \subseteq HeapEntry
  <2>1. \/ /\ delayed_ids' = [delayed_ids EXCEPT ![n] = @ \cup {m}]
           /\ delayed' = delayed \cup {[left |-> t, queue |-> n, id |-> m]}
           /\ UNCHANGED ready
        \/ /\ ready' = [ready EXCEPT ![n] = PushReady(@, m)]
           /\ UNCHANGED <<delayed_ids, delayed>>
    BY DEF Enqueue
  <2>2. ready' \in [Names -> Seq(Ids)]
    BY <1>1, <2>1 DEF TypeOK
  <2>3. delayed_ids' \in [Names -> SUBSET Ids]
    <3>1. delayed_ids \in [Names -> SUBSET Ids]
      BY DEF TypeOK
    <3>2. delayed_ids[n] \cup {m} \in SUBSET Ids
      BY <3>1
    <3> QED
      BY <2>1, <3>1, <3>2
  <2>4. delayed' \subseteq HeapEntry
    BY <1>2, <2>1 DEF TypeOK
  <2> QED
    BY <2>2, <2>3, <2>4
<1> QED
  BY <1>3, <1>4 DEF Enqueue, TypeOK, loopVars

\* No step of the engine breaks the types.
LEMMA StepTyped == TypeOK /\ [Next]_vars => TypeOK'
<1> SUFFICES ASSUME TypeOK, [Next]_vars PROVE TypeOK'
  OBVIOUS
<1>1. ASSUME NEW n \in Names, NEW l \in MaxLengths, DeclareQueue(n, l)
      PROVE  TypeOK'
  BY <1>1, DeclareQueueTyped, EngineAssumption
<1>2. ASSUME NEW n \in Names, DeleteQueue(n)
      PROVE  TypeOK'
  <2>1. NoLeases \in [Ids -> InflightRecord \cup {None}]
    BY DEF NoLeases
  <2> HIDE DEF NoLeases
  <2>2. queues' \subseteq Names
    BY <1>2 DEF DeleteQueue, TypeOK
  <2>3. /\ max_length' \in [Names -> Nat \cup {None}]
        /\ ready' \in [Names -> Seq(Ids)]
        /\ delayed_ids' \in [Names -> SUBSET Ids]
        /\ inflight' \in [Names -> [Ids -> InflightRecord \cup {None}]]
        /\ messages' \in [Names -> SUBSET Ids]
    BY <1>2, <2>1 DEF DeleteQueue, TypeOK
  <2>4. by_id' \in [Ids -> Names \cup {None}]
    BY <1>2 DEF DeleteQueue, TypeOK
  <2> QED
    BY <1>2, <2>2, <2>3, <2>4 DEF DeleteQueue, TypeOK, loopVars
<1>3. ASSUME NEW n \in Names, NEW m \in Ids, NEW t \in EnqueueDelays, Enqueue(n, m, t)
      PROVE  TypeOK'
  BY <1>3, EnqueueTyped, EngineAssumption
<1>4. ASSUME NEW n \in Names, NEW m \in Ids, DlqRequeue(n, m)
      PROVE  TypeOK'
  <2> DEFINE d == dlq_name(n)
             o == origin_queue(n)
  <2>1. d \in Names /\ o \in Names
    BY NameFacts
  <2>2. DropReady(ready[d], m) \in Seq(Ids)
    BY <2>1, DropReadyProperties DEF TypeOK
  <2>3. /\ PushReady(DropReady(ready[d], m), m) \in Seq(Ids)
        /\ PushReady(ready[o], m) \in Seq(Ids)
    BY <2>1, <2>2, PushReadyProperties DEF TypeOK
  <2>4. attempts' \in [Ids -> Nat]
    BY <1>4 DEF DlqRequeue, TypeOK
  <2>5. ready' \in [Names -> Seq(Ids)]
    <3>1. \/ ready' = [ready EXCEPT ![d] = PushReady(DropReady(@, m), m)]
          \/ ready' = [ready EXCEPT ![d] = DropReady(@, m), ![o] = PushReady(@, m)]
      BY <1>4 DEF DlqRequeue
    <3>2. d # o
      BY NameFacts
    <3> HIDE DEF d, o
    <3> QED
      BY <2>1, <2>2, <2>3, <3>1, <3>2 DEF TypeOK
  <2>6. messages' \in [Names -> SUBSET Ids] /\ by_id' \in [Ids -> Names \cup {None}]
    <3>1. \/ UNCHANGED <<messages, by_id>>
          \/ /\ messages' = [messages EXCEPT ![d] = @ \ {m}, ![o] = @ \cup {m}]
             /\ by_id' = [by_id EXCEPT ![m] = o]
      BY <1>4 DEF DlqRequeue
    <3> HIDE DEF d, o
    <3>2. messages' \in [Names -> SUBSET Ids]
      <4>1. messages \in [Names -> SUBSET Ids]
        BY DEF TypeOK
      <4>2. messages[d] \ {m} \in SUBSET Ids /\ messages[o] \cup {m} \in SUBSET Ids
        BY <2>1, <4>1
      <4>3. d # o
        BY NameFacts DEF d, o
      <4> QED
        BY <2>1, <3>1, <4>1, <4>2, <4>3
    <3>3. by_id' \in [Ids -> Names \cup {None}]
      BY <2>1, <3>1 DEF TypeOK
    <3> QED
      BY <3>2, <3>3
  <2> QED
    BY <1>4, <2>4, <2>5, <2>6 DEF DlqRequeue, TypeOK, loopVars
<1>5. ASSUME NEW n \in Names, NEW c \in Consumers, Reserve(n, c)
      PROVE  TypeOK'
  <2>1. PICK k \in DOMAIN ready[n] :
           /\ ready' = [ready EXCEPT ![n] = SubSeq(@, k + 1, Len(@))]
           /\ inflight' = [inflight EXCEPT ![n][ready[n][k]] =
                               [consumer_id |-> c, left |-> VisibilityTimeout]]
           /\ visibility_heap' = visibility_heap \cup
                 {[left |-> VisibilityTimeout, queue |-> n, id |-> ready[n][k]]}
    BY <1>5 DEF Reserve
  <2>2. ready[n] \in Seq(Ids) /\ ready[n][k] \in Ids /\ k \in Nat /\ k <= Len(ready[n])
    BY DEF TypeOK
  <2>3. [consumer_id |-> c, left |-> VisibilityTimeout] \in InflightRecord
    BY EngineAssumption DEF InflightRecord
  <2>4. [left |-> VisibilityTimeout, queue |-> n, id |-> ready[n][k]] \in HeapEntry
    BY <2>2, EngineAssumption DEF HeapEntry
  <2>5. SubSeq(ready[n], k + 1, Len(ready[n])) \in Seq(Ids)
    BY <2>2
  <2>6. ready' \in [Names -> Seq(Ids)]
    BY <2>1, <2>5 DEF TypeOK
  <2>7. inflight' \in [Names -> [Ids -> InflightRecord \cup {None}]]
    BY <2>1, <2>2, <2>3 DEF TypeOK
  <2>8. visibility_heap' \subseteq HeapEntry
    BY <2>1, <2>4 DEF TypeOK
  <2> QED
    BY <1>5, <2>6, <2>7, <2>8 DEF Reserve, TypeOK, loopVars
<1>6. ASSUME NEW n \in Names, ReserveNothing(n)
      PROVE  TypeOK'
  BY <1>6 DEF ReserveNothing, TypeOK, loopVars
<1>7. ASSUME NEW m \in Ids, Ack(m)
      PROVE  TypeOK'
  <2>1. by_id[m] \in Names
    BY <1>7 DEF Ack, TypeOK
  <2>2. Remember(recent_acks, m) \in Seq(Ids)
    <3>1. Append(recent_acks, m) \in Seq(Ids)
      BY DEF TypeOK
    <3>2. \A t \in Seq(Ids) : Len(t) > RecentAckLimit =>
             SubSeq(t, Len(t) - RecentAckLimit + 1, Len(t)) \in Seq(Ids)
      BY EngineAssumption
    <3> QED
      BY <3>1, <3>2 DEF Remember
  <2>3. /\ inflight' \in [Names -> [Ids -> InflightRecord \cup {None}]]
        /\ messages' \in [Names -> SUBSET Ids]
        /\ by_id' \in [Ids -> Names \cup {None}]
    BY <1>7, <2>1 DEF Ack, TypeOK
  <2> QED
    BY <1>7, <2>2, <2>3 DEF Ack, TypeOK, loopVars
<1>8. ASSUME NEW m \in Ids, NEW requeue \in BOOLEAN, Nack(m, requeue)
      PROVE  TypeOK'
  <2>1. by_id[m] \in Names
    BY <1>8 DEF Nack, TypeOK
  <2>2. CASE EndLease(by_id[m], m)
    BY <1>8, <2>1, <2>2, EndLeaseTyping DEF Nack, TypeOK, loopVars
  <2>3. CASE /\ inflight' = [inflight EXCEPT ![by_id[m]][m] = None]
             /\ MoveToDlq(by_id[m], m)
             /\ UNCHANGED <<attempts, delayed_ids, delayed>>
    <3>1. inflight' \in [Names -> [Ids -> InflightRecord \cup {None}]]
      BY <2>1, <2>3 DEF TypeOK
    <3> QED
      BY <1>8, <2>1, <2>3, <3>1, MoveToDlqTyping DEF Nack, TypeOK, loopVars
  <2> QED
    BY <1>8, <2>2, <2>3 DEF Nack
<1>9. ASSUME NEW c \in Consumers, RecoverConsumer(c)
      PROVE  TypeOK'
  <2>1. [consumer_id |-> c, queue |-> None, todo |-> queues, keys |-> queues] \in Cursor
    BY DEF Cursor, TypeOK
  <2>2. cursor' \in Cursor /\ running' = "recover"
    BY <1>9, <2>1 DEF RecoverConsumer
  <2> QED
    BY <1>9, <2>2, NoneAssumption DEF RecoverConsumer, TypeOK, queueVars, Phases
<1>10. ASSUME NEW m \in Ids, RecoverLease(m)
       PROVE  TypeOK'
  <2>1. cursor.queue \in Names
    BY <1>10 DEF RecoverLease, HeldHere, TypeOK, Cursor
  <2>2. EndLease(cursor.queue, m)
    BY <1>10 DEF RecoverLease
  <2> QED
    BY <1>10, <2>1, <2>2, EndLeaseTyping DEF RecoverLease, TypeOK, loopVars
<1>11. ASSUME NEW n \in Names, RecoverNextQueue(n)
       PROVE  TypeOK'
  <2>1. cursor' \in Cursor
    BY <1>11 DEF RecoverNextQueue, TypeOK, Cursor
  <2> QED
    BY <1>11, <2>1, NoneAssumption DEF RecoverNextQueue, TypeOK, queueVars
<1>12. CASE RecoverEnd
  BY <1>12 DEF RecoverEnd, TypeOK, queueVars, Phases
<1>13. CASE Tick
  BY <1>13 DEF Tick, TypeOK, queueVars, Phases, Idle
<1>14. ASSUME NEW e \in delayed, ReleaseDelayed(e)
       PROVE  TypeOK'
  <2>1. e.queue \in Names /\ e.id \in Ids
    BY DEF TypeOK, HeapEntry
  <2>2. PushReady(ready[e.queue], e.id) \in Seq(Ids)
    BY <2>1, PushReadyProperties DEF TypeOK
  <2>3. /\ delayed' \subseteq HeapEntry
        /\ delayed_ids' \in [Names -> SUBSET Ids]
        /\ ready' \in [Names -> Seq(Ids)]
    <3>1. /\ delayed' = delayed \ {e}
          /\ \/ delayed_ids' = [delayed_ids EXCEPT ![e.queue] = @ \ {e.id}]
             \/ UNCHANGED delayed_ids
          /\ \/ ready' = [ready EXCEPT ![e.queue] = PushReady(@, e.id)]
             \/ UNCHANGED ready
      BY <1>14 DEF ReleaseDelayed
    <3> QED
      BY <2>1, <2>2, <3>1 DEF TypeOK
  <2> QED
    BY <1>14, <2>3 DEF ReleaseDelayed, TypeOK, loopVars
<1>15. CASE ReleaseEnd
  BY <1>15 DEF ReleaseEnd, TypeOK, queueVars, Phases
<1>16. ASSUME NEW e \in visibility_heap, TimeoutInflight(e)
       PROVE  TypeOK'
  <2>1. e.queue \in Names /\ e.id \in Ids
    BY DEF TypeOK, HeapEntry
  <2>2. CASE EndLease(e.queue, e.id)
    BY <1>16, <2>1, <2>2, EndLeaseTyping DEF TimeoutInflight, TypeOK, loopVars
  <2>3. CASE UNCHANGED <<queueVars, attempts, by_id, delayed>>
    BY <1>16, <2>3 DEF TimeoutInflight, TypeOK, loopVars, queueVars
  <2> QED
    BY <1>16, <2>2, <2>3 DEF TimeoutInflight
<1>17. CASE TimeoutEnd
  BY <1>17 DEF TimeoutEnd, TypeOK, queueVars, Phases
<1>18. CASE AdvanceTime
  <2>1. \A e \in HeapEntry : Sooner(e) \in HeapEntry
    BY DEF Sooner, HeapEntry
  <2>2. \A r \in InflightRecord : Sooner(r) \in InflightRecord
    BY DEF Sooner, InflightRecord
  <2>3. delayed' \subseteq HeapEntry /\ visibility_heap' \subseteq HeapEntry
    BY <1>18, <2>1 DEF AdvanceTime, TypeOK
  <2>4. inflight' \in [Names -> [Ids -> InflightRecord \cup {None}]]
    BY <1>18, <2>2 DEF AdvanceTime, TypeOK
  <2> QED
    BY <1>18, <2>3, <2>4 DEF AdvanceTime, TypeOK, loopVars
<1>19. CASE UNCHANGED vars
  BY <1>19 DEF vars, TypeOK, queueVars, loopVars
<1> QED
  BY <1>1, <1>2, <1>3, <1>4, <1>5, <1>6, <1>7, <1>8, <1>9, <1>10, <1>11, <1>12, <1>13,
     <1>14, <1>15, <1>16, <1>17, <1>18, <1>19
     DEF Next, Client, Deliveries, Recovery, Ticker

\* Every variable keeps the type its dataclass declares.
THEOREM TypeCorrect == Spec => []TypeOK
<1>1. Init => TypeOK
  BY NoneAssumption DEF Init, TypeOK, NoLeases, Phases
<1> QED
  BY <1>1, StepTyped, PTL DEF Spec

-----------------------------------------------------------------------------
(* Where a message is: OneHome, GoneForGood and NoSilentLoss.              *)
(*                                                                         *)
(* However many actions touch `messages' and `_by_id', a step changes the  *)
(* two in one of five ways only.                                           *)

HomesKept == UNCHANGED <<messages, by_id, used>> /\ queues \subseteq queues'

Arrives(n, m) ==
    /\ m \notin used
    /\ n \in queues /\ UNCHANGED queues
    /\ used' = used \cup {m}
    /\ messages' = [messages EXCEPT ![n] = @ \cup {m}]
    /\ by_id' = [by_id EXCEPT ![m] = n]

Moves(n, m, d) ==
    /\ m \in messages[n] /\ d # n
    /\ d \in queues' /\ queues \subseteq queues' /\ UNCHANGED used
    /\ messages' = [messages EXCEPT ![n] = @ \ {m}, ![d] = @ \cup {m}]
    /\ by_id' = [by_id EXCEPT ![m] = d]

\* The lease of m in n ends in this step.
Ends(n, m) == inflight[n][m] # None /\ inflight'[n][m] = None

Leaves(n, m) ==
    /\ m \in messages[n]
    /\ Ends(n, m)
    /\ \/ is_dlq(n) /\ recent_acks' = recent_acks
       \/ /\ m \notin Elements(recent_acks) /\ recent_acks' = Remember(recent_acks, m)
          /\ attempts' = attempts
    /\ UNCHANGED <<queues, used>>
    /\ messages' = [messages EXCEPT ![n] = @ \ {m}]
    /\ by_id' = [by_id EXCEPT ![m] = None]

Deleted(gone) ==
    /\ queues' = queues \ gone /\ UNCHANGED used
    /\ messages' = [x \in Names |-> IF x \in gone THEN {} ELSE messages[x]]
    /\ by_id' = [m \in Ids |-> IF \E x \in gone : m \in messages[x] THEN None ELSE by_id[m]]

HomeStep ==
    \/ HomesKept
    \/ \E n \in Names, m \in Ids : Arrives(n, m)
    \/ \E n \in Names, d \in Names, m \in Ids : Moves(n, m, d)
    \/ \E n \in Names, m \in Ids : Leaves(n, m)
    \/ \E gone \in SUBSET Names : Deleted(gone)

\* _move_to_dlq moves the message, or drops it if it is in a DLQ.
LEMMA MoveToDlqHome ==
    ASSUME TypeOK, NEW n \in Names, NEW m \in Ids, m \in messages[n], MoveToDlq(n, m),
           Ends(n, m), UNCHANGED <<used, recent_acks>>
    PROVE  HomeStep
<1>1. CASE dead_letter(n)
  <2>1. dlq_name(n) \in Names /\ dlq_name(n) # n
    BY <1>1, NameFacts DEF dead_letter
  <2>2. Moves(n, m, dlq_name(n))
    BY <1>1, <2>1 DEF MoveToDlq, Moves
  <2> QED
    BY <2>1, <2>2 DEF HomeStep
<1>2. CASE ~dead_letter(n)
  <2>1. Leaves(n, m)
    BY <1>2 DEF MoveToDlq, Leaves, dead_letter
  <2> QED
    BY <2>1 DEF HomeStep
<1> QED
  BY <1>1, <1>2

\* The end of a lease moves or drops the message, or leaves it where it is.
LEMMA EndLeaseHome ==
    ASSUME TypeOK, NEW n \in Names, NEW m \in Ids, EndLease(n, m), inflight[n][m] # None,
           UNCHANGED <<used, recent_acks>>
    PROVE  HomeStep
<1>0. Ends(n, m)
  BY DEF EndLease, Ends, TypeOK
<1>1. CASE m \in messages[n] /\ Exhausted(m)
  <2>1. MoveToDlq(n, m)
    BY <1>1 DEF EndLease, RetryOrDead
  <2> QED
    BY <1>0, <1>1, <2>1, MoveToDlqHome
<1>2. CASE ~(m \in messages[n] /\ Exhausted(m))
  <2>1. HomesKept
    BY <1>2 DEF EndLease, RetryOrDead, HomesKept
  <2> QED
    BY <2>1 DEF HomeStep
<1> QED
  BY <1>1, <1>2

\* Every step changes the index in one of the five ways.  Under OneHome a
\* delivery that ack finds through _by_id is of a message in that queue.
LEMMA StepIsHomeStep ==
    ASSUME TypeOK, OneHome, [Next]_vars
    PROVE  HomeStep
<1>1. ASSUME NEW n \in Names, NEW l \in MaxLengths, DeclareQueue(n, l)
      PROVE  HomeStep
  BY <1>1 DEF DeclareQueue, HomeStep, HomesKept
<1>2. ASSUME NEW n \in Names, DeleteQueue(n)
      PROVE  HomeStep
  <2> DEFINE gone == {n} \cup (IF dead_letter(n) THEN {dlq_name(n)} ELSE {})
  <2>1. gone \in SUBSET Names
    BY NameFacts
  <2>2. Deleted(gone)
    BY <1>2 DEF DeleteQueue, Deleted
  <2> QED
    BY <2>1, <2>2 DEF HomeStep
<1>3. ASSUME NEW n \in Names, NEW m \in Ids, NEW t \in EnqueueDelays, Enqueue(n, m, t)
      PROVE  HomeStep
  <2>1. Arrives(n, m)
    BY <1>3 DEF Enqueue, Arrives
  <2> QED
    BY <2>1 DEF HomeStep
<1>4. ASSUME NEW n \in Names, NEW m \in Ids, DlqRequeue(n, m)
      PROVE  HomeStep
  <2>1. dlq_name(n) \in Names /\ origin_queue(n) \in Names /\ dlq_name(n) # origin_queue(n)
    BY NameFacts
  <2>2. HomesKept \/ Moves(dlq_name(n), m, origin_queue(n))
    BY <1>4, <2>1 DEF DlqRequeue, HomesKept, Moves
  <2> QED
    BY <2>1, <2>2 DEF HomeStep
<1>5. ASSUME NEW m \in Ids, Ack(m)
      PROVE  HomeStep
  <2>1. by_id[m] \in Names
    BY <1>5 DEF Ack, TypeOK
  <2>2. m \in messages[by_id[m]]
    BY <2>1 DEF OneHome
  <2>3. Leaves(by_id[m], m)
    BY <1>5, <2>1, <2>2 DEF Ack, Leaves, Ends, TypeOK
  <2> QED
    BY <2>1, <2>3 DEF HomeStep
<1>6. ASSUME NEW m \in Ids, NEW requeue \in BOOLEAN, Nack(m, requeue)
      PROVE  HomeStep
  <2>1. by_id[m] \in Names /\ inflight[by_id[m]][m] # None /\ UNCHANGED <<used, recent_acks>>
    BY <1>6 DEF Nack, TypeOK
  <2>2. \/ EndLease(by_id[m], m)
        \/ m \in messages[by_id[m]] /\ MoveToDlq(by_id[m], m) /\ Ends(by_id[m], m)
    BY <1>6, <2>1 DEF Nack, Ends, TypeOK
  <2> QED
    BY <2>1, <2>2, EndLeaseHome, MoveToDlqHome
<1>7. ASSUME NEW m \in Ids, RecoverLease(m)
      PROVE  HomeStep
  <2>1. cursor.queue \in Names
    BY <1>7 DEF RecoverLease, HeldHere, TypeOK, Cursor
  <2>2. EndLease(cursor.queue, m) /\ inflight[cursor.queue][m] # None
    BY <1>7 DEF RecoverLease, HeldHere
  <2> QED
    BY <1>7, <2>1, <2>2, EndLeaseHome DEF RecoverLease
<1>8. ASSUME NEW e \in visibility_heap, TimeoutInflight(e)
      PROVE  HomeStep
  <2>1. e.queue \in Names /\ e.id \in Ids /\ UNCHANGED <<used, recent_acks>>
    BY <1>8 DEF TypeOK, HeapEntry, TimeoutInflight
  <2>2. (EndLease(e.queue, e.id) /\ inflight[e.queue][e.id] # None) \/ HomesKept
    BY <1>8 DEF TimeoutInflight, HomesKept, queueVars
  <2> QED
    BY <2>1, <2>2, EndLeaseHome DEF HomeStep
<1>9. CASE \/ \E n \in Names, c \in Consumers : Reserve(n, c)
           \/ \E n \in Names : ReserveNothing(n)
           \/ \E c \in Consumers : RecoverConsumer(c)
           \/ \E n \in Names : RecoverNextQueue(n)
           \/ RecoverEnd \/ Tick \/ ReleaseEnd \/ TimeoutEnd \/ AdvanceTime
           \/ \E e \in delayed : ReleaseDelayed(e)
           \/ UNCHANGED vars
  <2>1. HomesKept
    BY <1>9 DEF HomesKept, Reserve, ReserveNothing, RecoverConsumer, RecoverNextQueue,
                RecoverEnd, Tick, ReleaseEnd, TimeoutEnd, AdvanceTime, ReleaseDelayed,
                vars, queueVars
  <2> QED
    BY <2>1 DEF HomeStep
<1> QED
  BY <1>1, <1>2, <1>3, <1>4, <1>5, <1>6, <1>7, <1>8, <1>9
     DEF Next, Client, Deliveries, Recovery, Ticker

\* None of the five ways puts the index and the queues at odds.
LEMMA HomeStepKeeps ==
    ASSUME TypeOK, OneHome, HomeStep
    PROVE  OneHome'
<1>1. /\ messages \in [Names -> SUBSET Ids] /\ by_id \in [Ids -> Names \cup {None}]
      /\ used \subseteq Ids
      /\ \A n \in Names, m \in Ids : m \in messages[n] <=> by_id[m] = n
      /\ \A m \in Ids : by_id[m] # None => by_id[m] \in queues /\ m \in used
      /\ None \notin Names
  BY NoneAssumption DEF TypeOK, OneHome
<1>2. SUFFICES /\ \A n \in Names, m \in Ids : m \in messages'[n] <=> by_id'[m] = n
               /\ \A m \in Ids : by_id'[m] # None => by_id'[m] \in queues' /\ m \in used'
  BY DEF OneHome
<1>3. CASE HomesKept
  BY <1>1, <1>3 DEF HomesKept
<1>4. ASSUME NEW n \in Names, NEW m \in Ids, Arrives(n, m)
      PROVE  /\ \A x \in Names, y \in Ids : y \in messages'[x] <=> by_id'[y] = x
             /\ \A y \in Ids : by_id'[y] # None => by_id'[y] \in queues' /\ y \in used'
  BY <1>1, <1>4 DEF Arrives
<1>5. ASSUME NEW n \in Names, NEW d \in Names, NEW m \in Ids, Moves(n, m, d)
      PROVE  /\ \A x \in Names, y \in Ids : y \in messages'[x] <=> by_id'[y] = x
             /\ \A y \in Ids : by_id'[y] # None => by_id'[y] \in queues' /\ y \in used'
  BY <1>1, <1>5 DEF Moves
<1>6. ASSUME NEW n \in Names, NEW m \in Ids, Leaves(n, m)
      PROVE  /\ \A x \in Names, y \in Ids : y \in messages'[x] <=> by_id'[y] = x
             /\ \A y \in Ids : by_id'[y] # None => by_id'[y] \in queues' /\ y \in used'
  BY <1>1, <1>6 DEF Leaves
<1>7. ASSUME NEW gone \in SUBSET Names, Deleted(gone)
      PROVE  /\ \A x \in Names, y \in Ids : y \in messages'[x] <=> by_id'[y] = x
             /\ \A y \in Ids : by_id'[y] # None => by_id'[y] \in queues' /\ y \in used'
  BY <1>1, <1>7 DEF Deleted
<1> QED
  BY <1>2, <1>3, <1>4, <1>5, <1>6, <1>7 DEF HomeStep

\* OneHome for any number of queues, messages and consumers: _by_id, through
\* which ack, nack and inflight_consumer find a delivery, is never at odds
\* with the queues' own dictionaries.
THEOREM IndexAgrees == Spec => []OneHome
<1>1. Init => OneHome
  BY NoneAssumption DEF Init, OneHome
<1>2. TypeOK /\ OneHome /\ [Next]_vars => OneHome'
  BY StepIsHomeStep, HomeStepKeeps
<1> QED
  BY <1>1, <1>2, TypeCorrect, PTL DEF Spec

\* GoneForGood: a message that is settled is never brought back.
THEOREM SettledStaysSettled == Spec => GoneForGood
<1>1. ASSUME TypeOK, OneHome, [Next]_vars
      PROVE  \A m \in used : by_id[m] = None => by_id'[m] = None
  <2> SUFFICES ASSUME NEW m \in used, by_id[m] = None PROVE by_id'[m] = None
    OBVIOUS
  <2>1. m \in Ids /\ by_id \in [Ids -> Names \cup {None}] /\ None \notin Names
    BY <1>1, NoneAssumption DEF TypeOK
  <2>2. \A n \in Names : m \notin messages[n]
    BY <1>1, <2>1 DEF OneHome
  <2>3. HomeStep
    BY <1>1, StepIsHomeStep
  <2> QED
    BY <2>1, <2>2, <2>3 DEF HomeStep, HomesKept, Arrives, Moves, Leaves, Deleted
<1>2. TypeOK /\ OneHome /\ [Next]_vars =>
         [\A m \in used : by_id[m] = None => by_id'[m] = None]_vars
  BY <1>1
<1> QED
  BY <1>2, TypeCorrect, IndexAgrees, PTL DEF Spec, GoneForGood

\* NoSilentLoss: the only ways out of the broker are the deletion of the queue
\* and the end of a delivery, by an ack that is remembered or, in a DLQ, by
\* another failure.
THEOREM NothingLostSilently == Spec => NoSilentLoss
<1> DEFINE Accounted ==
      \A m \in Ids :
          by_id[m] # None /\ by_id'[m] = None =>
            \/ by_id[m] \notin queues'
            \/ /\ inflight[by_id[m]][m] # None
               /\ inflight'[by_id[m]][m] = None
               /\ \/ is_dlq(by_id[m]) /\ recent_acks' = recent_acks
                  \/ /\ m \notin Elements(recent_acks)
                     /\ recent_acks' = Remember(recent_acks, m)
                     /\ attempts' = attempts
<1>1. ASSUME TypeOK, OneHome, [Next]_vars
      PROVE  Accounted
  <2> SUFFICES ASSUME NEW m \in Ids, by_id[m] # None, by_id'[m] = None
               PROVE  \/ by_id[m] \notin queues'
                      \/ /\ inflight[by_id[m]][m] # None
                         /\ inflight'[by_id[m]][m] = None
                         /\ \/ is_dlq(by_id[m]) /\ recent_acks' = recent_acks
                            \/ /\ m \notin Elements(recent_acks)
                               /\ recent_acks' = Remember(recent_acks, m)
                               /\ attempts' = attempts
    OBVIOUS
  <2>1. /\ by_id \in [Ids -> Names \cup {None}] /\ None \notin Names /\ by_id[m] \in Names
        /\ \A n \in Names, y \in Ids : y \in messages[n] <=> by_id[y] = n
    BY <1>1, NoneAssumption DEF TypeOK, OneHome
  <2>2. ~HomesKept
    BY DEF HomesKept
  <2>3. \A n \in Names, y \in Ids : ~Arrives(n, y)
    BY <2>1 DEF Arrives
  <2>4. \A n \in Names, d \in Names, y \in Ids : ~Moves(n, y, d)
    BY <2>1 DEF Moves
  <2>5. ASSUME NEW n \in Names, NEW y \in Ids, Leaves(n, y)
        PROVE  n = by_id[m] /\ y = m
    BY <2>1, <2>5 DEF Leaves
  <2>6. ASSUME NEW gone \in SUBSET Names, Deleted(gone)
        PROVE  by_id[m] \notin queues'
    BY <2>1, <2>6 DEF Deleted
  <2>7. HomeStep
    BY <1>1, StepIsHomeStep
  <2>8. (\E n \in Names, y \in Ids : Leaves(n, y)) => Leaves(by_id[m], m)
    BY <2>5
  <2> QED
    BY <2>2, <2>3, <2>4, <2>6, <2>7, <2>8 DEF HomeStep, Leaves, Ends
<1> HIDE DEF Accounted
<1>2. TypeOK /\ OneHome /\ [Next]_vars => [Accounted]_vars
  BY <1>1
<1> QED
  BY <1>2, TypeCorrect, IndexAgrees, PTL DEF Spec, NoSilentLoss, Accounted

-----------------------------------------------------------------------------
(* Where a message waits: NotStranded, OnePlace and WithinLimit.           *)

Distinct(s) == \A i, j \in DOMAIN s : s[i] = s[j] => i = j

\* A stored message is ready, leased or delayed.
Stocked(n, m) ==
    m \in messages[n] => \/ m \in Elements(ready[n])
                         \/ inflight[n][m] # None
                         \/ m \in delayed_ids[n]

\* A lease and a delay have an entry in their heap.
LeaseWakes(n, m) ==
    inflight[n][m] # None =>
        [left |-> inflight[n][m].left, queue |-> n, id |-> m] \in visibility_heap

DelayWakes(n, m) == m \in delayed_ids[n] => \E e \in delayed : e.queue = n /\ e.id = m

\* A queue that does not exist has no leases and no delays.
GoneIsEmpty(n, m) == n \notin queues => inflight[n][m] = None /\ m \notin delayed_ids[n]

\* In an ordinary queue nothing is left of a message that has gone, and the
\* three places are apart.
OnlyHere(n, m) ==
    ~is_dlq(n) =>
        /\ \/ m \in Elements(ready[n])
           \/ inflight[n][m] # None
           \/ m \in delayed_ids[n]
           => m \in messages[n]
        /\ m \in Elements(ready[n]) => inflight[n][m] = None
        /\ m \in delayed_ids[n] => inflight[n][m] = None /\ m \notin Elements(ready[n])

PlacedAt(n, m) ==
    /\ Stocked(n, m) /\ LeaseWakes(n, m) /\ DelayWakes(n, m)
    /\ GoneIsEmpty(n, m) /\ OnlyHere(n, m)

\* The inductive invariant.
Placed ==
    /\ \A n \in Names, m \in Ids : PlacedAt(n, m)
    /\ \A n \in Names : ~is_dlq(n) => Distinct(ready[n])

\* What is left of a ready heap after its first k entries are popped.
LEMMA RestProperties ==
    ASSUME NEW s \in Seq(Ids), NEW k \in DOMAIN s
    PROVE  /\ SubSeq(s, k + 1, Len(s)) \in Seq(Ids)
           /\ Elements(SubSeq(s, k + 1, Len(s))) \subseteq Elements(s)
           /\ \A m \in Elements(s) :
                 \/ m \in Elements(SubSeq(s, k + 1, Len(s)))
                 \/ \E j \in 1..k : m = s[j]
           /\ Distinct(s) => /\ Distinct(SubSeq(s, k + 1, Len(s)))
                             /\ s[k] \notin Elements(SubSeq(s, k + 1, Len(s)))
<1> DEFINE t == SubSeq(s, k + 1, Len(s))
<1>1. k \in 1..Len(s) /\ Len(s) \in Nat /\ DOMAIN s = 1..Len(s)
  OBVIOUS
<1>2. t \in Seq(Ids) /\ Len(t) = Len(s) - k /\ DOMAIN t = 1..(Len(s) - k)
  BY <1>1
<1>3. \A i \in DOMAIN t : t[i] = s[k + i]
  BY <1>1, <1>2
<1> HIDE DEF t
<1>4. Elements(t) \subseteq Elements(s)
  BY <1>1, <1>2, <1>3 DEF Elements
<1>5. ASSUME NEW m \in Elements(s)
      PROVE  m \in Elements(t) \/ \E j \in 1..k : m = s[j]
  <2>1. PICK i \in DOMAIN s : m = s[i]
    BY DEF Elements
  <2>2. CASE i <= k
    BY <1>1, <2>1, <2>2
  <2>3. CASE ~(i <= k)
    <3>1. i - k \in DOMAIN t /\ t[i - k] = s[i]
      BY <1>1, <1>2, <1>3, <2>3
    <3> QED
      BY <2>1, <3>1 DEF Elements
  <2> QED
    BY <2>2, <2>3
<1>6. ASSUME Distinct(s)
      PROVE  Distinct(t) /\ s[k] \notin Elements(t)
  <2>1. ASSUME NEW i \in DOMAIN t, NEW j \in DOMAIN t, t[i] = t[j]
        PROVE  i = j
    <3>1. k + i \in DOMAIN s /\ k + j \in DOMAIN s
      BY <1>1, <1>2
    <3>2. s[k + i] = s[k + j]
      BY <1>3, <2>1
    <3>3. k + i = k + j
      BY <1>6, <3>1, <3>2 DEF Distinct
    <3> QED
      BY <1>1, <1>2, <3>3
  <2>2. ASSUME NEW i \in DOMAIN t
        PROVE  t[i] # s[k]
    <3>1. k + i \in DOMAIN s /\ k + i # k
      BY <1>1, <1>2
    <3> QED
      BY <1>1, <1>3, <1>6, <3>1 DEF Distinct
  <2> QED
    BY <2>1, <2>2 DEF Distinct, Elements
<1> QED
  BY <1>2, <1>4, <1>5, <1>6 DEF t


\* The lease of m in n ends, and of the visibility heap at most entries of
\* that lease are popped.
LeaseEnds(n, m) ==
    /\ inflight' = [inflight EXCEPT ![n][m] = None]
    /\ \A e \in visibility_heap : e \in visibility_heap' \/ (e.queue = n /\ e.id = m)

\* The end of a lease as the places see it.
LEMMA LeaseEndsView ==
    ASSUME TypeOK, NEW n \in Names, NEW m \in Ids, LeaseEnds(n, m)
    PROVE  \A x \in Names, y \in Ids :
              /\ inflight'[x][y] = IF x = n /\ y = m THEN None ELSE inflight[x][y]
              /\ LeaseWakes(x, y) => LeaseWakes(x, y)'
<1> SUFFICES ASSUME NEW x \in Names, NEW y \in Ids
             PROVE  /\ inflight'[x][y] = IF x = n /\ y = m THEN None ELSE inflight[x][y]
                    /\ LeaseWakes(x, y) => LeaseWakes(x, y)'
  OBVIOUS
<1>1. inflight'[x][y] = IF x = n /\ y = m THEN None ELSE inflight[x][y]
  BY DEF LeaseEnds, TypeOK
<1>2. ASSUME LeaseWakes(x, y), inflight'[x][y] # None
      PROVE  [left |-> inflight'[x][y].left, queue |-> x, id |-> y] \in visibility_heap'
  <2>1. inflight'[x][y] = inflight[x][y] /\ ~(x = n /\ y = m)
    BY <1>1, <1>2
  <2>2. [left |-> inflight[x][y].left, queue |-> x, id |-> y] \in visibility_heap
    BY <1>2, <2>1 DEF LeaseWakes
  <2> QED
    BY <2>1, <2>2 DEF LeaseEnds
<1> QED
  BY <1>1, <1>2 DEF LeaseWakes

\* A message whose lease ends may move to the dead-letter queue.
LEMMA MoveToDlqPlaced ==
    ASSUME TypeOK, OneHome, Placed, NEW n \in Names, NEW m \in Ids,
           inflight[n][m] # None, m \in messages[n],
           MoveToDlq(n, m), LeaseEnds(n, m), UNCHANGED <<delayed_ids, delayed>>
    PROVE  Placed'
<1> DEFINE d == dlq_name(n)
<1>1. d \in Names /\ is_dlq(d) /\ is_dlq(n) \in BOOLEAN /\ (~is_dlq(n) => d # n)
  BY NameFacts
<1>2. queues \subseteq queues'
  BY DEF MoveToDlq
<1>3. /\ PushReady(ready[d], m) \in Seq(Ids)
      /\ Elements(PushReady(ready[d], m)) = Elements(ready[d]) \cup {m}
  BY <1>1, PushReadyProperties DEF TypeOK
<1>4. ASSUME NEW x \in Names
      PROVE  /\ Elements(ready'[x]) = IF dead_letter(n) /\ x = d THEN Elements(ready[x]) \cup {m}
                                      ELSE Elements(ready[x])
             /\ ~is_dlq(x) => ready'[x] = ready[x]
             /\ messages'[x] = IF x = n /\ (dead_letter(n) => x # d) THEN messages[x] \ {m}
                               ELSE IF dead_letter(n) /\ x = d THEN messages[x] \cup {m}
                               ELSE messages[x]
  <2>1. CASE dead_letter(n)
    <3>1. /\ messages' = [messages EXCEPT ![n] = @ \ {m}, ![d] = @ \cup {m}]
          /\ ready' = [ready EXCEPT ![d] = PushReady(@, m)]
          /\ n # d
      BY <1>1, <2>1 DEF MoveToDlq, dead_letter
    <3> HIDE DEF d
    <3>2. ready'[x] = IF x = d THEN PushReady(ready[d], m) ELSE ready[x]
      BY <1>1, <3>1 DEF TypeOK
    <3> QED
      BY <1>1, <1>3, <2>1, <3>1, <3>2 DEF TypeOK
  <2>2. CASE ~dead_letter(n)
    BY <2>2 DEF MoveToDlq, TypeOK
  <2> QED
    BY <2>1, <2>2
<1> HIDE DEF d
<1>5. ASSUME NEW x \in Names, NEW y \in Ids
      PROVE  PlacedAt(x, y)'
  <2>1. PlacedAt(x, y)
    BY DEF Placed
  <2>2. /\ inflight'[x][y] = IF x = n /\ y = m THEN None ELSE inflight[x][y]
        /\ LeaseWakes(x, y)'
    BY <2>1, LeaseEndsView DEF PlacedAt
  <2>3. Stocked(x, y)'
    BY <1>4, <2>1, <2>2 DEF PlacedAt, Stocked
  <2>4. DelayWakes(x, y)'
    BY <2>1 DEF PlacedAt, DelayWakes
  <2>5. GoneIsEmpty(x, y)'
    BY <1>2, <2>1, <2>2 DEF PlacedAt, GoneIsEmpty
  <2>6. OnlyHere(x, y)'
    BY <1>1, <1>4, <2>1, <2>2 DEF PlacedAt, OnlyHere
  <2> QED
    BY <2>2, <2>3, <2>4, <2>5, <2>6 DEF PlacedAt
<1>6. ASSUME NEW x \in Names, ~is_dlq(x)
      PROVE  Distinct(ready'[x])
  BY <1>4, <1>6 DEF Placed
<1> QED
  BY <1>5, <1>6 DEF Placed, Distinct

\* The end of a lease keeps every message placed.
LEMMA EndLeasePlaced ==
    ASSUME TypeOK, OneHome, Placed, NEW n \in Names, NEW m \in Ids,
           inflight[n][m] # None, EndLease(n, m), LeaseEnds(n, m)
    PROVE  Placed'
<1>1. n \in queues
  BY DEF Placed, PlacedAt, GoneIsEmpty
<1>2. CASE m \in messages[n] /\ Exhausted(m)
  <2>1. MoveToDlq(n, m) /\ UNCHANGED <<delayed_ids, delayed>>
    BY <1>2 DEF EndLease, RetryOrDead
  <2> QED
    BY <1>2, <2>1, MoveToDlqPlaced
<1>3. CASE m \in messages[n] /\ ~Exhausted(m)
  <2> DEFINE entry == [left |-> retry_delay(attempts[m] + 1), queue |-> n, id |-> m]
  <2>1. /\ delayed_ids' = [delayed_ids EXCEPT ![n] = @ \cup {m}]
        /\ delayed' = delayed \cup {entry}
        /\ UNCHANGED <<queues, max_length, ready, messages, by_id>>
    BY <1>3 DEF EndLease, RetryOrDead
  <2>2. entry.queue = n /\ entry.id = m
    OBVIOUS
  <2> HIDE DEF entry
  <2>3. ASSUME NEW x \in Names, NEW y \in Ids
        PROVE  PlacedAt(x, y)'
    <3>1. PlacedAt(x, y)
      BY DEF Placed
    <3>2. /\ inflight'[x][y] = IF x = n /\ y = m THEN None ELSE inflight[x][y]
          /\ LeaseWakes(x, y)'
      BY <3>1, LeaseEndsView DEF PlacedAt
    <3>3. y \in delayed_ids'[x] <=> y \in delayed_ids[x] \/ (x = n /\ y = m)
      BY <2>1 DEF TypeOK
    <3>4. Stocked(x, y)'
      BY <2>1, <3>1, <3>2, <3>3 DEF PlacedAt, Stocked
    <3>5. DelayWakes(x, y)'
      BY <2>1, <2>2, <3>1, <3>3 DEF PlacedAt, DelayWakes
    <3>6. GoneIsEmpty(x, y)'
      BY <1>1, <2>1, <3>1, <3>2, <3>3 DEF PlacedAt, GoneIsEmpty
    <3>7. OnlyHere(x, y)'
      BY <1>3, <2>1, <3>1, <3>2, <3>3 DEF PlacedAt, OnlyHere
    <3> QED
      BY <3>2, <3>4, <3>5, <3>6, <3>7 DEF PlacedAt
  <2> QED
    BY <2>1, <2>3 DEF Placed, Distinct
<1>4. CASE m \notin messages[n]
  <2>1. UNCHANGED <<queues, ready, delayed_ids, messages, delayed>>
    BY <1>4 DEF EndLease
  <2>2. ASSUME NEW x \in Names, NEW y \in Ids
        PROVE  PlacedAt(x, y)'
    <3>1. PlacedAt(x, y)
      BY DEF Placed
    <3>2. /\ inflight'[x][y] = IF x = n /\ y = m THEN None ELSE inflight[x][y]
          /\ LeaseWakes(x, y)'
      BY <3>1, LeaseEndsView DEF PlacedAt
    <3>3. Stocked(x, y)'
      BY <1>4, <2>1, <3>1, <3>2 DEF PlacedAt, Stocked
    <3>4. DelayWakes(x, y)' /\ GoneIsEmpty(x, y)' /\ OnlyHere(x, y)'
      BY <2>1, <3>1, <3>2 DEF PlacedAt, DelayWakes, GoneIsEmpty, OnlyHere
    <3> QED
      BY <3>2, <3>3, <3>4 DEF PlacedAt
  <2> QED
    BY <2>1, <2>2 DEF Placed, Distinct
<1> QED
  BY <1>2, <1>3, <1>4

\* declare_queue leaves all messages where they are.
LEMMA DeclareQueuePlaced ==
    ASSUME TypeOK, OneHome, Placed, NEW n \in Names, NEW l, DeclareQueue(n, l)
    PROVE  Placed'
<1>1. /\ queues \subseteq queues'
      /\ UNCHANGED <<ready, delayed_ids, inflight, messages, delayed, visibility_heap>>
  BY DEF DeclareQueue
<1> QED
  BY <1>1 DEF Placed, PlacedAt, Stocked, LeaseWakes, DelayWakes, GoneIsEmpty, OnlyHere, Distinct

\* delete_queue takes the message, its place and its wake-up away together.
LEMMA DeleteQueuePlaced ==
    ASSUME TypeOK, OneHome, Placed, NEW n \in Names, DeleteQueue(n)
    PROVE  Placed'
<1> DEFINE gone == {n} \cup (IF dead_letter(n) THEN {dlq_name(n)} ELSE {})
<1>1. /\ queues' = queues \ gone
      /\ ready' = [x \in Names |-> IF x \in gone THEN << >> ELSE ready[x]]
      /\ delayed_ids' = [x \in Names |-> IF x \in gone THEN {} ELSE delayed_ids[x]]
      /\ inflight' = [x \in Names |-> IF x \in gone THEN NoLeases ELSE inflight[x]]
      /\ messages' = [x \in Names |-> IF x \in gone THEN {} ELSE messages[x]]
      /\ UNCHANGED <<delayed, visibility_heap>>
  BY DEF DeleteQueue
<1>2. \A y \in Ids : NoLeases[y] = None
  BY DEF NoLeases
<1>3. Elements(<< >>) = {} /\ Distinct(<< >>)
  BY DEF Elements, Distinct
<1> HIDE DEF gone
<1>4. ASSUME NEW x \in Names, NEW y \in Ids
      PROVE  PlacedAt(x, y)'
  <2>1. PlacedAt(x, y)
    BY DEF Placed
  <2>2. CASE x \in gone
    <3>1. ready'[x] = << >> /\ delayed_ids'[x] = {} /\ inflight'[x][y] = None /\ messages'[x] = {}
      BY <1>1, <1>2, <2>2
    <3> QED
      BY <1>3, <3>1
         DEF PlacedAt, Stocked, LeaseWakes, DelayWakes, GoneIsEmpty, OnlyHere
  <2>3. CASE x \notin gone
    <3>1. /\ ready'[x] = ready[x] /\ delayed_ids'[x] = delayed_ids[x]
          /\ inflight'[x] = inflight[x] /\ messages'[x] = messages[x]
          /\ x \in queues' <=> x \in queues
      BY <1>1, <2>3
    <3> QED
      BY <1>1, <2>1, <3>1
         DEF PlacedAt, Stocked, LeaseWakes, DelayWakes, GoneIsEmpty, OnlyHere
  <2> QED
    BY <2>2, <2>3
<1>5. ASSUME NEW x \in Names, ~is_dlq(x)
      PROVE  Distinct(ready'[x])
  <2>1. ready'[x] = IF x \in gone THEN << >> ELSE ready[x]
    BY <1>1
  <2> QED
    BY <1>3, <1>5, <2>1 DEF Placed
<1> QED
  BY <1>4, <1>5 DEF Placed, Distinct

\* A new message is put into the ready heap or among the delayed ones.
LEMMA EnqueuePlaced ==
    ASSUME TypeOK, OneHome, Placed,
           NEW n \in Names, NEW m \in Ids, NEW t \in Nat, Enqueue(n, m, t)
    PROVE  Placed'
<1> DEFINE entry == [left |-> t, queue |-> n, id |-> m]
<1>1. /\ n \in queues /\ UNCHANGED <<queues, inflight, visibility_heap>>
      /\ messages' = [messages EXCEPT ![n] = @ \cup {m}]
      /\ \/ /\ delayed_ids' = [delayed_ids EXCEPT ![n] = @ \cup {m}]
            /\ delayed' = delayed \cup {entry}
            /\ UNCHANGED ready
         \/ /\ ready' = [ready EXCEPT ![n] = PushReady(@, m)]
            /\ UNCHANGED <<delayed_ids, delayed>>
  BY DEF Enqueue
<1>2. \A x \in Names : m \notin messages[x]
  BY NoneAssumption DEF Enqueue, OneHome
<1>3. ~is_dlq(n) => m \notin Elements(ready[n]) /\ inflight[n][m] = None /\ m \notin delayed_ids[n]
  BY <1>2 DEF Placed, PlacedAt, OnlyHere
<1>4. /\ Elements(PushReady(ready[n], m)) = Elements(ready[n]) \cup {m}
      /\ Distinct(ready[n]) /\ m \notin Elements(ready[n]) => Distinct(PushReady(ready[n], m))
  BY PushReadyProperties DEF TypeOK, Distinct
<1>5. entry.queue = n /\ entry.id = m
  OBVIOUS
<1> HIDE DEF entry
<1>6. ASSUME NEW x \in Names, NEW y \in Ids
      PROVE  PlacedAt(x, y)'
  <2>1. PlacedAt(x, y)
    BY DEF Placed
  <2>2. y \in messages'[x] <=> y \in messages[x] \/ (x = n /\ y = m)
    BY <1>1 DEF TypeOK
  <2>3. \/ /\ y \in delayed_ids'[x] <=> y \in delayed_ids[x] \/ (x = n /\ y = m)
           /\ ready'[x] = ready[x]
           /\ delayed' = delayed \cup {entry}
        \/ /\ y \in Elements(ready'[x]) <=> y \in Elements(ready[x]) \/ (x = n /\ y = m)
           /\ delayed_ids'[x] = delayed_ids[x]
           /\ delayed' = delayed
    BY <1>1, <1>4 DEF TypeOK
  <2>4. Stocked(x, y)' /\ LeaseWakes(x, y)' /\ GoneIsEmpty(x, y)'
    BY <1>1, <2>1, <2>2, <2>3 DEF PlacedAt, Stocked, LeaseWakes, GoneIsEmpty
  <2>5. DelayWakes(x, y)'
    BY <1>5, <2>1, <2>3 DEF PlacedAt, DelayWakes
  <2>6. OnlyHere(x, y)'
    BY <1>1, <1>3, <2>1, <2>2, <2>3 DEF PlacedAt, OnlyHere
  <2> QED
    BY <2>4, <2>5, <2>6 DEF PlacedAt
<1>7. ASSUME NEW x \in Names, ~is_dlq(x)
      PROVE  Distinct(ready'[x])
  <2>1. ready'[x] = ready[x] \/ (x = n /\ ready'[x] = PushReady(ready[n], m))
    BY <1>1 DEF TypeOK
  <2> QED
    BY <1>3, <1>4, <1>7, <2>1 DEF Placed
<1> QED
  BY <1>6, <1>7 DEF Placed, Distinct

\* dlq_requeue puts the message into the ready heap of one of the two queues.
LEMMA DlqRequeuePlaced ==
    ASSUME TypeOK, OneHome, Placed, NEW n \in Names, NEW m \in Ids, DlqRequeue(n, m)
    PROVE  Placed'
<1> DEFINE d == dlq_name(n)
           o == origin_queue(n)
<1>1. d \in Names /\ o \in Names /\ d # o /\ is_dlq(d) /\ ~is_dlq(o)
  BY NameFacts
<1>2. /\ o \in queues /\ m \in messages[d]
      /\ UNCHANGED <<queues, inflight, delayed_ids, delayed, visibility_heap>>
      /\ \/ /\ ready' = [ready EXCEPT ![d] = PushReady(DropReady(@, m), m)]
            /\ UNCHANGED messages
         \/ /\ ready' = [ready EXCEPT ![d] = DropReady(@, m), ![o] = PushReady(@, m)]
            /\ messages' = [messages EXCEPT ![d] = @ \ {m}, ![o] = @ \cup {m}]
  BY DEF DlqRequeue
<1>3. m \notin messages[o]
  BY <1>1, <1>2 DEF OneHome
<1>4. m \notin Elements(ready[o]) /\ inflight[o][m] = None /\ m \notin delayed_ids[o]
  BY <1>1, <1>3 DEF Placed, PlacedAt, OnlyHere
<1>5. /\ DropReady(ready[d], m) \in Seq(Ids)
      /\ Elements(DropReady(ready[d], m)) = Elements(ready[d]) \ {m}
  BY <1>1, DropReadyProperties DEF TypeOK
<1>6. Elements(PushReady(DropReady(ready[d], m), m)) = Elements(ready[d]) \cup {m}
  <2>1. Elements(PushReady(DropReady(ready[d], m), m)) = Elements(DropReady(ready[d], m)) \cup {m}
    BY <1>5, PushReadyProperties
  <2> QED
    BY <1>5, <2>1
<1>7. /\ Elements(PushReady(ready[o], m)) = Elements(ready[o]) \cup {m}
      /\ Distinct(ready[o]) => Distinct(PushReady(ready[o], m))
  BY <1>1, <1>4, PushReadyProperties DEF TypeOK, Distinct
<1> HIDE DEF d, o
<1>8. ASSUME NEW x \in Names, NEW y \in Ids
      PROVE  PlacedAt(x, y)'
  <2>1. PlacedAt(x, y)
    BY DEF Placed
  <2>2. \/ /\ y \in Elements(ready'[x]) <=> y \in Elements(ready[x]) \/ (x = d /\ y = m)
           /\ messages'[x] = messages[x]
        \/ /\ y \in Elements(ready'[x]) <=> \/ y \in Elements(ready[x]) /\ ~(x = d /\ y = m)
                                            \/ x = o /\ y = m
           /\ y \in messages'[x] <=> \/ y \in messages[x] /\ ~(x = d /\ y = m)
                                     \/ x = o /\ y = m
    <3>1. CASE /\ ready' = [ready EXCEPT ![d] = PushReady(DropReady(@, m), m)]
               /\ UNCHANGED messages
      <4>1. ready'[x] = IF x = d THEN PushReady(DropReady(ready[d], m), m) ELSE ready[x]
        BY <1>1, <3>1 DEF TypeOK
      <4> QED
        BY <1>6, <3>1, <4>1
    <3>2. CASE /\ ready' = [ready EXCEPT ![d] = DropReady(@, m), ![o] = PushReady(@, m)]
               /\ messages' = [messages EXCEPT ![d] = @ \ {m}, ![o] = @ \cup {m}]
      <4>1. ready'[x] = IF x = o THEN PushReady(ready[o], m)
                        ELSE IF x = d THEN DropReady(ready[d], m) ELSE ready[x]
        BY <1>1, <3>2 DEF TypeOK
      <4>2. messages'[x] = IF x = o THEN messages[x] \cup {m}
                           ELSE IF x = d THEN messages[x] \ {m} ELSE messages[x]
        BY <1>1, <3>2 DEF TypeOK
      <4> QED
        BY <1>1, <1>5, <1>7, <4>1, <4>2
    <3> QED
      BY <1>2, <3>1, <3>2
  <2>3. Stocked(x, y)'
    BY <1>2, <2>1, <2>2 DEF PlacedAt, Stocked
  <2>4. LeaseWakes(x, y)' /\ DelayWakes(x, y)' /\ GoneIsEmpty(x, y)'
    BY <1>2, <2>1 DEF PlacedAt, LeaseWakes, DelayWakes, GoneIsEmpty
  <2>5. OnlyHere(x, y)'
    BY <1>1, <1>2, <1>4, <2>1, <2>2 DEF PlacedAt, OnlyHere
  <2> QED
    BY <2>3, <2>4, <2>5 DEF PlacedAt
<1>9. ASSUME NEW x \in Names, ~is_dlq(x)
      PROVE  Distinct(ready'[x])
  <2>1. ready'[x] = ready[x] \/ (x = o /\ ready'[x] = PushReady(ready[o], m))
    BY <1>1, <1>2, <1>9 DEF TypeOK
  <2> QED
    BY <1>7, <1>9, <2>1 DEF Placed
<1> QED
  BY <1>8, <1>9 DEF Placed, Distinct

\* reserve leases the first deliverable entry; what it drops before that one
\* has another place.
LEMMA ReservePlaced ==
    ASSUME TypeOK, OneHome, Placed, NEW n \in Names, NEW c \in Consumers, Reserve(n, c)
    PROVE  Placed'
<1>1. PICK k \in DOMAIN ready[n] :
         /\ Deliverable(n, k)
         /\ \A j \in 1..(k - 1) : ~Deliverable(n, j)
         /\ ready' = [ready EXCEPT ![n] = SubSeq(@, k + 1, Len(@))]
         /\ inflight' = [inflight EXCEPT ![n][ready[n][k]] =
                             [consumer_id |-> c, left |-> VisibilityTimeout]]
         /\ visibility_heap' = visibility_heap \cup
               {[left |-> VisibilityTimeout, queue |-> n, id |-> ready[n][k]]}
  BY DEF Reserve
<1>2. n \in queues /\ UNCHANGED <<queues, delayed_ids, messages, delayed>>
  BY DEF Reserve
<1> DEFINE m == ready[n][k]
           lease == [consumer_id |-> c, left |-> VisibilityTimeout]
           rest == SubSeq(ready[n], k + 1, Len(ready[n]))
<1>3. m \in Ids /\ m \in messages[n] /\ inflight[n][m] = None /\ m \notin delayed_ids[n]
  BY <1>1 DEF Deliverable, TypeOK
<1>4. lease \in InflightRecord /\ lease # None /\ lease.left = VisibilityTimeout
  BY EngineAssumption, NoneAssumption DEF InflightRecord
<1>5. /\ Elements(rest) \subseteq Elements(ready[n])
      /\ \A y \in Elements(ready[n]) : y \in Elements(rest) \/ \E j \in 1..k : y = ready[n][j]
      /\ Distinct(ready[n]) => Distinct(rest) /\ m \notin Elements(rest)
  BY RestProperties DEF TypeOK
<1>6. ASSUME NEW y \in Ids, y \in Elements(ready[n]), y \in messages[n], y # m
      PROVE  y \in Elements(rest) \/ inflight[n][y] # None \/ y \in delayed_ids[n]
  <2>1. CASE \E j \in 1..k : y = ready[n][j]
    <3>1. PICK j \in 1..k : y = ready[n][j]
      BY <2>1
    <3>2. k \in 1..Len(ready[n]) /\ j \in 1..(k - 1)
      BY <1>6, <3>1 DEF TypeOK
    <3> QED
      BY <1>1, <1>6, <3>1, <3>2 DEF Deliverable
  <2> QED
    BY <1>5, <1>6, <2>1
<1>7. /\ \A x \in Names : ready'[x] = IF x = n THEN rest ELSE ready[x]
      /\ \A x \in Names, y \in Ids :
            inflight'[x][y] = IF x = n /\ y = m THEN lease ELSE inflight[x][y]
  BY <1>1 DEF TypeOK
<1>8. visibility_heap' = visibility_heap \cup {[left |-> lease.left, queue |-> n, id |-> m]}
  BY <1>1
<1> HIDE DEF m, lease, rest
<1>9. ASSUME NEW x \in Names, NEW y \in Ids
      PROVE  PlacedAt(x, y)'
  <2>1. PlacedAt(x, y)
    BY DEF Placed
  <2>2. Stocked(x, y)'
    BY <1>2, <1>4, <1>6, <1>7, <2>1 DEF PlacedAt, Stocked
  <2>3. LeaseWakes(x, y)'
    BY <1>4, <1>7, <1>8, <2>1 DEF PlacedAt, LeaseWakes
  <2>4. DelayWakes(x, y)' /\ GoneIsEmpty(x, y)'
    BY <1>2, <1>7, <2>1 DEF PlacedAt, DelayWakes, GoneIsEmpty
  <2>5. ~is_dlq(n) => m \notin Elements(rest)
    BY <1>5 DEF Placed
  <2>6. OnlyHere(x, y)'
    BY <1>2, <1>3, <1>5, <1>7, <2>1, <2>5 DEF PlacedAt, OnlyHere
  <2> QED
    BY <2>2, <2>3, <2>4, <2>6 DEF PlacedAt
<1>10. ASSUME NEW x \in Names, ~is_dlq(x)
       PROVE  Distinct(ready'[x])
  BY <1>5, <1>7, <1>10 DEF Placed
<1> QED
  BY <1>9, <1>10 DEF Placed, Distinct

\* An entry that reserve pops without delivering it has another place.
LEMMA ReserveNothingPlaced ==
    ASSUME TypeOK, OneHome, Placed, NEW n \in Names, ReserveNothing(n)
    PROVE  Placed'
<1>1. /\ UNCHANGED <<queues, inflight, delayed_ids, messages, delayed, visibility_heap>>
      /\ ready' = [ready EXCEPT ![n] = << >>]
      /\ \A k \in DOMAIN ready[n] : ~Deliverable(n, k)
  BY DEF ReserveNothing
<1>2. Elements(<< >>) = {} /\ Distinct(<< >>)
  BY DEF Elements, Distinct
<1>3. \A x \in Names : ready'[x] = IF x = n THEN << >> ELSE ready[x]
  BY <1>1 DEF TypeOK
<1>4. ASSUME NEW y \in Ids, y \in Elements(ready[n]), y \in messages[n]
      PROVE  inflight[n][y] # None \/ y \in delayed_ids[n]
  BY <1>1, <1>4 DEF Elements, Deliverable
<1>5. ASSUME NEW x \in Names, NEW y \in Ids
      PROVE  PlacedAt(x, y)'
  <2>1. PlacedAt(x, y)
    BY DEF Placed
  <2>2. Stocked(x, y)'
    BY <1>1, <1>3, <1>4, <2>1 DEF PlacedAt, Stocked
  <2>3. LeaseWakes(x, y)' /\ DelayWakes(x, y)' /\ GoneIsEmpty(x, y)' /\ OnlyHere(x, y)'
    BY <1>1, <1>2, <1>3, <2>1 DEF PlacedAt, LeaseWakes, DelayWakes, GoneIsEmpty, OnlyHere
  <2> QED
    BY <2>2, <2>3 DEF PlacedAt
<1> QED
  BY <1>2, <1>3, <1>5 DEF Placed, Distinct

\* An acknowledged message goes with its lease.
LEMMA AckPlaced ==
    ASSUME TypeOK, OneHome, Placed, NEW m \in Ids, Ack(m)
    PROVE  Placed'
<1> DEFINE n == by_id[m]
<1>1. n \in Names /\ inflight[n][m] # None
  BY DEF Ack, TypeOK
<1>2. /\ UNCHANGED <<queues, ready, delayed_ids, delayed, visibility_heap>>
      /\ inflight' = [inflight EXCEPT ![n][m] = None]
      /\ messages' = [messages EXCEPT ![n] = @ \ {m}]
  BY DEF Ack
<1> HIDE DEF n
<1>3. LeaseEnds(n, m)
  BY <1>2 DEF LeaseEnds
<1>4. ASSUME NEW x \in Names, NEW y \in Ids
      PROVE  PlacedAt(x, y)'
  <2>1. PlacedAt(x, y)
    BY DEF Placed
  <2>2. /\ inflight'[x][y] = IF x = n /\ y = m THEN None ELSE inflight[x][y]
        /\ LeaseWakes(x, y)'
    BY <1>1, <1>3, <2>1, LeaseEndsView DEF PlacedAt
  <2>3. y \in messages'[x] <=> y \in messages[x] /\ ~(x = n /\ y = m)
    BY <1>1, <1>2 DEF TypeOK
  <2>4. Stocked(x, y)' /\ DelayWakes(x, y)' /\ GoneIsEmpty(x, y)' /\ OnlyHere(x, y)'
    BY <1>1, <1>2, <2>1, <2>2, <2>3
       DEF PlacedAt, Stocked, DelayWakes, GoneIsEmpty, OnlyHere
  <2> QED
    BY <2>2, <2>4 DEF PlacedAt
<1> QED
  BY <1>2, <1>4 DEF Placed, Distinct

\* A delay that is over puts the message into the ready heap, unless it has
\* gone or is leased.
LEMMA ReleaseDelayedPlaced ==
    ASSUME TypeOK, OneHome, Placed, NEW e \in delayed, ReleaseDelayed(e)
    PROVE  Placed'
<1> DEFINE n == e.queue
           m == e.id
<1>1. n \in Names /\ m \in Ids
  BY DEF TypeOK, HeapEntry
<1>2. /\ UNCHANGED <<queues, inflight, messages, visibility_heap>>
      /\ delayed' = delayed \ {e}
      /\ IF n \in queues /\ m \in delayed_ids[n]
         THEN /\ delayed_ids' = [delayed_ids EXCEPT ![n] = @ \ {m}]
              /\ IF m \in messages[n] /\ inflight[n][m] = None
                 THEN ready' = [ready EXCEPT ![n] = PushReady(@, m)]
                 ELSE UNCHANGED ready
         ELSE UNCHANGED <<delayed_ids, ready>>
  BY DEF ReleaseDelayed
<1>3. /\ Elements(PushReady(ready[n], m)) = Elements(ready[n]) \cup {m}
      /\ Distinct(ready[n]) /\ m \notin Elements(ready[n]) => Distinct(PushReady(ready[n], m))
  BY <1>1, PushReadyProperties DEF TypeOK, Distinct
<1>4. \A f \in delayed : f # e => f \in delayed'
  BY <1>2
<1>5. CASE n \in queues /\ m \in delayed_ids[n]
  <2> DEFINE put == m \in messages[n] /\ inflight[n][m] = None
  <2>1. \A x \in Names : ready'[x] = IF put /\ x = n THEN PushReady(ready[n], m) ELSE ready[x]
    BY <1>1, <1>2, <1>5 DEF TypeOK
  <2>2. \A x \in Names, y \in Ids :
           y \in delayed_ids'[x] <=> y \in delayed_ids[x] /\ ~(x = n /\ y = m)
    BY <1>1, <1>2, <1>5 DEF TypeOK
  <2>3. ASSUME NEW x \in Names, NEW y \in Ids
        PROVE  PlacedAt(x, y)'
    <3>1. PlacedAt(x, y)
      BY DEF Placed
    <3>2. y \in Elements(ready'[x]) <=> y \in Elements(ready[x]) \/ (put /\ x = n /\ y = m)
      BY <1>3, <2>1
    <3>3. Stocked(x, y)' /\ LeaseWakes(x, y)' /\ GoneIsEmpty(x, y)'
      BY <1>2, <2>2, <3>1, <3>2 DEF PlacedAt, Stocked, LeaseWakes, GoneIsEmpty
    <3>4. DelayWakes(x, y)'
      BY <1>4, <2>2, <3>1 DEF PlacedAt, DelayWakes
    <3>5. OnlyHere(x, y)'
      BY <1>2, <1>5, <2>2, <3>1, <3>2 DEF PlacedAt, OnlyHere
    <3> QED
      BY <3>3, <3>4, <3>5 DEF PlacedAt
  <2>4. ASSUME NEW x \in Names, ~is_dlq(x)
        PROVE  Distinct(ready'[x])
    <3>1. OnlyHere(n, m)
      BY <1>1 DEF Placed, PlacedAt
    <3> QED
      BY <1>3, <1>5, <2>1, <2>4, <3>1 DEF Placed, OnlyHere
  <2> QED
    BY <2>3, <2>4 DEF Placed, Distinct
<1>6. CASE ~(n \in queues /\ m \in delayed_ids[n])
  <2>1. UNCHANGED <<delayed_ids, ready>>
    BY <1>2, <1>6
  <2>2. ASSUME NEW x \in Names, NEW y \in Ids
        PROVE  PlacedAt(x, y)'
    <3>1. PlacedAt(x, y)
      BY DEF Placed
    <3>2. y \in delayed_ids[x] => ~(x = n /\ y = m)
      BY <1>6, <3>1 DEF PlacedAt, GoneIsEmpty
    <3>3. DelayWakes(x, y)'
      BY <1>4, <2>1, <3>1, <3>2 DEF PlacedAt, DelayWakes
    <3> QED
      BY <1>2, <2>1, <3>1, <3>3
         DEF PlacedAt, Stocked, LeaseWakes, GoneIsEmpty, OnlyHere
  <2> QED
    BY <2>1, <2>2 DEF Placed, Distinct
<1> QED
  BY <1>5, <1>6

\* The clock moves a lease and its heap entry together.
LEMMA AdvanceTimePlaced ==
    ASSUME TypeOK, OneHome, Placed, AdvanceTime
    PROVE  Placed'
<1>1. /\ UNCHANGED <<queues, ready, delayed_ids, messages>>
      /\ delayed' = {Sooner(e) : e \in delayed}
      /\ visibility_heap' = {Sooner(e) : e \in visibility_heap}
      /\ \A x \in Names, y \in Ids :
            inflight'[x][y] = IF inflight[x][y] = None THEN None ELSE Sooner(inflight[x][y])
  BY DEF AdvanceTime
<1>2. \A r \in InflightRecord : Sooner(r) \in InflightRecord
  BY DEF Sooner, InflightRecord
<1>3. ASSUME NEW x \in Names, NEW y \in Ids
      PROVE  PlacedAt(x, y)'
  <2>1. PlacedAt(x, y)
    BY DEF Placed
  <2>2. inflight'[x][y] = None <=> inflight[x][y] = None
    BY <1>1, <1>2, NoneAssumption DEF TypeOK
  <2>3. ASSUME inflight'[x][y] # None
        PROVE  [left |-> inflight'[x][y].left, queue |-> x, id |-> y] \in visibility_heap'
    <3> DEFINE old == inflight[x][y]
               entry == [left |-> old.left, queue |-> x, id |-> y]
    <3>1. old \in InflightRecord /\ inflight'[x][y] = Sooner(old)
      BY <1>1, <2>2, <2>3 DEF TypeOK
    <3>2. entry \in visibility_heap
      BY <2>1, <2>2, <2>3 DEF PlacedAt, LeaseWakes
    <3>3. Sooner(entry) = [left |-> Sooner(old).left, queue |-> x, id |-> y]
      BY <3>1 DEF Sooner, InflightRecord
    <3> QED
      BY <1>1, <3>1, <3>2, <3>3
  <2>4. DelayWakes(x, y)'
    <3> SUFFICES ASSUME y \in delayed_ids[x]
                 PROVE  \E f \in delayed' : f.queue = x /\ f.id = y
      BY <1>1 DEF DelayWakes
    <3>1. PICK e \in delayed : e.queue = x /\ e.id = y
      BY <2>1 DEF PlacedAt, DelayWakes
    <3>2. Sooner(e).queue = x /\ Sooner(e).id = y
      BY <3>1 DEF TypeOK, HeapEntry, Sooner
    <3> QED
      BY <1>1, <3>2
  <2> QED
    BY <1>1, <2>1, <2>2, <2>3, <2>4
       DEF PlacedAt, Stocked, LeaseWakes, GoneIsEmpty, OnlyHere
<1> QED
  BY <1>1, <1>3 DEF Placed, Distinct

\* A step that touches no place.
LEMMA OtherwisePlaced ==
    ASSUME Placed,
           UNCHANGED <<queues, ready, delayed_ids, inflight, messages, delayed, visibility_heap>>
    PROVE  Placed'
BY DEF Placed, PlacedAt, Stocked, LeaseWakes, DelayWakes, GoneIsEmpty, OnlyHere, Distinct

\* Every step keeps every message placed.
LEMMA StepPlaced ==
    ASSUME TypeOK, OneHome, Placed, [Next]_vars
    PROVE  Placed'
<1>1. ASSUME NEW m \in Ids, NEW requeue \in BOOLEAN, Nack(m, requeue)
      PROVE  Placed'
  <2>1. by_id[m] \in Names /\ inflight[by_id[m]][m] # None
    BY <1>1 DEF Nack, TypeOK
  <2>2. LeaseEnds(by_id[m], m)
    BY <1>1 DEF Nack, LeaseEnds, EndLease
  <2>3. CASE EndLease(by_id[m], m)
    BY <2>1, <2>2, <2>3, EndLeasePlaced
  <2>4. CASE /\ m \in messages[by_id[m]]
             /\ MoveToDlq(by_id[m], m)
             /\ UNCHANGED <<attempts, delayed_ids, delayed>>
    BY <2>1, <2>2, <2>4, MoveToDlqPlaced
  <2> QED
    BY <1>1, <2>3, <2>4 DEF Nack
<1>2. ASSUME NEW m \in Ids, RecoverLease(m)
      PROVE  Placed'
  <2>1. cursor.queue \in Names /\ inflight[cursor.queue][m] # None
    BY <1>2 DEF RecoverLease, HeldHere, TypeOK, Cursor
  <2>2. LeaseEnds(cursor.queue, m)
    BY <1>2 DEF RecoverLease, LeaseEnds, EndLease
  <2> QED
    BY <1>2, <2>1, <2>2, EndLeasePlaced DEF RecoverLease
<1>3. ASSUME NEW e \in visibility_heap, TimeoutInflight(e)
      PROVE  Placed'
  <2>1. e.queue \in Names /\ e.id \in Ids /\ e = [left |-> e.left, queue |-> e.queue, id |-> e.id]
    BY DEF TypeOK, HeapEntry
  <2>2. visibility_heap' = visibility_heap \ {e}
    BY <1>3 DEF TimeoutInflight
  <2>3. CASE /\ e.queue \in queues
             /\ inflight[e.queue][e.id] # None
             /\ inflight[e.queue][e.id].left = e.left
    <3>1. EndLease(e.queue, e.id)
      BY <1>3, <2>3 DEF TimeoutInflight
    <3>2. LeaseEnds(e.queue, e.id)
      BY <2>2, <3>1 DEF LeaseEnds, EndLease
    <3> QED
      BY <2>1, <2>3, <3>1, <3>2, EndLeasePlaced
  <2>4. CASE ~(/\ e.queue \in queues
               /\ inflight[e.queue][e.id] # None
               /\ inflight[e.queue][e.id].left = e.left)
    <3>1. UNCHANGED <<queueVars, attempts, by_id, delayed>>
      BY <1>3, <2>4 DEF TimeoutInflight
    <3>2. ASSUME NEW x \in Names, NEW y \in Ids
          PROVE  PlacedAt(x, y)'
      <4>1. PlacedAt(x, y)
        BY DEF Placed
      <4>2. ASSUME inflight[x][y] # None
            PROVE  [left |-> inflight[x][y].left, queue |-> x, id |-> y] # e
        BY <2>4, <4>1, <4>2 DEF PlacedAt, GoneIsEmpty
      <4>3. LeaseWakes(x, y)'
        BY <2>2, <3>1, <4>1, <4>2 DEF PlacedAt, LeaseWakes, queueVars
      <4> QED
        BY <3>1, <4>1, <4>3
           DEF PlacedAt, Stocked, DelayWakes, GoneIsEmpty, OnlyHere, queueVars
    <3> QED
      BY <3>1, <3>2 DEF Placed, Distinct, queueVars
  <2> QED
    BY <2>3, <2>4
<1>4. CASE \/ \E c \in Consumers : RecoverConsumer(c)
           \/ \E n \in Names : RecoverNextQueue(n)
           \/ RecoverEnd \/ Tick \/ ReleaseEnd \/ TimeoutEnd
           \/ UNCHANGED vars
  <2>1. UNCHANGED <<queues, ready, delayed_ids, inflight, messages, delayed, visibility_heap>>
    BY <1>4 DEF RecoverConsumer, RecoverNextQueue, RecoverEnd, Tick, ReleaseEnd, TimeoutEnd,
                vars, queueVars
  <2> QED
    BY <2>1, OtherwisePlaced
<1> QED
  BY <1>1, <1>2, <1>3, <1>4, DeclareQueuePlaced, DeleteQueuePlaced, EnqueuePlaced,
     DlqRequeuePlaced, ReservePlaced, ReserveNothingPlaced, AckPlaced, ReleaseDelayedPlaced,
     AdvanceTimePlaced, EngineAssumption
     DEF Next, Client, Deliveries, Recovery, Ticker

\* Placed is an invariant.
LEMMA AlwaysPlaced == Spec => []Placed
<1>1. Init => Placed
  <2> SUFFICES ASSUME Init PROVE Placed
    OBVIOUS
  <2>1. \A n \in Names : ready[n] = << >> /\ messages[n] = {} /\ delayed_ids[n] = {}
    BY DEF Init
  <2>2. \A n \in Names, m \in Ids : inflight[n][m] = None
    BY DEF Init, NoLeases
  <2>3. Elements(<< >>) = {} /\ Distinct(<< >>)
    BY DEF Elements, Distinct
  <2> QED
    BY <2>1, <2>2, <2>3
       DEF Placed, PlacedAt, Stocked, LeaseWakes, DelayWakes, GoneIsEmpty, OnlyHere
<1>2. TypeOK /\ OneHome /\ Placed /\ [Next]_vars => Placed'
  BY StepPlaced
<1> QED
  BY <1>1, <1>2, TypeCorrect, IndexAgrees, PTL DEF Spec

\* Where messages are placed, none is stranded.
LEMMA PlacedNotStranded == TypeOK /\ Placed => NotStranded
<1> SUFFICES ASSUME TypeOK, Placed, NEW n \in Names
             PROVE  /\ \A m \in messages[n] :
                          m \in Elements(ready[n]) \cup Leased(n) \cup delayed_ids[n]
                    /\ \A m \in Leased(n) :
                          [left |-> inflight[n][m].left, queue |-> n, id |-> m]
                             \in visibility_heap
                    /\ \A m \in delayed_ids[n] : \E e \in delayed : e.queue = n /\ e.id = m
  BY DEF NotStranded
<1>1. messages[n] \subseteq Ids /\ delayed_ids[n] \subseteq Ids
  BY DEF TypeOK
<1>2. \A m \in Ids : Stocked(n, m) /\ LeaseWakes(n, m) /\ DelayWakes(n, m)
  BY DEF Placed, PlacedAt
<1> QED
  BY <1>1, <1>2 DEF Stocked, LeaseWakes, DelayWakes, Leased

\* NotStranded: whatever becomes of its deliveries, a stored message is in one
\* of its queue's structures, and a lease or a delay has a heap entry that
\* will end it.
THEOREM NothingStranded == Spec => []NotStranded
BY PlacedNotStranded, TypeCorrect, AlwaysPlaced, PTL

\* OnePlace: in an ordinary queue a message is ready once, leased or delayed,
\* and one of these only.
THEOREM EachInOnePlace == Spec => []OnePlace
<1>1. TypeOK /\ Placed => OnePlace
  <2> SUFFICES ASSUME TypeOK, Placed, NEW n \in Names, ~is_dlq(n)
               PROVE  /\ \A i, j \in DOMAIN ready[n] : ready[n][i] = ready[n][j] => i = j
                      /\ Elements(ready[n]) \cup Leased(n) \cup delayed_ids[n] \subseteq messages[n]
                      /\ Elements(ready[n]) \cap Leased(n) = {}
                      /\ Elements(ready[n]) \cap delayed_ids[n] = {}
                      /\ Leased(n) \cap delayed_ids[n] = {}
    BY DEF OnePlace
  <2>1. Elements(ready[n]) \subseteq Ids /\ Leased(n) \subseteq Ids /\ delayed_ids[n] \subseteq Ids
    BY DEF TypeOK, Elements, Leased
  <2>2. \A m \in Ids : OnlyHere(n, m)
    BY DEF Placed, PlacedAt
  <2>3. Distinct(ready[n])
    BY DEF Placed
  <2> QED
    BY <2>1, <2>2, <2>3 DEF OnlyHere, Leased, Distinct
<1> QED
  BY <1>1, TypeCorrect, AlwaysPlaced, PTL

-----------------------------------------------------------------------------
(* The limit.  depth() counts entries of three structures; under OnePlace  *)
(* it counts messages.                                                     *)

\* A ready heap without duplicates is as long as it has elements.
LEMMA DistinctLength ==
    ASSUME NEW s \in Seq(Ids), Distinct(s)
    PROVE  IsFiniteSet(Elements(s)) /\ Cardinality(Elements(s)) = Len(s)
<1>1. Len(s) \in Nat /\ DOMAIN s = 1..Len(s)
  OBVIOUS
<1>2. s \in Surjection(1..Len(s), Elements(s))
  BY <1>1 DEF Surjection, Elements
<1>3. s \in Injection(1..Len(s), Elements(s))
  BY <1>1, <1>2 DEF Surjection, Injection, IsInjective, Distinct
<1>4. IsFiniteSet(1..Len(s)) /\ Cardinality(1..Len(s)) = Len(s)
  BY <1>1, FS_Interval
<1> QED
  BY <1>2, <1>3, <1>4, FS_Surjection

\* depth() of an ordinary queue is the number of its messages.
LEMMA DepthCounts ==
    ASSUME TypeOK, Placed, NEW n \in Names, ~is_dlq(n)
    PROVE  IsFiniteSet(messages[n]) /\ depth(n) = Cardinality(messages[n])
<1> DEFINE R == Elements(ready[n])
           L == Leased(n)
           D == delayed_ids[n]
<1>1. R \subseteq Ids /\ L \subseteq Ids /\ D \subseteq Ids /\ messages[n] \subseteq Ids
  BY DEF TypeOK, Elements, Leased
<1>2. \A m \in Ids : Stocked(n, m) /\ OnlyHere(n, m)
  BY DEF Placed, PlacedAt
<1>3. R \cup L \cup D = messages[n]
  BY <1>1, <1>2 DEF Stocked, OnlyHere, Leased
<1>4. R \cap L = {} /\ (R \cup L) \cap D = {}
  BY <1>1, <1>2 DEF OnlyHere, Leased
<1>5. IsFiniteSet(R) /\ IsFiniteSet(L) /\ IsFiniteSet(D) /\ IsFiniteSet(messages[n])
  BY <1>1, EngineAssumption, FS_Subset
<1>6. Len(ready[n]) = Cardinality(R)
  <2>1. Distinct(ready[n]) /\ ready[n] \in Seq(Ids)
    BY DEF Placed, TypeOK
  <2> QED
    BY <2>1, DistinctLength
<1>7. Cardinality(R) \in Nat /\ Cardinality(L) \in Nat /\ Cardinality(D) \in Nat
  BY <1>5, FS_CardinalityType
<1>8. Cardinality({}) = 0
  BY FS_EmptySet
<1> HIDE DEF R, L, D
<1>9. IsFiniteSet(R \cup L) /\ Cardinality(R \cup L) = Cardinality(R) + Cardinality(L)
  <2>1. /\ IsFiniteSet(R \cup L)
        /\ Cardinality(R \cup L) = Cardinality(R) + Cardinality(L) - Cardinality(R \cap L)
    BY <1>5, FS_Union
  <2>2. Cardinality(R \cap L) = 0
    BY <1>4, <1>8, Zenon
  <2> QED
    BY <1>7, <2>1, <2>2
<1>10. Cardinality(R \cup L \cup D) = Cardinality(R \cup L) + Cardinality(D)
  <2> DEFINE RL == R \cup L
  <2> HIDE DEF RL
  <2>1. Cardinality(RL \cup D) = Cardinality(RL) + Cardinality(D) - Cardinality(RL \cap D)
    BY <1>5, <1>9, FS_Union DEF RL
  <2>2. Cardinality(RL) \in Nat /\ RL \cap D = {}
    BY <1>4, <1>9, FS_CardinalityType DEF RL
  <2>3. Cardinality(RL \cap D) = 0
    BY <1>8, <2>2, Zenon
  <2>4. Cardinality(RL \cup D) = Cardinality(RL) + Cardinality(D)
    BY <1>7, <2>1, <2>2, <2>3
  <2> QED
    BY <2>4 DEF RL
<1> QED
  BY <1>3, <1>5, <1>6, <1>9, <1>10 DEF depth, R, L, D

DepthIsCount ==
    \A n \in Names : ~is_dlq(n) => IsFiniteSet(messages[n]) /\ depth(n) = Cardinality(messages[n])

\* The same, as a fact about every state.
LEMMA DepthsCount == TypeOK /\ Placed => DepthIsCount
BY DepthCounts DEF DepthIsCount

\* What a step may do to the messages and the limit of an ordinary queue: it
\* keeps or loses messages, gains one while it is not full, or is new.
LimitStep(n) ==
    \/ /\ n \in queues /\ max_length'[n] = max_length[n]
       /\ messages'[n] \subseteq messages[n]
    \/ /\ n \in queues /\ max_length'[n] = max_length[n]
       /\ ~Full(n) /\ \E m \in Ids : messages'[n] = messages[n] \cup {m}
    \/ /\ n \notin queues
       /\ messages'[n] = messages[n]

LEMMA MoveToDlqLimit ==
    ASSUME TypeOK, NEW n \in Names, ~is_dlq(n), n \in queues',
           NEW q \in Names, NEW m \in Ids, MoveToDlq(q, m)
    PROVE  LimitStep(n)
<1>1. dlq_name(q) \in Names /\ dlq_name(q) # n
  BY NameFacts
<1>2. CASE dead_letter(q)
  <2>1. /\ messages' = [messages EXCEPT ![q] = @ \ {m}, ![dlq_name(q)] = @ \cup {m}]
        /\ queues' = queues \cup {dlq_name(q)}
        /\ \/ max_length' = max_length
           \/ max_length' = [max_length EXCEPT ![dlq_name(q)] = DefaultMaxLength]
    BY <1>2 DEF MoveToDlq
  <2>2. n \in queues /\ max_length'[n] = max_length[n] /\ messages'[n] \subseteq messages[n]
    BY <1>1, <2>1 DEF TypeOK
  <2> QED
    BY <2>2 DEF LimitStep
<1>3. CASE ~dead_letter(q)
  <2>1. n \in queues /\ max_length'[n] = max_length[n] /\ messages'[n] \subseteq messages[n]
    <3>1. UNCHANGED <<queues, max_length>> /\ messages' = [messages EXCEPT ![q] = @ \ {m}]
      BY <1>3 DEF MoveToDlq
    <3> QED
      BY <3>1 DEF TypeOK
  <2> QED
    BY <2>1 DEF LimitStep
<1> QED
  BY <1>2, <1>3

LEMMA EndLeaseLimit ==
    ASSUME TypeOK, NEW n \in Names, ~is_dlq(n), n \in queues',
           NEW q \in Names, NEW m \in Ids, EndLease(q, m)
    PROVE  LimitStep(n)
<1>1. CASE m \in messages[q] /\ Exhausted(m)
  BY <1>1, MoveToDlqLimit DEF EndLease, RetryOrDead
<1>2. CASE ~(m \in messages[q] /\ Exhausted(m))
  BY <1>2 DEF EndLease, RetryOrDead, LimitStep
<1> QED
  BY <1>1, <1>2

\* Only enqueue and dlq_requeue add a message to an ordinary queue, and both
\* look at the limit first.
LEMMA StepIsLimitStep ==
    ASSUME TypeOK, OneHome, [Next]_vars, NEW n \in Names, ~is_dlq(n), n \in queues'
    PROVE  LimitStep(n)
<1>1. ASSUME NEW q \in Names, NEW l \in MaxLengths, DeclareQueue(q, l)
      PROVE  LimitStep(n)
  <2>1. /\ UNCHANGED messages
        /\ n \in queues => max_length'[n] = max_length[n]
    BY <1>1 DEF DeclareQueue
  <2> QED
    BY <2>1 DEF LimitStep
<1>2. ASSUME NEW q \in Names, DeleteQueue(q)
      PROVE  LimitStep(n)
  <2>1. n \in queues /\ max_length'[n] = max_length[n] /\ messages'[n] \subseteq messages[n]
    BY <1>2 DEF DeleteQueue
  <2> QED
    BY <2>1 DEF LimitStep
<1>3. ASSUME NEW q \in Names, NEW m \in Ids, NEW t \in EnqueueDelays, Enqueue(q, m, t)
      PROVE  LimitStep(n)
  <2>1. /\ UNCHANGED <<queues, max_length>> /\ ~Full(q)
        /\ messages' = [messages EXCEPT ![q] = @ \cup {m}]
    BY <1>3 DEF Enqueue
  <2> QED
    BY <2>1 DEF LimitStep, TypeOK
<1>4. ASSUME NEW q \in Names, NEW m \in Ids, DlqRequeue(q, m)
      PROVE  LimitStep(n)
  <2> DEFINE d == dlq_name(q)
             o == origin_queue(q)
  <2>1. d \in Names /\ o \in Names /\ d # o /\ d # n
    BY NameFacts
  <2>2. /\ UNCHANGED <<queues, max_length>>
        /\ \/ UNCHANGED messages
           \/ ~Full(o) /\ messages' = [messages EXCEPT ![d] = @ \ {m}, ![o] = @ \cup {m}]
    BY <1>4 DEF DlqRequeue
  <2> HIDE DEF d, o
  <2> QED
    BY <2>1, <2>2 DEF LimitStep, TypeOK
<1>5. ASSUME NEW m \in Ids, Ack(m)
      PROVE  LimitStep(n)
  <2>1. by_id[m] \in Names
    BY <1>5 DEF Ack, TypeOK
  <2> QED
    BY <1>5, <2>1 DEF Ack, LimitStep, TypeOK
<1>6. ASSUME NEW m \in Ids, NEW requeue \in BOOLEAN, Nack(m, requeue)
      PROVE  LimitStep(n)
  <2>1. by_id[m] \in Names
    BY <1>6 DEF Nack, TypeOK
  <2>2. EndLease(by_id[m], m) \/ MoveToDlq(by_id[m], m)
    BY <1>6 DEF Nack
  <2> QED
    BY <2>1, <2>2, EndLeaseLimit, MoveToDlqLimit
<1>7. ASSUME NEW m \in Ids, RecoverLease(m)
      PROVE  LimitStep(n)
  <2>1. cursor.queue \in Names
    BY <1>7 DEF RecoverLease, HeldHere, TypeOK, Cursor
  <2> QED
    BY <1>7, <2>1, EndLeaseLimit DEF RecoverLease
<1>8. ASSUME NEW e \in visibility_heap, TimeoutInflight(e)
      PROVE  LimitStep(n)
  <2>1. e.queue \in Names /\ e.id \in Ids
    BY DEF TypeOK, HeapEntry
  <2>2. EndLease(e.queue, e.id) \/ UNCHANGED <<queueVars, attempts, by_id, delayed>>
    BY <1>8 DEF TimeoutInflight
  <2> QED
    BY <2>1, <2>2, EndLeaseLimit DEF LimitStep, queueVars
<1>9. CASE \/ \E q \in Names, c \in Consumers : Reserve(q, c)
           \/ \E q \in Names : ReserveNothing(q)
           \/ \E c \in Consumers : RecoverConsumer(c)
           \/ \E q \in Names : RecoverNextQueue(q)
           \/ RecoverEnd \/ Tick \/ ReleaseEnd \/ TimeoutEnd \/ AdvanceTime
           \/ \E e \in delayed : ReleaseDelayed(e)
           \/ UNCHANGED vars
  <2>1. UNCHANGED <<queues, max_length, messages>>
    BY <1>9 DEF Reserve, ReserveNothing, RecoverConsumer, RecoverNextQueue,
                RecoverEnd, Tick, ReleaseEnd, TimeoutEnd, AdvanceTime, ReleaseDelayed,
                vars, queueVars
  <2> QED
    BY <2>1 DEF LimitStep
<1> QED
  BY <1>1, <1>2, <1>3, <1>4, <1>5, <1>6, <1>7, <1>8, <1>9
     DEF Next, Client, Deliveries, Recovery, Ticker

\* WithinLimit: max_length of an ordinary queue is never exceeded, although
\* retries and expired delays put messages back without looking at it.
THEOREM LimitsHold == Spec => []WithinLimit
<1>1. Init => WithinLimit
  BY DEF Init, WithinLimit
<1>2. ASSUME TypeOK, TypeOK', OneHome, Placed, Placed', WithinLimit, [Next]_vars
      PROVE  WithinLimit'
  <2> SUFFICES ASSUME NEW n \in queues', ~is_dlq(n), max_length'[n] # None
               PROVE  depth(n)' <= max_length'[n]
    BY DEF WithinLimit
  <2>1. n \in Names /\ max_length'[n] \in Nat
    BY <1>2 DEF TypeOK
  <2>2. IsFiniteSet(messages[n]) /\ depth(n) = Cardinality(messages[n])
    BY <1>2, <2>1, DepthCounts
  <2>3. depth(n)' = Cardinality(messages'[n])
    <3>1. (TypeOK /\ Placed => DepthIsCount)'
      BY DepthsCount, PTL
    <3> QED
      BY <1>2, <2>1, <3>1 DEF DepthIsCount
  <2>4. Cardinality(messages[n]) \in Nat
    BY <2>2, FS_CardinalityType
  <2>5. LimitStep(n)
    BY <1>2, <2>1, StepIsLimitStep
  <2>6. CASE n \in queues /\ max_length'[n] = max_length[n] /\ messages'[n] \subseteq messages[n]
    <3>1. Cardinality(messages'[n]) <= Cardinality(messages[n]) /\ IsFiniteSet(messages'[n])
      BY <2>2, <2>6, FS_Subset
    <3>2. Cardinality(messages'[n]) \in Nat
      BY <3>1, FS_CardinalityType
    <3>3. depth(n) <= max_length[n]
      BY <1>2, <2>6 DEF WithinLimit
    <3> QED
      BY <2>1, <2>2, <2>3, <2>4, <2>6, <3>1, <3>2, <3>3
  <2>7. CASE /\ n \in queues /\ max_length'[n] = max_length[n] /\ ~Full(n)
             /\ \E m \in Ids : messages'[n] = messages[n] \cup {m}
    <3>1. PICK m \in Ids : messages'[n] = messages[n] \cup {m}
      BY <2>7
    <3>2. /\ IsFiniteSet(messages'[n])
          /\ \/ Cardinality(messages'[n]) = Cardinality(messages[n])
             \/ Cardinality(messages'[n]) = Cardinality(messages[n]) + 1
      BY <2>2, <3>1, FS_AddElement
    <3>3. Cardinality(messages'[n]) \in Nat
      BY <3>2, FS_CardinalityType
    <3>4. depth(n) < max_length[n]
      BY <2>1, <2>2, <2>4, <2>7 DEF Full
    <3> QED
      BY <2>1, <2>2, <2>3, <2>4, <2>7, <3>2, <3>3, <3>4
  <2>8. CASE n \notin queues /\ messages'[n] = messages[n]
    <3>1. messages[n] = {}
      <4>1. \A m \in Ids : m \notin messages[n]
        BY <1>2, <2>1, <2>8, NoneAssumption DEF OneHome
      <4> QED
        BY <1>2, <2>1, <4>1 DEF TypeOK
    <3>2. depth(n)' = 0
      BY <2>3, <2>8, <3>1, FS_EmptySet
    <3> QED
      BY <2>1, <3>2
  <2> QED
    BY <2>5, <2>6, <2>7, <2>8 DEF LimitStep
<1>3. TypeOK /\ TypeOK' /\ OneHome /\ Placed /\ Placed' /\ WithinLimit /\ [Next]_vars
         => WithinLimit'
  BY <1>2
<1> QED
  BY <1>1, <1>3, TypeCorrect, IndexAgrees, AlwaysPlaced, PTL DEF Spec

=============================================================================
