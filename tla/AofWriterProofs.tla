-------------------------- MODULE AofWriterProofs --------------------------
(***************************************************************************)
(* What the append-only file guarantees for every fsync policy, every set  *)
(* of connections and any number of records, crashes and restarts.         *)
(*                                                                         *)
(* LogOrdered and SettledIsDurable are not inductive.  AofInv states them  *)
(* for the parts of the log (the file, the batch being written, the queue) *)
(* and adds what links the parts to the writer's position: which record    *)
(* the batch ends with, and which record a woken waiter may rely on.       *)
(***************************************************************************)
EXTENDS AofWriter, TLAPS

-----------------------------------------------------------------------------
(* The inductive invariant.                                                *)

Ordered(s) == \A i, j \in DOMAIN s : i < j => s[i].seq < s[j].seq
Below(s, t) == \A i \in DOMAIN s : \A j \in DOMAIN t : s[i].seq < t[j].seq
AtMost(s, n) == \A i \in DOMAIN s : s[i].seq <= n

\* Is record number n known to be on disk?
OnDisk(n) == synced > 0 /\ n <= file[synced].seq

PartsOrdered ==
    /\ Ordered(file) /\ Ordered(Unwritten) /\ Ordered(tail)
    /\ Below(file, Unwritten) /\ Below(file, tail) /\ Below(Unwritten, tail)

SeqAhead ==
    online => /\ snap_seq <= seq
              /\ AtMost(file, seq) /\ AtMost(Unwritten, seq) /\ AtMost(tail, seq)

Stopped == ~online => tail = << >> /\ stage = "idle" /\ waits = [k \in Clients |-> 0]

BatchInFile ==
    /\ stage \in {"taken", "written", "returned"} => batch # << >>
    /\ stage \in {"written", "returned"} =>
          file # << >> /\ file[Len(file)].seq = batch[Len(batch)].seq
    /\ stage = "returned" /\ Fsync = "always" => synced = Len(file)

WakesAreDurable ==
    /\ settled # 0 => Fsync = "always" /\ OnDisk(settled)
    /\ \A k \in Clients : waits[k] # 0 =>
          Fsync = "always" /\ (waits[k] <= durable_seq => OnDisk(waits[k]))

AofInv ==
    AofTypeOK /\ PartsOrdered /\ SeqAhead /\ Stopped /\ BatchInFile /\ WakesAreDurable

-----------------------------------------------------------------------------
(* Sequences of records.                                                   *)

\* A record of a sequence has a positive number.
LEMMA RecordSeq ==
    ASSUME NEW s \in Seq(Record), NEW i \in DOMAIN s
    PROVE  s[i].seq \in Nat /\ s[i].seq > 0
<1>1. s[i] \in Record
  OBVIOUS
<1> QED
  BY <1>1 DEF Record

\* What tail and file are extended with stays a sequence, part by part.
LEMMA Concat ==
    ASSUME NEW a \in Seq(Record), NEW b \in Seq(Record)
    PROVE  /\ a \o b \in Seq(Record)
           /\ Len(a \o b) = Len(a) + Len(b)
           /\ \A i \in 1..Len(a) : (a \o b)[i] = a[i]
           /\ \A i \in 1..Len(b) : (a \o b)[Len(a) + i] = b[i]
           /\ \A i \in DOMAIN (a \o b) : \/ i \in DOMAIN a /\ (a \o b)[i] = a[i]
                                         \/ i - Len(a) \in DOMAIN b /\ (a \o b)[i] = b[i - Len(a)]
OBVIOUS

\* Two ordered sequences, one below the other, are ordered when joined.
LEMMA OrderedConcat ==
    ASSUME NEW a \in Seq(Record), NEW b \in Seq(Record),
           Ordered(a), Ordered(b), Below(a, b)
    PROVE  Ordered(a \o b)
<1> DEFINE c == a \o b
<1>1. /\ c \in Seq(Record)
      /\ \A i \in DOMAIN c : \/ i \in DOMAIN a /\ c[i] = a[i]
                             \/ i - Len(a) \in DOMAIN b /\ c[i] = b[i - Len(a)]
  BY Concat
<1> HIDE DEF c
<1>2. SUFFICES ASSUME NEW i \in DOMAIN c, NEW j \in DOMAIN c, i < j
               PROVE  c[i].seq < c[j].seq
  BY DEF Ordered, c
<1>3. i \in Nat /\ j \in Nat /\ Len(a) \in Nat /\ DOMAIN a = 1..Len(a) /\ DOMAIN b = 1..Len(b)
      /\ Len(b) \in Nat
  BY <1>1
<1>4. CASE i \in DOMAIN a /\ c[i] = a[i]
  <2>1. CASE j \in DOMAIN a /\ c[j] = a[j]
    BY <1>2, <1>4, <2>1 DEF Ordered
  <2>2. CASE j - Len(a) \in DOMAIN b /\ c[j] = b[j - Len(a)]
    BY <1>4, <2>2 DEF Below
  <2> QED
    BY <1>1, <2>1, <2>2
<1>5. CASE i - Len(a) \in DOMAIN b /\ c[i] = b[i - Len(a)]
  <2>1. CASE j \in DOMAIN a
    BY <1>2, <1>3, <1>5, <2>1
  <2>2. CASE j - Len(a) \in DOMAIN b /\ c[j] = b[j - Len(a)]
    <3>1. i - Len(a) < j - Len(a)
      BY <1>2, <1>3
    <3> QED
      BY <1>5, <2>2, <3>1 DEF Ordered
  <2> QED
    BY <1>1, <2>1, <2>2
<1> QED
  BY <1>1, <1>4, <1>5

\* A sequence below, or above, two others is below, or above, their join.
LEMMA BelowConcat ==
    ASSUME NEW a \in Seq(Record), NEW b \in Seq(Record), NEW s \in Seq(Record)
    PROVE  /\ Below(a, s) /\ Below(b, s) => Below(a \o b, s)
           /\ Below(s, a) /\ Below(s, b) => Below(s, a \o b)
BY Concat DEF Below

\* Both parts of a bounded sequence are bounded, and conversely.
LEMMA AtMostConcat ==
    ASSUME NEW a \in Seq(Record), NEW b \in Seq(Record), NEW n \in Nat
    PROVE  AtMost(a, n) /\ AtMost(b, n) => AtMost(a \o b, n)
BY Concat DEF AtMost

\* The empty sequence is in order with everything.
LEMMA EmptyOrdered ==
    ASSUME NEW s, NEW n
    PROVE  Ordered(<< >>) /\ Below(<< >>, s) /\ Below(s, << >>) /\ AtMost(<< >>, n)
BY DEF Ordered, Below, AtMost

\* What append puts into the queue: consecutive numbers from seq + 1 on.
LEMMA NumberedRecords ==
    ASSUME NEW bodies \in Seq(Bodies), seq \in Nat
    PROVE  /\ Numbered(bodies) \in Seq(Record)
           /\ Ordered(Numbered(bodies))
           /\ AtMost(Numbered(bodies), seq + Len(bodies))
           /\ \A i \in DOMAIN Numbered(bodies) : Numbered(bodies)[i].seq > seq
<1> DEFINE s == Numbered(bodies)
<1>1. Len(bodies) \in Nat /\ DOMAIN s = 1..Len(bodies)
  BY DEF Numbered
<1>2. \A i \in 1..Len(bodies) : s[i] \in Record /\ s[i].seq = seq + i
  BY DEF Numbered, Record
<1>3. s \in [1..Len(bodies) -> Record]
  BY <1>1, <1>2 DEF Numbered
<1>4. s \in Seq(Record)
  BY <1>1, <1>3
<1> QED
  BY <1>1, <1>2, <1>4 DEF Ordered, AtMost

\* A prefix of an ordered sequence is ordered.
LEMMA Prefix ==
    ASSUME NEW s \in Seq(Record), NEW j \in 0..Len(s)
    PROVE  /\ SubSeq(s, 1, j) \in Seq(Record)
           /\ Len(SubSeq(s, 1, j)) = j
           /\ \A i \in 1..j : SubSeq(s, 1, j)[i] = s[i]
           /\ Ordered(s) => Ordered(SubSeq(s, 1, j))
<1>1. SubSeq(s, 1, j) \in Seq(Record) /\ Len(SubSeq(s, 1, j)) = j
  OBVIOUS
<1>2. \A i \in 1..j : SubSeq(s, 1, j)[i] = s[i]
  OBVIOUS
<1> QED
  BY <1>1, <1>2 DEF Ordered

-----------------------------------------------------------------------------
(* The event loop's steps keep the invariant.                              *)

\* The queue after an append is in order and ends at the new seq.
LEMMA AppendKeeps ==
    ASSUME NEW bodies \in Seq(Bodies), AofInv, online, append(bodies)
    PROVE  /\ seq' \in Nat /\ tail' \in Seq(Record)
           /\ PartsOrdered' /\ SeqAhead' /\ BatchInFile'
<1> DEFINE new == Numbered(bodies)
<1>1. /\ seq \in Nat /\ tail \in Seq(Record) /\ batch \in Seq(Record) /\ file \in Seq(Record)
      /\ Unwritten \in Seq(Record)
  BY DEF AofInv, AofTypeOK, Unwritten
<1>2. /\ new \in Seq(Record) /\ Ordered(new) /\ AtMost(new, seq + Len(bodies))
      /\ \A i \in DOMAIN new : new[i].seq > seq
  BY <1>1, NumberedRecords
<1>3. /\ seq' = seq + Len(bodies) /\ tail' = tail \o new /\ file' = file /\ batch' = batch
      /\ stage' = stage /\ synced' = synced /\ online' = online /\ snap_seq' = snap_seq
      /\ Unwritten' = Unwritten
  BY DEF append, Unwritten
<1>4. Len(bodies) \in Nat /\ seq' \in Nat /\ seq <= seq'
  BY <1>1, <1>3
<1> HIDE DEF new
<1>5. tail' \in Seq(Record)
  BY <1>1, <1>2, <1>3, Concat
<1>6. \A s \in Seq(Record) : AtMost(s, seq) => Below(s, new) /\ AtMost(s, seq')
  <2> SUFFICES ASSUME NEW s \in Seq(Record), AtMost(s, seq)
               PROVE  Below(s, new) /\ AtMost(s, seq')
    OBVIOUS
  <2>1. \A i \in DOMAIN s : s[i].seq \in Nat /\ s[i].seq <= seq
    BY RecordSeq DEF AtMost
  <2>2. \A i \in DOMAIN new : new[i].seq \in Nat
    BY <1>2, RecordSeq
  <2>3. \A i \in DOMAIN s : \A j \in DOMAIN new : s[i].seq < new[j].seq
    <3> SUFFICES ASSUME NEW i \in DOMAIN s, NEW j \in DOMAIN new
                 PROVE  s[i].seq < new[j].seq
      OBVIOUS
    <3>1. s[i].seq \in Nat /\ s[i].seq <= seq /\ new[j].seq \in Nat /\ new[j].seq > seq
      BY <1>2, <2>1, <2>2
    <3> QED
      BY <1>1, <3>1
  <2>4. \A i \in DOMAIN s : s[i].seq <= seq'
    BY <1>1, <1>4, <2>1
  <2> QED
    BY <2>3, <2>4 DEF Below, AtMost
<1>7. /\ AtMost(file, seq) /\ AtMost(Unwritten, seq) /\ AtMost(tail, seq) /\ snap_seq <= seq
      /\ snap_seq \in Nat
  BY DEF AofInv, SeqAhead, AofTypeOK
<1>8. PartsOrdered'
  <2>1. Ordered(tail \o new) /\ Below(file, tail \o new) /\ Below(Unwritten, tail \o new)
    BY <1>1, <1>2, <1>6, <1>7, OrderedConcat, BelowConcat DEF AofInv, PartsOrdered
  <2> QED
    BY <1>3, <2>1 DEF AofInv, PartsOrdered
<1>9. SeqAhead'
  <2>1. AtMost(tail \o new, seq')
    BY <1>1, <1>2, <1>3, <1>4, <1>6, <1>7, AtMostConcat
  <2> QED
    BY <1>1, <1>3, <1>4, <1>6, <1>7, <2>1 DEF SeqAhead
<1>10. BatchInFile'
  BY <1>3 DEF AofInv, BatchInFile
<1> QED
  BY <1>1, <1>4, <1>5, <1>8, <1>9, <1>10 DEF AofInv, AofTypeOK

\* A command keeps the invariant: its own wait, if any, is for a number that
\* the writer has not resolved.
LEMMA CommandKeeps ==
    ASSUME NEW k \in Clients, NEW bodies \in Seq(Bodies), AofInv, Command(k, bodies)
    PROVE  AofInv'
<1>1. online /\ append(bodies)
  BY DEF Command
<1>2. /\ seq' \in Nat /\ tail' \in Seq(Record) /\ PartsOrdered' /\ SeqAhead' /\ BatchInFile'
  BY <1>1, AppendKeeps
<1>3. /\ online' = online /\ batch' = batch /\ stage' = stage /\ file' = file
      /\ synced' = synced /\ durable_seq' = durable_seq /\ settled' = settled
      /\ snap_seq' = snap_seq /\ fsync_due' = fsync_due /\ lag' = lag
      /\ replied' = seq'
      /\ waits' = [waits EXCEPT ![k] = IF MustWait THEN seq' ELSE 0]
  BY DEF Command, append, clockVars
<1>4. AofTypeOK /\ WakesAreDurable
  BY DEF AofInv
<1>5. waits' \in [Clients -> Nat]
  BY <1>2, <1>3, <1>4 DEF AofTypeOK
<1>6. AofTypeOK'
  BY <1>2, <1>3, <1>4, <1>5 DEF AofTypeOK
<1>7. Stopped'
  BY <1>1, <1>3 DEF Stopped
<1>8. WakesAreDurable'
  <2>1. settled' # 0 => Fsync = "always" /\ OnDisk(settled)'
    BY <1>3, <1>4 DEF WakesAreDurable, OnDisk
  <2>2. ASSUME NEW c \in Clients, waits'[c] # 0
        PROVE  Fsync = "always" /\ (waits'[c] <= durable_seq' => OnDisk(waits[c])')
    <3>1. CASE c = k
      <4>1. waits'[c] = IF MustWait THEN seq' ELSE 0
        BY <1>3, <1>4, <3>1 DEF AofTypeOK
      <4>2. MustWait /\ waits'[c] = seq'
        BY <2>2, <4>1
      <4> QED
        BY <1>2, <1>3, <1>4, <4>2 DEF MustWait, AofTypeOK
    <3>2. CASE c # k
      BY <1>3, <1>4, <2>2, <3>2 DEF WakesAreDurable, OnDisk, AofTypeOK
    <3> QED
      BY <3>1, <3>2
  <2> QED
    BY <2>1, <2>2 DEF WakesAreDurable
<1> QED
  BY <1>2, <1>6, <1>7, <1>8 DEF AofInv

\* So do the records that nobody waits for.
LEMMA UnaskedKeeps ==
    ASSUME NEW bodies \in Seq(Bodies), AofInv, Unasked(bodies)
    PROVE  AofInv'
<1>1. online /\ append(bodies)
  BY DEF Unasked
<1>2. /\ seq' \in Nat /\ tail' \in Seq(Record) /\ PartsOrdered' /\ SeqAhead' /\ BatchInFile'
  BY <1>1, AppendKeeps
<1>3. /\ online' = online /\ batch' = batch /\ stage' = stage /\ file' = file
      /\ synced' = synced /\ durable_seq' = durable_seq /\ settled' = settled
      /\ snap_seq' = snap_seq /\ fsync_due' = fsync_due /\ lag' = lag
      /\ replied' = replied /\ waits' = waits
  BY DEF Unasked, append, clockVars
<1>4. AofTypeOK' /\ Stopped' /\ WakesAreDurable'
  BY <1>1, <1>2, <1>3 DEF AofInv, AofTypeOK, Stopped, WakesAreDurable, OnDisk
<1> QED
  BY <1>2, <1>4 DEF AofInv

\* A wait that returns is for a record on disk.
LEMMA WaitOverKeeps ==
    ASSUME NEW k \in Clients, AofInv, WaitOver(k)
    PROVE  AofInv'
<1>1. /\ waits[k] # 0 /\ waits[k] <= durable_seq
      /\ settled' = (IF waits[k] > settled THEN waits[k] ELSE settled)
      /\ waits' = [waits EXCEPT ![k] = 0]
      /\ online /\ online' = online /\ seq' = seq /\ tail' = tail /\ batch' = batch
      /\ stage' = stage /\ file' = file /\ synced' = synced /\ durable_seq' = durable_seq
      /\ replied' = replied /\ snap_seq' = snap_seq /\ fsync_due' = fsync_due /\ lag' = lag
      /\ Unwritten' = Unwritten
  BY DEF WaitOver, writerVars, clockVars, Unwritten
<1>2. AofTypeOK /\ WakesAreDurable
  BY DEF AofInv
<1>3. Fsync = "always" /\ OnDisk(waits[k])
  BY <1>1, <1>2 DEF WakesAreDurable
<1>4. settled' \in Nat /\ waits' \in [Clients -> Nat]
  BY <1>1, <1>2 DEF AofTypeOK
<1>5. AofTypeOK'
  BY <1>1, <1>2, <1>4 DEF AofTypeOK
<1>6. PartsOrdered' /\ SeqAhead' /\ Stopped' /\ BatchInFile'
  BY <1>1 DEF AofInv, PartsOrdered, SeqAhead, Stopped, BatchInFile
<1>7. settled' # 0 => Fsync = "always" /\ OnDisk(settled)'
  BY <1>1, <1>2, <1>3 DEF WakesAreDurable, OnDisk
<1>8. ASSUME NEW c \in Clients, waits'[c] # 0
      PROVE  Fsync = "always" /\ (waits'[c] <= durable_seq' => OnDisk(waits[c])')
  <2>1. waits'[c] = waits[c]
    BY <1>1, <1>2, <1>8 DEF AofTypeOK
  <2> QED
    BY <1>1, <1>2, <1>8, <2>1 DEF WakesAreDurable, OnDisk
<1>9. WakesAreDurable'
  BY <1>7, <1>8 DEF WakesAreDurable
<1> QED
  BY <1>5, <1>6, <1>9 DEF AofInv

\* The snapshot's number is the newest one.
LEMMA SnapshotSeqKeeps ==
    ASSUME AofInv, SnapshotSeq
    PROVE  AofInv'
<1>1. /\ snap_seq' = seq
      /\ online /\ online' = online /\ seq' = seq /\ tail' = tail /\ batch' = batch
      /\ stage' = stage /\ file' = file /\ synced' = synced /\ durable_seq' = durable_seq
      /\ waits' = waits /\ settled' = settled
      /\ replied' = replied /\ fsync_due' = fsync_due /\ lag' = lag /\ Unwritten' = Unwritten
  BY DEF SnapshotSeq, writerVars, clockVars, Unwritten
<1>2. AofTypeOK'
  BY <1>1 DEF AofInv, AofTypeOK
<1>3. SeqAhead'
  BY <1>1, <1>2 DEF AofInv, SeqAhead, AofTypeOK
<1> QED
  BY <1>1, <1>2, <1>3
     DEF AofInv, PartsOrdered, Stopped, BatchInFile, WakesAreDurable, OnDisk

-----------------------------------------------------------------------------
(* The writer's steps keep the invariant.                                  *)

\* The batch takes the place of the queue in the log.
LEMMA TakeBatchKeeps ==
    ASSUME AofInv, TakeBatch
    PROVE  AofInv'
<1>1. /\ online /\ stage = "idle" /\ tail # << >>
      /\ batch' = tail /\ tail' = << >> /\ stage' = "taken"
      /\ online' = online /\ seq' = seq /\ file' = file /\ synced' = synced
      /\ durable_seq' = durable_seq /\ waits' = waits /\ settled' = settled
      /\ replied' = replied /\ snap_seq' = snap_seq /\ fsync_due' = fsync_due /\ lag' = lag
      /\ Unwritten' = tail
  BY DEF TakeBatch, clockVars, Unwritten
<1>2. AofTypeOK'
  BY <1>1 DEF AofInv, AofTypeOK, Stages
<1>3. PartsOrdered' /\ SeqAhead'
  BY <1>1, EmptyOrdered DEF AofInv, PartsOrdered, SeqAhead
<1>4. Stopped' /\ BatchInFile' /\ WakesAreDurable'
  BY <1>1 DEF AofInv, Stopped, BatchInFile, WakesAreDurable, OnDisk
<1> QED
  BY <1>2, <1>3, <1>4 DEF AofInv

\* The batch moves to the end of the file.
LEMMA WriteBytesKeeps ==
    ASSUME AofInv, WriteBytes
    PROVE  AofInv'
<1>1. /\ online /\ stage = "taken" /\ Unwritten = batch
      /\ file' = file \o batch /\ stage' = "written"
      /\ online' = online /\ seq' = seq /\ tail' = tail /\ batch' = batch /\ synced' = synced
      /\ durable_seq' = durable_seq /\ waits' = waits /\ settled' = settled
      /\ replied' = replied /\ snap_seq' = snap_seq /\ fsync_due' = fsync_due /\ lag' = lag
      /\ Unwritten' = << >>
  BY DEF WriteBytes, clockVars, Unwritten
<1>2. /\ file \in Seq(Record) /\ batch \in Seq(Record) /\ tail \in Seq(Record)
      /\ synced \in 0..Len(file) /\ seq \in Nat
  BY DEF AofInv, AofTypeOK
<1>3. /\ file' \in Seq(Record) /\ Len(file') = Len(file) + Len(batch)
      /\ \A i \in 1..Len(file) : file'[i] = file[i]
      /\ \A i \in 1..Len(batch) : file'[Len(file) + i] = batch[i]
  BY <1>1, <1>2, Concat
<1>4. synced' \in 0..Len(file')
  BY <1>1, <1>2, <1>3
<1>5. AofTypeOK'
  BY <1>1, <1>3, <1>4 DEF AofInv, AofTypeOK, Stages
<1>6. PartsOrdered' /\ SeqAhead'
  <2>1. /\ Ordered(file) /\ Ordered(batch) /\ Ordered(tail)
        /\ Below(file, batch) /\ Below(file, tail) /\ Below(batch, tail)
    BY <1>1 DEF AofInv, PartsOrdered
  <2>2. AtMost(file, seq) /\ AtMost(batch, seq)
    BY <1>1 DEF AofInv, SeqAhead
  <2>3. Ordered(file \o batch) /\ Below(file \o batch, tail)
    BY <1>2, <2>1, OrderedConcat, BelowConcat
  <2>4. AtMost(file \o batch, seq)
    BY <1>2, <2>2, AtMostConcat
  <2> QED
    BY <1>1, <2>1, <2>3, <2>4, EmptyOrdered DEF AofInv, PartsOrdered, SeqAhead
<1>7. BatchInFile'
  <2>1. batch # << >> /\ Len(batch) \in 1..Len(batch)
    BY <1>1, <1>2 DEF AofInv, BatchInFile
  <2>2. file'[Len(file')] = batch[Len(batch)] /\ file' # << >>
    BY <1>2, <1>3, <2>1
  <2> QED
    BY <1>1, <2>1, <2>2 DEF BatchInFile
<1>8. WakesAreDurable'
  <2>1. synced > 0 => synced' > 0 /\ file'[synced'] = file[synced]
    BY <1>1, <1>2, <1>3
  <2> QED
    BY <1>1, <2>1 DEF AofInv, WakesAreDurable, OnDisk
<1>9. Stopped'
  BY <1>1 DEF Stopped
<1> QED
  BY <1>5, <1>6, <1>7, <1>8, <1>9 DEF AofInv

\* A batch that could not be written leaves the log.
LEMMA WriteFailsKeeps ==
    ASSUME AofInv, WriteFails
    PROVE  AofInv'
<1>1. /\ online /\ stage' = "failed"
      /\ online' = online /\ seq' = seq /\ tail' = tail /\ batch' = batch /\ file' = file
      /\ synced' = synced /\ durable_seq' = durable_seq /\ waits' = waits /\ settled' = settled
      /\ replied' = replied /\ snap_seq' = snap_seq /\ fsync_due' = fsync_due /\ lag' = lag
      /\ Unwritten' = << >>
  BY DEF WriteFails, clockVars, Unwritten
<1>2. AofTypeOK'
  BY <1>1 DEF AofInv, AofTypeOK, Stages
<1>3. PartsOrdered' /\ SeqAhead'
  BY <1>1, EmptyOrdered DEF AofInv, PartsOrdered, SeqAhead
<1>4. Stopped' /\ BatchInFile' /\ WakesAreDurable'
  BY <1>1 DEF AofInv, Stopped, BatchInFile, WakesAreDurable, OnDisk
<1> QED
  BY <1>2, <1>3, <1>4 DEF AofInv

\* A later record has a number at least as high.
LEMMA LaterIsHigher ==
    ASSUME NEW s \in Seq(Record), Ordered(s), NEW i \in DOMAIN s, NEW j \in DOMAIN s, i <= j
    PROVE  s[i].seq <= s[j].seq
<1>1. s[i].seq \in Nat /\ s[j].seq \in Nat
  BY RecordSeq
<1>2. i = j \/ i < j
  OBVIOUS
<1> QED
  BY <1>1, <1>2 DEF Ordered

\* An fsync only adds to what is on disk; without one nothing changes, which
\* under `always' does not happen.
LEMMA SyncBytesKeeps ==
    ASSUME AofInv, SyncBytes
    PROVE  AofInv'
<1>1. /\ online /\ stage = "written" /\ stage' = "returned"
      /\ online' = online /\ seq' = seq /\ tail' = tail /\ batch' = batch /\ file' = file
      /\ durable_seq' = durable_seq /\ waits' = waits /\ settled' = settled
      /\ replied' = replied /\ snap_seq' = snap_seq
      /\ Unwritten = << >> /\ Unwritten' = << >>
  BY DEF SyncBytes, Unwritten
<1>2. \/ synced' = Len(file) /\ fsync_due' = FALSE /\ lag' = 0
      \/ Fsync # "always" /\ synced' = synced /\ fsync_due' = fsync_due /\ lag' = lag
  BY DEF SyncBytes, Syncs, clockVars
<1>3. /\ file \in Seq(Record) /\ synced \in 0..Len(file) /\ Ordered(file)
      /\ waits \in [Clients -> Nat] /\ settled \in Nat /\ LagBound \in Nat
  BY AofBoundAssumption DEF AofInv, AofTypeOK, PartsOrdered
<1>4. AofTypeOK'
  <2>1. synced' \in 0..Len(file') /\ lag' \in 0..(LagBound + 1)
    BY <1>1, <1>2, <1>3 DEF AofInv, AofTypeOK
  <2>2. fsync_due' \in BOOLEAN
    BY <1>2, Zenon DEF AofInv, AofTypeOK
  <2> QED
    BY <1>1, <2>1, <2>2 DEF AofInv, AofTypeOK, Stages
<1>5. PartsOrdered' /\ SeqAhead' /\ Stopped'
  BY <1>1 DEF AofInv, PartsOrdered, SeqAhead, Stopped
<1>6. BatchInFile'
  BY <1>1, <1>2 DEF AofInv, BatchInFile
<1>7. \A n \in Nat : OnDisk(n) => synced' > 0 /\ n <= file'[synced'].seq
  <2> SUFFICES ASSUME NEW n \in Nat, OnDisk(n)
               PROVE  synced' > 0 /\ n <= file'[synced'].seq
    OBVIOUS
  <2>1. /\ synced \in DOMAIN file /\ synced' \in DOMAIN file /\ synced <= synced'
        /\ n <= file[synced].seq
    BY <1>2, <1>3 DEF OnDisk
  <2>2. file[synced].seq <= file[synced'].seq
    BY <1>3, <2>1, LaterIsHigher
  <2>3. file[synced].seq \in Nat /\ file[synced'].seq \in Nat
    BY <1>3, <2>1, RecordSeq
  <2> QED
    BY <1>1, <1>3, <2>1, <2>2, <2>3
<1>8. WakesAreDurable'
  <2>1. settled' # 0 => Fsync = "always" /\ OnDisk(settled)'
    BY <1>1, <1>3, <1>7 DEF AofInv, WakesAreDurable, OnDisk
  <2>2. ASSUME NEW c \in Clients, waits'[c] # 0
        PROVE  Fsync = "always" /\ (waits'[c] <= durable_seq' => OnDisk(waits[c])')
    BY <1>1, <1>3, <1>7, <2>2 DEF AofInv, WakesAreDurable, OnDisk
  <2> QED
    BY <2>1, <2>2 DEF WakesAreDurable
<1> QED
  BY <1>4, <1>5, <1>6, <1>8 DEF AofInv

\* The waiters that a batch wakes up wait for its last record or for one
\* before it, and under `always' that record is on disk.
LEMMA ResolveKeeps ==
    ASSUME AofInv, Resolve
    PROVE  AofInv'
<1>1. /\ online /\ stage = "returned" /\ stage' = "idle"
      /\ durable_seq' = batch[Len(batch)].seq /\ batch' = << >>
      /\ online' = online /\ seq' = seq /\ tail' = tail /\ file' = file /\ synced' = synced
      /\ waits' = waits /\ settled' = settled
      /\ replied' = replied /\ snap_seq' = snap_seq /\ fsync_due' = fsync_due /\ lag' = lag
      /\ Unwritten = << >> /\ Unwritten' = << >>
  BY DEF Resolve, ResolvedUpTo, clockVars, Unwritten
<1>2. /\ file \in Seq(Record) /\ batch \in Seq(Record) /\ synced \in 0..Len(file)
      /\ file # << >> /\ file[Len(file)].seq = batch[Len(batch)].seq
      /\ (Fsync = "always" => synced = Len(file))
  BY <1>1 DEF AofInv, AofTypeOK, BatchInFile
<1>3. Len(file) \in DOMAIN file /\ Len(file) > 0
  BY <1>2
<1>4. durable_seq' = file[Len(file)].seq /\ durable_seq' \in Nat
  BY <1>1, <1>2, <1>3, RecordSeq
<1>5. AofTypeOK'
  BY <1>1, <1>4 DEF AofInv, AofTypeOK, Stages
<1>6. PartsOrdered' /\ SeqAhead' /\ Stopped' /\ BatchInFile'
  BY <1>1 DEF AofInv, PartsOrdered, SeqAhead, Stopped, BatchInFile
<1>7. settled' # 0 => Fsync = "always" /\ OnDisk(settled)'
  BY <1>1 DEF AofInv, WakesAreDurable, OnDisk
<1>8. ASSUME NEW c \in Clients, waits'[c] # 0
      PROVE  Fsync = "always" /\ (waits'[c] <= durable_seq' => OnDisk(waits[c])')
  <2>1. Fsync = "always"
    BY <1>1, <1>8 DEF AofInv, WakesAreDurable
  <2> QED
    BY <1>1, <1>2, <1>3, <1>4, <2>1 DEF OnDisk
<1>9. WakesAreDurable'
  BY <1>7, <1>8 DEF WakesAreDurable
<1> QED
  BY <1>5, <1>6, <1>9 DEF AofInv

\* Time changes the clock variables alone.
LEMMA SecondKeeps ==
    ASSUME AofInv, Second
    PROVE  AofInv'
<1>1. /\ online' = online /\ seq' = seq /\ tail' = tail /\ batch' = batch /\ stage' = stage
      /\ file' = file /\ synced' = synced /\ durable_seq' = durable_seq /\ waits' = waits
      /\ settled' = settled /\ replied' = replied /\ snap_seq' = snap_seq
      /\ Unwritten' = Unwritten /\ fsync_due' = TRUE
  BY DEF Second, writerVars, Unwritten
<1>2. lag' = 0 \/ lag' = lag \/ (lag <= LagBound /\ lag' = lag + 1)
  BY DEF Second
<1>3. lag' \in 0..(LagBound + 1)
  BY <1>2, AofBoundAssumption DEF AofInv, AofTypeOK
<1>4. AofTypeOK'
  BY <1>1, <1>3 DEF AofInv, AofTypeOK
<1> QED
  BY <1>1, <1>4
     DEF AofInv, PartsOrdered, SeqAhead, Stopped, BatchInFile, WakesAreDurable, OnDisk

-----------------------------------------------------------------------------
(* Going down and coming back keep the invariant.                          *)

\* What a stop leaves of the file is enough when it is an ordered extension
\* of the synced part.
LEMMA ForgetKeeps ==
    ASSUME AofInv, Forget, file' \in Seq(Record), Ordered(file'),
           replied' \in Nat, snap_seq' \in Nat,
           synced' \in 0..Len(file'), synced <= synced',
           \A i \in 1..synced : i <= Len(file') /\ file'[i] = file[i]
    PROVE  AofInv'
<1>1. /\ online' = FALSE /\ tail' = << >> /\ batch' = << >> /\ stage' = "idle"
      /\ waits' = [k \in Clients |-> 0] /\ fsync_due' = TRUE /\ lag' = 0
      /\ seq' = seq /\ durable_seq' = durable_seq /\ settled' = settled
      /\ Unwritten' = << >>
  BY DEF Forget, Unwritten
<1>2. AofTypeOK'
  <2>1. waits' \in [Clients -> Nat] /\ lag' \in 0..(LagBound + 1) /\ << >> \in Seq(Record)
    BY <1>1, AofBoundAssumption
  <2> QED
    BY <1>1, <2>1 DEF AofInv, AofTypeOK, Stages
<1>3. PartsOrdered' /\ SeqAhead' /\ Stopped' /\ BatchInFile'
  BY <1>1, EmptyOrdered DEF PartsOrdered, SeqAhead, Stopped, BatchInFile
<1>4. settled' # 0 => Fsync = "always" /\ OnDisk(settled)'
  <2> SUFFICES ASSUME settled # 0
               PROVE  Fsync = "always" /\ synced' > 0 /\ settled <= file'[synced'].seq
    BY <1>1 DEF OnDisk
  <2>1. Fsync = "always" /\ synced > 0 /\ settled <= file[synced].seq
    BY DEF AofInv, WakesAreDurable, OnDisk
  <2>2. /\ synced \in Nat /\ synced' \in Nat /\ settled \in Nat
        /\ synced \in DOMAIN file' /\ synced' \in DOMAIN file' /\ file'[synced] = file[synced]
    BY <2>1 DEF AofInv, AofTypeOK
  <2>3. file'[synced].seq <= file'[synced'].seq
    BY <2>2, LaterIsHigher
  <2>4. file'[synced].seq \in Nat /\ file'[synced'].seq \in Nat
    BY <2>2, RecordSeq
  <2> QED
    BY <2>1, <2>2, <2>3, <2>4
<1>5. WakesAreDurable'
  BY <1>1, <1>4 DEF WakesAreDurable
<1> QED
  BY <1>2, <1>3, <1>5 DEF AofInv

\* A crash keeps at least what was synced, and a prefix of what was written.
LEMMA CrashKeeps ==
    ASSUME AofInv, Crash
    PROVE  AofInv'
<1> DEFINE s == file \o Unwritten
<1>1. /\ file \in Seq(Record) /\ Unwritten \in Seq(Record) /\ synced \in 0..Len(file)
      /\ snap_seq \in Nat
  BY DEF AofInv, AofTypeOK, Unwritten
<1>2. /\ s \in Seq(Record) /\ Len(s) = Len(file) + Len(Unwritten)
      /\ \A i \in 1..Len(file) : s[i] = file[i]
  BY <1>1, Concat
<1>3. Ordered(s)
  BY <1>1, OrderedConcat DEF AofInv, PartsOrdered
<1>4. PICK j \in synced..Len(s) : file' = SubSeq(s, 1, j)
  BY DEF Crash
<1>5. Forget /\ replied' = 0 /\ synced' = synced /\ snap_seq' = snap_seq
  BY DEF Crash
<1> HIDE DEF s
<1>6. j \in 0..Len(s)
  BY <1>1, <1>2
<1>7. /\ file' \in Seq(Record) /\ Len(file') = j /\ Ordered(file')
      /\ \A i \in 1..j : file'[i] = s[i]
  BY <1>2, <1>3, <1>4, <1>6, Prefix
<1>8. synced \in Nat /\ synced <= j /\ synced <= Len(file) /\ j \in Nat /\ Len(file) \in Nat
  BY <1>1, <1>6
<1>9. synced' \in 0..Len(file') /\ synced <= synced'
  BY <1>5, <1>7, <1>8
<1>10. \A i \in 1..synced : i <= Len(file') /\ file'[i] = file[i]
  BY <1>2, <1>7, <1>8
<1> QED
  BY <1>1, <1>5, <1>7, <1>9, <1>10, ForgetKeeps

\* A shutdown syncs the file.
LEMMA ShutdownKeeps ==
    ASSUME NEW save \in BOOLEAN, AofInv, Shutdown(save)
    PROVE  AofInv'
<1>1. /\ Forget /\ replied' = 0 /\ file' = file /\ synced' = Len(file)
      /\ snap_seq' = (IF save THEN seq ELSE snap_seq)
  BY DEF Shutdown
<1>2. /\ file \in Seq(Record) /\ synced \in 0..Len(file) /\ Ordered(file)
      /\ seq \in Nat /\ snap_seq \in Nat
  BY DEF AofInv, AofTypeOK, PartsOrdered
<1>3. snap_seq' \in Nat
  BY <1>1, <1>2
<1>4. /\ synced' \in 0..Len(file') /\ synced <= synced'
      /\ \A i \in 1..synced : i <= Len(file') /\ file'[i] = file[i]
  BY <1>1, <1>2
<1> QED
  BY <1>1, <1>2, <1>3, <1>4, ForgetKeeps

\* A restart takes up the numbers above the file's and the snapshot's.
LEMMA AttachKeeps ==
    ASSUME AofInv, Attach
    PROVE  AofInv'
<1>1. /\ ~online /\ online' = TRUE /\ seq' = RecoveredSeq /\ durable_seq' = RecoveredSeq
      /\ tail' = tail /\ batch' = batch /\ stage' = stage /\ file' = file /\ synced' = synced
      /\ waits' = waits /\ settled' = settled /\ replied' = replied /\ snap_seq' = snap_seq
      /\ fsync_due' = fsync_due /\ lag' = lag /\ Unwritten' = Unwritten
  BY DEF Attach, clockVars, Unwritten
<1>2. /\ file \in Seq(Record) /\ snap_seq \in Nat /\ Ordered(file)
      /\ tail = << >> /\ stage = "idle" /\ waits = [k \in Clients |-> 0]
  BY <1>1 DEF AofInv, AofTypeOK, PartsOrdered, Stopped
<1>3. RecoveredSeq \in Nat /\ snap_seq <= RecoveredSeq /\ AtMost(file, RecoveredSeq)
  <2>1. CASE file = << >>
    BY <1>2, <2>1, EmptyOrdered DEF RecoveredSeq
  <2>2. CASE file # << >>
    <3>1. Len(file) \in DOMAIN file
      BY <1>2, <2>2
    <3>2. file[Len(file)].seq \in Nat
      BY <1>2, <3>1, RecordSeq
    <3>3. /\ RecoveredSeq \in Nat /\ snap_seq <= RecoveredSeq
          /\ file[Len(file)].seq <= RecoveredSeq
      BY <1>2, <2>2, <3>2 DEF RecoveredSeq
    <3>4. ASSUME NEW i \in DOMAIN file
          PROVE  file[i].seq <= RecoveredSeq
      <4>1. file[i].seq <= file[Len(file)].seq /\ file[i].seq \in Nat
        BY <1>2, <3>1, LaterIsHigher, RecordSeq
      <4> QED
        BY <3>2, <3>3, <4>1
    <3> QED
      BY <3>3, <3>4 DEF AtMost
  <2> QED
    BY <2>1, <2>2
<1>4. AofTypeOK'
  BY <1>1, <1>3 DEF AofInv, AofTypeOK
<1>5. SeqAhead'
  <2>1. Unwritten = << >>
    BY <1>2 DEF Unwritten
  <2> QED
    BY <1>1, <1>2, <1>3, <2>1, EmptyOrdered DEF SeqAhead
<1>6. WakesAreDurable'
  BY <1>1, <1>2 DEF AofInv, WakesAreDurable, OnDisk
<1>7. PartsOrdered' /\ Stopped' /\ BatchInFile'
  BY <1>1 DEF AofInv, PartsOrdered, Stopped, BatchInFile
<1> QED
  BY <1>4, <1>5, <1>6, <1>7 DEF AofInv

-----------------------------------------------------------------------------
(* The invariant, and what follows from it.                                *)

\* The broker's first start satisfies the invariant.
LEMMA AofInitInv == AofInit => AofInv
<1> SUFFICES ASSUME AofInit PROVE AofInv
  OBVIOUS
<1>1. AofTypeOK
  BY AofBoundAssumption DEF AofInit, AofTypeOK, Stages
<1>2. Unwritten = << >> /\ file = << >> /\ tail = << >> /\ snap_seq = 0 /\ seq = 0
  BY DEF AofInit, Unwritten
<1>3. PartsOrdered /\ SeqAhead
  BY <1>2, EmptyOrdered DEF PartsOrdered, SeqAhead
<1>4. Stopped /\ BatchInFile /\ WakesAreDurable
  BY DEF AofInit, Stopped, BatchInFile, WakesAreDurable
<1> QED
  BY <1>1, <1>3, <1>4 DEF AofInv

\* Every step of the event loop, the writer and the machine keeps it.
LEMMA AofNextInv == AofInv /\ [AofNext]_aofVars => AofInv'
<1> SUFFICES ASSUME AofInv, [AofNext]_aofVars PROVE AofInv'
  OBVIOUS
<1>1. ASSUME NEW b \in Bodies, NEW k \in Clients, Command(k, <<b>>) \/ Command(k, <<b, b>>)
      PROVE  AofInv'
  BY <1>1, <<b>> \in Seq(Bodies), <<b, b>> \in Seq(Bodies), CommandKeeps
<1>2. ASSUME NEW b \in Bodies, Unasked(<<b>>)
      PROVE  AofInv'
  BY <1>2, <<b>> \in Seq(Bodies), UnaskedKeeps
<1>3. ASSUME NEW k \in Clients, WaitOver(k)
      PROVE  AofInv'
  BY <1>3, WaitOverKeeps
<1>4. ASSUME NEW s \in BOOLEAN, Shutdown(s)
      PROVE  AofInv'
  BY <1>4, ShutdownKeeps
<1>5. CASE UNCHANGED aofVars
  BY <1>5 DEF aofVars, writerVars, clockVars, AofInv, AofTypeOK, PartsOrdered, SeqAhead,
              Stopped, BatchInFile, WakesAreDurable, OnDisk, Unwritten
<1> QED
  BY <1>1, <1>2, <1>3, <1>4, <1>5, SnapshotSeqKeeps, TakeBatchKeeps, WriteBytesKeeps,
     WriteFailsKeeps, SyncBytesKeeps, ResolveKeeps, SecondKeeps, CrashKeeps, AttachKeeps
     DEF AofNext

\* The invariant holds in every state of every behaviour.
THEOREM AofInvariant == AofSpec => []AofInv
BY AofInitInv, AofNextInv, PTL DEF AofSpec

\* The parts of the log, joined: what AofInv says of them holds of the log.
LEMMA LogFromParts ==
    ASSUME AofInv
    PROVE  /\ Log \in Seq(Record)
           /\ Ordered(Log)
           /\ online => AtMost(Log, seq)
           /\ \A i \in 1..Len(file) : i \in DOMAIN Log /\ Log[i] = file[i]
<1>1. /\ file \in Seq(Record) /\ Unwritten \in Seq(Record) /\ tail \in Seq(Record)
      /\ seq \in Nat
  BY DEF AofInv, AofTypeOK, Unwritten
<1> DEFINE w == file \o Unwritten
<1>2. /\ w \in Seq(Record) /\ Len(w) = Len(file) + Len(Unwritten)
      /\ \A i \in 1..Len(file) : w[i] = file[i]
  BY <1>1, Concat
<1>3. Ordered(w) /\ Below(w, tail)
  BY <1>1, OrderedConcat, BelowConcat DEF AofInv, PartsOrdered
<1>4. online => AtMost(w, seq)
  BY <1>1, AtMostConcat DEF AofInv, SeqAhead
<1>5. Log = w \o tail
  BY DEF Log
<1> HIDE DEF w
<1>6. Ordered(Log)
  BY <1>1, <1>2, <1>3, <1>5, OrderedConcat DEF AofInv, PartsOrdered
<1>7. online => AtMost(Log, seq)
  BY <1>1, <1>2, <1>4, <1>5, AtMostConcat DEF AofInv, SeqAhead
<1>8. /\ Log \in Seq(Record) /\ Len(Log) = Len(w) + Len(tail)
      /\ \A i \in 1..Len(w) : Log[i] = w[i]
  BY <1>1, <1>2, <1>5, Concat
<1>9. \A i \in 1..Len(file) : i \in DOMAIN Log /\ Log[i] = file[i]
  BY <1>1, <1>2, <1>8
<1> QED
  BY <1>6, <1>7, <1>8, <1>9

\* AofTypeOK for every policy, any connections and any number of records.
THEOREM AofTypeCorrect == AofSpec => []AofTypeOK
BY AofInvariant, PTL DEF AofInv

\* LogOrdered for every policy: the numbers that recover_into compares and
\* that AOFWriter.append hands out stay in order over any number of crashes,
\* lost tails and snapshots ahead of the file.
THEOREM NumbersNeverRepeat == AofSpec => []LogOrdered
<1>1. AofInv => LogOrdered
  BY LogFromParts DEF LogOrdered, Ordered, AtMost, AofInv, SeqAhead
<1> QED
  BY <1>1, AofInvariant, PTL

\* SettledIsDurable: a wait_durable that returned under fsync=always speaks
\* for every record up to its own, for good.
THEOREM WaitMeansDurable == AofSpec => []SettledIsDurable
<1>1. ASSUME AofInv
      PROVE  SettledIsDurable
  <2> SUFFICES ASSUME NEW i \in DOMAIN Log, Log[i].seq <= settled
               PROVE  i <= synced
    BY DEF SettledIsDurable
  <2>1. /\ Log \in Seq(Record) /\ Ordered(Log)
        /\ \A n \in 1..Len(file) : n \in DOMAIN Log /\ Log[n] = file[n]
    BY <1>1, LogFromParts
  <2>2. Log[i].seq \in Nat /\ Log[i].seq > 0 /\ settled \in Nat
    BY <1>1, <2>1, RecordSeq DEF AofInv, AofTypeOK
  <2>3. synced > 0 /\ settled <= file[synced].seq /\ synced \in 1..Len(file)
    BY <1>1, <2>2 DEF AofInv, AofTypeOK, WakesAreDurable, OnDisk
  <2>4. synced \in DOMAIN Log /\ Log[synced].seq \in Nat /\ settled <= Log[synced].seq
    BY <2>1, <2>3, RecordSeq
  <2>5. i \in Nat /\ synced \in Nat
    BY <2>1, <2>3
  <2>6. ~ (synced < i)
    BY <2>1, <2>2, <2>4 DEF Ordered
  <2> QED
    BY <2>5, <2>6
<1> QED
  BY <1>1, AofInvariant, PTL
=============================================================================
