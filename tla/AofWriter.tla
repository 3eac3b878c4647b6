----------------------------- MODULE AofWriter -----------------------------
(***************************************************************************)
(* The append-only file: AOFWriter of persistence/aof.py, the part of      *)
(* BrokerServer._read_loop that replies to a command and waits for its     *)
(* records, and the sequence numbers that snapshots and recovery keep.     *)
(*                                                                         *)
(* Three parties act on it.  The event loop appends to `_queue' and sends  *)
(* replies; the writer task takes whole batches and hands them to a thread *)
(* that writes and, by the fsync policy, syncs; the machine may stop the   *)
(* process at any point, with or without the operating system.             *)
(*                                                                         *)
(* A record is its sequence number and a body.  The bytes of the codec     *)
(* (records.py) are left out: read_aof stops at the first record that is   *)
(* incomplete or has a wrong checksum, so that what is read back after a   *)
(* crash is a prefix, in whole records, of what was written.               *)
(***************************************************************************)
EXTENDS Integers, Sequences

CONSTANTS
    Fsync,        \* persistence.fsync: "always", "everysec" or "none"
    Clients,      \* connections whose commands append
    Bodies,       \* operations and their arguments
    DiskMayFail,  \* may a write or an fsync raise OSError?
    SeqBound,     \* bound: no command once seq has reached this
    LagBound      \* seconds the oldest unsynced record is followed for

ASSUME FsyncAssumption == Fsync \in {"always", "everysec", "none"}
ASSUME AofBoundAssumption ==
    /\ SeqBound \in Nat
    /\ LagBound \in Nat
    /\ DiskMayFail \in BOOLEAN

VARIABLES
    online,       \* is the broker process running, and past its recovery?
    seq,          \* AOFWriter.seq
    tail,         \* _queue
    batch,        \* the batch _run has taken
    stage,        \* where _run is with it: see Stages
    file,         \* the records in appendonly.aof, as a reader would see them
    synced,       \* how many of them are known to be on disk
    durable_seq,  \* _durable_seq: waiters up to here have been woken
    waits,        \* the seq each connection is in wait_durable for, or 0
    settled,      \* the highest seq a wait_durable has returned for
    replied,      \* the highest seq a reply has been sent for
    snap_seq,     \* aof_seq of snapshot.dat
    fsync_due,    \* has a second passed since _last_fsync?
    lag           \* whole seconds some replied record has been unsynced

writerVars == <<tail, batch, stage, file, synced, durable_seq>>
clockVars  == <<fsync_due, lag>>
aofVars == <<online, seq, writerVars, waits, settled, replied, snap_seq, clockVars>>

Stages == {"idle", "taken", "written", "returned", "failed"}

Record == [seq : Nat \ {0}, body : Bodies]

Seqs(s) == {s[i].seq : i \in DOMAIN s}

\* The records that are taken from _queue and not yet in the file.
Unwritten == IF stage = "taken" THEN batch ELSE << >>

\* Everything appended, in the order it was.
Log == file \o Unwritten \o tail

AofInit ==
    /\ online = TRUE
    /\ seq = 0
    /\ tail = << >>
    /\ batch = << >>
    /\ stage = "idle"
    /\ file = << >>
    /\ synced = 0
    /\ durable_seq = 0
    /\ waits = [k \in Clients |-> 0]
    /\ settled = 0
    /\ replied = 0
    /\ snap_seq = 0
    /\ fsync_due = TRUE
    /\ lag = 0

-----------------------------------------------------------------------------
(* The event loop.                                                         *)

\* Mutant: the first record gets the number that tells the writer to stop.
NumberedFromZero(bodies) ==
    [i \in 1..Len(bodies) |-> [seq |-> seq + i - 1, body |-> bodies[i]]]

Numbered(bodies) == [i \in 1..Len(bodies) |-> [seq |-> seq + i, body |-> bodies[i]]]

\* append, once for each body.
append(bodies) ==
    /\ seq' = seq + Len(bodies)
    /\ tail' = tail \o Numbered(bodies)
    /\ UNCHANGED <<online, batch, stage, file, synced, durable_seq, settled, snap_seq, clockVars>>

\* Does wait_durable find a future for the newest record that is not done?
MustWait == Fsync = "always" /\ durable_seq < seq'

\* A command: the handler appends, the reply goes to the outbound buffer, and
\* only then the connection waits for the newest record.
Command(k, bodies) ==
    /\ online
    /\ waits[k] = 0
    /\ append(bodies)
    /\ replied' = seq'
    /\ waits' = [waits EXCEPT ![k] = IF MustWait THEN seq' ELSE 0]

\* Records of the ticker and of disconnects, that nobody waits for.
Unasked(bodies) ==
    /\ online
    /\ append(bodies)
    /\ UNCHANGED <<waits, replied>>

\* wait_durable returns and the connection reads its next command.
WaitOver(k) ==
    /\ online
    /\ waits[k] # 0
    /\ waits[k] <= durable_seq
    /\ settled' = IF waits[k] > settled THEN waits[k] ELSE settled
    /\ waits' = [waits EXCEPT ![k] = 0]
    /\ UNCHANGED <<online, seq, writerVars, replied, snap_seq, clockVars>>

\* _write_snapshot: the number of the newest record, written or not.  The
\* snapshot itself is on disk before it takes the place of the old one.
SnapshotSeq ==
    /\ online
    /\ snap_seq' = seq
    /\ UNCHANGED <<online, seq, writerVars, waits, settled, replied, clockVars>>

-----------------------------------------------------------------------------
(* The writer: _run in the event loop, _write_bytes in a thread.           *)

TakeBatch ==
    /\ online
    /\ stage = "idle"
    /\ tail # << >>
    /\ batch' = tail
    /\ tail' = << >>
    /\ stage' = "taken"
    /\ UNCHANGED <<online, seq, file, synced, durable_seq, waits, settled, replied, snap_seq,
                   clockVars>>

\* self._fp.write(blob) writes the whole blob.  The file is unbuffered, so the
\* write may be short; _write_bytes does not look at its result, and that case
\* is not modelled.
WriteBytes ==
    /\ online
    /\ stage = "taken"
    /\ file' = file \o batch
    /\ stage' = "written"
    /\ UNCHANGED <<online, seq, tail, batch, synced, durable_seq, waits, settled, replied,
                   snap_seq, clockVars>>

\* Mutant: `always' syncs no more often than `everysec'.
SyncsWhenDue == Fsync \in {"always", "everysec"} /\ fsync_due

\* Does _write_bytes call os.fsync?
Syncs == Fsync = "always" \/ (Fsync = "everysec" /\ fsync_due)

\* write or os.fsync raises.  The exception ends _run: nothing is written or
\* resolved any more, and flush_and_stop raises it again.
WriteFails ==
    /\ online
    /\ DiskMayFail
    /\ \/ stage = "taken"
       \/ stage = "written" /\ Syncs
    /\ stage' = "failed"
    /\ UNCHANGED <<online, seq, tail, batch, file, synced, durable_seq, waits, settled, replied,
                   snap_seq, clockVars>>

SyncBytes ==
    /\ online
    /\ stage = "written"
    /\ stage' = "returned"
    /\ IF Syncs
       THEN synced' = Len(file) /\ fsync_due' = FALSE /\ lag' = 0
       ELSE UNCHANGED <<synced, clockVars>>
    /\ UNCHANGED <<online, seq, tail, batch, file, durable_seq, waits, settled, replied, snap_seq>>

\* Mutant: only the future of the first record of a batch is resolved.
ResolvedFirst == batch[1].seq

\* last_seq of the batch: the futures up to here are resolved.
ResolvedUpTo == batch[Len(batch)].seq

Resolve ==
    /\ online
    /\ stage = "returned"
    /\ durable_seq' = ResolvedUpTo
    /\ batch' = << >>
    /\ stage' = "idle"
    /\ UNCHANGED <<online, seq, tail, file, synced, waits, settled, replied, snap_seq, clockVars>>

Writer == TakeBatch \/ WriteBytes \/ SyncBytes \/ Resolve

\* A second passes.
Second ==
    /\ ~fsync_due \/ lag <= LagBound
    /\ fsync_due' = TRUE
    /\ lag' = IF \E r \in Seqs(Log) \ Seqs(SubSeq(file, 1, synced)) : r <= replied
              THEN IF lag <= LagBound THEN lag + 1 ELSE lag
              ELSE 0
    /\ UNCHANGED <<online, seq, writerVars, waits, settled, replied, snap_seq>>

-----------------------------------------------------------------------------
(* Going down and coming back.                                             *)

Forget ==
    /\ online' = FALSE
    /\ tail' = << >>
    /\ batch' = << >>
    /\ stage' = "idle"
    /\ waits' = [k \in Clients |-> 0]
    /\ fsync_due' = TRUE
    /\ lag' = 0
    /\ UNCHANGED <<seq, durable_seq, settled>>

\* The process stops.  What was synced stays; of what was written, or was
\* being written, some prefix does: all of it if only the process died.
Crash ==
    /\ online
    /\ \E j \in synced..Len(file \o Unwritten) :
          file' = SubSeq(file \o Unwritten, 1, j)
    /\ Forget
    /\ replied' = 0
    /\ UNCHANGED <<synced, snap_seq>>

\* flush_and_stop and, by configuration, a last snapshot: Broker.shutdown once
\* the server has stopped and the writer has drained its queue.
Shutdown(snapshot_on_shutdown) ==
    /\ online
    /\ stage = "idle" /\ tail = << >>
    /\ synced' = Len(file)
    /\ snap_seq' = IF snapshot_on_shutdown THEN seq ELSE snap_seq
    /\ Forget
    /\ replied' = 0
    /\ UNCHANGED file

\* Mutant: the number is taken from the file alone.
RecoveredSeqFileOnly == IF file = << >> THEN 0 ELSE file[Len(file)].seq

\* recover_into's last_seq: the snapshot's, or that of the last record applied.
RecoveredSeq ==
    IF file # << >> /\ file[Len(file)].seq > snap_seq THEN file[Len(file)].seq ELSE snap_seq

\* attach_existing_seq, and the writer starts.
Attach ==
    /\ ~online
    /\ online' = TRUE
    /\ seq' = RecoveredSeq
    /\ durable_seq' = RecoveredSeq
    /\ UNCHANGED <<tail, batch, stage, file, synced, waits, settled, replied, snap_seq, clockVars>>

-----------------------------------------------------------------------------
AofNext ==
    \/ \E b \in Bodies :
          /\ seq < SeqBound
          /\ \/ \E k \in Clients : Command(k, <<b>>) \/ Command(k, <<b, b>>)
             \/ Unasked(<<b>>)
    \/ \E k \in Clients : WaitOver(k)
    \/ SnapshotSeq
    \/ TakeBatch
    \/ WriteBytes
    \/ WriteFails
    \/ SyncBytes
    \/ Resolve
    \/ Second
    \/ Crash
    \/ \E s \in BOOLEAN : Shutdown(s)
    \/ Attach

AofSpec == AofInit /\ [][AofNext]_aofVars

(* The event loop and its thread pool get on with the writer's next step,  *)
(* and a woken handler runs.  Nothing forces a crash, a command or a       *)
(* second.                                                                 *)
FairAofSpec ==
    /\ AofSpec
    /\ WF_aofVars(Writer)
    /\ \A k \in Clients : WF_aofVars(WaitOver(k))

-----------------------------------------------------------------------------
(* Properties.                                                             *)

\* The writer's fields have the types of AOFWriter.__init__, and `synced'
\* counts records of the file.
AofTypeOK ==
    /\ online \in BOOLEAN
    /\ seq \in Nat
    /\ tail \in Seq(Record)
    /\ batch \in Seq(Record)
    /\ stage \in Stages
    /\ file \in Seq(Record)
    /\ synced \in 0..Len(file)
    /\ durable_seq \in Nat
    /\ waits \in [Clients -> Nat]
    /\ settled \in Nat
    /\ replied \in Nat
    /\ snap_seq \in Nat
    /\ fsync_due \in BOOLEAN
    /\ lag \in 0..(LagBound + 1)

\* Recovery's two uses of a sequence number stay sound over any number of
\* crashes, lost tails and snapshots that are ahead of the file: numbers grow
\* along the log, and while the broker runs the next one is above all records
\* and above the snapshot's, so that no new record is taken for one the
\* snapshot already holds.
LogOrdered ==
    /\ \A i, j \in DOMAIN Log : i < j => Log[i].seq < Log[j].seq
    /\ online => snap_seq <= seq /\ \A i \in DOMAIN Log : Log[i].seq <= seq

\* With fsync=always, wait_durable returns for a record only when it and every
\* record before it are on disk, and no crash, restart or re-used number
\* makes that untrue later.
SettledIsDurable ==
    Fsync = "always" =>
        \A i \in DOMAIN Log : Log[i].seq <= settled => i <= synced

\* No connection waits for ever in wait_durable, unless a write has failed:
\* the exception ends the writer task, and every waiter with it.
WaiterServed == \A k \in Clients : waits[k] # 0 ~> (waits[k] = 0 \/ stage = "failed")

\* README.md:78, of fsync=always: "Publish/ACK responses wait until the record
\* is fsync'd".  A record that a response has been sent for is on disk.
ReplyAfterFsync ==
    Fsync = "always" /\ online =>
        \A i \in DOMAIN Log : Log[i].seq <= replied => i <= synced

\* README.md:79, of fsync=everysec: "Up to about one second of acknowledged
\* work may be lost on a crash".  With the writer done, nothing a reply was
\* sent for has been unsynced for more than LagBound seconds.
LossBounded ==
    Fsync = "everysec" /\ online /\ stage = "idle" /\ tail = << >> => lag <= LagBound

=============================================================================
