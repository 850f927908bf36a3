----------------------------- MODULE SyncPathProofs -----------------------------
(***************************************************************************)
(* Proofs about SyncPath, for every set of keys, every record and file     *)
(* size and every bound, when the application makes no synchronous request *)
(* that needs a file while one is allocated for waiting writes, and no     *)
(* request from a callback. SyncPath_race shows what happens otherwise.    *)
(*                                                                         *)
(* The argument. A synchronous write is the one record that may lie past   *)
(* the write offset of its file, from its IO on until put or del returns.  *)
(* Leave that record out of the disk and count the request as answered,    *)
(* and everything that runs inside the loop of a synchronous request is a  *)
(* step of the asynchronous path (WritePath), which keeps the invariant of *)
(* WritePathProofs and KVStoreProofs. What is left to see to is the one    *)
(* request: its place stays at the end of its file, because whatever is    *)
(* submitted meanwhile goes to another file, and its new file stays the    *)
(* last one, because no other allocation is going on.                      *)
(***************************************************************************)
EXTENDS KVStoreProofs, SyncPath

Holding == /\ sync # NoCall
           /\ sync.stage \in {"write", "written", "unwritten"}

(* The record of a synchronous request that is durable but not returned.    *)
Unreturned == IF sync # NoCall /\ sync.stage = "written" THEN {SyncWrite}
              ELSE {}

Settled == disk \ Unreturned

(* The replies with the one the request in the thread is going to get.      *)
Promised == IF Holding THEN Reply(sync.seq, "ok") ELSE replies

(* The asynchronous path next to the request.                               *)
Path == INSTANCE KVStoreProofs WITH disk <- Settled, replies <- Promised

(* The file the callbacks of an asynchronous allocation hold is the last.   *)
AllocationInOrder ==
  /\ alloc_stage = "none" <=> ~allocating_new_file
  /\ alloc_stage # "none" => alloc_file = Len(files) - 1

(* What the request in the thread relies on, by the loop it is in.          *)
NewFileIsLast ==
  sync # NoCall /\ sync.stage \in {"blob", "header", "allocated", "no_file"} =>
    /\ sync.kind \in Kinds
    /\ BetweenHandlers
    /\ alloc_stage = "none"
    /\ sync.file = Len(files) - 1
    /\ active_file_id < Len(files) - 1
    /\ files[Len(files)].write_offset = 1
    /\ sync.stage \in {"header", "allocated"} => files[Len(files)].blob_opened

PlaceIsKept ==
  Holding =>
    /\ sync.kind \in Kinds
    /\ sync.seq \in Sequence
    /\ sync.file \in 0 .. Len(files) - 1
    /\ sync.offset = files[sync.file + 1].write_offset
    /\ files[sync.file + 1].blob_opened
    /\ alloc_stage # "none" => sync.file # Len(files) - 1
    /\ ~BetweenHandlers => sync.file # active_file_id
    /\ sync.stage = "written" => SyncWrite \in disk

SInv == /\ alloc_file \in Nat
        /\ replies \in [Sequence -> Seq(Statuses)]
        /\ sync \in Call \cup {NoCall}
        /\ Path!RInv
        /\ AllocationInOrder
        /\ NewFileIsLast
        /\ PlaceIsKept
        /\ SyncReadFindsItsRecord

-----------------------------------------------------------------------------
LEMMA PathAssumptions == Path!PathAssumption /\ Path!NoEntryAssumption
BY PathAssumption, NoEntryAssumption
DEF Path!PathAssumption, Path!NoEntryAssumption, Path!Entry, Entry,
    Path!Sequence, Sequence

(* What does not read the disk or the replies means the same in Path.       *)
LEMMA SameMeaning ==
  /\ Path!Sequence = Sequence
  /\ Path!Statuses = Statuses
  /\ Path!FileInfo = FileInfo
  /\ Path!Request = Request
  /\ Path!Write = Write
  /\ Path!Entry = Entry
  /\ Path!Read = Read
  /\ Path!Active = Active
  /\ Path!SealActive = SealActive
  /\ Path!BetweenHandlers = BetweenHandlers
  /\ \A id : Path!NewFile(id) = NewFile(id)
  /\ \A id : Path!HasFile(id) = HasFile(id)
  /\ \A id : Path!IndexOfFile(id) = IndexOfFile(id)
  /\ \A n : Path!NeedNewFile(n) = NeedNewFile(n)
  /\ \A n : Path!Advance(n) = Advance(n)
  /\ \A r : Path!Placed(r) = Placed(r)
  /\ \A k : Path!Find(k) = Find(k)
  /\ \A w, v : Path!Overlap(w, v) = Overlap(w, v)
  /\ \A queue : Path!SequencesOf(queue) = SequencesOf(queue)
  /\ \A s : Path!Outstanding(s) = Outstanding(s)
<1>1. /\ Path!Sequence = Sequence
      /\ Path!Statuses = Statuses
      /\ Path!BetweenHandlers = BetweenHandlers
      /\ \A id : Path!NewFile(id) = NewFile(id)
      /\ \A id : Path!HasFile(id) = HasFile(id)
      /\ \A id : Path!IndexOfFile(id) = IndexOfFile(id)
      /\ \A k : Path!Find(k) = Find(k)
      /\ \A w, v : Path!Overlap(w, v) = Overlap(w, v)
      /\ \A queue : Path!SequencesOf(queue) = SequencesOf(queue)
  BY DEF Path!Sequence, Sequence, Path!Statuses, Statuses,
         Path!BetweenHandlers, BetweenHandlers, Path!NewFile, NewFile,
         Path!HasFile, HasFile, Path!IndexOfFile, IndexOfFile, Path!Find,
         Find, Path!Overlap, Overlap, Path!SequencesOf, SequencesOf
<1>2. /\ Path!FileInfo = FileInfo
      /\ Path!Request = Request
      /\ Path!Write = Write
      /\ Path!Entry = Entry
      /\ Path!Read = Read
  BY <1>1 DEF Path!FileInfo, FileInfo, Path!FileStates, FileStates,
              Path!Request, Request, Path!Kinds, Kinds, Path!Write, Write,
              Path!Entry, Entry, Path!Read, Read
<1>3. Path!Active = Active
  BY <1>1 DEF Path!Active, Active
<1>4. /\ Path!SealActive = SealActive
      /\ \A n : Path!NeedNewFile(n) = NeedNewFile(n)
      /\ \A n : Path!Advance(n) = Advance(n)
      /\ \A r : Path!Placed(r) = Placed(r)
  BY <1>1, <1>3 DEF Path!SealActive, SealActive, Path!NeedNewFile,
                    NeedNewFile, Path!Advance, Advance, Path!Placed, Placed
<1>5. \A s : Path!Outstanding(s) = Outstanding(s)
  BY <1>1 DEF Path!Outstanding, Outstanding
<1> QED
  BY <1>1, <1>2, <1>3, <1>4, <1>5

(* The invariant of the path, read with the names of the engine.            *)
LEMMA PathInvariant ==
  ASSUME Path!RInv
  PROVE  /\ FilesInOrder
         /\ OnePlaceEach
         /\ \A w \in inflight \cup Settled :
              /\ w \in Write
              /\ w.file < Len(files)
              /\ w.offset >= 1
              /\ w.offset + w.pages <= files[w.file + 1].write_offset
              /\ files[w.file + 1].blob_opened
         /\ \A w, v \in inflight \cup Settled : w # v => ~Overlap(w, v)
         /\ inflight \cap Settled = {}
         /\ \A s \in Sequence :
              Len(Promised[s]) =
                IF s <= global_sequence /\ ~Outstanding(s) THEN 1 ELSE 0
         /\ Promised \in [Sequence -> Seq(Statuses)]
<1>1. FilesInOrder
  BY DEF Path!RInv, Path!IInv, Path!FilesInOrder, FilesInOrder
<1>2. OnePlaceEach
  BY SameMeaning DEF Path!RInv, Path!OnePlaceEach, OnePlaceEach,
                     Path!Distinct, Distinct, Path!InFlight, InFlight
<1>3. /\ inflight \cup Settled \subseteq Write
      /\ Promised \in [Sequence -> Seq(Statuses)]
  BY SameMeaning DEF Path!RInv, Path!IInv, Path!TypeOK
<1>4. \A w \in inflight \cup Settled :
        /\ w.file < Len(files)
        /\ w.offset >= 1
        /\ w.offset + w.pages <= files[w.file + 1].write_offset
        /\ files[w.file + 1].blob_opened
  BY DEF Path!RInv, Path!IInv, Path!BelowFrontier
<1>5. /\ \A w, v \in inflight \cup Settled : w # v => ~Overlap(w, v)
      /\ inflight \cap Settled = {}
  BY SameMeaning DEF Path!RInv, Path!IInv, Path!NoOverlap, Path!NotYetDurable
<1>6. \A s \in Sequence :
        Len(Promised[s]) =
          IF s <= global_sequence /\ ~Outstanding(s) THEN 1 ELSE 0
  BY SameMeaning DEF Path!RInv, Path!OneReplyEach
<1> QED
  BY <1>1, <1>2, <1>3, <1>4, <1>5, <1>6

(* What runs in the loop of a synchronous request is a step of Path.        *)
LEMMA PathMoves ==
  ASSUME Path!RInv, Path!Next \/ UNCHANGED Path!vars
  PROVE  Path!RInv'
BY Path!StoreNext, PathAssumptions

-----------------------------------------------------------------------------
(* The request in the thread                                               *)

(* Answering one request of a well-typed table.                             *)
LEMMA OneReply ==
  ASSUME NEW R \in [Sequence -> Seq(Statuses)], NEW s \in Sequence,
         NEW status \in Statuses
  PROVE  LET T == [R EXCEPT ![s] = Append(@, status)]
         IN  /\ T \in [Sequence -> Seq(Statuses)]
             /\ Len(T[s]) = Len(R[s]) + 1
             /\ \A t \in Sequence : t # s => T[t] = R[t]
             /\ \A t \in Sequence :
                  T[t] = IF t = s THEN Append(R[s], status) ELSE R[t]
<1> HIDE DEF Sequence, Statuses
<1>1. R[s] \in Seq(Statuses)
  OBVIOUS
<1>2. Append(R[s], status) \in Seq(Statuses)
      /\ Len(Append(R[s], status)) = Len(R[s]) + 1
  BY <1>1
<1> QED
  BY <1>1, <1>2

(* What the invariant says about the request while its IO is out or done.   *)
LEMMA HeldRequest ==
  ASSUME SInv, Holding
  PROVE  /\ sync \in Call
         /\ SyncWrite \in Write
         /\ sync.seq \in Sequence
         /\ sync.seq <= global_sequence
         /\ ~Outstanding(sync.seq)
         /\ Len(replies[sync.seq]) = 0
         /\ Promised = [replies EXCEPT ![sync.seq] = Append(@, "ok")]
         /\ SyncWrite \notin inflight \cup Settled
         /\ \A w \in inflight \cup Settled :
              ~Overlap(w, SyncWrite) /\ ~Overlap(SyncWrite, w)
<1>1. sync \in Call /\ sync.kind \in Kinds /\ sync.seq \in Sequence
  BY DEF SInv, Holding, PlaceIsKept
<1>2. SyncWrite \in Write
  BY <1>1 DEF SyncWrite, Write, Call
<1>3. Promised = [replies EXCEPT ![sync.seq] = Append(@, "ok")]
  BY DEF Promised, Reply
<1>4. Len(Promised[sync.seq]) = Len(replies[sync.seq]) + 1
      /\ Len(replies[sync.seq]) \in Nat
  <2>1. replies \in [Sequence -> Seq(Statuses)] /\ "ok" \in Statuses
    BY DEF SInv, Statuses
  <2>2. replies[sync.seq] \in Seq(Statuses)
    BY <1>1, <2>1
  <2> QED
    BY <1>1, <1>3, <2>1, <2>2, OneReply
<1>5. /\ sync.seq <= global_sequence
      /\ ~Outstanding(sync.seq)
      /\ Len(replies[sync.seq]) = 0
  BY <1>1, <1>4, PathInvariant DEF SInv
<1>6. /\ sync.offset = files[sync.file + 1].write_offset
      /\ sync.offset \in Nat /\ sync.pages \in Nat \ {0}
  BY <1>1 DEF SInv, Holding, PlaceIsKept, Call
<1>7. ASSUME NEW w \in inflight \cup Settled
      PROVE  /\ w # SyncWrite
             /\ ~Overlap(w, SyncWrite) /\ ~Overlap(SyncWrite, w)
  <2>1. /\ w.offset + w.pages <= files[w.file + 1].write_offset
        /\ w.offset \in Nat /\ w.pages \in Nat \ {0}
    BY PathInvariant DEF SInv, Write
  <2> QED
    BY <1>6, <2>1 DEF Overlap, SyncWrite
<1> QED
  BY <1>1, <1>2, <1>3, <1>5, <1>7

(* No synchronous request, or one that has nothing on the device yet.       *)
LEMMA NothingHeld ==
  ASSUME ~Holding
  PROVE  Promised = replies /\ Settled = disk
BY DEF Holding, Promised, Settled, Unreturned

LEMMA EngineTyped == ASSUME SInv PROVE TypeOK
<1>1. disk \subseteq Write
  <2>1. Settled \subseteq Write
    BY PathInvariant DEF SInv
  <2>2. CASE Holding
    BY <2>1, <2>2, HeldRequest DEF Settled, Unreturned
  <2>3. CASE ~Holding
    BY <2>1, <2>3, NothingHeld
  <2> QED
    BY <2>2, <2>3
<1> QED
  BY <1>1, SameMeaning DEF SInv, Path!RInv, Path!IInv, Path!TypeOK, TypeOK

-----------------------------------------------------------------------------
(* The steps of the asynchronous path are steps of Path                     *)

(* Callbacks of other requests leave the promised reply where it is.        *)
LEMMA RepliesFollow ==
  ASSUME SInv, UNCHANGED sync
  PROVE  /\ UNCHANGED replies => UNCHANGED Promised
         /\ \A s \in Sequence, status \in Statuses :
              (Holding => s # sync.seq) /\ replies' = Reply(s, status)
                => Promised' = Path!Reply(s, status)
         /\ \A queue, status :
              (Holding => sync.seq \notin SequencesOf(queue))
                /\ replies' = ReplyAll(queue, status)
                => Promised' = Path!ReplyAll(queue, status)
<1>1. /\ ~Holding => Promised = replies /\ Promised' = replies'
      /\ Holding =>
           /\ Promised = [replies EXCEPT ![sync.seq] = Append(@, "ok")]
           /\ Promised' = [replies' EXCEPT ![sync.seq] = Append(@, "ok")]
           /\ sync.seq \in Sequence
  BY HeldRequest DEF Promised, Holding, Reply
<1>2. replies \in [Sequence -> Seq(Statuses)]
  BY DEF SInv
<1> HIDE DEF Sequence, Statuses
<1>3. UNCHANGED replies => UNCHANGED Promised
  BY <1>1
<1>4. ASSUME NEW s \in Sequence, NEW status \in Statuses,
             Holding => s # sync.seq, replies' = Reply(s, status)
      PROVE  Promised' = Path!Reply(s, status)
  <2>1. replies' = [replies EXCEPT ![s] = Append(@, status)]
    BY <1>4 DEF Reply
  <2> QED
    BY <1>1, <1>2, <1>4, <2>1 DEF Path!Reply
<1>5. ASSUME NEW queue, NEW status,
             Holding => sync.seq \notin SequencesOf(queue),
             replies' = ReplyAll(queue, status)
      PROVE  Promised' = Path!ReplyAll(queue, status)
  <2>1. replies' = [s \in Sequence |-> IF s \in SequencesOf(queue)
                                       THEN Append(replies[s], status)
                                       ELSE replies[s]]
    BY <1>5 DEF ReplyAll
  <2>2. Path!ReplyAll(queue, status)
          = [s \in Sequence |-> IF s \in SequencesOf(queue)
                                THEN Append(Promised[s], status)
                                ELSE Promised[s]]
    BY SameMeaning DEF Path!ReplyAll
  <2>3. CASE ~Holding
    BY <1>1, <2>1, <2>2, <2>3
  <2>4. CASE Holding
    <3>1. Promised' = [s \in Sequence |-> IF s = sync.seq
                                          THEN Append(replies'[s], "ok")
                                          ELSE replies'[s]]
      BY <1>1, <2>1, <2>4
    <3>2. \A s \in Sequence :
            Promised[s] = IF s = sync.seq THEN Append(replies[s], "ok")
                          ELSE replies[s]
      BY <1>1, <1>2, <2>4
    <3>3. \A s \in Sequence :
            (IF s = sync.seq THEN Append(replies'[s], "ok") ELSE replies'[s])
              = IF s \in SequencesOf(queue) THEN Append(Promised[s], status)
                ELSE Promised[s]
      BY <1>5, <2>1, <2>4, <3>2
    <3> QED
      BY <2>2, <3>1, <3>3
  <2> QED
    BY <2>3, <2>4
<1> QED
  BY <1>3, <1>4, <1>5

(* The place of a record is taken, with a request in the thread or without. *)
LEMMA PathSubmits ==
  ASSUME SInv, UNCHANGED sync, NEW r \in Request,
         Holding => r.seq # sync.seq, Submit(r)
  PROVE  Path!Submit(r)
<1>1. /\ r.seq \in Sequence
      /\ Placed(r).seq = r.seq
      /\ "io_error" \in Statuses
  BY DEF Request, Placed, Statuses
<1>2. /\ Path!Placed(r) = Placed(r)
      /\ Path!Advance(r.pages) = Advance(r.pages)
  BY SameMeaning
<1> HIDE DEF Sequence, Statuses
<1>3. CASE /\ inflight' = inflight \cup {Placed(r)}
           /\ UNCHANGED replies
           /\ Placed(r).offset + Placed(r).pages <= FilePages
  <2>1. UNCHANGED Promised
    BY <1>3, RepliesFollow
  <2> QED
    BY <1>2, <1>3, <2>1 DEF Submit, Path!Submit
<1>4. CASE /\ replies' = Reply(Placed(r).seq, "io_error")
           /\ UNCHANGED inflight
           /\ Placed(r).offset + Placed(r).pages > FilePages
  <2>1. Promised' = Path!Reply(Placed(r).seq, "io_error")
    BY <1>1, <1>4, RepliesFollow
  <2> QED
    BY <1>2, <1>4, <2>1 DEF Submit, Path!Submit
<1> QED
  BY <1>3, <1>4 DEF Submit

(* Asynchronous requests are only made between synchronous ones.            *)
LEMMA PathAccepts ==
  ASSUME SInv, sync = NoCall, UNCHANGED sync, NEW r \in Request, Accept(r)
  PROVE  Path!Accept(r)
<1>1. ~Holding
  BY DEF Holding
<1>2. Promised = replies /\ Promised' = replies'
  BY <1>1 DEF Promised, Holding
<1>3. Settled = disk /\ Settled' = disk'
  BY DEF Settled, Unreturned
<1>4. Submit(r) => Path!Submit(r)
  BY <1>1, PathSubmits
<1>5. \A queue : AllocateNewFileAsync(SealActive, queue)
                   => Path!AllocateNewFileAsync(Path!SealActive, queue)
  BY <1>2, SameMeaning
  DEF AllocateNewFileAsync, Path!AllocateNewFileAsync, ReplyAll,
      Path!ReplyAll, allocVars, Path!allocVars
<1>6. Path!NeedNewFile(r.pages) = NeedNewFile(r.pages)
  BY SameMeaning
<1> QED
  BY <1>2, <1>3, <1>4, <1>5, <1>6
  DEF Accept, Path!Accept, allocVars, Path!allocVars, dataVars, Path!dataVars

(* Where the request of a synchronous call is not.                          *)
LEMMA HeldElsewhere ==
  ASSUME SInv, Holding
  PROVE  /\ sync.seq \notin SequencesOf(pending_write_queue)
         /\ sync.seq \notin SequencesOf(draining)
         /\ \A w \in inflight : w.seq # sync.seq
BY HeldRequest DEF Outstanding

LEMMA PathCalls ==
  ASSUME SInv, sync = NoCall, UNCHANGED sync, Calls
  PROVE  Path!Calls
<1>1. Promised = replies /\ Promised' = replies'
  BY DEF Promised, Holding
<1>2. Settled = disk /\ Settled' = disk'
  BY DEF Settled, Unreturned
<1>3. global_sequence \in 0 .. MaxSequence
  BY EngineTyped DEF TypeOK
<1>4. ASSUME NEW k \in Keys, NEW n \in PutPages, PutAsync(k, n)
      PROVE  Path!PutAsync(k, n)
  <2> DEFINE r == [seq |-> global_sequence + 1, key |-> k, kind |-> "put",
                   pages |-> n]
  <2>1. r \in Request
    BY <1>3, <1>4, PathAssumption
    DEF PutAsync, Request, Sequence, Kinds
  <2>2. Path!Accept(r)
    BY <1>4, <2>1, PathAccepts DEF PutAsync
  <2> QED
    BY <1>4, <2>2, SameMeaning DEF PutAsync, Path!PutAsync
<1>5. ASSUME NEW k \in Keys, DeleteAsync(k)
      PROVE  Path!DeleteAsync(k)
  <2> DEFINE r == [seq |-> global_sequence + 1, key |-> k, kind |-> "delete",
                   pages |-> 1]
  <2>1. r \in Request
    BY <1>3, <1>5, PathAssumption
    DEF DeleteAsync, Request, Sequence, Kinds
  <2>2. Path!Accept(r)
    BY <1>5, <2>1, PathAccepts DEF DeleteAsync
  <2> QED
    BY <1>5, <2>2, SameMeaning DEF DeleteAsync, Path!DeleteAsync
<1>6. ASSUME NEW k \in Keys, GetAsync(k)
      PROVE  Path!GetAsync(k)
  BY <1>1, <1>2, <1>6, SameMeaning
  DEF GetAsync, Path!GetAsync, fileVars, Path!fileVars, allocVars,
      Path!allocVars, queueVars, Path!queueVars, dataVars, Path!dataVars
<1> QED
  BY <1>4, <1>5, <1>6 DEF Calls, Path!Calls

LEMMA PathDrains ==
  ASSUME SInv, UNCHANGED sync, SubmitQueuedWrite
  PROVE  Path!SubmitQueuedWrite
<1>1. draining \in Seq(Request) /\ draining # <<>>
  BY EngineTyped DEF TypeOK, SubmitQueuedWrite
<1>2. Head(draining) \in Request /\ 1 \in DOMAIN draining
      /\ Head(draining) = draining[1]
  BY <1>1
<1>3. Holding => Head(draining).seq # sync.seq
  BY <1>2, HeldElsewhere DEF SequencesOf
<1>4. Path!Submit(Head(draining))
  BY <1>2, <1>3, PathSubmits DEF SubmitQueuedWrite
<1>5. UNCHANGED disk => UNCHANGED Settled
  BY DEF Settled, Unreturned, SyncWrite
<1> QED
  BY <1>4, <1>5
  DEF SubmitQueuedWrite, Path!SubmitQueuedWrite, allocVars, Path!allocVars,
      dataVars, Path!dataVars

(* A completion takes no notice of the record the request has written.      *)
LEMMA PathCompletes ==
  ASSUME SInv, UNCHANGED sync, Completion
  PROVE  Path!Completion
<1>1. SyncWrite' = SyncWrite /\ Unreturned' = Unreturned
  BY DEF Unreturned, SyncWrite
<1>2. ASSUME NEW w \in inflight, WriteComplete(w) \/ WriteFailed(w)
      PROVE  Path!WriteComplete(w) \/ Path!WriteFailed(w)
  <2>1. /\ w \notin Unreturned
        /\ \A d \in Unreturned : ~Overlap(d, w)
    BY HeldRequest DEF Unreturned, Holding
  <2>2. { d \in Settled : ~Path!Overlap(d, w) }
          = { d \in disk : ~Overlap(d, w) } \ Unreturned
    BY SameMeaning DEF Settled
  <2>3. w.seq \in Sequence /\ (Holding => w.seq # sync.seq)
    BY HeldElsewhere, EngineTyped DEF TypeOK, Write
  <2>4. "ok" \in Statuses /\ "io_error" \in Statuses
    BY DEF Statuses
  <2> HIDE DEF Sequence, Statuses
  <2>5. CASE WriteComplete(w)
    <3>1. Settled' = { d \in Settled : ~Path!Overlap(d, w) } \cup {w}
      BY <1>1, <2>1, <2>2, <2>5 DEF WriteComplete, Settled
    <3>2. Promised' = Path!Reply(w.seq, "ok")
      BY <2>3, <2>4, <2>5, RepliesFollow DEF WriteComplete
    <3>3. mem_index' = IF w.kind = "put" THEN Path!Upsert(w)
                       ELSE Path!Remove(w.key)
      BY <2>5, SameMeaning
      DEF WriteComplete, Upsert, Path!Upsert, Remove, Path!Remove, EntryOf,
          Path!EntryOf
    <3> QED
      BY <2>5, <3>1, <3>2, <3>3, SameMeaning
      DEF WriteComplete, Path!WriteComplete, fileVars, Path!fileVars,
          allocVars, Path!allocVars, queueVars, Path!queueVars
  <2>6. CASE WriteFailed(w)
    <3>1. Settled' = { d \in Settled : ~Path!Overlap(d, w) }
      BY <1>1, <2>2, <2>6 DEF WriteFailed, Settled
    <3>2. Promised' = Path!Reply(w.seq, "io_error")
      BY <2>3, <2>4, <2>6, RepliesFollow DEF WriteFailed
    <3> QED
      BY <2>6, <3>1, <3>2, SameMeaning
      DEF WriteFailed, Path!WriteFailed, fileVars, Path!fileVars,
          allocVars, Path!allocVars, queueVars, Path!queueVars
  <2> QED
    BY <1>2, <2>5, <2>6
<1>3. ASSUME NEW r \in reads, GetComplete(r)
      PROVE  Path!GetComplete(r)
  <2>1. UNCHANGED <<Settled, Promised>>
    BY <1>1, <1>3, RepliesFollow DEF GetComplete, dataVars, Settled
  <2> QED
    BY <1>3, <2>1, SameMeaning
    DEF GetComplete, Path!GetComplete, fileVars, Path!fileVars, allocVars,
        Path!allocVars, queueVars, Path!queueVars, dataVars, Path!dataVars
<1> QED
  BY <1>2, <1>3 DEF Completion, Path!Completion

(* on_new_file_allocated and the handlers before it work on the last file,  *)
(* which is the one of their allocation.                                    *)
LEMMA PathAllocates ==
  ASSUME SInv, UNCHANGED sync, OwnBlobOpened \/ LastFileAllocated \/ LastFileDropped
  PROVE  Path!Allocation
<1>1. Unreturned' = Unreturned
  BY DEF Unreturned, SyncWrite
<1>2. FilesInOrder /\ TypeOK
  BY PathInvariant, EngineTyped DEF SInv
<1>3. CASE OwnBlobOpened
  <2>1. alloc_file \in 0 .. Len(files) - 1 /\ Len(files) \in Nat
        /\ alloc_file = Len(files) - 1
    BY <1>2, <1>3
    DEF OwnBlobOpened, SInv, AllocationInOrder, FilesInOrder, TypeOK
  <2>2. IndexOfFile(alloc_file) = Len(files)
    BY <1>2, <2>1, Lookup
  <2>3. UNCHANGED <<Settled, Promised>>
    BY <1>1, <1>3, RepliesFollow DEF OwnBlobOpened, dataVars, Settled
  <2>4. Path!BlobOpened
    BY <1>3, <2>2, <2>3, SameMeaning
    DEF OwnBlobOpened, BlobOpenedFor, Path!BlobOpened, queueVars,
        Path!queueVars, dataVars, Path!dataVars
  <2> QED
    BY <2>4 DEF Path!Allocation
<1>4. CASE LastFileAllocated
  <2>1. LastFile.blob_opened
    BY <1>2, <1>4 DEF LastFileAllocated, FilesInOrder, LastFile
  <2>2. UNCHANGED <<Settled, Promised>>
    BY <1>1, <1>4, <2>1, RepliesFollow DEF LastFileAllocated, dataVars, Settled
  <2>3. Path!NewFileAllocated
    BY <1>4, <2>1, <2>2, SameMeaning
    DEF LastFileAllocated, LastFile, Path!NewFileAllocated, AllocationOver,
        Path!AllocationOver, dataVars, Path!dataVars
  <2> QED
    BY <2>3 DEF Path!Allocation
<1>5. CASE LastFileDropped
  <2>1. /\ NewFileFailed
        /\ Holding => sync.seq \notin SequencesOf(pending_write_queue)
    BY <1>5, HeldElsewhere DEF LastFileDropped
  <2>2. UNCHANGED Settled
    BY <1>1, <2>1 DEF NewFileFailed, dataVars, Settled
  <2>3. Promised' = Path!ReplyAll(pending_write_queue, "no_space")
    BY <2>1, RepliesFollow DEF NewFileFailed
  <2>4. Path!NewFileFailed
    BY <2>1, <2>2, <2>3, SameMeaning
    DEF NewFileFailed, Path!NewFileFailed, AllocationOver,
        Path!AllocationOver, DropLastFile, Path!DropLastFile, dataVars,
        Path!dataVars
  <2> QED
    BY <2>4 DEF Path!Allocation
<1> QED
  BY <1>3, <1>4, <1>5

-----------------------------------------------------------------------------
(* Steps of the asynchronous path keep the invariant                        *)

LEMMA RepliesTyped ==
  ASSUME SInv, UNCHANGED sync, RequestPath \/ AsyncAllocation, ~CallbackCalls,
         Path!RInv'
  PROVE  replies' \in [Sequence -> Seq(Statuses)]
<1>1. TypeOK /\ FilesInOrder /\ replies \in [Sequence -> Seq(Statuses)]
  BY EngineTyped, PathInvariant DEF SInv
<1>2. /\ "ok" \in Statuses /\ "io_error" \in Statuses
      /\ "no_space" \in Statuses
  BY DEF Statuses
<1>3. CASE ~Holding
  <2>1. Promised' = replies'
    BY <1>3 DEF Promised, Holding
  <2>2. Promised' \in [Path!Sequence -> Seq(Path!Statuses)]
    BY DEF Path!RInv, Path!IInv, Path!TypeOK
  <2>3. Promised' \in [Sequence -> Seq(Statuses)]
    BY <2>2, SameMeaning
  <2> QED
    BY <2>1, <2>3
<1>4. CASE Holding
  <2>1. ASSUME NEW s \in Sequence, NEW status \in Statuses,
               replies' = Reply(s, status)
        PROVE  replies' \in [Sequence -> Seq(Statuses)]
    BY <1>1, <2>1, OneReply DEF Reply
  <2>2. ASSUME SubmitQueuedWrite
        PROVE  replies' \in [Sequence -> Seq(Statuses)]
    <3>1. Head(draining) \in Request
      BY <1>1, <2>2 DEF SubmitQueuedWrite, TypeOK
    <3>2. Head(draining).seq \in Sequence
      BY <3>1 DEF Request
    <3>3. replies' = replies \/ replies' = Reply(Head(draining).seq, "io_error")
      BY <2>2 DEF SubmitQueuedWrite, Submit, Placed
    <3> QED
      BY <1>1, <1>2, <2>1, <3>2, <3>3
  <2>3. ASSUME Completion
        PROVE  replies' \in [Sequence -> Seq(Statuses)]
    <3>1. \A w \in inflight : w.seq \in Sequence
      BY <1>1 DEF TypeOK, Write
    <3>2. \/ replies' = replies
          \/ \E w \in inflight : \/ replies' = Reply(w.seq, "ok")
                                 \/ replies' = Reply(w.seq, "io_error")
      BY <2>3 DEF Completion, WriteComplete, WriteFailed, GetComplete
    <3> QED
      BY <1>1, <1>2, <2>1, <3>1, <3>2
  <2>4. ASSUME AsyncAllocation
        PROVE  replies' \in [Sequence -> Seq(Statuses)]
    <3>1. \/ replies' = replies
          \/ replies' = ReplyAll(pending_write_queue, "no_space")
      BY <1>1, <2>4 DEF AsyncAllocation, OwnBlobOpened, LastFileAllocated,
                        LastFile, LastFileDropped, NewFileFailed, FilesInOrder
    <3> QED
      BY <1>1, <1>2, <3>1, ReplyingAll
  <2> QED
    BY <1>4, <2>2, <2>3, <2>4 DEF RequestPath, Holding
<1> QED
  BY <1>3, <1>4

(* A step that touches neither the request, nor the files, nor their        *)
(* allocation.                                                              *)
LEMMA CallKept ==
  ASSUME SInv, UNCHANGED <<sync, files, active_file_id, allocVars, draining>>,
         disk \subseteq disk', alloc_file' = alloc_file
  PROVE  /\ AllocationInOrder' /\ NewFileIsLast' /\ PlaceIsKept'
         /\ SyncReadFindsItsRecord'
<1>1. SyncWrite' = SyncWrite /\ (Holding' <=> Holding)
  BY DEF SyncWrite, Holding
<1> QED
  BY <1>1 DEF SInv, AllocationInOrder, NewFileIsLast, PlaceIsKept,
              SyncReadFindsItsRecord, allocVars, BetweenHandlers

LEMMA CallsKeep ==
  ASSUME SInv, Calls, sync = NoCall, UNCHANGED sync, HandsOver
  PROVE  AllocationInOrder' /\ alloc_file' \in Nat
<1>1. /\ FilesInOrder /\ TypeOK /\ AllocationInOrder
      /\ Len(files) \in Nat /\ next_file_id = Len(files)
      /\ alloc_file \in Nat
  BY EngineTyped, PathInvariant DEF SInv, TypeOK, FilesInOrder
<1>2. ASSUME NEW r, Accept(r)
      PROVE  AllocationInOrder' /\ alloc_file' \in Nat
  <2>1. CASE allocating_new_file
    BY <1>1, <1>2, <2>1
    DEF Accept, HandsOver, AllocationInOrder, allocVars
  <2>2. CASE ~allocating_new_file /\ ~allocating_new_file'
    <3>1. alloc_stage' = alloc_stage /\ alloc_file' = alloc_file
      BY <1>2, <2>2
      DEF Accept, AllocateNewFileAsync, HandsOver, allocVars
    <3> QED
      BY <1>1, <2>2, <3>1 DEF AllocationInOrder
  <2>3. CASE ~allocating_new_file /\ allocating_new_file'
    <3>1. /\ alloc_stage' = "blob"
          /\ files' = Append(SealActive, NewFile(next_file_id))
      BY <1>2, <2>3 DEF Accept, AllocateNewFileAsync, allocVars
    <3>2. SealActive \in Seq(FileInfo) /\ Len(SealActive) = Len(files)
      BY <1>1, Sealing
    <3> DEFINE nf == NewFile(next_file_id)
    <3>3. nf \in FileInfo
      BY <1>1 DEF NewFile, FileInfo, FileStates
    <3> HIDE DEF nf
    <3>4. Len(files') = Len(files) + 1
      BY <1>1, <3>1, <3>2, <3>3 DEF nf
    <3> QED
      BY <1>1, <2>3, <3>1, <3>4 DEF HandsOver, AllocationInOrder
  <2> QED
    BY <2>1, <2>2, <2>3
<1>3. ASSUME NEW k, GetAsync(k)
      PROVE  AllocationInOrder' /\ alloc_file' \in Nat
  BY <1>1, <1>3 DEF GetAsync, HandsOver, AllocationInOrder, fileVars, allocVars
<1> QED
  BY <1>2, <1>3 DEF Calls, PutAsync, DeleteAsync

LEMMA RequestPathKeeps ==
  ASSUME SInv, ~CallbackCalls, RequestPath
  PROVE  SInv'
<1>1. /\ FilesInOrder /\ TypeOK
      /\ sync' = sync /\ sync' \in Call \cup {NoCall}
  BY EngineTyped, PathInvariant DEF SInv, RequestPath
<1>2. CASE Calls /\ sync = NoCall
  <2>1. Path!RInv'
    BY <1>1, <1>2, PathCalls, PathMoves DEF SInv, Path!Next
  <2>2. AllocationInOrder' /\ alloc_file' \in Nat
    BY <1>1, <1>2, CallsKeep DEF RequestPath
  <2>3. NewFileIsLast' /\ PlaceIsKept' /\ SyncReadFindsItsRecord'
    BY <1>1, <1>2
    DEF NewFileIsLast, PlaceIsKept, Holding, SyncReadFindsItsRecord
  <2> QED
    BY <1>1, <2>1, <2>2, <2>3, RepliesTyped DEF SInv
<1>3. CASE SubmitQueuedWrite
  <2>1. Path!RInv'
    BY <1>1, <1>3, PathDrains, PathMoves DEF SInv, Path!Next
  <2>2. /\ files' = Advance(Head(draining).pages)
        /\ draining # <<>>
        /\ UNCHANGED <<active_file_id, allocating_new_file, alloc_stage, disk>>
        /\ alloc_file' = alloc_file
    BY <1>3 DEF SubmitQueuedWrite, Submit, allocVars, dataVars, RequestPath,
                HandsOver
  <2>3. /\ Len(files') = Len(files)
        /\ \A i \in 1 .. Len(files) : i # active_file_id + 1
             => files'[i] = files[i]
    BY <1>1, <2>2, ActiveFile DEF Advance, TypeOK
  <2>4. AllocationInOrder' /\ alloc_file' \in Nat
    BY <2>2, <2>3 DEF SInv, AllocationInOrder
  <2>5. NewFileIsLast'
    BY <1>1, <2>2 DEF SInv, NewFileIsLast, BetweenHandlers
  <2>6. PlaceIsKept'
    <3> SUFFICES ASSUME Holding PROVE PlaceIsKept'
      BY <1>1 DEF PlaceIsKept, Holding
    <3>1. sync.file # active_file_id /\ sync.file \in 0 .. Len(files) - 1
      BY <2>2 DEF SInv, PlaceIsKept, BetweenHandlers
    <3>2. active_file_id \in Nat /\ Len(files) \in Nat
      BY <1>1 DEF TypeOK
    <3>3. files'[sync.file + 1] = files[sync.file + 1]
      BY <2>3, <3>1, <3>2
    <3>4. SyncWrite' = SyncWrite
      BY <1>1 DEF SyncWrite
    <3> QED
      BY <1>1, <2>2, <2>3, <3>1, <3>3, <3>4 DEF SInv, PlaceIsKept, Holding
  <2>7. SyncReadFindsItsRecord'
    BY <1>1, <2>2 DEF SInv, SyncReadFindsItsRecord
  <2> QED
    BY <1>1, <2>1, <2>4, <2>5, <2>6, <2>7, RepliesTyped DEF SInv
<1>4. CASE Completion
  <2>1. Path!RInv'
    BY <1>1, <1>4, PathCompletes, PathMoves DEF SInv, Path!Next
  <2>2. /\ UNCHANGED <<files, active_file_id, allocVars, draining>>
        /\ alloc_file' = alloc_file
    BY <1>4 DEF Completion, WriteComplete, WriteFailed, GetComplete, fileVars,
                allocVars, queueVars, RequestPath, HandsOver
  <2>3. disk \subseteq disk'
    <3>1. \A w \in inflight, d \in disk : w # d => ~Overlap(d, w)
      <4>1. \A w \in inflight, d \in Settled : w # d => ~Overlap(d, w)
        BY PathInvariant DEF SInv
      <4>2. \A w \in inflight, d \in Unreturned : ~Overlap(d, w)
        BY HeldRequest DEF Unreturned, Holding
      <4> QED
        BY <4>1, <4>2 DEF Settled
    <3>2. \A w \in inflight : w \notin disk
      <4>1. \A w \in inflight : w \notin Settled
        BY PathInvariant DEF SInv
      <4>2. \A w \in inflight : w \notin Unreturned
        BY HeldRequest DEF Unreturned, Holding
      <4> QED
        BY <4>1, <4>2 DEF Settled
    <3> QED
      BY <1>4, <3>1, <3>2
      DEF Completion, WriteComplete, WriteFailed, GetComplete, dataVars
  <2>4. /\ AllocationInOrder' /\ NewFileIsLast' /\ PlaceIsKept'
        /\ SyncReadFindsItsRecord'
    BY <1>1, <2>2, <2>3, CallKept
  <2> QED
    BY <1>1, <2>1, <2>2, <2>4, RepliesTyped DEF SInv
<1> QED
  BY <1>2, <1>3, <1>4 DEF RequestPath

LEMMA AllocationKeeps ==
  ASSUME SInv, ~CallbackCalls, AsyncAllocation
  PROVE  SInv'
<1>1. /\ FilesInOrder /\ TypeOK
      /\ Len(files) \in Nat /\ active_file_id \in Nat
      /\ sync' = sync /\ sync' \in Call \cup {NoCall}
      /\ SyncWrite' = SyncWrite /\ (Holding' <=> Holding)
  BY EngineTyped, PathInvariant
  DEF SInv, AsyncAllocation, TypeOK, SyncWrite, Holding
<1>2. Path!RInv'
  BY <1>1, PathAllocates, PathMoves DEF AsyncAllocation, SInv, Path!Next
<1>3. replies' \in [Sequence -> Seq(Statuses)]
  BY <1>1, <1>2, RepliesTyped
<1>4. /\ alloc_stage \in {"blob", "header"}
      /\ alloc_file = Len(files) - 1
      /\ alloc_file' = alloc_file
      /\ BetweenHandlers
      /\ UNCHANGED <<disk, mem_index>>
  BY DEF AsyncAllocation, OwnBlobOpened, LastFileAllocated, LastFileDropped,
         NewFileFailed, SInv, AllocationInOrder, dataVars
<1>5. NewFileIsLast' /\ SyncReadFindsItsRecord'
  BY <1>1, <1>4 DEF SInv, NewFileIsLast, SyncReadFindsItsRecord
<1>6. Holding =>
        /\ sync.kind \in Kinds /\ sync.seq \in Sequence
        /\ sync.file \in 0 .. Len(files) - 1
        /\ sync.file # Len(files) - 1
        /\ sync.offset = files[sync.file + 1].write_offset
        /\ files[sync.file + 1].blob_opened
        /\ sync.stage = "written" => SyncWrite \in disk
  BY <1>4 DEF SInv, PlaceIsKept
<1>7. CASE OwnBlobOpened
  <2>1. IndexOfFile(alloc_file) = Len(files)
    BY <1>1, <1>4, Lookup DEF FilesInOrder
  <2>2. /\ files' = [files EXCEPT ![Len(files)].blob_opened = TRUE]
        /\ alloc_stage' = "header"
        /\ UNCHANGED <<active_file_id, allocating_new_file, draining>>
    BY <1>7, <2>1 DEF OwnBlobOpened, BlobOpenedFor, queueVars
  <2>3. /\ Len(files') = Len(files)
        /\ \A i \in 1 .. Len(files) - 1 : files'[i] = files[i]
    BY <1>1, <2>2 DEF TypeOK
  <2>4. AllocationInOrder'
    BY <1>4, <2>2, <2>3 DEF SInv, AllocationInOrder
  <2>5. PlaceIsKept'
    <3> SUFFICES ASSUME Holding PROVE PlaceIsKept'
      BY <1>1 DEF PlaceIsKept
    <3>1. files'[sync.file + 1] = files[sync.file + 1]
      BY <1>1, <1>6, <2>3
    <3>2. BetweenHandlers'
      BY <1>4, <2>2 DEF BetweenHandlers
    <3> QED
      BY <1>1, <1>4, <1>6, <2>3, <3>1, <3>2 DEF PlaceIsKept
  <2> QED
    BY <1>1, <1>2, <1>3, <1>4, <1>5, <2>4, <2>5 DEF SInv
<1>8. CASE LastFileAllocated
  <2>1. /\ files' = files
        /\ alloc_stage' = "none" /\ ~allocating_new_file'
        /\ active_file_id' = Len(files) - 1
    BY <1>1, <1>8 DEF LastFileAllocated, AllocationOver, LastFile, FilesInOrder
  <2>2. AllocationInOrder'
    BY <2>1 DEF AllocationInOrder
  <2>3. PlaceIsKept'
    BY <1>1, <1>4, <1>6, <2>1 DEF PlaceIsKept
  <2> QED
    BY <1>1, <1>2, <1>3, <1>4, <1>5, <2>2, <2>3 DEF SInv
<1>9. CASE LastFileDropped
  <2>1. /\ files' = SubSeq(files, 1, Len(files) - 1)
        /\ alloc_stage' = "none" /\ ~allocating_new_file'
        /\ draining' = draining
    BY <1>9 DEF LastFileDropped, NewFileFailed, AllocationOver, DropLastFile
  <2>2. active_file_id < Len(files) - 1
    BY <1>1, <1>4 DEF FilesInOrder
  <2>3. /\ Len(files') = Len(files) - 1
        /\ \A i \in 1 .. Len(files) - 1 : files'[i] = files[i]
    BY <1>1, <2>1, <2>2 DEF TypeOK
  <2>4. AllocationInOrder'
    BY <2>1 DEF AllocationInOrder
  <2>5. PlaceIsKept'
    <3> SUFFICES ASSUME Holding PROVE PlaceIsKept'
      BY <1>1 DEF PlaceIsKept
    <3>1. files'[sync.file + 1] = files[sync.file + 1]
      BY <1>1, <1>6, <2>3
    <3>2. BetweenHandlers'
      BY <1>4, <2>1 DEF BetweenHandlers
    <3>3. sync.file \in 0 .. Len(files') - 1
      BY <1>1, <1>6, <2>3
    <3> QED
      BY <1>1, <1>4, <1>6, <2>1, <3>1, <3>2, <3>3 DEF PlaceIsKept
  <2> QED
    BY <1>1, <1>2, <1>3, <1>4, <1>5, <2>4, <2>5 DEF SInv
<1> QED
  BY <1>7, <1>8, <1>9 DEF AsyncAllocation

-----------------------------------------------------------------------------
(* Steps of the synchronous request                                         *)

(* What a step has to show that leaves the queues and the IOs of the path    *)
(* alone.                                                                   *)
LEMMA PathChanges ==
  ASSUME SInv,
         UNCHANGED <<allocVars, queueVars, inflight, reads>>,
         files' \in Seq(FileInfo), next_file_id' \in Nat,
         active_file_id' \in Nat, FilesInOrder',
         Settled' \subseteq Write,
         mem_index' \in [Keys -> Entry \cup {NoEntry}],
         Path!BelowFrontier', Path!NoOverlap', Path!NotYetDurable',
         Path!EntriesFromDisk', Path!ReadsFromDisk', Path!IndexAtNewest',
         global_sequence' \in 0 .. MaxSequence,
         global_sequence' >= global_sequence,
         Promised' \in [Sequence -> Seq(Statuses)],
         \A s \in Sequence :
           Len(Promised'[s]) =
             IF s <= global_sequence' /\ ~Outstanding(s) THEN 1 ELSE 0
  PROVE  Path!RInv'
<1>1. Path!TypeOK'
  <2>1. /\ inflight' \subseteq Write /\ reads' \subseteq Read
        /\ pending_write_queue' \in Seq(Request) /\ draining' \in Seq(Request)
        /\ allocating_new_file' \in BOOLEAN
        /\ alloc_stage' \in {"none", "blob", "header"}
    BY EngineTyped DEF TypeOK, allocVars, queueVars
  <2> QED
    BY <2>1, SameMeaning DEF Path!TypeOK
<1>2. Path!FilesInOrder'
  BY DEF Path!FilesInOrder, FilesInOrder
<1>3. \A s : Path!Outstanding(s)' = Path!Outstanding(s)
  BY DEF Path!Outstanding, Path!SequencesOf, queueVars
<1>4. Path!OneReplyEach'
  BY <1>3, SameMeaning DEF Path!OneReplyEach, Path!Sequence, Sequence
<1>5. Path!OnePlaceEach'
  <2>1. \A s \in Path!Sequence : Path!Outstanding(s)' => s <= global_sequence'
    <3>1. global_sequence \in Nat /\ global_sequence' \in Nat
      BY EngineTyped DEF TypeOK
    <3> QED
      BY <1>3, <3>1 DEF SInv, Path!RInv, Path!OnePlaceEach, Path!Sequence
  <2>2. UNCHANGED <<pending_write_queue, draining, inflight>>
    BY DEF queueVars
  <2>3. /\ Path!Distinct(pending_write_queue)' /\ Path!Distinct(draining)'
        /\ \A v, w \in inflight' : v.seq = w.seq => v = w
    BY <2>2 DEF SInv, Path!RInv, Path!OnePlaceEach, Path!Distinct
  <2>4. /\ (Path!SequencesOf(pending_write_queue)
              \cap Path!SequencesOf(draining))' = {}
        /\ (Path!SequencesOf(pending_write_queue) \cap Path!InFlight)' = {}
        /\ (Path!SequencesOf(draining) \cap Path!InFlight)' = {}
    <3>1. /\ Path!SequencesOf(pending_write_queue)'
               = Path!SequencesOf(pending_write_queue)
          /\ Path!SequencesOf(draining)' = Path!SequencesOf(draining)
          /\ Path!InFlight' = Path!InFlight
      BY <2>2 DEF Path!SequencesOf, Path!InFlight
    <3> QED
      BY <3>1 DEF SInv, Path!RInv, Path!OnePlaceEach
  <2> QED
    BY <2>1, <2>3, <2>4 DEF Path!OnePlaceEach, Path!Sequence
<1> QED
  BY <1>1, <1>2, <1>4, <1>5 DEF Path!RInv, Path!IInv

(* The promised replies stay as they are.                                   *)
LEMMA PromiseStands ==
  ASSUME SInv, UNCHANGED <<global_sequence, Promised>>
  PROVE  /\ global_sequence' \in 0 .. MaxSequence
         /\ global_sequence' >= global_sequence
         /\ Promised' \in [Sequence -> Seq(Statuses)]
         /\ \A s \in Sequence :
              Len(Promised'[s]) =
                IF s <= global_sequence' /\ ~Outstanding(s) THEN 1 ELSE 0
BY EngineTyped, PathInvariant DEF SInv, TypeOK

(* The vector of files grows, or one without records is dropped from it.    *)
LEMMA FilesChange ==
  ASSUME SInv,
         UNCHANGED <<allocVars, queueVars, inflight, reads, mem_index,
                     global_sequence, Promised, Settled>>,
         files' \in Seq(FileInfo), next_file_id' \in Nat,
         active_file_id' \in Nat, FilesInOrder', Path!BelowFrontier'
  PROVE  Path!RInv'
<1>1. /\ Path!NoOverlap' /\ Path!NotYetDurable' /\ Path!EntriesFromDisk'
      /\ Path!ReadsFromDisk' /\ Path!IndexAtNewest'
  BY DEF SInv, Path!RInv, Path!IInv, Path!NoOverlap, Path!Overlap,
         Path!NotYetDurable, Path!EntriesFromDisk, Path!ReadsFromDisk,
         Path!IndexAtNewest
<1>2. /\ Settled' \subseteq Write
      /\ mem_index' \in [Keys -> Entry \cup {NoEntry}]
  BY EngineTyped, PathInvariant DEF SInv, TypeOK
<1> QED
  BY <1>1, <1>2, PromiseStands, PathChanges

(* A request gets its sequence number: it is counted and promised a reply.  *)
LEMMA NumberTaken ==
  ASSUME SInv, ~Holding, Holding', global_sequence < MaxSequence,
         global_sequence' = global_sequence + 1,
         sync'.seq = global_sequence + 1,
         UNCHANGED <<files, next_file_id, allocVars, queueVars, inflight, reads,
                     mem_index, disk, replies>>,
         Settled' = disk',
         active_file_id' \in Nat, FilesInOrder'
  PROVE  Path!RInv'
<1> DEFINE g == global_sequence + 1
<1>1. g \in Sequence /\ global_sequence \in Nat
  BY EngineTyped, PathAssumption DEF TypeOK, Sequence
<1>2. replies \in [Sequence -> Seq(Statuses)] /\ "ok" \in Statuses
  BY DEF SInv, Statuses
<1>3. Promised = replies /\ Settled = disk
  BY NothingHeld
<1>4. Promised' = [replies EXCEPT ![g] = Append(@, "ok")]
  BY DEF Promised, Reply
<1>5. /\ Promised' \in [Sequence -> Seq(Statuses)]
      /\ Len(Promised'[g]) = Len(replies[g]) + 1
      /\ \A s \in Sequence : s # g => Promised'[s] = replies[s]
  BY <1>1, <1>2, <1>4, OneReply
<1>6. ~Outstanding(g)
  BY <1>1, PathInvariant DEF SInv, OnePlaceEach
<1>n. global_sequence' = g /\ g = global_sequence + 1
  OBVIOUS
<1> HIDE DEF g
<1>7. ASSUME NEW s \in Sequence
      PROVE  Len(Promised'[s]) =
               IF s <= global_sequence' /\ ~Outstanding(s) THEN 1 ELSE 0
  <2>1. Len(replies[s]) =
          IF s <= global_sequence /\ ~Outstanding(s) THEN 1 ELSE 0
    BY <1>3, PathInvariant DEF SInv
  <2>2. s \in Nat
    BY DEF Sequence
  <2>3. CASE s = g
    <3>1. ~Outstanding(s) /\ Len(replies[s]) = 0
      BY <1>1, <1>6, <1>n, <2>1, <2>2, <2>3
    <3>2. Len(Promised'[s]) = 1
      BY <1>5, <2>3, <3>1
    <3> QED
      BY <1>n, <1>1, <2>2, <2>3, <3>1, <3>2
  <2>4. CASE s # g
    <3>1. Promised'[s] = replies[s]
      BY <1>5, <2>4
    <3>2. s <= global_sequence' <=> s <= global_sequence
      BY <1>1, <1>n, <2>2, <2>4
    <3> QED
      BY <2>1, <3>1, <3>2
  <2> QED
    BY <2>3, <2>4
<1>8. /\ files' \in Seq(FileInfo) /\ next_file_id' \in Nat
      /\ mem_index' \in [Keys -> Entry \cup {NoEntry}]
      /\ Settled' \subseteq Write
      /\ global_sequence' \in 0 .. MaxSequence
      /\ global_sequence' >= global_sequence
  BY <1>1, <1>n, EngineTyped, PathAssumption DEF TypeOK, Sequence
<1>9. UNCHANGED Settled
  BY <1>3
<1>10. /\ Path!BelowFrontier' /\ Path!NoOverlap' /\ Path!NotYetDurable'
       /\ Path!EntriesFromDisk' /\ Path!ReadsFromDisk'
       /\ Path!IndexAtNewest'
  BY <1>9 DEF SInv, Path!RInv, Path!IInv, Path!BelowFrontier, Path!NoOverlap,
              Path!Overlap, Path!NotYetDurable, Path!EntriesFromDisk,
              Path!ReadsFromDisk, Path!IndexAtNewest
<1> QED
  BY <1>5, <1>7, <1>8, <1>10, PathChanges

(* Pushing a FileInfo after sealing the active one, with no asynchronous    *)
(* allocation going on.                                                     *)
LEMMA Pushing ==
  ASSUME TypeOK, FilesInOrder, alloc_stage = "none",
         UNCHANGED <<alloc_stage, active_file_id>>, PushFile(SealActive)
  PROVE  /\ files' \in Seq(FileInfo) /\ next_file_id' \in Nat
         /\ FilesInOrder' /\ FilesGrow
         /\ Len(files') = Len(files) + 1
         /\ files'[Len(files')].write_offset = 1
<1>1. /\ Len(files) \in Nat /\ next_file_id = Len(files)
      /\ active_file_id \in Nat /\ active_file_id + 1 \in 1 .. Len(files)
  BY DEF TypeOK, FilesInOrder
<1>2. /\ SealActive \in Seq(FileInfo)
      /\ Len(SealActive) = Len(files)
      /\ \A i \in 1 .. Len(files) :
           /\ SealActive[i].file_id = files[i].file_id
           /\ SealActive[i].write_offset = files[i].write_offset
           /\ SealActive[i].blob_opened = files[i].blob_opened
  BY Sealing
<1> DEFINE nf == NewFile(next_file_id)
           fs == SealActive
<1>3. nf \in FileInfo /\ nf.file_id = Len(files) /\ nf.write_offset = 1
  BY <1>1 DEF NewFile, FileInfo, FileStates
<1>4. files' = Append(fs, nf) /\ next_file_id' = next_file_id + 1
  BY DEF PushFile
<1> HIDE DEF nf, fs
<1>5. fs \in Seq(FileInfo) /\ Len(fs) = Len(files)
  BY <1>2 DEF fs
<1>6. /\ files' \in Seq(FileInfo)
      /\ Len(files') = Len(files) + 1
      /\ \A i \in 1 .. Len(files) : files'[i] = fs[i]
      /\ files'[Len(files) + 1] = nf
  BY <1>1, <1>3, <1>4, <1>5
<1>7. \A i \in 1 .. Len(files) :
        /\ files'[i].file_id = files[i].file_id
        /\ files'[i].write_offset = files[i].write_offset
        /\ files'[i].blob_opened = files[i].blob_opened
  BY <1>2, <1>6 DEF fs
<1>8. FilesGrow
  <2>1. \A i \in 1 .. Len(files) : files[i].write_offset \in Nat
    <3> TAKE i \in 1 .. Len(files)
    <3>1. files[i] \in FileInfo
      BY DEF TypeOK
    <3> QED
      BY <3>1 DEF FileInfo, FileStates
  <2>2. \A i \in 1 .. Len(files) :
          files'[i].write_offset >= files[i].write_offset
    BY <1>7, <2>1
  <2>3. \A i \in 1 .. Len(files) : files[i].blob_opened => files'[i].blob_opened
    BY <1>7
  <2> QED
    BY <1>1, <1>6, <2>2, <2>3 DEF FilesGrow
<1>9. FilesInOrder'
  <2>1. \A i \in 1 .. Len(files') : /\ files'[i].file_id = i - 1
                                    /\ files'[i].write_offset >= 1
    <3> TAKE i \in 1 .. Len(files')
    <3>1. CASE i \in 1 .. Len(files)
      BY <3>1, <1>7 DEF FilesInOrder
    <3>2. CASE i = Len(files) + 1
      BY <3>2, <1>1, <1>3, <1>6
    <3> QED
      BY <3>1, <3>2, <1>1, <1>6
  <2>2. files'[active_file_id' + 1].blob_opened
    BY <1>1, <1>7 DEF FilesInOrder
  <2>3. next_file_id' = Len(files') /\ active_file_id' < Len(files')
    BY <1>1, <1>4, <1>6
  <2> QED
    BY <2>1, <2>2, <2>3 DEF FilesInOrder
<1> QED
  BY <1>1, <1>3, <1>4, <1>6, <1>8, <1>9

(* The records stay below the frontier when the vector grows.               *)
LEMMA PathFrontierStays ==
  ASSUME SInv, FilesGrow, files' \in Seq(FileInfo),
         UNCHANGED <<inflight, Settled>>
  PROVE  Path!BelowFrontier'
<1>1. Path!FilesGrow
  BY DEF Path!FilesGrow, FilesGrow
<1>2. files' \in Seq(Path!FileInfo)
  BY SameMeaning
<1>3. inflight' \cup Settled' \subseteq inflight \cup Settled
  OBVIOUS
<1>4. Path!TypeOK /\ Path!BelowFrontier
  BY DEF SInv, Path!RInv, Path!IInv
<1> QED
  BY <1>1, <1>2, <1>3, <1>4, Path!FrontierStays, PathAssumptions

LEMMA EngineInOrder ==
  ASSUME SInv
  PROVE  /\ FilesInOrder /\ TypeOK
         /\ Len(files) \in Nat
         /\ active_file_id \in 0 .. Len(files) - 1
         /\ AllocationInOrder
<1>1. FilesInOrder /\ TypeOK /\ AllocationInOrder
  BY EngineTyped, PathInvariant DEF SInv
<1> QED
  BY <1>1 DEF FilesInOrder, TypeOK

(* put and del up to their first loop.                                      *)
LEMMA CallWriteKeeps ==
  ASSUME SInv, SerialAllocation, NEW kind \in Kinds, NEW k \in Keys,
         NEW pages \in Nat \ {0}, CallWrite(kind, k, pages)
  PROVE  SInv'
<1>1. /\ FilesInOrder /\ TypeOK
      /\ Len(files) \in Nat
      /\ active_file_id \in 0 .. Len(files) - 1
      /\ AllocationInOrder
  BY EngineInOrder
<1>2. /\ sync = NoCall /\ draining = <<>> /\ global_sequence < MaxSequence
      /\ UNCHANGED <<allocVars, queueVars, inflight, disk, mem_index, reads,
                     replies, alloc_file>>
  BY DEF CallWrite, BetweenHandlers, dataVars
<1>3. ~Holding /\ Settled = disk /\ Promised = replies
  BY <1>2, NothingHeld DEF Holding
<1>4. /\ alloc_file' \in Nat
      /\ replies' \in [Sequence -> Seq(Statuses)]
  BY <1>2 DEF SInv
<1>5. CASE /\ SubmitSync(CallOf(kind, k, pages, "write", active_file_id))
           /\ UNCHANGED fileVars
  <2>1. IndexOfFile(active_file_id) = active_file_id + 1
    BY <1>1, Lookup
  <2>2. files[active_file_id + 1] \in FileInfo
    BY <1>1 DEF TypeOK
  <2>3. /\ sync' = [kind |-> kind, key |-> k, pages |-> pages,
                    stage |-> "write", file |-> active_file_id,
                    offset |-> files[active_file_id + 1].write_offset,
                    seq |-> global_sequence + 1]
        /\ global_sequence' = global_sequence + 1
    BY <1>5, <2>1 DEF SubmitSync, CallOf
  <2>4. global_sequence + 1 \in Sequence
    BY <1>1, <1>2, PathAssumption DEF TypeOK, Sequence
  <2>5. sync' \in Call /\ sync' # NoCall
    <3>1. files[active_file_id + 1].write_offset \in Nat
      BY <2>2 DEF FileInfo, FileStates
    <3>2. sync' \in Call
      BY <1>1, <2>3, <2>4, <3>1 DEF Call, Stages, Sequence, TypeOK
    <3> QED
      BY <3>2, NoCallAssumption DEF Call, Stages, Kinds, Sequence
  <2>6. Holding' /\ Settled' = disk'
    BY <2>3, <2>5 DEF Holding, Settled, Unreturned
  <2>7. UNCHANGED <<files, next_file_id, active_file_id>>
    BY <1>5 DEF fileVars
  <2>8. FilesInOrder' /\ active_file_id' \in Nat
    BY <1>1, <1>2, <2>7 DEF FilesInOrder, allocVars
  <2>9. Path!RInv'
    BY <1>2, <1>3, <2>3, <2>6, <2>7, <2>8, NumberTaken
  <2>10. AllocationInOrder'
    BY <1>1, <1>2, <2>7 DEF AllocationInOrder, allocVars
  <2>11. PlaceIsKept'
    BY <1>1, <1>2, <2>3, <2>4, <2>7
    DEF PlaceIsKept, FilesInOrder, BetweenHandlers, queueVars, allocVars,
        TypeOK
  <2>12. NewFileIsLast' /\ SyncReadFindsItsRecord'
    BY <2>3 DEF NewFileIsLast, SyncReadFindsItsRecord
  <2> QED
    BY <1>4, <2>5, <2>9, <2>10, <2>11, <2>12 DEF SInv
<1>6. CASE /\ ~allocating_new_file
           /\ PushFile(SealActive)
           /\ sync' = CallOf(kind, k, pages, "blob", next_file_id)
           /\ UNCHANGED <<active_file_id, global_sequence>>
  <2>1. alloc_stage = "none" /\ alloc_stage' = "none"
    BY <1>1, <1>2, <1>6 DEF AllocationInOrder, allocVars
  <2>2. /\ files' \in Seq(FileInfo) /\ next_file_id' \in Nat
        /\ FilesInOrder' /\ FilesGrow
        /\ Len(files') = Len(files) + 1
        /\ files'[Len(files')].write_offset = 1
    BY <1>1, <1>6, <2>1, Pushing
  <2>3. /\ sync'.kind = kind /\ sync'.stage = "blob"
        /\ sync'.file = Len(files)
        /\ sync' \in Call
    BY <1>1, <1>6, PathAssumption
    DEF CallOf, Call, Stages, FilesInOrder, Kinds
  <2>4. ~Holding' /\ Settled' = disk' /\ Promised' = replies'
    BY <2>3 DEF Holding, Settled, Unreturned, Promised
  <2>5. UNCHANGED <<Settled, Promised>>
    BY <1>2, <1>3, <2>4
  <2>6. Path!BelowFrontier'
    BY <1>2, <2>2, <2>5, PathFrontierStays
  <2>7. Path!RInv'
    BY <1>1, <1>2, <1>6, <2>2, <2>5, <2>6, FilesChange
  <2>8. AllocationInOrder'
    BY <1>1, <1>2, <2>1 DEF AllocationInOrder, allocVars
  <2>9. NewFileIsLast'
    BY <1>1, <1>2, <1>6, <2>1, <2>2, <2>3
    DEF NewFileIsLast, BetweenHandlers, queueVars
  <2>10. PlaceIsKept' /\ SyncReadFindsItsRecord'
    BY <2>3, <2>4 DEF PlaceIsKept, SyncReadFindsItsRecord
  <2> QED
    BY <1>4, <2>3, <2>7, <2>8, <2>9, <2>10 DEF SInv
<1> QED
  BY <1>5, <1>6 DEF CallWrite

(* The path stands still.                                                   *)
LEMMA PathStays ==
  ASSUME SInv,
         UNCHANGED <<fileVars, allocVars, queueVars, inflight, mem_index,
                     global_sequence, reads, Settled, Promised>>
  PROVE  Path!RInv'
<1>1. UNCHANGED Path!vars
  BY DEF Path!vars, fileVars, allocVars, queueVars
<1> QED
  BY <1>1, PathMoves DEF SInv

(* A step in the loop of allocate_new_file, or of get, that only concerns   *)
(* the request.                                                             *)
LEMMA LoopKeeps ==
  ASSUME SInv, ~Holding, ~Holding', UNCHANGED <<vars, alloc_file>>,
         sync' \in Call \cup {NoCall}, NewFileIsLast', SyncReadFindsItsRecord'
  PROVE  SInv'
<1>1. /\ Promised = replies /\ Promised' = replies'
      /\ Settled = disk /\ Settled' = disk'
  BY DEF Promised, Settled, Unreturned, Holding
<1>2. Path!RInv'
  BY <1>1, PathStays DEF vars, fileVars, allocVars, queueVars
<1>3. AllocationInOrder' /\ PlaceIsKept'
  BY DEF SInv, AllocationInOrder, PlaceIsKept, vars
<1> QED
  BY <1>2, <1>3 DEF SInv, vars

(* The request goes on to another stage of its loop.                        *)
LEMMA Going ==
  ASSUME SInv, sync # NoCall, NEW stage \in Stages, Goto(stage)
  PROVE  /\ sync' \in Call
         /\ sync' # NoCall
         /\ sync'.stage = stage
         /\ sync'.kind = sync.kind
         /\ sync'.key = sync.key
         /\ sync'.pages = sync.pages
         /\ sync'.file = sync.file
         /\ sync'.offset = sync.offset
         /\ sync'.seq = sync.seq
         /\ SyncWrite' = SyncWrite
<1>1. sync \in Call /\ sync' = [sync EXCEPT !.stage = stage]
  BY DEF SInv, Goto
<1>2. /\ sync' \in Call
      /\ sync'.stage = stage
      /\ sync'.kind = sync.kind
      /\ sync'.key = sync.key
      /\ sync'.pages = sync.pages
      /\ sync'.file = sync.file
      /\ sync'.offset = sync.offset
      /\ sync'.seq = sync.seq
  BY <1>1 DEF Call
<1>3. sync' # NoCall
  BY <1>2, NoCallAssumption
<1> QED
  BY <1>2, <1>3 DEF SyncWrite

LEMMA CallGetKeeps ==
  ASSUME SInv, NEW k \in Keys, CallGet(k)
  PROVE  SInv'
<1>1. /\ sync = NoCall
      /\ mem_index[k] # NoEntry
      /\ sync' = [kind |-> "get", key |-> k, pages |-> mem_index[k].pages,
                  stage |-> "read", file |-> mem_index[k].file,
                  offset |-> mem_index[k].offset, seq |-> mem_index[k].seq]
      /\ UNCHANGED <<vars, alloc_file>>
  BY DEF CallGet, Find
<1>2. ~Holding /\ Settled = disk
  BY <1>1, NothingHeld DEF Holding
<1>3. mem_index[k] \in Entry
  BY <1>1, EngineInOrder DEF TypeOK
<1>4. sync' \in Call
  BY <1>1, <1>3 DEF Call, Stages, Entry, Sequence
<1>5. ~Holding' /\ NewFileIsLast'
  BY <1>1 DEF Holding, NewFileIsLast
<1>6. SyncReadFindsItsRecord'
  <2>1. PICK d \in disk :
          /\ d.kind = "put"
          /\ d.key = k
          /\ d.seq = mem_index[k].seq
          /\ d.file = mem_index[k].file
          /\ d.offset = mem_index[k].offset
          /\ d.pages = mem_index[k].pages
    BY <1>1, <1>2 DEF SInv, Path!RInv, Path!IInv, Path!EntriesFromDisk
  <2>2. d \in disk'
    BY <1>1 DEF vars
  <2> QED
    BY <1>1, <2>1, <2>2 DEF SyncReadFindsItsRecord
<1> QED
  BY <1>1, <1>2, <1>4, <1>5, <1>6, LoopKeeps

LEMMA SyncHeaderWrittenKeeps ==
  ASSUME SInv, SyncHeaderWritten PROVE SInv'
<1>1. /\ sync # NoCall /\ sync.stage = "header" /\ Goto("allocated")
      /\ UNCHANGED <<vars, alloc_file>>
  BY DEF SyncHeaderWritten, In
<1>2. "allocated" \in Stages
  BY DEF Stages
<1>3. sync' \in Call /\ sync'.stage = "allocated" /\ sync'.file = sync.file
      /\ sync'.kind = sync.kind
  BY <1>1, <1>2, Going
<1>4. ~Holding /\ ~Holding' /\ SyncReadFindsItsRecord'
  BY <1>1, <1>3 DEF Holding, SyncReadFindsItsRecord
<1>5. NewFileIsLast'
  BY <1>1, <1>3 DEF SInv, NewFileIsLast, vars, BetweenHandlers
<1> QED
  BY <1>1, <1>3, <1>4, <1>5, LoopKeeps

LEMMA SyncAllocationFailedKeeps ==
  ASSUME SInv, SyncAllocationFailed PROVE SInv'
<1>1. /\ sync # NoCall /\ sync.stage \in {"blob", "header"} /\ Goto("no_file")
      /\ UNCHANGED <<vars, alloc_file>>
  BY DEF SyncAllocationFailed, In
<1>2. "no_file" \in Stages
  BY DEF Stages
<1>3. sync' \in Call /\ sync'.stage = "no_file" /\ sync'.file = sync.file
      /\ sync'.kind = sync.kind
  BY <1>1, <1>2, Going
<1>4. ~Holding /\ ~Holding' /\ SyncReadFindsItsRecord'
  BY <1>1, <1>3 DEF Holding, SyncReadFindsItsRecord
<1>5. NewFileIsLast'
  BY <1>1, <1>3 DEF SInv, NewFileIsLast, vars, BetweenHandlers
<1> QED
  BY <1>1, <1>3, <1>4, <1>5, LoopKeeps

LEMMA SyncGetReturnsKeeps ==
  ASSUME SInv, SyncGetReturns PROVE SInv'
<1>1. /\ sync.stage = "read" /\ sync' = NoCall
      /\ UNCHANGED <<vars, alloc_file>>
  BY DEF SyncGetReturns, In
<1>2. /\ ~Holding /\ ~Holding' /\ SyncReadFindsItsRecord'
      /\ NewFileIsLast'
  BY <1>1 DEF Holding, SyncReadFindsItsRecord, NewFileIsLast
<1> QED
  BY <1>1, <1>2, LoopKeeps

LEMMA SyncBlobOpenedKeeps ==
  ASSUME SInv, SyncBlobOpened PROVE SInv'
<1>1. /\ FilesInOrder /\ TypeOK
      /\ Len(files) \in Nat
      /\ active_file_id \in 0 .. Len(files) - 1
      /\ AllocationInOrder
  BY EngineInOrder
<1>2. /\ sync # NoCall /\ sync.stage = "blob" /\ Goto("header")
      /\ BlobOpenedFor(sync.file)
      /\ UNCHANGED <<next_file_id, pathVars, alloc_file>>
  BY DEF SyncBlobOpened, In
<1>3. /\ sync.kind \in Kinds
      /\ BetweenHandlers
      /\ alloc_stage = "none"
      /\ sync.file = Len(files) - 1
      /\ active_file_id < Len(files) - 1
      /\ files[Len(files)].write_offset = 1
  BY <1>2 DEF SInv, NewFileIsLast
<1>4. "header" \in Stages
  BY DEF Stages
<1>5. sync' \in Call /\ sync'.stage = "header" /\ sync'.file = sync.file
      /\ sync'.kind = sync.kind
  BY <1>2, <1>4, Going
<1>6. ~Holding /\ ~Holding' /\ Settled' = disk' /\ Promised' = replies'
  BY <1>2, <1>5 DEF Holding, Settled, Unreturned, Promised
<1>7. UNCHANGED <<Settled, Promised>>
  BY <1>2, <1>6, NothingHeld DEF pathVars, dataVars
<1> DEFINE f1 == [files[Len(files)] EXCEPT !.blob_opened = TRUE]
<1>8. IndexOfFile(sync.file) = Len(files)
  BY <1>1, <1>3, Lookup
<1>9. Len(files) \in 1 .. Len(files) /\ files[Len(files)] \in FileInfo
  BY <1>1 DEF TypeOK
<1>10. /\ f1 \in FileInfo
       /\ f1.file_id = files[Len(files)].file_id
       /\ f1.write_offset = files[Len(files)].write_offset
  BY <1>9 DEF FileInfo, FileStates
<1>11. f1.blob_opened
  BY <1>9 DEF FileInfo, FileStates
<1> HIDE DEF f1
<1>12. files' = [files EXCEPT ![Len(files)] = f1]
  BY <1>2, <1>8 DEF BlobOpenedFor, f1
<1>13. /\ files' \in Seq(FileInfo)
       /\ Len(files') = Len(files)
       /\ \A i \in 1 .. Len(files) :
            files'[i] = IF i = Len(files) THEN f1 ELSE files[i]
  BY <1>1, <1>9, <1>10, <1>12 DEF TypeOK
<1>14. UNCHANGED <<next_file_id, active_file_id, allocating_new_file,
                   alloc_stage, pending_write_queue, draining, alloc_file,
                   replies, inflight, reads, mem_index, global_sequence>>
  BY <1>2 DEF pathVars, allocVars, queueVars, dataVars
<1>15. FilesInOrder'
  <2>1. \A i \in 1 .. Len(files') : files'[i].file_id = i - 1
                                    /\ files'[i].write_offset >= 1
    BY <1>1, <1>10, <1>13 DEF FilesInOrder
  <2>2. files'[active_file_id' + 1].blob_opened
    BY <1>1, <1>3, <1>13, <1>14 DEF FilesInOrder
  <2> QED
    BY <1>1, <1>3, <1>13, <1>14, <2>1, <2>2 DEF FilesInOrder
<1>16. FilesGrow
  <2>1. \A i \in 1 .. Len(files) :
          files'[i].write_offset >= files[i].write_offset
    <3> TAKE i \in 1 .. Len(files)
    <3>1. files[i] \in FileInfo
      BY <1>1 DEF TypeOK
    <3>2. files[i].write_offset \in Nat
      BY <3>1 DEF FileInfo, FileStates
    <3> QED
      BY <1>10, <1>13, <3>2
  <2>2. \A i \in 1 .. Len(files) :
          files[i].blob_opened => files'[i].blob_opened
    BY <1>11, <1>13
  <2> QED
    BY <1>1, <1>13, <2>1, <2>2 DEF FilesGrow
<1>17. Path!RInv'
  <2>1. Path!BelowFrontier'
    BY <1>7, <1>13, <1>14, <1>16, PathFrontierStays
  <2>2. next_file_id' \in Nat /\ active_file_id' \in Nat
    BY <1>1, <1>14 DEF TypeOK
  <2> QED
    BY <1>7, <1>13, <1>14, <1>15, <2>1, <2>2, FilesChange
    DEF allocVars, queueVars
<1>18. AllocationInOrder'
  BY <1>1, <1>13, <1>14 DEF AllocationInOrder
<1>19. NewFileIsLast'
  <2>1. files'[Len(files')].write_offset = 1
    BY <1>3, <1>9, <1>10, <1>13
  <2>2. files'[Len(files')].blob_opened
    BY <1>9, <1>11, <1>13
  <2> QED
    BY <1>3, <1>5, <1>13, <1>14, <2>1, <2>2 DEF NewFileIsLast, BetweenHandlers
<1>20. PlaceIsKept' /\ SyncReadFindsItsRecord'
  BY <1>5, <1>6 DEF PlaceIsKept, SyncReadFindsItsRecord
<1> QED
  BY <1>5, <1>14, <1>17, <1>18, <1>19, <1>20 DEF SInv

LEMMA SyncGoesOnKeeps ==
  ASSUME SInv, SyncGoesOn PROVE SInv'
<1>1. /\ FilesInOrder /\ TypeOK
      /\ Len(files) \in Nat
      /\ active_file_id \in 0 .. Len(files) - 1
      /\ AllocationInOrder
  BY EngineInOrder
<1>2. /\ sync # NoCall /\ sync.stage = "allocated" /\ BetweenHandlers
      /\ global_sequence < MaxSequence
      /\ active_file_id' = sync.file
      /\ SubmitSync(sync)
      /\ UNCHANGED <<files, next_file_id, allocVars, queueVars, inflight, disk,
                     mem_index, reads, replies, alloc_file>>
  BY DEF SyncGoesOn, In, dataVars
<1>3. /\ sync.kind \in Kinds
      /\ alloc_stage = "none"
      /\ sync.file = Len(files) - 1
      /\ active_file_id < Len(files) - 1
      /\ files[Len(files)].blob_opened
  BY <1>2 DEF SInv, NewFileIsLast
<1>4. IndexOfFile(sync.file) = Len(files)
  BY <1>1, <1>3, Lookup
<1>5. files[Len(files)] \in FileInfo /\ files[Len(files)].write_offset \in Nat
  <2>1. files[Len(files)] \in FileInfo
    BY <1>1 DEF TypeOK
  <2> QED
    BY <2>1 DEF FileInfo, FileStates
<1>6. global_sequence + 1 \in Sequence /\ global_sequence + 1 \in 0 .. MaxSequence
  BY <1>1, <1>2, PathAssumption DEF TypeOK, Sequence
<1>7. /\ sync' = [sync EXCEPT !.stage = "write", !.seq = global_sequence + 1,
                              !.offset = files[Len(files)].write_offset]
      /\ global_sequence' = global_sequence + 1
  BY <1>2, <1>4 DEF SubmitSync
<1>8. sync \in Call
  BY <1>2 DEF SInv
<1>9. /\ sync'.stage = "write"
      /\ sync'.kind = sync.kind
      /\ sync'.file = sync.file
      /\ sync'.seq = global_sequence + 1
      /\ sync'.offset = files[Len(files)].write_offset
      /\ sync' \in Call
  BY <1>5, <1>6, <1>7, <1>8 DEF Call, Stages
<1>10. sync' # NoCall
  BY <1>9, NoCallAssumption
<1>11. ~Holding /\ Holding' /\ Settled' = disk'
  BY <1>2, <1>9, <1>10 DEF Holding, Settled, Unreturned
<1>12. FilesInOrder' /\ active_file_id' \in Nat
  BY <1>1, <1>2, <1>3 DEF FilesInOrder, allocVars
<1>13. Path!RInv'
  BY <1>2, <1>7, <1>9, <1>11, <1>12, NumberTaken
<1>14. AllocationInOrder'
  BY <1>1, <1>2 DEF AllocationInOrder, allocVars
<1>15. PlaceIsKept'
  BY <1>1, <1>2, <1>3, <1>6, <1>9
  DEF PlaceIsKept, BetweenHandlers, queueVars, allocVars
<1>16. NewFileIsLast' /\ SyncReadFindsItsRecord'
  BY <1>9 DEF NewFileIsLast, SyncReadFindsItsRecord
<1> QED
  BY <1>2, <1>9, <1>13, <1>14, <1>15, <1>16 DEF SInv

LEMMA SyncNoFileKeeps ==
  ASSUME SInv, SyncNoFile PROVE SInv'
<1>1. /\ FilesInOrder /\ TypeOK
      /\ Len(files) \in Nat
      /\ active_file_id \in 0 .. Len(files) - 1
      /\ AllocationInOrder
  BY EngineInOrder
<1>2. /\ sync # NoCall /\ sync.stage = "no_file" /\ sync' = NoCall
      /\ DropLastFile
      /\ UNCHANGED <<active_file_id, allocVars, queueVars, inflight, disk,
                     mem_index, global_sequence, reads, replies, alloc_file>>
  BY DEF SyncNoFile, In, pathVars, dataVars
<1>3. /\ alloc_stage = "none"
      /\ active_file_id < Len(files) - 1
      /\ files[Len(files)].write_offset = 1
  BY <1>2 DEF SInv, NewFileIsLast
<1>4. ~Holding /\ ~Holding' /\ Settled' = disk' /\ Promised' = replies'
  BY <1>2 DEF Holding, Settled, Unreturned, Promised
<1>5. UNCHANGED <<Settled, Promised>>
  BY <1>2, <1>4, NothingHeld
<1>6. /\ files' \in Seq(Path!FileInfo) /\ next_file_id' \in Nat
      /\ Path!FilesInOrder' /\ Path!BelowFrontier'
  <2>1. Path!DropLastFile /\ alloc_stage' = "none"
    BY <1>2, <1>3 DEF DropLastFile, Path!DropLastFile, allocVars
  <2>2. UNCHANGED <<active_file_id, inflight, Path!dataVars>>
    BY <1>2, <1>5 DEF Path!dataVars
  <2>3. Path!IInv
    BY DEF SInv, Path!RInv
  <2> QED
    BY <1>3, <2>1, <2>2, <2>3, Path!Dropping, PathAssumptions
<1>7. files' \in Seq(FileInfo) /\ FilesInOrder' /\ active_file_id' \in Nat
  BY <1>1, <1>2, <1>6, SameMeaning DEF Path!FilesInOrder, FilesInOrder
<1>8. Path!RInv'
  BY <1>2, <1>5, <1>6, <1>7, FilesChange
<1>9. AllocationInOrder'
  BY <1>1, <1>2, <1>3 DEF AllocationInOrder, allocVars
<1>10. NewFileIsLast' /\ PlaceIsKept' /\ SyncReadFindsItsRecord'
  BY <1>2, <1>4 DEF NewFileIsLast, PlaceIsKept, SyncReadFindsItsRecord
<1> QED
  BY <1>2, <1>8, <1>9, <1>10 DEF SInv

(* Nothing lies under the place of the request.                             *)
LEMMA PlaceIsFree ==
  ASSUME SInv, Holding, sync.stage # "written"
  PROVE  /\ Settled = disk
         /\ SyncWrite \notin disk
         /\ { d \in disk : ~Overlap(d, SyncWrite) } = disk
<1>1. Settled = disk
  BY DEF Settled, Unreturned
<1> QED
  BY <1>1, HeldRequest

(* The IO of the request ends, well or badly.                               *)
LEMMA WriteEnds ==
  ASSUME SInv, SyncWritten \/ SyncUnwritten
  PROVE  SInv'
<1>1. /\ sync # NoCall /\ sync.stage = "write"
      /\ \/ Goto("written") /\ disk' = { d \in disk : ~Overlap(d, SyncWrite) }
                                         \cup {SyncWrite}
         \/ Goto("unwritten") /\ disk' = { d \in disk : ~Overlap(d, SyncWrite) }
      /\ UNCHANGED <<fileVars, allocVars, queueVars, inflight, mem_index,
                     global_sequence, reads, replies, alloc_file>>
  BY DEF SyncWritten, SyncUnwritten, In
<1>2. "written" \in Stages /\ "unwritten" \in Stages
  BY DEF Stages
<1>3. /\ sync' \in Call /\ sync' # NoCall
      /\ sync'.stage \in {"written", "unwritten"}
      /\ sync'.kind = sync.kind /\ sync'.file = sync.file
      /\ sync'.offset = sync.offset /\ sync'.seq = sync.seq
      /\ SyncWrite' = SyncWrite
      /\ \/ sync'.stage = "written" /\ disk' = disk \cup {SyncWrite}
         \/ sync'.stage = "unwritten" /\ disk' = disk
  BY <1>1, <1>2, Going, PlaceIsFree DEF Holding
<1>4. Holding /\ Holding' /\ Settled = disk /\ SyncWrite \notin disk
  BY <1>1, <1>3, PlaceIsFree DEF Holding
<1>5. Settled' = disk
  <2>1. CASE sync'.stage = "written" /\ disk' = disk \cup {SyncWrite}
    <3>1. Unreturned' = {SyncWrite}
      BY <1>3, <2>1 DEF Unreturned
    <3> QED
      BY <1>4, <2>1, <3>1 DEF Settled
  <2>2. CASE sync'.stage = "unwritten" /\ disk' = disk
    BY <2>2 DEF Settled, Unreturned
  <2> QED
    BY <1>3, <2>1, <2>2
<1>6. Promised' = Promised
  BY <1>1, <1>3, <1>4 DEF Promised, Reply
<1>7. Path!RInv'
  BY <1>1, <1>4, <1>5, <1>6, PathStays
<1>8. AllocationInOrder' /\ alloc_file' \in Nat
  BY <1>1 DEF SInv, AllocationInOrder, allocVars, fileVars
<1>9. PlaceIsKept'
  BY <1>1, <1>3, <1>4
  DEF SInv, PlaceIsKept, BetweenHandlers, fileVars, allocVars, queueVars
<1>10. NewFileIsLast' /\ SyncReadFindsItsRecord'
  BY <1>3 DEF NewFileIsLast, SyncReadFindsItsRecord
<1>11. replies' \in [Sequence -> Seq(Statuses)]
  BY <1>1 DEF SInv
<1> QED
  BY <1>3, <1>7, <1>8, <1>9, <1>10, <1>11 DEF SInv

LEMMA SyncReturnsErrorKeeps ==
  ASSUME SInv, SyncReturnsError PROVE SInv'
<1>1. /\ sync # NoCall /\ sync.stage = "unwritten" /\ sync' = NoCall
      /\ replies' = Reply(sync.seq, "io_error")
      /\ UNCHANGED <<fileVars, allocVars, queueVars, inflight, disk, mem_index,
                     global_sequence, reads, alloc_file>>
  BY DEF SyncReturnsError, In, dataVars
<1>2. Holding /\ Settled = disk
  BY <1>1, PlaceIsFree DEF Holding
<1>3. ~Holding' /\ Settled' = disk' /\ Promised' = replies'
  BY <1>1 DEF Holding, Settled, Unreturned, Promised
<1>4. /\ sync.seq \in Sequence
      /\ Promised = [replies EXCEPT ![sync.seq] = Append(@, "ok")]
  BY <1>2, HeldRequest
<1>5. /\ replies \in [Sequence -> Seq(Statuses)]
      /\ "ok" \in Statuses /\ "io_error" \in Statuses
  BY DEF SInv, Statuses
<1>6. /\ replies' \in [Sequence -> Seq(Statuses)]
      /\ \A s \in Sequence : Len(replies'[s]) = Len(Promised[s])
  <2>1. replies' = [replies EXCEPT ![sync.seq] = Append(@, "io_error")]
    BY <1>1 DEF Reply
  <2>2. /\ replies' \in [Sequence -> Seq(Statuses)]
        /\ Len(replies'[sync.seq]) = Len(replies[sync.seq]) + 1
        /\ \A t \in Sequence : t # sync.seq => replies'[t] = replies[t]
    BY <1>4, <1>5, <2>1, OneReply
  <2>3. /\ Len(Promised[sync.seq]) = Len(replies[sync.seq]) + 1
        /\ \A t \in Sequence : t # sync.seq => Promised[t] = replies[t]
    BY <1>4, <1>5, OneReply
  <2> QED
    BY <2>2, <2>3
<1>7. Path!RInv'
  <2>1. \A s \in Sequence :
          Len(Promised'[s]) =
            IF s <= global_sequence' /\ ~Outstanding(s) THEN 1 ELSE 0
    BY <1>1, <1>3, <1>6, PathInvariant DEF SInv
  <2>2. UNCHANGED Settled
    BY <1>1, <1>2, <1>3
  <2>3. /\ Path!BelowFrontier' /\ Path!NoOverlap' /\ Path!NotYetDurable'
        /\ Path!EntriesFromDisk' /\ Path!ReadsFromDisk'
        /\ Path!IndexAtNewest'
    BY <1>1, <2>2
    DEF SInv, Path!RInv, Path!IInv, Path!BelowFrontier, Path!NoOverlap,
        Path!Overlap, Path!NotYetDurable, Path!EntriesFromDisk,
        Path!ReadsFromDisk, Path!IndexAtNewest, fileVars
  <2>4. FilesInOrder'
    BY <1>1, EngineInOrder DEF FilesInOrder, fileVars, allocVars
  <2>5. /\ files' \in Seq(FileInfo) /\ next_file_id' \in Nat
        /\ active_file_id' \in Nat
        /\ Settled' \subseteq Write
        /\ mem_index' \in [Keys -> Entry \cup {NoEntry}]
        /\ global_sequence' \in 0 .. MaxSequence
        /\ global_sequence' >= global_sequence
    BY <1>1, <1>3, EngineInOrder DEF TypeOK, fileVars
  <2> QED
    BY <1>1, <1>3, <1>6, <2>1, <2>3, <2>4, <2>5, PathChanges
<1>8. AllocationInOrder' /\ alloc_file' \in Nat
  BY <1>1 DEF SInv, AllocationInOrder, allocVars, fileVars
<1>9. NewFileIsLast' /\ PlaceIsKept' /\ SyncReadFindsItsRecord'
  BY <1>1, <1>3 DEF NewFileIsLast, PlaceIsKept, SyncReadFindsItsRecord
<1> QED
  BY <1>1, <1>6, <1>7, <1>8, <1>9 DEF SInv

(* put or del returns: its record joins the others, below a write offset    *)
(* that moves past it, and the index takes it in.                           *)
LEMMA SyncReturnsKeeps ==
  ASSUME SInv, SyncReturns PROVE SInv'
<1>1. /\ FilesInOrder /\ TypeOK
      /\ Len(files) \in Nat
      /\ active_file_id \in 0 .. Len(files) - 1
      /\ AllocationInOrder
  BY EngineInOrder
<1>2. /\ sync # NoCall /\ sync.stage = "written" /\ sync' = NoCall
      /\ BetweenHandlers
      /\ mem_index' = IF sync.kind = "put" THEN Upsert(SyncWrite)
                      ELSE Remove(sync.key)
      /\ AdvanceOwn
      /\ replies' = Reply(sync.seq, "ok")
      /\ UNCHANGED <<next_file_id, active_file_id, allocVars, queueVars,
                     inflight, disk, global_sequence, reads, alloc_file>>
  BY DEF SyncReturns, In
<1> DEFINE w == SyncWrite
           p == sync.file + 1
           f1 == [files[p] EXCEPT !.write_offset = @ + sync.pages]
<1>3. Holding
  BY <1>2 DEF Holding
<1>4. /\ w \in Write
      /\ w \notin inflight \cup Settled
      /\ \A v \in inflight \cup Settled : ~Overlap(v, w) /\ ~Overlap(w, v)
      /\ sync \in Call
  BY <1>3, HeldRequest
<1>5. /\ sync.kind \in Kinds
      /\ sync.file \in 0 .. Len(files) - 1
      /\ sync.offset = files[p].write_offset
      /\ files[p].blob_opened
      /\ alloc_stage # "none" => sync.file # Len(files) - 1
      /\ w \in disk
  BY <1>2, <1>3 DEF SInv, PlaceIsKept
<1>6. /\ w.kind = sync.kind /\ w.key = sync.key /\ w.seq = sync.seq
      /\ w.file = sync.file /\ w.offset = sync.offset
      /\ w.pages = sync.pages
  BY DEF SyncWrite
<1>7. /\ sync.pages \in Nat \ {0} /\ sync.file \in Nat /\ sync.offset \in Nat
      /\ sync.key \in Keys
  BY <1>4 DEF Call
<1>8. ~Holding' /\ Settled' = disk' /\ Promised' = replies'
  BY <1>2 DEF Holding, Settled, Unreturned, Promised
<1>9. disk = Settled \cup {w} /\ Settled' = Settled \cup {w}
  BY <1>2, <1>5, <1>8 DEF Settled, Unreturned
<1>10. UNCHANGED Promised
  BY <1>2, <1>3, <1>8 DEF Promised
<1>11. p \in 1 .. Len(files) /\ files[p] \in FileInfo
       /\ IndexOfFile(sync.file) = p
  BY <1>1, <1>5, <1>7, Lookup DEF TypeOK
<1>12. files[p].write_offset \in Nat
  BY <1>11 DEF FileInfo, FileStates
<1>13. /\ f1 \in FileInfo
       /\ f1.write_offset = files[p].write_offset + sync.pages
       /\ f1.file_id = files[p].file_id
  <2> DEFINE n == files[p].write_offset + sync.pages
  <2>1. n \in Nat
    BY <1>7, <1>12
  <2> HIDE DEF n, p
  <2>2. [files[p] EXCEPT !.write_offset = n] \in FileInfo
    BY <1>11, <2>1 DEF FileInfo, FileStates
  <2>3. /\ [files[p] EXCEPT !.write_offset = n].write_offset = n
        /\ [files[p] EXCEPT !.write_offset = n].file_id = files[p].file_id
    BY <1>11 DEF FileInfo, FileStates
  <2> QED
    BY <2>2, <2>3 DEF n
<1>14. f1.blob_opened
  BY <1>5, <1>11 DEF FileInfo, FileStates
<1>15. files' = [files EXCEPT ![p] = f1]
  BY <1>2, <1>11 DEF AdvanceOwn
<1> HIDE DEF w, f1
<1>16. /\ files' \in Seq(FileInfo)
       /\ Len(files') = Len(files)
       /\ \A i \in 1 .. Len(files) :
            files'[i] = IF i = p THEN f1 ELSE files[i]
  BY <1>1, <1>11, <1>13, <1>15 DEF TypeOK
<1>17. files[p].write_offset >= 1 /\ files[p].file_id = p - 1
  BY <1>1, <1>11 DEF FilesInOrder
<1>18. FilesInOrder'
  <2>1. \A i \in 1 .. Len(files') : files'[i].file_id = i - 1
                                    /\ files'[i].write_offset >= 1
    <3>1. f1.file_id = p - 1 /\ f1.write_offset >= 1
      BY <1>7, <1>12, <1>13, <1>17
    <3> QED
      BY <1>1, <1>16, <3>1 DEF FilesInOrder
  <2>2. files'[active_file_id' + 1].blob_opened
    BY <1>1, <1>2, <1>14, <1>16 DEF FilesInOrder
  <2>3. alloc_stage # "none" => p # Len(files)
    BY <1>1, <1>5, <1>7
  <2>4. alloc_stage \in {"blob", "header"} =>
          /\ active_file_id' < Len(files') - 1
          /\ files'[Len(files')].write_offset = 1
    BY <1>1, <1>2, <1>16, <2>3 DEF FilesInOrder
  <2>5. alloc_stage = "header" => files'[Len(files')].blob_opened
    BY <1>1, <1>16, <2>3 DEF FilesInOrder
  <2> QED
    BY <1>1, <1>2, <1>16, <2>1, <2>2, <2>4, <2>5 DEF FilesInOrder, allocVars
<1>19. FilesGrow
  <2>1. \A i \in 1 .. Len(files) :
          files'[i].write_offset >= files[i].write_offset
    <3> TAKE i \in 1 .. Len(files)
    <3>1. files[i] \in FileInfo
      BY <1>1 DEF TypeOK
    <3>2. files[i].write_offset \in Nat
      BY <3>1 DEF FileInfo, FileStates
    <3> QED
      BY <1>7, <1>12, <1>13, <1>16, <3>2
  <2>2. \A i \in 1 .. Len(files) :
          files[i].blob_opened => files'[i].blob_opened
    BY <1>14, <1>16
  <2> QED
    BY <1>1, <1>16, <2>1, <2>2 DEF FilesGrow
<1>20. Path!BelowFrontier'
  <2>1. ASSUME NEW v \in inflight \cup Settled
        PROVE  /\ v.file < Len(files')
               /\ v.offset >= 1
               /\ v.offset + v.pages <= files'[v.file + 1].write_offset
               /\ files'[v.file + 1].blob_opened
    <3>1. /\ v \in Write
          /\ v.file < Len(files)
          /\ v.offset >= 1
          /\ v.offset + v.pages <= files[v.file + 1].write_offset
          /\ files[v.file + 1].blob_opened
      BY PathInvariant DEF SInv
    <3>2. v.file \in Nat /\ v.offset \in Nat /\ v.pages \in Nat
      BY <3>1 DEF Write
    <3>3. v.file + 1 \in 1 .. Len(files)
      BY <1>1, <3>1, <3>2
    <3>4. /\ files'[v.file + 1].write_offset >= files[v.file + 1].write_offset
          /\ files'[v.file + 1].blob_opened
      BY <1>19, <3>1, <3>3 DEF FilesGrow
    <3>5. files[v.file + 1] \in FileInfo /\ files'[v.file + 1] \in FileInfo
      BY <1>1, <1>16, <3>3 DEF TypeOK
    <3>6. /\ files[v.file + 1].write_offset \in Nat
          /\ files'[v.file + 1].write_offset \in Nat
      BY <3>5 DEF FileInfo, FileStates
    <3> QED
      BY <1>16, <3>1, <3>2, <3>4, <3>6
  <2>2. /\ w.file < Len(files')
        /\ w.offset >= 1
        /\ w.offset + w.pages <= files'[w.file + 1].write_offset
        /\ files'[w.file + 1].blob_opened
    <3>1. files'[w.file + 1] = f1
      BY <1>6, <1>11, <1>16
    <3>2. f1.blob_opened
      BY <1>14
    <3>3. w.offset + w.pages <= f1.write_offset
      BY <1>5, <1>6, <1>7, <1>12, <1>13
    <3>4. w.file < Len(files') /\ w.offset >= 1
      BY <1>1, <1>5, <1>6, <1>7, <1>16, <1>17
    <3> QED
      BY <3>1, <3>2, <3>3, <3>4
  <2>3. inflight' \cup Settled' = inflight \cup Settled \cup {w}
    BY <1>2, <1>9
  <2>4. \A v \in inflight' \cup Settled' :
          /\ v.file < Len(files')
          /\ v.offset >= 1
          /\ v.offset + v.pages <= files'[v.file + 1].write_offset
          /\ files'[v.file + 1].blob_opened
    BY <2>1, <2>2, <2>3
  <2> QED
    BY <2>4 DEF Path!BelowFrontier
<1>21. Path!NoOverlap' /\ Path!NotYetDurable'
  <2>1. /\ \A u, v \in inflight \cup Settled : u # v => ~Overlap(u, v)
        /\ inflight \cap Settled = {}
    BY PathInvariant DEF SInv
  <2>2. \A u, v \in inflight' \cup Settled' : u # v => ~Path!Overlap(u, v)
    BY <1>2, <1>4, <1>9, <2>1, SameMeaning
  <2>3. inflight' \cap Settled' = {}
    BY <1>2, <1>4, <1>9, <2>1
  <2> QED
    BY <2>2, <2>3 DEF Path!NoOverlap, Path!NotYetDurable, Path!Overlap
<1>22. /\ mem_index' \in [Keys -> Entry \cup {NoEntry}]
       /\ \A k \in Keys : mem_index[k] # NoEntry =>
            /\ mem_index'[k] # NoEntry
            /\ mem_index'[k].seq >= mem_index[k].seq
       /\ w.kind = "put" => /\ mem_index'[w.key] # NoEntry
                            /\ mem_index'[w.key].seq >= w.seq
       /\ \A k \in Keys : mem_index'[k] # NoEntry =>
            \/ /\ w.kind = "put" /\ k = w.key
               /\ mem_index'[k] = EntryOf(w)
            \/ /\ mem_index[k] # NoEntry
               /\ mem_index'[k].file = mem_index[k].file
               /\ mem_index'[k].offset = mem_index[k].offset
               /\ mem_index'[k].pages = mem_index[k].pages
               /\ mem_index'[k].seq = mem_index[k].seq
  <2>1. mem_index' = IF w.kind = "put" THEN Upsert(w) ELSE Remove(w.key)
    BY <1>2, <1>6 DEF w
  <2> QED
    BY <1>1, <1>4, <2>1, Indexing
<1>23. Path!EntriesFromDisk'
  <2>1. ASSUME NEW k \in Keys, mem_index'[k] # NoEntry
        PROVE  \E d \in Settled' :
                 /\ d.kind = "put"
                 /\ d.key = k
                 /\ d.seq = mem_index'[k].seq
                 /\ d.file = mem_index'[k].file
                 /\ d.offset = mem_index'[k].offset
                 /\ d.pages = mem_index'[k].pages
    <3>1. CASE /\ w.kind = "put" /\ k = w.key
               /\ mem_index'[k] = EntryOf(w)
      BY <1>9, <3>1 DEF EntryOf
    <3>2. CASE /\ mem_index[k] # NoEntry
               /\ mem_index'[k].file = mem_index[k].file
               /\ mem_index'[k].offset = mem_index[k].offset
               /\ mem_index'[k].pages = mem_index[k].pages
               /\ mem_index'[k].seq = mem_index[k].seq
      <4>1. PICK d \in Settled :
              /\ d.kind = "put"
              /\ d.key = k
              /\ d.seq = mem_index[k].seq
              /\ d.file = mem_index[k].file
              /\ d.offset = mem_index[k].offset
              /\ d.pages = mem_index[k].pages
        BY <3>2 DEF SInv, Path!RInv, Path!IInv, Path!EntriesFromDisk
      <4> QED
        BY <1>9, <3>2, <4>1
    <3> QED
      BY <1>22, <2>1, <3>1, <3>2
  <2> QED
    BY <2>1 DEF Path!EntriesFromDisk
<1>24. Path!ReadsFromDisk'
  BY <1>2, <1>9 DEF SInv, Path!RInv, Path!IInv, Path!ReadsFromDisk
<1>25. Path!IndexAtNewest'
  <2>1. ASSUME NEW d \in Settled', d.kind = "put"
        PROVE  /\ mem_index'[d.key] # NoEntry
               /\ mem_index'[d.key].seq >= d.seq
    <3>1. CASE d = w
      BY <1>22, <2>1, <3>1
    <3>2. CASE d \in Settled
      <4>1. d \in Write /\ d.key \in Keys /\ d.seq \in Nat
        BY <3>2, PathInvariant DEF SInv, Write, Sequence
      <4>2. mem_index[d.key] # NoEntry /\ mem_index[d.key].seq >= d.seq
        BY <2>1, <3>2 DEF SInv, Path!RInv, Path!IInv, Path!IndexAtNewest
      <4>3. /\ mem_index'[d.key] # NoEntry
            /\ mem_index'[d.key].seq >= mem_index[d.key].seq
        BY <1>22, <4>1, <4>2
      <4>4. mem_index[d.key] \in Entry /\ mem_index'[d.key] \in Entry
        BY <1>1, <1>22, <4>1, <4>2, <4>3 DEF TypeOK
      <4>5. mem_index[d.key].seq \in Nat /\ mem_index'[d.key].seq \in Nat
        BY <4>4 DEF Entry, Sequence
      <4> QED
        BY <4>1, <4>2, <4>3, <4>5
    <3> QED
      BY <1>9, <3>1, <3>2
  <2> QED
    BY <2>1 DEF Path!IndexAtNewest
<1>26. Settled' \subseteq Write
  BY <1>1, <1>2, <1>8 DEF TypeOK
<1>27. next_file_id' \in Nat /\ active_file_id' \in Nat
  BY <1>1, <1>2 DEF TypeOK
<1>28. Path!RInv'
  BY <1>2, <1>10, <1>16, <1>18, <1>20, <1>21, <1>22, <1>23, <1>24, <1>25,
     <1>26, <1>27, PromiseStands, PathChanges
<1>29. AllocationInOrder' /\ alloc_file' \in Nat
  BY <1>1, <1>2, <1>16 DEF SInv, AllocationInOrder, allocVars
<1>30. NewFileIsLast' /\ PlaceIsKept' /\ SyncReadFindsItsRecord'
  BY <1>2, <1>8 DEF NewFileIsLast, PlaceIsKept, SyncReadFindsItsRecord
<1>31. replies' \in [Sequence -> Seq(Statuses)]
  BY <1>8, <1>10, PathInvariant DEF SInv
<1> QED
  BY <1>2, <1>28, <1>29, <1>30, <1>31 DEF SInv

-----------------------------------------------------------------------------
LEMMA SyncInitInv == ASSUME SyncInit PROVE SInv
<1>1. Init /\ alloc_file = 0 /\ sync = NoCall
  BY DEF SyncInit
<1>2. Settled = disk /\ Promised = replies /\ ~Holding
  BY <1>1 DEF Settled, Unreturned, Promised, Holding
<1>3. Path!Init
  BY <1>1, <1>2, SameMeaning DEF Init, Path!Init
<1>4. Path!RInv
  BY <1>3, Path!StoreInit, PathAssumptions
<1>5. replies \in [Sequence -> Seq(Statuses)]
  BY <1>1 DEF Init
<1>6. AllocationInOrder
  BY <1>1 DEF AllocationInOrder, Init
<1> QED
  BY <1>1, <1>2, <1>4, <1>5, <1>6
  DEF SInv, NewFileIsLast, PlaceIsKept, SyncReadFindsItsRecord

LEMMA SyncNextInv ==
  ASSUME SInv, SerialAllocation, ~CallbackCalls, [SyncNext]_syncVars
  PROVE  SInv'
<1>1. CASE RequestPath
  BY <1>1, RequestPathKeeps
<1>2. CASE AsyncAllocation
  BY <1>2, AllocationKeeps
<1>3. CASE SyncCalls
  <2>1. ASSUME NEW k \in Keys, NEW n \in PutPages, CallWrite("put", k, n)
        PROVE  SInv'
    BY <2>1, CallWriteKeeps, PathAssumption DEF Kinds
  <2>2. ASSUME NEW k \in Keys, CallWrite("delete", k, 1)
        PROVE  SInv'
    BY <2>2, CallWriteKeeps DEF Kinds
  <2> QED
    BY <1>3, <2>1, <2>2, CallGetKeeps DEF SyncCalls
<1>4. CASE SyncProgress
  BY <1>4, SyncBlobOpenedKeeps, SyncHeaderWrittenKeeps,
     SyncAllocationFailedKeeps, SyncGoesOnKeeps, SyncNoFileKeeps, WriteEnds,
     SyncReturnsKeeps, SyncReturnsErrorKeeps, SyncGetReturnsKeeps
  DEF SyncProgress
<1>5. CASE UNCHANGED syncVars
  <2>1. UNCHANGED <<vars, alloc_file, sync>>
    BY <1>5 DEF syncVars
  <2>2. SyncWrite' = SyncWrite /\ (Holding' <=> Holding)
    BY <2>1 DEF SyncWrite, Holding
  <2>3. UNCHANGED <<Settled, Promised>>
    BY <2>1, <2>2 DEF Settled, Unreturned, Promised, Reply, Holding, vars
  <2>4. Path!RInv'
    BY <2>1, <2>3, PathStays DEF vars, fileVars, allocVars, queueVars
  <2>5. /\ AllocationInOrder' /\ NewFileIsLast' /\ PlaceIsKept'
        /\ SyncReadFindsItsRecord'
    BY <2>1, CallKept DEF vars, allocVars
  <2> QED
    BY <2>1, <2>4, <2>5 DEF SInv, vars
<1> QED
  BY <1>1, <1>2, <1>3, <1>4, <1>5 DEF SyncNext

(* The invariant the results below follow from.                             *)
THEOREM SyncInvariance ==
  ASSUME SerialAllocation, ~CallbackCalls
  PROVE  SyncSpec => []SInv
<1>1. SyncInit => SInv
  BY SyncInitInv
<1>2. SInv /\ [SyncNext]_syncVars => SInv'
  BY SyncNextInv
<1> QED
  BY <1>1, <1>2, PTL DEF SyncSpec

(* Every state of the engine with a synchronous request in it is of its     *)
(* type.                                                                    *)
THEOREM SyncTypeCorrect ==
  ASSUME SerialAllocation, ~CallbackCalls
  PROVE  SyncSpec => []SyncTypeOK
<1>1. SInv => SyncTypeOK
  BY EngineTyped DEF SInv, SyncTypeOK
<1> QED
  BY <1>1, SyncInvariance, PTL

(* put and del never write over another record, although the write offset   *)
(* of their file moves only when they return.                               *)
THEOREM SyncWritesNeverOverlap ==
  ASSUME SerialAllocation, ~CallbackCalls
  PROVE  SyncSpec => []SyncNoOverlap
<1>1. ASSUME SInv PROVE SyncNoOverlap
  <2>1. \A u, v \in inflight \cup Settled : u # v => ~Overlap(u, v)
    BY <1>1, PathInvariant DEF SInv
  <2>2. CASE Holding
    <3>1. \A v \in inflight \cup Settled :
            ~Overlap(v, SyncWrite) /\ ~Overlap(SyncWrite, v)
      BY <1>1, <2>2, HeldRequest
    <3>2. inflight \cup disk \cup SyncWrites
            \subseteq inflight \cup Settled \cup {SyncWrite}
      BY DEF Settled, Unreturned, SyncWrites
    <3> QED
      BY <2>1, <3>1, <3>2 DEF SyncNoOverlap
  <2>3. CASE ~Holding
    <3>1. Settled = disk /\ SyncWrites = {}
      BY <2>3, NothingHeld DEF SyncWrites, Holding
    <3> QED
      BY <2>1, <3>1 DEF SyncNoOverlap
  <2> QED
    BY <2>2, <2>3
<1> QED
  BY <1>1, SyncInvariance, PTL

(* get reads the record of its key, whatever completes inside its loop.     *)
THEOREM SyncReadsCorrect ==
  ASSUME SerialAllocation, ~CallbackCalls
  PROVE  SyncSpec => []SyncReadFindsItsRecord
<1>1. SInv => SyncReadFindsItsRecord
  BY DEF SInv
<1> QED
  BY <1>1, SyncInvariance, PTL

(* Synchronous and asynchronous requests are each answered once.            *)
THEOREM SyncAnsweredOnce ==
  ASSUME SerialAllocation, ~CallbackCalls
  PROVE  SyncSpec => []EachAnsweredOnce
<1>1. ASSUME SInv PROVE EachAnsweredOnce
  <2> SUFFICES ASSUME NEW s \in Sequence
               PROVE  Len(replies[s]) =
                        IF s <= global_sequence /\ ~Outstanding(s)
                             /\ ~HeldBySync(s)
                        THEN 1 ELSE 0
    BY DEF EachAnsweredOnce
  <2>1. Len(Promised[s]) =
          IF s <= global_sequence /\ ~Outstanding(s) THEN 1 ELSE 0
    BY <1>1, PathInvariant DEF SInv
  <2>2. CASE HeldBySync(s)
    <3>1. Holding /\ sync.seq = s
      BY <2>2 DEF HeldBySync, Holding
    <3> QED
      BY <1>1, <2>2, <3>1, HeldRequest
  <2>3. CASE ~HeldBySync(s)
    <3>1. Promised[s] = replies[s]
      <4>1. CASE Holding
        <5>1. Promised = [replies EXCEPT ![sync.seq] = Append(@, "ok")]
              /\ sync.seq # s
          BY <1>1, <2>3, <4>1, HeldRequest DEF HeldBySync, Holding
        <5> QED
          BY <1>1, <5>1 DEF SInv
      <4>2. CASE ~Holding
        BY <4>2, NothingHeld
      <4> QED
        BY <4>1, <4>2
    <3> QED
      BY <2>1, <2>3, <3>1
  <2> QED
    BY <2>2, <2>3
<1> QED
  BY <1>1, SyncInvariance, PTL

(* What find returns is where the put record of the key is, with synchronous *)
(* requests among the others.                                               *)
THEOREM SyncIndexCorrect ==
  ASSUME SerialAllocation, ~CallbackCalls
  PROVE  SyncSpec => []IndexPointsAtRecord
<1>1. ASSUME SInv PROVE IndexPointsAtRecord
  <2> SUFFICES ASSUME NEW k \in Keys, Find(k)
      PROVE  /\ \E d \in disk :
                  /\ d.kind = "put"
                  /\ d.key = k
                  /\ <<d.seq, d.file, d.offset, d.pages>>
                       = <<mem_index[k].seq, mem_index[k].file,
                           mem_index[k].offset, mem_index[k].pages>>
             /\ HasFile(mem_index[k].file)
             /\ files[IndexOfFile(mem_index[k].file)].blob_opened
    BY DEF IndexPointsAtRecord
  <2>1. PICK d \in Settled : /\ d.kind = "put"
                             /\ d.key = k
                             /\ d.seq = mem_index[k].seq
                             /\ d.file = mem_index[k].file
                             /\ d.offset = mem_index[k].offset
                             /\ d.pages = mem_index[k].pages
    BY <1>1 DEF SInv, Path!RInv, Path!IInv, Path!EntriesFromDisk, Find
  <2>2. d.file \in 0 .. Len(files) - 1 /\ files[d.file + 1].blob_opened
    BY <1>1, PathInvariant, EngineInOrder DEF SInv, Write
  <2>3. HasFile(d.file) /\ IndexOfFile(d.file) = d.file + 1
    BY <1>1, <2>2, EngineInOrder, Lookup
  <2>4. d \in disk
    BY DEF Settled
  <2>5. HasFile(mem_index[k].file)
        /\ files[IndexOfFile(mem_index[k].file)].blob_opened
    BY <2>1, <2>2, <2>3
  <2> QED
    BY <2>1, <2>4, <2>5
<1> QED
  BY <1>1, SyncInvariance, PTL
=============================================================================
