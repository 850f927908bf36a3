--------------------------- MODULE WritePathProofs ---------------------------
(***************************************************************************)
(* Proofs about WritePath, for every set of keys, every record size, every *)
(* file size and every bound on the number of requests.                    *)
(*                                                                         *)
(* The argument. The ids of the files are their places in the vector,      *)
(* because a failed allocation takes back both the file and the id. Every  *)
(* record, in flight or durable, ends at or before the write offset of its *)
(* file, and a file that is still being allocated holds none. So a write   *)
(* placed at the write offset overlaps nothing, a durable record is never  *)
(* lost, and what the index and the reads remember stays on the disk.      *)
(***************************************************************************)
EXTENDS WritePath, TLAPS

(* The vector of files: ids are places, the active file is open, the file   *)
(* being allocated is the last one, is not the active one and is empty.     *)
FilesInOrder ==
  /\ next_file_id = Len(files)
  /\ \A i \in 1 .. Len(files) : /\ files[i].file_id = i - 1
                                /\ files[i].write_offset >= 1
  /\ active_file_id < Len(files)
  /\ files[active_file_id + 1].blob_opened
  /\ alloc_stage \in {"blob", "header"} =>
       /\ active_file_id < Len(files) - 1
       /\ files[Len(files)].write_offset = 1
  /\ alloc_stage = "header" => files[Len(files)].blob_opened

(* Every record lies between the header and the write offset of a file that *)
(* is open and is not being allocated.                                      *)
BelowFrontier ==
  \A w \in inflight \cup disk :
    /\ w.file < Len(files)
    /\ w.offset >= 1
    /\ w.offset + w.pages <= files[w.file + 1].write_offset
    /\ files[w.file + 1].blob_opened

NotYetDurable == inflight \cap disk = {}

(* Every entry of the index, deleted or not, was made from a durable put.   *)
EntriesFromDisk ==
  \A k \in Keys : mem_index[k] # NoEntry =>
    \E d \in disk :
      /\ d.kind = "put"
      /\ d.key = k
      /\ d.seq = mem_index[k].seq
      /\ d.file = mem_index[k].file
      /\ d.offset = mem_index[k].offset
      /\ d.pages = mem_index[k].pages

ReadsFromDisk ==
  \A r \in reads : \E d \in disk :
    /\ d.kind = "put"
    /\ d.key = r.key
    /\ d.seq = r.seq
    /\ d.file = r.file
    /\ d.offset = r.offset
    /\ d.pages = r.pages

(* The index is at or past every durable put, deleted keys included.        *)
IndexAtNewest ==
  \A d \in disk : d.kind = "put" =>
    mem_index[d.key] # NoEntry /\ mem_index[d.key].seq >= d.seq

IInv == /\ TypeOK
        /\ FilesInOrder
        /\ BelowFrontier
        /\ NoOverlap
        /\ NotYetDurable
        /\ EntriesFromDisk
        /\ ReadsFromDisk
        /\ IndexAtNewest

-----------------------------------------------------------------------------
(* What an operation may do to the vector without disturbing the records.   *)
FilesGrow ==
  /\ Len(files') >= Len(files)
  /\ \A i \in 1 .. Len(files) :
       /\ files'[i].write_offset >= files[i].write_offset
       /\ files[i].blob_opened => files'[i].blob_opened

(* get_file finds file id at place id + 1.                                  *)
LEMMA Lookup ==
  ASSUME TypeOK, FilesInOrder, NEW id \in 0 .. Len(files) - 1
  PROVE  /\ HasFile(id)
         /\ IndexOfFile(id) = id + 1
<1>1. DOMAIN files = 1 .. Len(files) /\ Len(files) \in Nat
  BY DEF TypeOK
<1>2. id + 1 \in 1 .. Len(files) /\ files[id + 1].file_id = id
  BY <1>1 DEF FilesInOrder
<1>3. HasFile(id)
  BY <1>1, <1>2 DEF HasFile
<1>4. \A j \in 1 .. id : files[j].file_id # id
  BY <1>1 DEF FilesInOrder
<1>5. \A i \in DOMAIN files : files[i].file_id = id => i = id + 1
  BY <1>1 DEF FilesInOrder
<1>6. IndexOfFile(id) = id + 1
  BY <1>1, <1>2, <1>4, <1>5 DEF IndexOfFile
<1> QED
  BY <1>3, <1>6

(* The active file exists, is open and is where Active says.                *)
LEMMA ActiveFile ==
  ASSUME TypeOK, FilesInOrder
  PROVE  /\ HasFile(active_file_id)
         /\ Active = active_file_id + 1
         /\ Active \in 1 .. Len(files)
         /\ DOMAIN files = 1 .. Len(files)
         /\ Len(files) \in Nat
         /\ files[Active] \in FileInfo
         /\ files[Active].blob_opened
<1>1. active_file_id \in 0 .. Len(files) - 1 /\ Len(files) \in Nat
  BY DEF TypeOK, FilesInOrder
<1>2. HasFile(active_file_id) /\ Active = active_file_id + 1
  BY <1>1, Lookup DEF Active
<1> QED
  BY <1>1, <1>2 DEF TypeOK, FilesInOrder

(* Records stay below the frontier when the vector grows.                   *)
LEMMA FrontierStays ==
  ASSUME TypeOK, BelowFrontier, FilesGrow, files' \in Seq(FileInfo),
         inflight' \cup disk' \subseteq inflight \cup disk
  PROVE  BelowFrontier'
<1> SUFFICES ASSUME NEW w \in inflight' \cup disk'
             PROVE  /\ w.file < Len(files')
                    /\ w.offset >= 1
                    /\ w.offset + w.pages <= files'[w.file + 1].write_offset
                    /\ files'[w.file + 1].blob_opened
  BY DEF BelowFrontier
<1>1. w \in inflight \cup disk /\ w \in Write
  BY DEF TypeOK
<1>2. w.file + 1 \in 1 .. Len(files)
  BY <1>1 DEF BelowFrontier, TypeOK, Write
<1>3. w.file + 1 \in 1 .. Len(files') /\ Len(files') \in Nat
  BY <1>2 DEF FilesGrow
<1>4. /\ files[w.file + 1] \in FileInfo
      /\ files'[w.file + 1] \in FileInfo
  BY <1>2, <1>3 DEF TypeOK
<1>5. /\ w.file < Len(files')
      /\ w.offset >= 1
      /\ w.offset + w.pages <= files'[w.file + 1].write_offset
  <2>1. /\ w.file < Len(files)
        /\ w.offset >= 1
        /\ w.offset + w.pages <= files[w.file + 1].write_offset
    BY <1>1 DEF BelowFrontier
  <2>2. /\ files'[w.file + 1].write_offset >= files[w.file + 1].write_offset
        /\ Len(files') >= Len(files)
    BY <1>2 DEF FilesGrow
  <2>3. /\ w.file \in Nat /\ w.offset \in Nat /\ w.pages \in Nat
        /\ Len(files) \in Nat
    BY <1>1 DEF Write, TypeOK
  <2>4. /\ files[w.file + 1].write_offset \in Nat
        /\ files'[w.file + 1].write_offset \in Nat
    BY <1>4 DEF FileInfo, FileStates
  <2> QED
    BY <1>3, <2>1, <2>2, <2>3, <2>4
<1>6. files[w.file + 1].blob_opened
  BY <1>1 DEF BelowFrontier
<1>7. files'[w.file + 1].blob_opened
  BY <1>2, <1>6 DEF FilesGrow
<1> QED
  BY <1>5, <1>7

-----------------------------------------------------------------------------
(* The initial state satisfies the invariant.                               *)
LEMMA InitIInv == ASSUME Init PROVE IInv
<1> DEFINE f0 == [NewFile(0) EXCEPT !.blob_opened = TRUE]
<1>1. f0 \in FileInfo /\ f0.file_id = 0 /\ f0.write_offset = 1
  BY DEF NewFile, FileInfo, FileStates
<1>2. f0.blob_opened
  BY DEF NewFile
<1> HIDE DEF f0
<1>3. files = <<f0>>
  BY DEF Init, f0
<1>4. files \in Seq(FileInfo) /\ Len(files) = 1 /\ files[1] = f0
  BY <1>1, <1>3
<1>5. TypeOK
  <2>1. mem_index \in [Keys -> Entry \cup {NoEntry}]
    BY DEF Init
  <2>2. replies \in [Sequence -> Seq(Statuses)]
    BY DEF Init
  <2>3. global_sequence \in 0 .. MaxSequence
    BY PathAssumption DEF Init
  <2>4. /\ pending_write_queue \in Seq(Request) /\ draining \in Seq(Request)
        /\ inflight \subseteq Write /\ disk \subseteq Write
        /\ reads \subseteq Read
    BY DEF Init
  <2>5. /\ next_file_id \in Nat /\ active_file_id \in Nat
        /\ allocating_new_file \in BOOLEAN
        /\ alloc_stage \in {"none", "blob", "header"}
    BY DEF Init
  <2> QED
    BY <1>4, <2>1, <2>2, <2>3, <2>4, <2>5 DEF TypeOK
<1>6. FilesInOrder
  <2>1. active_file_id = 0 /\ next_file_id = 1 /\ alloc_stage = "none"
    BY DEF Init
  <2>2. files[active_file_id + 1].blob_opened
    BY <1>2, <1>4, <2>1
  <2> QED
    BY <1>1, <1>4, <2>1, <2>2 DEF FilesInOrder
<1>7. inflight = {} /\ disk = {} /\ reads = {}
  BY DEF Init
<1>8. \A k \in Keys : mem_index[k] = NoEntry
  BY DEF Init
<1> QED
  BY <1>5, <1>6, <1>7, <1>8
  DEF IInv, BelowFrontier, NoOverlap, NotYetDurable, EntriesFromDisk,
      ReadsFromDisk, IndexAtNewest

(* Sealing the active file changes nothing but its state.                   *)
LEMMA Sealing ==
  ASSUME TypeOK, FilesInOrder
  PROVE  /\ SealActive \in Seq(FileInfo)
         /\ Len(SealActive) = Len(files)
         /\ \A i \in 1 .. Len(files) :
              /\ SealActive[i].file_id = files[i].file_id
              /\ SealActive[i].write_offset = files[i].write_offset
              /\ SealActive[i].blob_opened = files[i].blob_opened
              /\ SealActive[i].state = IF i = Active THEN "sealed"
                                       ELSE files[i].state
              /\ i # Active => SealActive[i] = files[i]
<1> DEFINE f1 == [files[Active] EXCEPT !.state = "sealed"]
<1>1. /\ Active \in 1 .. Len(files)
      /\ files[Active] \in FileInfo
      /\ HasFile(active_file_id)
  BY ActiveFile
<1>2. f1 \in FileInfo
  BY <1>1 DEF FileInfo, FileStates
<1>3. /\ f1.file_id = files[Active].file_id
      /\ f1.write_offset = files[Active].write_offset
      /\ f1.blob_opened = files[Active].blob_opened
      /\ f1.state = "sealed"
  BY <1>1 DEF FileInfo, FileStates
<1> HIDE DEF f1
<1>4. SealActive = [files EXCEPT ![Active] = f1]
  BY <1>1 DEF SealActive, f1
<1>5. SealActive \in Seq(FileInfo) /\ Len(SealActive) = Len(files)
  BY <1>1, <1>2, <1>4 DEF TypeOK
<1>6. \A i \in 1 .. Len(files) :
        SealActive[i] = IF i = Active THEN f1 ELSE files[i]
  BY <1>1, <1>4 DEF TypeOK
<1> QED
  BY <1>3, <1>5, <1>6

(* Running the callbacks of a queue keeps the replies well typed.           *)
LEMMA ReplyingAll ==
  ASSUME TypeOK, NEW queue, NEW status \in Statuses
  PROVE  ReplyAll(queue, status) \in [Sequence -> Seq(Statuses)]
<1>1. \A s \in Sequence : /\ replies[s] \in Seq(Statuses)
                          /\ Append(replies[s], status) \in Seq(Statuses)
  BY DEF TypeOK
<1> QED
  BY <1>1 DEF ReplyAll

(* allocate_new_file_async pushes an empty file at the end of the vector or *)
(* leaves the vector as it is.                                              *)
LEMMA Allocating ==
  ASSUME TypeOK, FilesInOrder, NEW fs \in Seq(FileInfo),
         NEW queue \in Seq(Request),
         Len(fs) = Len(files),
         \A i \in 1 .. Len(files) :
           /\ fs[i].file_id = files[i].file_id
           /\ fs[i].write_offset = files[i].write_offset
           /\ fs[i].blob_opened = files[i].blob_opened,
         active_file_id' = active_file_id,
         AllocateNewFileAsync(fs, queue)
  PROVE  /\ files' \in Seq(FileInfo)
         /\ next_file_id' \in Nat
         /\ allocating_new_file' \in BOOLEAN
         /\ alloc_stage' \in {"none", "blob", "header"}
         /\ pending_write_queue' \in Seq(Request)
         /\ replies' \in [Sequence -> Seq(Statuses)]
         /\ FilesInOrder'
         /\ FilesGrow
<1>1. Len(files) \in Nat /\ next_file_id = Len(files)
  BY DEF TypeOK, FilesInOrder
<1>2. active_file_id \in Nat /\ active_file_id + 1 \in 1 .. Len(files)
  BY <1>1 DEF TypeOK, FilesInOrder
<1>3. fs[active_file_id + 1].blob_opened
  BY <1>2 DEF FilesInOrder
<1>w. \A i \in 1 .. Len(files) : fs[i].write_offset \in Nat
  <2> TAKE i \in 1 .. Len(files)
  <2>1. fs[i] \in FileInfo
    BY <1>1
  <2> QED
    BY <2>1 DEF FileInfo, FileStates
<1>4. CASE /\ files' = fs
           /\ pending_write_queue' = <<>>
           /\ replies' = ReplyAll(queue, "internal_error")
           /\ UNCHANGED <<next_file_id, allocVars>>
  <2>1. FilesGrow
    BY <1>1, <1>4, <1>w DEF FilesGrow
  <2>2. FilesInOrder'
    BY <1>1, <1>2, <1>3, <1>4 DEF FilesInOrder, allocVars
  <2>3. replies' \in [Sequence -> Seq(Statuses)]
    BY <1>4, ReplyingAll DEF Statuses
  <2>4. pending_write_queue' \in Seq(Request)
    BY <1>4
  <2> QED
    BY <1>4, <2>1, <2>2, <2>3, <2>4 DEF TypeOK, allocVars
<1>5. CASE /\ allocating_new_file' = TRUE
           /\ alloc_stage' = "blob"
           /\ files' = Append(fs, NewFile(next_file_id))
           /\ next_file_id' = next_file_id + 1
           /\ pending_write_queue' = queue
           /\ UNCHANGED replies
  <2> DEFINE nf == NewFile(next_file_id)
  <2>1. nf \in FileInfo /\ nf.file_id = Len(files) /\ nf.write_offset = 1
    BY <1>1 DEF NewFile, FileInfo, FileStates
  <2> HIDE DEF nf
  <2>2. files' = Append(fs, nf)
    BY <1>5 DEF nf
  <2>3. /\ files' \in Seq(FileInfo)
        /\ Len(files') = Len(files) + 1
        /\ \A i \in 1 .. Len(files) : files'[i] = fs[i]
        /\ files'[Len(files) + 1] = nf
    BY <1>1, <2>1, <2>2
  <2>4. FilesGrow
    BY <1>1, <2>3, <1>w DEF FilesGrow
  <2>5. \A i \in 1 .. Len(files') : /\ files'[i].file_id = i - 1
                                    /\ files'[i].write_offset >= 1
    <3> TAKE i \in 1 .. Len(files')
    <3>1. CASE i \in 1 .. Len(files)
      BY <3>1, <2>3 DEF FilesInOrder
    <3>2. CASE i = Len(files) + 1
      BY <3>2, <1>1, <2>1, <2>3
    <3> QED
      BY <3>1, <3>2, <1>1, <2>3
  <2>6. files'[active_file_id' + 1].blob_opened
    BY <1>2, <1>3, <2>3
  <2>7. /\ next_file_id' = Len(files')
        /\ active_file_id' < Len(files') - 1
        /\ active_file_id' < Len(files')
        /\ files'[Len(files')].write_offset = 1
    BY <1>1, <1>2, <1>5, <2>1, <2>3
  <2>8. FilesInOrder'
    BY <1>5, <2>5, <2>6, <2>7 DEF FilesInOrder
  <2> QED
    BY <1>1, <1>5, <2>3, <2>4, <2>8 DEF TypeOK
<1> QED
  BY <1>4, <1>5 DEF AllocateNewFileAsync

-----------------------------------------------------------------------------
(* A submission moves the write offset of the active file past the write.   *)
LEMMA Advancing ==
  ASSUME TypeOK, FilesInOrder, NEW r \in Request, Submit(r),
         UNCHANGED <<next_file_id, active_file_id, alloc_stage>>
  PROVE  /\ files' \in Seq(FileInfo)
         /\ FilesInOrder'
         /\ Len(files') = Len(files)
         /\ \A i \in 1 .. Len(files) :
              /\ files'[i].state = files[i].state
              /\ files'[i].blob_opened = files[i].blob_opened
              /\ i # Active => files'[i] = files[i]
         /\ files'[Active].write_offset = files[Active].write_offset + r.pages
         /\ Placed(r) \in Write
         /\ inflight' = inflight \/ inflight' = inflight \cup {Placed(r)}
         /\ replies' \in [Sequence -> Seq(Statuses)]
<1> DEFINE w == Placed(r)
           f1 == [files[Active] EXCEPT !.write_offset = @ + r.pages]
<1>1. /\ Active = active_file_id + 1
      /\ Active \in 1 .. Len(files)
      /\ files[Active] \in FileInfo
      /\ Len(files) \in Nat
  BY ActiveFile
<1>2. files[Active].blob_opened
  BY ActiveFile
<1>3. r.pages \in Nat \ {0} /\ files[Active].write_offset \in Nat
  BY <1>1 DEF Request, FileInfo, FileStates
<1>4. /\ f1 \in FileInfo
      /\ f1.write_offset = files[Active].write_offset + r.pages
      /\ f1.file_id = files[Active].file_id
      /\ f1.state = files[Active].state
  BY <1>1, <1>3 DEF FileInfo, FileStates
<1>o. f1.blob_opened
  BY <1>1, <1>2, <1>3 DEF FileInfo, FileStates
<1>5. files' = [files EXCEPT ![Active] = f1]
  BY <1>1 DEF Submit, Advance
<1>6. /\ w \in Write
      /\ w.seq = r.seq
  BY <1>3 DEF Placed, Write, Request, TypeOK
<1>7. inflight' = inflight \/ inflight' = inflight \cup {w}
  BY DEF Submit
<1>8. replies' \in [Sequence -> Seq(Statuses)]
  <2>1. w.seq \in Sequence
    BY <1>6 DEF Write
  <2>2. replies' = replies \/ replies' = Reply(w.seq, "io_error")
    BY DEF Submit
  <2>3. replies \in [Sequence -> Seq(Statuses)] /\ "io_error" \in Statuses
    BY DEF TypeOK, Statuses
  <2> HIDE DEF w, Sequence, Statuses
  <2>4. Append(replies[w.seq], "io_error") \in Seq(Statuses)
    BY <2>1, <2>3
  <2> QED
    BY <2>1, <2>2, <2>3, <2>4 DEF Reply
<1> HIDE DEF w, f1
<1>9. /\ files' \in Seq(FileInfo)
      /\ Len(files') = Len(files)
      /\ \A i \in 1 .. Len(files) :
           files'[i] = IF i = Active THEN f1 ELSE files[i]
  BY <1>1, <1>4, <1>5 DEF TypeOK
<1>10. FilesInOrder'
  <2>1. \A i \in 1 .. Len(files) : files[i].file_id = i - 1
                                   /\ files[i].write_offset >= 1
    BY DEF FilesInOrder
  <2>2. \A i \in 1 .. Len(files') : files'[i].file_id = i - 1
                                    /\ files'[i].write_offset >= 1
    <3>1. f1.file_id = Active - 1 /\ f1.write_offset >= 1
      BY <1>1, <1>3, <1>4, <2>1
    <3> QED
      BY <1>1, <1>9, <2>1, <3>1
  <2>3. files'[active_file_id' + 1].blob_opened
    BY <1>1, <1>o, <1>9
  <2>4. alloc_stage \in {"blob", "header"} => Active # Len(files)
    BY <1>1 DEF FilesInOrder, TypeOK
  <2>5. alloc_stage \in {"blob", "header"} =>
          files'[Len(files')].write_offset = 1
    BY <1>1, <1>9, <2>4 DEF FilesInOrder
  <2>6. alloc_stage = "header" => files'[Len(files')].blob_opened
    BY <1>1, <1>9, <2>4 DEF FilesInOrder
  <2> QED
    BY <1>9, <2>2, <2>3, <2>5, <2>6 DEF FilesInOrder
<1>11. \A i \in 1 .. Len(files) :
         /\ files'[i].state = files[i].state
         /\ files'[i].blob_opened = files[i].blob_opened
         /\ i # Active => files'[i] = files[i]
  <2>1. f1.blob_opened = files[Active].blob_opened
    BY <1>1 DEF f1, FileInfo, FileStates
  <2> QED
    BY <1>4, <1>9, <2>1
<1>12. files'[Active].write_offset = files[Active].write_offset + r.pages
  BY <1>1, <1>4, <1>9
<1> QED
  BY <1>6, <1>7, <1>8, <1>9, <1>10, <1>11, <1>12 DEF w

(* A write placed at the write offset of the active file overlaps no record *)
(* and pushes the frontier past itself.                                     *)
LEMMA Submitting ==
  ASSUME IInv, NEW r \in Request, Submit(r), UNCHANGED dataVars,
         UNCHANGED <<next_file_id, active_file_id, alloc_stage>>
  PROVE  /\ files' \in Seq(FileInfo)
         /\ inflight' \subseteq Write
         /\ replies' \in [Sequence -> Seq(Statuses)]
         /\ FilesInOrder'
         /\ BelowFrontier'
         /\ NoOverlap'
         /\ NotYetDurable'
<1> DEFINE w == Placed(r)
<1> USE DEF IInv
<1>1. /\ Active = active_file_id + 1
      /\ Active \in 1 .. Len(files)
      /\ files[Active] \in FileInfo
      /\ files[Active].blob_opened
      /\ Len(files) \in Nat
  BY ActiveFile
<1>3. r.pages \in Nat \ {0} /\ files[Active].write_offset \in Nat
  BY <1>1 DEF Request, FileInfo, FileStates
<1>6. /\ w.file = active_file_id
      /\ w.offset = files[Active].write_offset
      /\ w.pages = r.pages
  BY DEF Placed
<1>9. /\ files' \in Seq(FileInfo)
      /\ FilesInOrder'
      /\ Len(files') = Len(files)
      /\ \A i \in 1 .. Len(files) :
           /\ files'[i].blob_opened = files[i].blob_opened
           /\ i # Active => files'[i] = files[i]
      /\ files'[Active].write_offset = files[Active].write_offset + r.pages
      /\ w \in Write
      /\ inflight' = inflight \/ inflight' = inflight \cup {w}
      /\ replies' \in [Sequence -> Seq(Statuses)]
  BY Advancing
<1> HIDE DEF w
<1>11. inflight' \cup disk' \subseteq inflight \cup disk \cup {w}
  BY <1>9 DEF dataVars
<1>12. \A v \in inflight \cup disk :
         /\ v.file + 1 \in 1 .. Len(files)
         /\ v \in Write
  BY <1>1 DEF BelowFrontier, TypeOK, Write
<1>13. BelowFrontier'
  <2>1. /\ w.file < Len(files')
        /\ w.offset >= 1
        /\ w.offset + w.pages <= files'[w.file + 1].write_offset
        /\ files'[w.file + 1].blob_opened
    <3>1. w.file + 1 = Active
      BY <1>1, <1>6 DEF TypeOK
    <3>2. files'[Active].blob_opened
      BY <1>1, <1>9
    <3>3. files[Active].write_offset >= 1 /\ active_file_id \in Nat
      BY <1>1 DEF FilesInOrder, TypeOK
    <3> QED
      BY <1>1, <1>3, <1>6, <1>9, <3>1, <3>2, <3>3
  <2>2. ASSUME NEW v \in inflight \cup disk
        PROVE  /\ v.file < Len(files')
               /\ v.offset >= 1
               /\ v.offset + v.pages <= files'[v.file + 1].write_offset
               /\ files'[v.file + 1].blob_opened
    <3>1. /\ v.file < Len(files)
          /\ v.offset >= 1
          /\ v.offset + v.pages <= files[v.file + 1].write_offset
      BY DEF BelowFrontier
    <3>2. files[v.file + 1].blob_opened
      BY DEF BelowFrontier
    <3>3. files'[v.file + 1].blob_opened
      BY <1>9, <1>12, <3>2
    <3>4. v.offset \in Nat /\ v.pages \in Nat
      BY <1>12 DEF Write
    <3>5. files'[v.file + 1].write_offset >= files[v.file + 1].write_offset
          /\ files[v.file + 1].write_offset \in Nat
          /\ files'[v.file + 1].write_offset \in Nat
      <4>1. files[v.file + 1] \in FileInfo
        BY <1>12 DEF TypeOK
      <4>2. files[v.file + 1].write_offset \in Nat
        BY <4>1 DEF FileInfo, FileStates
      <4>3. v.file + 1 \in 1 .. Len(files)
        BY <1>12
      <4>4. CASE v.file + 1 = Active
        BY <1>3, <1>9, <4>2, <4>4
      <4>5. CASE v.file + 1 # Active
        <5>1. files'[v.file + 1] = files[v.file + 1]
          BY <1>9, <4>3, <4>5
        <5> QED
          BY <4>2, <5>1
      <4> QED
        BY <4>4, <4>5
    <3> QED
      BY <1>9, <3>1, <3>3, <3>4, <3>5
  <2> QED
    BY <1>11, <2>1, <2>2 DEF BelowFrontier
<1>14. \A v \in inflight \cup disk : ~Overlap(v, w) /\ ~Overlap(w, v) /\ v # w
  <2> TAKE v \in inflight \cup disk
  <2>1. v.offset + v.pages <= files[v.file + 1].write_offset
    BY DEF BelowFrontier
  <2>2. v.offset \in Nat /\ v.pages \in Nat
    BY <1>12 DEF Write
  <2>3. v.file = w.file => v.offset + v.pages <= w.offset
    BY <1>1, <1>6, <2>1
  <2>4. v.pages # 0
    BY <1>12 DEF Write
  <2> QED
    BY <1>3, <1>6, <2>2, <2>3, <2>4 DEF Overlap
<1>15. NoOverlap'
  BY <1>11, <1>14 DEF NoOverlap, Overlap
<1>16. NotYetDurable'
  BY <1>9, <1>14 DEF NotYetDurable, dataVars
<1> QED
  BY <1>9, <1>13, <1>15, <1>16 DEF TypeOK

-----------------------------------------------------------------------------
(* A step that places no write and only lets the vector grow.               *)
LEMMA RecordsKept ==
  ASSUME IInv, FilesGrow, files' \in Seq(FileInfo),
         UNCHANGED inflight, UNCHANGED dataVars
  PROVE  BelowFrontier' /\ NoOverlap' /\ NotYetDurable'
<1>1. BelowFrontier'
  BY FrontierStays DEF IInv, dataVars
<1>2. NoOverlap' /\ NotYetDurable'
  BY DEF IInv, NoOverlap, NotYetDurable, Overlap, dataVars
<1> QED
  BY <1>1, <1>2

(* A step that touches neither the disk, nor the index, nor the reads.      *)
LEMMA IndexKept ==
  ASSUME IInv, UNCHANGED dataVars, UNCHANGED reads
  PROVE  EntriesFromDisk' /\ ReadsFromDisk' /\ IndexAtNewest'
BY DEF IInv, EntriesFromDisk, ReadsFromDisk, IndexAtNewest, dataVars

(* A vector that does not change trivially grows.                           *)
LEMMA SameFiles ==
  ASSUME TypeOK, UNCHANGED files
  PROVE  FilesGrow /\ files' \in Seq(FileInfo)
<1>1. Len(files) \in Nat
  BY DEF TypeOK
<1>2. \A i \in 1 .. Len(files) : files[i].write_offset \in Nat
  <2> TAKE i \in 1 .. Len(files)
  <2>1. files[i] \in FileInfo
    BY DEF TypeOK
  <2> QED
    BY <2>1 DEF FileInfo, FileStates
<1>3. \A i \in 1 .. Len(files) :
        files'[i].write_offset >= files[i].write_offset
  BY <1>1, <1>2
<1>4. Len(files') >= Len(files)
  BY <1>1
<1>5. \A i \in 1 .. Len(files) : files[i].blob_opened => files'[i].blob_opened
  OBVIOUS
<1>6. files' \in Seq(FileInfo)
  BY DEF TypeOK
<1> QED
  BY <1>3, <1>4, <1>5, <1>6 DEF FilesGrow

(* put_async and delete_async from the sequence number on.                  *)
LEMMA Accepting ==
  ASSUME IInv, NEW r \in Request, Accept(r)
  PROVE  IInv'
<1> USE DEF IInv
<1>1. global_sequence' \in 0 .. MaxSequence
  BY PathAssumption DEF Accept, Request, Sequence
<1>2. UNCHANGED <<active_file_id, draining, disk, mem_index, reads>>
  BY DEF Accept, dataVars
<1>3. EntriesFromDisk' /\ ReadsFromDisk' /\ IndexAtNewest'
  BY <1>2, IndexKept DEF dataVars
<1>4. Append(pending_write_queue, r) \in Seq(Request)
  BY DEF TypeOK
<1>5. CASE /\ Submit(r)
           /\ UNCHANGED <<next_file_id, allocVars, pending_write_queue>>
  <2>1. /\ files' \in Seq(FileInfo)
        /\ inflight' \subseteq Write
        /\ replies' \in [Sequence -> Seq(Statuses)]
        /\ FilesInOrder' /\ BelowFrontier' /\ NoOverlap' /\ NotYetDurable'
    BY <1>2, <1>5, Submitting DEF allocVars, dataVars
  <2>2. TypeOK'
    BY <1>1, <1>2, <1>5, <2>1 DEF TypeOK, allocVars
  <2> QED
    BY <1>3, <2>1, <2>2
<1>6. CASE /\ pending_write_queue' = Append(pending_write_queue, r)
           /\ UNCHANGED <<files, next_file_id, allocVars, inflight, replies>>
  <2>1. FilesGrow /\ files' \in Seq(FileInfo)
    BY <1>6, SameFiles
  <2>2. BelowFrontier' /\ NoOverlap' /\ NotYetDurable'
    BY <1>2, <1>6, <2>1, RecordsKept DEF dataVars
  <2>3. FilesInOrder'
    BY <1>2, <1>6 DEF FilesInOrder, allocVars
  <2>4. TypeOK'
    BY <1>1, <1>2, <1>4, <1>6 DEF TypeOK, allocVars
  <2> QED
    BY <1>3, <2>2, <2>3, <2>4
<1>7. CASE /\ AllocateNewFileAsync(SealActive, Append(pending_write_queue, r))
           /\ UNCHANGED inflight
  <2>1. /\ files' \in Seq(FileInfo)
        /\ next_file_id' \in Nat
        /\ allocating_new_file' \in BOOLEAN
        /\ alloc_stage' \in {"none", "blob", "header"}
        /\ pending_write_queue' \in Seq(Request)
        /\ replies' \in [Sequence -> Seq(Statuses)]
        /\ FilesInOrder'
        /\ FilesGrow
    <3>1. /\ SealActive \in Seq(FileInfo)
          /\ Len(SealActive) = Len(files)
          /\ \A i \in 1 .. Len(files) :
               /\ SealActive[i].file_id = files[i].file_id
               /\ SealActive[i].write_offset = files[i].write_offset
               /\ SealActive[i].blob_opened = files[i].blob_opened
      BY Sealing
    <3> QED
      BY <1>2, <1>4, <1>7, <3>1, Allocating
  <2>2. BelowFrontier' /\ NoOverlap' /\ NotYetDurable'
    BY <1>2, <1>7, <2>1, RecordsKept DEF dataVars
  <2>3. TypeOK'
    BY <1>1, <1>2, <1>7, <2>1 DEF TypeOK
  <2> QED
    BY <1>3, <2>1, <2>2, <2>3
<1> QED
  BY <1>5, <1>6, <1>7 DEF Accept

(* The rollback of a failed allocation takes back the last file and its id. *)
LEMMA DroppingLast ==
  ASSUME TypeOK, FilesInOrder, DropLastFile,
         active_file_id < Len(files) - 1,
         alloc_stage' = "none", UNCHANGED active_file_id
  PROVE  /\ files' \in Seq(FileInfo)
         /\ Len(files') = Len(files) - 1
         /\ \A i \in 1 .. Len(files) - 1 : files'[i] = files[i]
         /\ next_file_id' \in Nat
         /\ FilesInOrder'
<1>1. /\ Len(files) \in Nat
      /\ active_file_id \in Nat
      /\ active_file_id < Len(files) - 1
  BY DEF TypeOK, FilesInOrder
<1>2. /\ files' \in Seq(FileInfo)
      /\ Len(files') = Len(files) - 1
      /\ \A i \in 1 .. Len(files) - 1 : files'[i] = files[i]
  BY <1>1 DEF DropLastFile, TypeOK
<1>3. next_file_id' = Len(files) - 1
  BY DEF DropLastFile, FilesInOrder
<1>4. \A i \in 1 .. Len(files') : files'[i].file_id = i - 1
                                  /\ files'[i].write_offset >= 1
  <2> TAKE i \in 1 .. Len(files')
  <2>1. i \in 1 .. Len(files) - 1 /\ i \in 1 .. Len(files)
    BY <1>1, <1>2
  <2>2. files[i].file_id = i - 1 /\ files[i].write_offset >= 1
    BY <2>1 DEF FilesInOrder
  <2>3. files'[i] = files[i]
    BY <1>2, <2>1
  <2> QED
    BY <2>2, <2>3
<1>5. files'[active_file_id' + 1].blob_opened
  <2>1. active_file_id + 1 \in 1 .. Len(files) - 1
    BY <1>1
  <2>2. files'[active_file_id + 1] = files[active_file_id + 1]
    BY <1>2, <2>1
  <2> QED
    BY <2>2 DEF FilesInOrder
<1>6. FilesInOrder'
  BY <1>1, <1>2, <1>3, <1>4, <1>5 DEF FilesInOrder
<1> QED
  BY <1>1, <1>2, <1>3, <1>6

(* The file it takes back holds no record.                                  *)
LEMMA Dropping ==
  ASSUME IInv, DropLastFile,
         active_file_id < Len(files) - 1,
         files[Len(files)].write_offset = 1,
         alloc_stage' = "none", UNCHANGED <<active_file_id, inflight, dataVars>>
  PROVE  /\ files' \in Seq(FileInfo)
         /\ next_file_id' \in Nat
         /\ FilesInOrder'
         /\ BelowFrontier'
<1> USE DEF IInv
<1>1. /\ Len(files) \in Nat
      /\ files[Len(files)].write_offset = 1
  BY DEF TypeOK
<1>2. /\ files' \in Seq(FileInfo)
      /\ Len(files') = Len(files) - 1
      /\ \A i \in 1 .. Len(files) - 1 : files'[i] = files[i]
      /\ next_file_id' \in Nat
      /\ FilesInOrder'
  BY DroppingLast
<1>3. BelowFrontier'
  <2>1. inflight' \cup disk' = inflight \cup disk
    BY DEF dataVars
  <2>2. ASSUME NEW w \in inflight \cup disk
        PROVE  /\ w.file < Len(files')
               /\ w.offset >= 1
               /\ w.offset + w.pages <= files'[w.file + 1].write_offset
               /\ files'[w.file + 1].blob_opened
    <3>1. /\ w.file < Len(files)
          /\ w.offset >= 1
          /\ w.offset + w.pages <= files[w.file + 1].write_offset
      BY DEF BelowFrontier
    <3>2. files[w.file + 1].blob_opened
      BY DEF BelowFrontier
    <3>3. /\ w.file \in Nat /\ w.offset \in Nat
          /\ w.pages \in Nat /\ w.pages # 0
      BY DEF TypeOK, Write
    <3>4. w.file # Len(files) - 1
      BY <1>1, <3>1, <3>3
    <3>5. w.file + 1 \in 1 .. Len(files) - 1
      BY <1>1, <3>1, <3>3, <3>4
    <3>6. files'[w.file + 1] = files[w.file + 1]
      BY <1>2, <3>5
    <3>7. w.file < Len(files')
      BY <1>1, <1>2, <3>3, <3>5
    <3> QED
      BY <3>1, <3>2, <3>6, <3>7
  <2> QED
    BY <2>1, <2>2 DEF BelowFrontier
<1> QED
  BY <1>2, <1>3

-----------------------------------------------------------------------------
(* A completion takes its write out of inflight; no durable record is under *)
(* its pages, so none is lost.                                              *)
LEMMA Unharmed ==
  ASSUME IInv, NEW w \in inflight
  PROVE  { d \in disk : ~Overlap(d, w) } = disk
BY DEF IInv, NoOverlap, NotYetDurable

(* upsert and remove keep the index well typed, never take an entry back to *)
(* an older sequence and take what they store from the write.               *)
LEMMA Indexing ==
  ASSUME TypeOK, NEW w \in Write,
         mem_index' = IF w.kind = "put" THEN Upsert(w) ELSE Remove(w.key)
  PROVE  /\ mem_index' \in [Keys -> Entry \cup {NoEntry}]
         /\ \A k \in Keys : mem_index[k] # NoEntry =>
              /\ mem_index'[k] # NoEntry
              /\ mem_index'[k].seq >= mem_index[k].seq
         /\ w.kind = "put" => /\ mem_index'[w.key] # NoEntry
                              /\ mem_index'[w.key].seq >= w.seq
         /\ \A k \in Keys : mem_index'[k] # NoEntry =>
              \/ /\ w.kind = "put" /\ k = w.key
                 /\ mem_index'[k] = EntryOf(w)
              \/ /\ mem_index[k] # NoEntry
                 /\ mem_index'[k].file = mem_index[k].file
                 /\ mem_index'[k].offset = mem_index[k].offset
                 /\ mem_index'[k].pages = mem_index[k].pages
                 /\ mem_index'[k].seq = mem_index[k].seq
<1> USE NoEntryAssumption
<1>1. w \in Write /\ w.key \in Keys /\ w.seq \in Nat
  BY DEF Write, Sequence
<1>2. mem_index \in [Keys -> Entry \cup {NoEntry}]
  BY DEF TypeOK
<1>3. EntryOf(w) \in Entry /\ EntryOf(w).seq = w.seq /\ EntryOf(w) # NoEntry
  <2>1. EntryOf(w) \in Entry
    BY <1>1 DEF EntryOf, Entry, Write, Sequence
  <2>2. EntryOf(w).seq = w.seq
    BY DEF EntryOf
  <2> QED
    BY <2>1, <2>2
<1>4. \A k \in Keys : mem_index[k] # NoEntry =>
        mem_index[k] \in Entry /\ mem_index[k].seq \in Nat
  BY <1>2 DEF Entry, Sequence
<1>5. CASE mem_index' = mem_index /\ w.kind # "put"
  <2>1. \A k \in Keys : mem_index[k] # NoEntry =>
          /\ mem_index'[k] # NoEntry
          /\ mem_index'[k].seq >= mem_index[k].seq
    BY <1>4, <1>5
  <2> QED
    BY <1>2, <1>5, <2>1
<1>6. CASE /\ w.kind = "put"
           /\ mem_index[w.key] # NoEntry /\ w.seq <= mem_index[w.key].seq
           /\ mem_index' = mem_index
  BY <1>1, <1>2, <1>4, <1>6
<1>7. CASE /\ w.kind = "put"
           /\ ~(mem_index[w.key] # NoEntry /\ w.seq <= mem_index[w.key].seq)
           /\ mem_index' = [mem_index EXCEPT ![w.key] = EntryOf(w)]
  <2>1. mem_index' \in [Keys -> Entry \cup {NoEntry}]
    BY <1>1, <1>2, <1>3, <1>7
  <2>2. \A k \in Keys :
          mem_index'[k] = IF k = w.key THEN EntryOf(w) ELSE mem_index[k]
    BY <1>1, <1>2, <1>7
  <2> QED
    BY <1>1, <1>3, <1>4, <1>7, <2>1, <2>2
<1>8. CASE /\ w.kind # "put" /\ Find(w.key)
           /\ mem_index' = [mem_index EXCEPT ![w.key].deleted = TRUE]
  <2> DEFINE e == [mem_index[w.key] EXCEPT !.deleted = TRUE]
  <2>1. mem_index[w.key] \in Entry
    BY <1>1, <1>4, <1>8 DEF Find
  <2>2. e \in Entry /\ e # NoEntry
    BY <2>1 DEF Entry
  <2>3. /\ e.file = mem_index[w.key].file
        /\ e.offset = mem_index[w.key].offset
        /\ e.pages = mem_index[w.key].pages
        /\ e.seq = mem_index[w.key].seq
    BY <2>1 DEF Entry
  <2> HIDE DEF e
  <2>4. mem_index' = [mem_index EXCEPT ![w.key] = e]
    BY <1>8 DEF e
  <2>5. mem_index' \in [Keys -> Entry \cup {NoEntry}]
    BY <1>1, <1>2, <2>2, <2>4
  <2>6. \A k \in Keys :
          mem_index'[k] = IF k = w.key THEN e ELSE mem_index[k]
    BY <1>1, <1>2, <2>4
  <2> QED
    BY <1>1, <1>4, <1>8, <2>2, <2>3, <2>5, <2>6 DEF Find
<1> QED
  BY <1>5, <1>6, <1>7, <1>8 DEF Upsert, Remove

LEMMA Completing ==
  ASSUME IInv, NEW w \in inflight, WriteComplete(w) \/ WriteFailed(w)
  PROVE  IInv'
<1> USE DEF IInv
<1>1. w \in Write /\ w.seq \in Sequence /\ w.key \in Keys
  BY DEF TypeOK, Write
<1>2. /\ UNCHANGED <<files, next_file_id, active_file_id, allocating_new_file,
                     alloc_stage, pending_write_queue, draining,
                     global_sequence, reads>>
      /\ inflight' = inflight \ {w}
  BY DEF WriteComplete, WriteFailed, fileVars, allocVars, queueVars
<1>3. \/ disk' = disk \cup {w}
      \/ disk' = disk /\ mem_index' = mem_index
  BY Unharmed DEF WriteComplete, WriteFailed
<1>4. replies' \in [Sequence -> Seq(Statuses)]
  <2>1. \/ replies' = Reply(w.seq, "ok")
        \/ replies' = Reply(w.seq, "io_error")
    BY DEF WriteComplete, WriteFailed
  <2>2. /\ replies \in [Sequence -> Seq(Statuses)]
        /\ "ok" \in Statuses /\ "io_error" \in Statuses
    BY DEF TypeOK, Statuses
  <2>3. /\ Append(replies[w.seq], "ok") \in Seq(Statuses)
        /\ Append(replies[w.seq], "io_error") \in Seq(Statuses)
    BY <1>1, <2>2
  <2> HIDE DEF Statuses, Sequence
  <2> QED
    BY <1>1, <2>1, <2>2, <2>3 DEF Reply
<1>5. /\ inflight' \cup disk' \subseteq inflight \cup disk
      /\ inflight' \subseteq Write /\ disk' \subseteq Write
      /\ disk \subseteq disk'
  BY <1>1, <1>2, <1>3 DEF TypeOK
<1>6. FilesInOrder'
  BY <1>2 DEF FilesInOrder
<1>7. FilesGrow /\ files' \in Seq(FileInfo)
  BY <1>2, SameFiles
<1>8. BelowFrontier'
  BY <1>5, <1>7, FrontierStays
<1>9. NoOverlap' /\ NotYetDurable'
  BY <1>2, <1>3, <1>5 DEF NoOverlap, NotYetDurable, Overlap
<1>10. ReadsFromDisk'
  BY <1>2, <1>5 DEF ReadsFromDisk
<1>11. CASE mem_index' = mem_index /\ disk' = disk
  BY <1>2, <1>4, <1>5, <1>6, <1>7, <1>8, <1>9, <1>10, <1>11
  DEF TypeOK, EntriesFromDisk, IndexAtNewest
<1>12. CASE WriteComplete(w)
  <2>1. /\ disk' = disk \cup {w}
        /\ mem_index' = IF w.kind = "put" THEN Upsert(w) ELSE Remove(w.key)
    BY <1>12, Unharmed DEF WriteComplete
  <2>2. mem_index' \in [Keys -> Entry \cup {NoEntry}]
    BY <1>1, <2>1, Indexing
  <2>3. TypeOK'
    BY <1>2, <1>4, <1>5, <1>7, <2>2 DEF TypeOK
  <2>4. \A k \in Keys : mem_index'[k] # NoEntry =>
              \/ /\ w.kind = "put" /\ k = w.key
                 /\ mem_index'[k] = EntryOf(w)
              \/ /\ mem_index[k] # NoEntry
                 /\ mem_index'[k].file = mem_index[k].file
                 /\ mem_index'[k].offset = mem_index[k].offset
                 /\ mem_index'[k].pages = mem_index[k].pages
                 /\ mem_index'[k].seq = mem_index[k].seq
    BY <1>1, <2>1, Indexing
  <2>5. EntriesFromDisk'
    <3> SUFFICES ASSUME NEW k \in Keys, mem_index'[k] # NoEntry
                 PROVE  \E d \in disk' :
                          /\ d.kind = "put"
                          /\ d.key = k
                          /\ d.seq = mem_index'[k].seq
                          /\ d.file = mem_index'[k].file
                          /\ d.offset = mem_index'[k].offset
                          /\ d.pages = mem_index'[k].pages
      BY DEF EntriesFromDisk
    <3>1. CASE /\ w.kind = "put" /\ k = w.key
               /\ mem_index'[k] = EntryOf(w)
      <4>1. w \in disk'
        BY <2>1
      <4> QED
        BY <3>1, <4>1 DEF EntryOf
    <3>2. CASE /\ mem_index[k] # NoEntry
               /\ mem_index'[k].file = mem_index[k].file
               /\ mem_index'[k].offset = mem_index[k].offset
               /\ mem_index'[k].pages = mem_index[k].pages
               /\ mem_index'[k].seq = mem_index[k].seq
      BY <1>5, <3>2 DEF EntriesFromDisk
    <3> QED
      BY <2>4, <3>1, <3>2
  <2>6. IndexAtNewest'
    <3> SUFFICES ASSUME NEW d \in disk', d.kind = "put"
                 PROVE  /\ mem_index'[d.key] # NoEntry
                        /\ mem_index'[d.key].seq >= d.seq
      BY DEF IndexAtNewest
    <3>1. CASE d = w
      BY <1>1, <2>1, <3>1, Indexing
    <3>2. CASE d \in disk
      <4>1. d.key \in Keys /\ d.seq \in Nat
        BY <3>2 DEF TypeOK, Write, Sequence
      <4>2. mem_index[d.key] # NoEntry /\ mem_index[d.key].seq >= d.seq
        BY <3>2 DEF IndexAtNewest
      <4>3. /\ mem_index'[d.key] # NoEntry
            /\ mem_index'[d.key].seq >= mem_index[d.key].seq
        BY <1>1, <2>1, <4>1, <4>2, Indexing
      <4>4. mem_index[d.key] \in Entry /\ mem_index'[d.key] \in Entry
        BY <2>2, <4>1, <4>2, <4>3 DEF TypeOK
      <4>5. mem_index[d.key].seq \in Nat /\ mem_index'[d.key].seq \in Nat
        BY <4>4 DEF Entry, Sequence
      <4> QED
        BY <4>1, <4>2, <4>3, <4>5
    <3> QED
      BY <2>1, <3>1, <3>2
  <2> QED
    BY <1>6, <1>8, <1>9, <1>10, <2>3, <2>5, <2>6
<1> QED
  BY <1>11, <1>12, Unharmed DEF WriteFailed

-----------------------------------------------------------------------------
(* The steps of an allocation.                                              *)
LEMMA AllocationIInv ==
  ASSUME IInv, Allocation
  PROVE  IInv'
<1> USE DEF IInv
<1>0. Len(files) \in Nat /\ active_file_id \in Nat
  BY DEF TypeOK
<1>1. UNCHANGED <<inflight, disk, mem_index, global_sequence, reads>>
  BY DEF Allocation, BlobOpened, NewFileAllocated, NewFileFailed,
         queueVars, dataVars
<1>2. EntriesFromDisk' /\ ReadsFromDisk' /\ IndexAtNewest'
  BY <1>1, IndexKept DEF dataVars
<1>3. CASE BlobOpened
  <2> DEFINE f1 == [files[Len(files)] EXCEPT !.blob_opened = TRUE]
  <2>1. /\ active_file_id < Len(files) - 1
        /\ files[Len(files)].write_offset = 1
        /\ Len(files) \in 1 .. Len(files)
    BY <1>0, <1>3 DEF BlobOpened, FilesInOrder
  <2>2. files[Len(files)] \in FileInfo
    BY <2>1 DEF TypeOK
  <2>3. /\ f1 \in FileInfo
        /\ f1.file_id = files[Len(files)].file_id
        /\ f1.write_offset = files[Len(files)].write_offset
    BY <2>2 DEF FileInfo, FileStates
  <2>4. f1.blob_opened
    BY <2>2 DEF FileInfo, FileStates
  <2> HIDE DEF f1
  <2>5. files' = [files EXCEPT ![Len(files)] = f1]
    BY <1>3 DEF BlobOpened, f1
  <2>6. /\ files' \in Seq(FileInfo)
        /\ Len(files') = Len(files)
        /\ \A i \in 1 .. Len(files) :
             files'[i] = IF i = Len(files) THEN f1 ELSE files[i]
    BY <2>1, <2>3, <2>5 DEF TypeOK
  <2>7. UNCHANGED <<next_file_id, active_file_id, allocating_new_file,
                    pending_write_queue, draining, replies>>
    BY <1>3 DEF BlobOpened, queueVars
  <2>8. TypeOK'
    BY <1>1, <1>3, <2>6, <2>7 DEF BlobOpened, TypeOK
  <2>9. FilesInOrder'
    <3>1. \A i \in 1 .. Len(files') : files'[i].file_id = i - 1
                                      /\ files'[i].write_offset >= 1
      BY <1>0, <2>3, <2>6 DEF FilesInOrder
    <3>2. files'[active_file_id' + 1].blob_opened
      <4>1. active_file_id + 1 \in 1 .. Len(files)
        BY <1>0, <2>1
      <4> QED
        BY <2>4, <2>6, <2>7, <4>1 DEF FilesInOrder
    <3>3. files'[Len(files')].blob_opened
      BY <2>1, <2>4, <2>6
    <3>4. files'[Len(files')].write_offset = 1
      BY <2>1, <2>3, <2>6
    <3>5. /\ next_file_id' = Len(files')
          /\ active_file_id' < Len(files')
          /\ active_file_id' < Len(files') - 1
      BY <1>0, <2>1, <2>6, <2>7 DEF FilesInOrder
    <3> QED
      BY <3>1, <3>2, <3>3, <3>4, <3>5 DEF FilesInOrder
  <2>10. FilesGrow
    <3>1. \A i \in 1 .. Len(files) :
            files'[i].write_offset >= files[i].write_offset
      <4> TAKE i \in 1 .. Len(files)
      <4>1. files[i] \in FileInfo
        BY DEF TypeOK
      <4>2. files[i].write_offset \in Nat
        BY <4>1 DEF FileInfo, FileStates
      <4> QED
        BY <2>3, <2>6, <4>2
    <3>2. \A i \in 1 .. Len(files) :
            files[i].blob_opened => files'[i].blob_opened
      BY <2>4, <2>6
    <3> QED
      BY <1>0, <2>6, <3>1, <3>2 DEF FilesGrow
  <2>11. BelowFrontier' /\ NoOverlap' /\ NotYetDurable'
    BY <1>1, <2>6, <2>10, RecordsKept DEF dataVars
  <2> QED
    BY <1>2, <2>8, <2>9, <2>11
<1>4. CASE NewFileAllocated
  <2>1. /\ UNCHANGED <<files, next_file_id, replies>>
        /\ alloc_stage' = "none"
        /\ alloc_stage = "header"
        /\ allocating_new_file' = FALSE
        /\ active_file_id' = files[Len(files)].file_id
        /\ draining' = pending_write_queue
        /\ pending_write_queue' = <<>>
    BY <1>4 DEF NewFileAllocated, AllocationOver
  <2>2. Len(files) \in 1 .. Len(files)
    BY <1>0, <2>1 DEF FilesInOrder
  <2>3. active_file_id' = Len(files) - 1 /\ active_file_id' \in Nat
    BY <1>0, <2>1, <2>2 DEF FilesInOrder
  <2>4. files[Len(files)].blob_opened
    BY <2>1 DEF FilesInOrder
  <2>q. pending_write_queue' \in Seq(Request) /\ draining' \in Seq(Request)
    BY <2>1 DEF TypeOK
  <2>5. TypeOK'
    BY <1>1, <2>1, <2>3, <2>q DEF TypeOK
  <2>6. FilesInOrder'
    <3>1. active_file_id' + 1 = Len(files)
      BY <1>0, <2>3
    <3>2. files'[active_file_id' + 1].blob_opened
      BY <2>1, <2>4, <3>1
    <3>3. active_file_id' < Len(files')
      BY <1>0, <2>1, <2>3
    <3> QED
      BY <2>1, <3>2, <3>3 DEF FilesInOrder
  <2>7. FilesGrow /\ files' \in Seq(FileInfo)
    BY <2>1, SameFiles
  <2>8. BelowFrontier' /\ NoOverlap' /\ NotYetDurable'
    BY <1>1, <2>7, RecordsKept DEF dataVars
  <2> QED
    BY <1>2, <2>5, <2>6, <2>8
<1>5. CASE NewFileFailed
  <2>1. /\ DropLastFile
        /\ alloc_stage' = "none"
        /\ alloc_stage \in {"blob", "header"}
        /\ allocating_new_file' = FALSE
        /\ replies' = ReplyAll(pending_write_queue, "no_space")
        /\ pending_write_queue' = <<>>
        /\ UNCHANGED <<active_file_id, draining>>
    BY <1>5 DEF NewFileFailed, AllocationOver
  <2>2. /\ files' \in Seq(FileInfo)
        /\ next_file_id' \in Nat
        /\ FilesInOrder' /\ BelowFrontier'
    <3>1. /\ active_file_id < Len(files) - 1
          /\ files[Len(files)].write_offset = 1
      BY <2>1 DEF FilesInOrder
    <3> QED
      BY <1>1, <2>1, <3>1, Dropping DEF dataVars
  <2>3. NoOverlap' /\ NotYetDurable'
    BY <1>1 DEF NoOverlap, NotYetDurable, Overlap
  <2>4. replies' \in [Sequence -> Seq(Statuses)]
    BY <2>1, ReplyingAll DEF Statuses
  <2>q. pending_write_queue' \in Seq(Request) /\ draining' \in Seq(Request)
    BY <2>1 DEF TypeOK
  <2>5. TypeOK'
    BY <1>1, <2>1, <2>2, <2>4, <2>q DEF TypeOK
  <2> QED
    BY <1>2, <2>2, <2>3, <2>5
<1> QED
  BY <1>3, <1>4, <1>5 DEF Allocation

-----------------------------------------------------------------------------
(* Every step of the engine, and a step that changes nothing, preserves the *)
(* invariant.                                                               *)
LEMMA NextIInv ==
  ASSUME IInv, [Next]_vars
  PROVE  IInv'
<1>1. CASE Allocation
  BY <1>1, AllocationIInv
<1>2. CASE SubmitQueuedWrite
  <2>1. /\ Submit(Head(draining))
        /\ draining # <<>>
        /\ draining' = Tail(draining)
        /\ UNCHANGED <<next_file_id, active_file_id, allocating_new_file,
                       alloc_stage, pending_write_queue, disk, mem_index,
                       global_sequence, reads>>
    BY <1>2 DEF SubmitQueuedWrite, allocVars, dataVars
  <2>2. Head(draining) \in Request /\ draining' \in Seq(Request)
    BY <2>1 DEF IInv, TypeOK
  <2>3. /\ files' \in Seq(FileInfo)
        /\ inflight' \subseteq Write
        /\ replies' \in [Sequence -> Seq(Statuses)]
        /\ FilesInOrder' /\ BelowFrontier' /\ NoOverlap' /\ NotYetDurable'
    BY <2>1, <2>2, Submitting DEF dataVars
  <2>4. EntriesFromDisk' /\ ReadsFromDisk' /\ IndexAtNewest'
    BY <2>1, IndexKept DEF dataVars
  <2>5. TypeOK'
    BY <2>1, <2>2, <2>3 DEF IInv, TypeOK
  <2> QED
    BY <2>3, <2>4, <2>5 DEF IInv
<1>3. ASSUME NEW w \in inflight, WriteComplete(w) \/ WriteFailed(w)
      PROVE  IInv'
  BY <1>3, Completing
<1>4. ASSUME NEW r \in reads, GetComplete(r)
      PROVE  IInv'
  <2>1. /\ UNCHANGED <<files, next_file_id, active_file_id,
                       allocating_new_file, alloc_stage, pending_write_queue,
                       draining, inflight, disk, mem_index, global_sequence,
                       replies>>
        /\ reads' \subseteq reads
    BY <1>4 DEF GetComplete, fileVars, allocVars, queueVars, dataVars
  <2> QED
    BY <2>1 DEF IInv, TypeOK, FilesInOrder, BelowFrontier, NoOverlap, Overlap,
                NotYetDurable, EntriesFromDisk, ReadsFromDisk, IndexAtNewest
<1>5. ASSUME NEW k \in Keys, NEW n \in PutPages, PutAsync(k, n)
      PROVE  IInv'
  <2> DEFINE r == [seq |-> global_sequence + 1, key |-> k, kind |-> "put",
                   pages |-> n]
  <2>1. r \in Request
    BY <1>5, PathAssumption
    DEF PutAsync, IInv, TypeOK, Request, Sequence, Kinds
  <2>2. Accept(r)
    BY <1>5 DEF PutAsync
  <2> QED
    BY <2>1, <2>2, Accepting
<1>6. ASSUME NEW k \in Keys, DeleteAsync(k)
      PROVE  IInv'
  <2> DEFINE r == [seq |-> global_sequence + 1, key |-> k, kind |-> "delete",
                   pages |-> 1]
  <2>1. r \in Request
    BY <1>6, PathAssumption
    DEF DeleteAsync, IInv, TypeOK, Request, Sequence, Kinds
  <2>2. Accept(r)
    BY <1>6 DEF DeleteAsync
  <2> QED
    BY <2>1, <2>2, Accepting
<1>7. ASSUME NEW k \in Keys, GetAsync(k)
      PROVE  IInv'
  <2> DEFINE r == [key |-> k, file |-> mem_index[k].file,
                   pages |-> mem_index[k].pages,
                   offset |-> mem_index[k].offset, seq |-> mem_index[k].seq]
  <2>1. /\ UNCHANGED <<files, next_file_id, active_file_id,
                       allocating_new_file, alloc_stage, pending_write_queue,
                       draining, inflight, disk, mem_index, global_sequence,
                       replies>>
        /\ reads' = reads \cup {r}
        /\ mem_index[k] # NoEntry
    BY <1>7 DEF GetAsync, Find, fileVars, allocVars, queueVars, dataVars
  <2>2. mem_index[k] \in Entry
    BY <2>1 DEF IInv, TypeOK
  <2>3. r \in Read
    BY <2>2 DEF Read, Entry
  <2>4. TypeOK'
    BY <2>1, <2>3 DEF IInv, TypeOK
  <2>5. ReadsFromDisk'
    <3> HIDE DEF r
    <3>1. \E d \in disk : /\ d.kind = "put" /\ d.key = r.key
                          /\ d.seq = r.seq /\ d.file = r.file
                          /\ d.offset = r.offset /\ d.pages = r.pages
      BY <2>1 DEF r, IInv, EntriesFromDisk
    <3> QED
      BY <2>1, <3>1 DEF IInv, ReadsFromDisk
  <2> QED
    BY <2>1, <2>4, <2>5
    DEF IInv, FilesInOrder, BelowFrontier, NoOverlap, Overlap, NotYetDurable,
        EntriesFromDisk, IndexAtNewest
<1>8. CASE UNCHANGED vars
  BY <1>8 DEF vars, IInv, TypeOK, FilesInOrder, BelowFrontier, NoOverlap,
              Overlap, NotYetDurable, EntriesFromDisk, ReadsFromDisk,
              IndexAtNewest
<1> QED
  BY <1>1, <1>2, <1>3, <1>4, <1>5, <1>6, <1>7, <1>8
  DEF Next, Completion, Calls

(* The invariant the results below follow from holds in every state.        *)
THEOREM Invariance == Spec => []IInv
<1>1. Init => IInv
  BY InitIInv
<1>2. IInv /\ [Next]_vars => IInv'
  BY NextIInv
<1> QED
  BY <1>1, <1>2, PTL DEF Spec

(* Every state of the write path is of its type; in particular an           *)
(* allocation that fails never takes back more files than it pushed.        *)
THEOREM TypeCorrect == Spec => []TypeOK
<1>1. IInv => TypeOK
  BY DEF IInv
<1> QED
  BY <1>1, Invariance, PTL

(* No write is ever placed over another: for every number of requests, every *)
(* order of completions and every failing allocation.                       *)
THEOREM WritesNeverOverlap == Spec => []NoOverlap
<1>1. IInv => NoOverlap
  BY DEF IInv
<1> QED
  BY <1>1, Invariance, PTL

(* What find returns is where the put record of the key is.                 *)
THEOREM IndexCorrect == Spec => []IndexPointsAtRecord
<1>1. ASSUME IInv PROVE IndexPointsAtRecord
  <2> SUFFICES ASSUME NEW k \in Keys, Find(k)
      PROVE  /\ \E d \in disk :
                  /\ d.kind = "put"
                  /\ d.key = k
                  /\ <<d.seq, d.file, d.offset, d.pages>>
                       = <<mem_index[k].seq, mem_index[k].file,
                           mem_index[k].offset, mem_index[k].pages>>
             /\ HasFile(mem_index[k].file)
             /\ files[IndexOfFile(mem_index[k].file)].blob_opened
    BY DEF IndexPointsAtRecord
  <2>1. PICK d \in disk : /\ d.kind = "put"
                          /\ d.key = k
                          /\ d.seq = mem_index[k].seq
                          /\ d.file = mem_index[k].file
                          /\ d.offset = mem_index[k].offset
                          /\ d.pages = mem_index[k].pages
    BY <1>1 DEF IInv, EntriesFromDisk, Find
  <2>2. d.file \in 0 .. Len(files) - 1
    BY <1>1 DEF IInv, BelowFrontier, TypeOK, Write
  <2>3. files[d.file + 1].blob_opened
    BY <1>1 DEF IInv, BelowFrontier
  <2>4. HasFile(d.file) /\ IndexOfFile(d.file) = d.file + 1
    BY <1>1, <2>2, Lookup DEF IInv
  <2>5. HasFile(mem_index[k].file)
        /\ files[IndexOfFile(mem_index[k].file)].blob_opened
    BY <2>1, <2>3, <2>4
  <2> QED
    BY <2>1, <2>5
<1> QED
  BY <1>1, Invariance, PTL

(* A read in flight finds the record it was sent for.                       *)
THEOREM ReadsCorrect == Spec => []ReadsFindTheirRecord
<1>1. IInv => ReadsFindTheirRecord
  BY DEF IInv, ReadsFromDisk, ReadsFindTheirRecord
<1> QED
  BY <1>1, Invariance, PTL

(* For a key without deletes the index holds the newest durable put.        *)
THEOREM LastPutWins == Spec => []NewestPutWins
<1>1. IInv => NewestPutWins
  BY DEF IInv, IndexAtNewest, NewestPutWins
<1> QED
  BY <1>1, Invariance, PTL
=============================================================================
