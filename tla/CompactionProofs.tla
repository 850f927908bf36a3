-------------------------- MODULE CompactionProofs --------------------------
(***************************************************************************)
(* Proofs about Compaction, for every set of keys, size of a record, of a  *)
(* file and of a chunk, number of retries, and load.                       *)
(*                                                                         *)
(* The argument. A copy is made of a record that find returned, so the     *)
(* record is on the disk and stays there at least until the task is over:  *)
(* nothing is written over it and its file is neither closed nor removed.  *)
(* The copies of a task lie one behind another in a file that no request   *)
(* writes to. So an entry that update_indices moves has the sequence of    *)
(* its copy, a live entry in the destination is there by exactly one       *)
(* committed migration, and a rollback that returns those leaves no entry  *)
(* behind. CInv says so in parts, each for the states between two IOs.     *)
(*                                                                         *)
(* SerialAllocation is assumed: when a task takes its destination while a  *)
(* file is being allocated for waiting writes, the two allocations take    *)
(* each other's FileInfo for their own, and ids are no longer places.      *)
(***************************************************************************)
EXTENDS WritePathProofs, Compaction, FiniteSetTheorems, FunctionTheorems

-----------------------------------------------------------------------------
(* The inductive invariant *)

(* The task in the scheduler still works on its two files.                  *)
Running == task # NoTask /\ task.state \notin {"failed", "done"}

(* The file the callbacks of an asynchronous allocation hold is the last,   *)
(* has not been entered in file_metadata_ and is nobody's destination.      *)
AllocationInOrder ==
  /\ alloc_stage = "none" <=> ~allocating_new_file
  /\ alloc_stage # "none" =>
       /\ alloc_file = Len(files) - 1
       /\ files[Len(files)].state = "active"
       /\ Len(files) - 1 \notin DOMAIN file_metadata
       /\ Running => task.dest # Len(files) - 1

(* Where the last record of file f may end.                                 *)
Frontier(f) ==
  IF Running /\ f = task.dest /\ task.state = "update_indices"
  THEN task.dest_offset + Used ELSE files[f + 1].write_offset

RecordsInFiles ==
  \A w \in inflight \cup disk :
    /\ w.file < Len(files)
    /\ w.offset >= 1
    /\ w.offset + w.pages <= Frontier(w.file)

FiniteRecords ==
  /\ IsFiniteSet(inflight)
  /\ IsFiniteSet(disk)
  /\ task # NoTask => IsFiniteSet(task.chunk) /\ IsFiniteSet(task.migrated)

(* The files the scheduler knows.                                           *)
KnownFiles == DOMAIN file_metadata \subseteq 0 .. Len(files) - 1

(* Writes go to files that are open and not removed, and will go to one.    *)
WritesToLiveFiles ==
  /\ files[active_file_id + 1].state # "deleted"
  /\ \A w \in inflight : /\ files[w.file + 1].blob_opened
                         /\ files[w.file + 1].state # "deleted"

(* The source and the destination of a running task: the destination is a   *)
(* new file that no request writes to, and the scheduler knows the source.  *)
TaskFiles ==
  Running =>
    /\ task.src \in DOMAIN file_metadata
    /\ task.dest < Len(files)
    /\ task.dest # task.src
    /\ task.dest # active_file_id
    /\ \A w \in inflight : w.file # task.dest
    /\ files[task.dest + 1].write_offset = task.dest_offset
    /\ task.state = "init" =>
         /\ ~allocating_new_file
         /\ task.dest = Len(files) - 1
         /\ task.dest \notin DOMAIN file_metadata
         /\ task.dest_offset = 1
         /\ task.committed = {}
         /\ task.migrated = {}
    /\ task.state \in TaskStates
                        \ {"init", "deleting", "rollback_mark_sealed"} =>
         files[task.dest + 1].blob_opened
    /\ task.state \in {"closing", "deleting"} =>
         files[task.dest + 1].state = "deleted"
    /\ task.state \notin {"closing", "deleting", "rollback_mark_sealed"} =>
         files[task.dest + 1].state # "deleted"
    /\ task.state \in {"closing", "deleting", "rollback_mark_sealed"} =>
         task.committed = {}

(* A task that still has to try has attempts left, and tries again what it  *)
(* tried before any rollback.                                               *)
RetriesLeft ==
  task # NoTask =>
    /\ \/ task.retry_count < MaxRetryCount
       \/ /\ task.retry_count = MaxRetryCount
          /\ task.state \in {"rollback", "closing", "deleting",
                             "rollback_mark_sealed", "failed"}
    /\ task.retry_target \in {"mark_compacting", "read_chunk", "write_chunk",
                              "mark_deleted"}

(* What the read buffer holds is on its way to the disk, is on the disk or  *)
(* has been lost there, and nothing was ever written over it.               *)
ChunkInSource ==
  Running =>
    \A d \in task.chunk :
      /\ d.file = task.src
      /\ d.offset + d.pages <= files[d.file + 1].write_offset
      /\ \A w \in inflight \cup disk \cup task.chunk : w # d => ~Overlap(w, d)

(* A migrated record is still at its old place, where it can be read.       *)
SourceStays ==
  Running =>
    \A m \in task.committed \cup task.migrated :
      /\ files[task.src + 1].blob_opened
      /\ files[task.src + 1].state # "deleted"
      /\ \E d \in disk :
           /\ d.kind = "put" /\ d.key = m.key /\ d.seq = m.seq
           /\ d.pages = m.pages /\ d.file = task.src /\ d.offset = m.from

Apart(m, n) == m.to + m.pages <= n.to \/ n.to + n.pages <= m.to

(* The copies lie one behind another in the destination: those of the       *)
(* chunks that are written up to dest_offset, the others behind it.         *)
CopiesInPlace ==
  Running =>
    /\ \A m \in task.committed : m.to + m.pages <= task.dest_offset
                                 /\ m.to >= 1
    /\ \A m \in task.migrated : /\ m.to >= task.dest_offset
                                /\ m.to + m.pages <= task.dest_offset + Used
    /\ \A m, n \in task.committed \cup task.migrated : m # n => Apart(m, n)
    /\ \A m \in task.committed : Copy(m) \in disk
    /\ task.state = "update_indices" =>
         \A m \in task.migrated : Copy(m) \in disk

(* Every live entry in the destination is there by a committed migration.   *)
DestEntries ==
  Running =>
    \A k \in Keys : Find(k) /\ mem_index[k].file = task.dest =>
      \E m \in task.committed : m.key = k /\ m.to = mem_index[k].offset

(* A read whose record is gone was sent to a file that a rollback removed   *)
(* and that the scheduler has forgotten.                                    *)
ReadsAccountedFor ==
  \A r \in reads :
    /\ r.file < Len(files)
    /\ \/ \E d \in disk :
            /\ d.kind = "put" /\ d.key = r.key /\ d.seq = r.seq
            /\ d.file = r.file /\ d.offset = r.offset /\ d.pages = r.pages
       \/ /\ r.file \notin DOMAIN file_metadata
          /\ files[r.file + 1].state = "deleted"

(* IndexPointsAtRecord and NoEntryInRemovedFile, by the places of files.    *)
EntriesReadable ==
  \A k \in Keys : Find(k) =>
    /\ \E d \in disk :
         /\ d.kind = "put" /\ d.key = k /\ d.seq = mem_index[k].seq
         /\ d.file = mem_index[k].file /\ d.offset = mem_index[k].offset
         /\ d.pages = mem_index[k].pages
    /\ files[mem_index[k].file + 1].blob_opened
    /\ files[mem_index[k].file + 1].state # "deleted"

CInv == /\ CompactionTypeOK
        /\ FilesInOrder
        /\ AllocationInOrder
        /\ RecordsInFiles
        /\ FiniteRecords
        /\ KnownFiles
        /\ WritesToLiveFiles
        /\ TaskFiles
        /\ RetriesLeft
        /\ NoOverlap
        /\ NotYetDurable
        /\ ChunkInSource
        /\ SourceStays
        /\ CopiesInPlace
        /\ DestEntries
        /\ ReadsAccountedFor
        /\ EntriesReadable

-----------------------------------------------------------------------------
(* Counting pages                                                           *)

PagePlaces(S) == UNION { {m} \X (1 .. m.pages) : m \in S }

Sized(S) == IsFiniteSet(S) /\ \A m \in S : m.pages \in Nat

LEMMA PlacesAsPairs ==
  ASSUME NEW S
  PROVE  \A p : p \in PagePlaces(S) <=>
                \E m \in S : \E i \in 1 .. m.pages : p = <<m, i>>
  BY DEF PagePlaces

(* The pages of finitely many records are finitely many.                    *)
LEMMA PlacesFinite ==
  ASSUME NEW S, Sized(S)
  PROVE  IsFiniteSet(PagePlaces(S))
<1> DEFINE f == [m \in S |-> {m} \X (1 .. m.pages)]
           T == { {m} \X (1 .. m.pages) : m \in S }
<1>1. f \in Surjection(S, T)
  <2>1. f \in [S -> T]
    OBVIOUS
  <2>2. \A t \in T : \E m \in S : f[m] = t
    OBVIOUS
  <2> QED
    BY <2>1, <2>2 DEF Surjection
<1>2. IsFiniteSet(T)
  BY <1>1, FS_Surjection DEF Sized
<1>3. ASSUME NEW t \in T
      PROVE  IsFiniteSet(t)
  <2>1. PICK m \in S : t = {m} \X (1 .. m.pages)
    OBVIOUS
  <2>2. m.pages \in Int
    BY DEF Sized
  <2>3. IsFiniteSet(1 .. m.pages)
    BY <2>2, FS_Interval
  <2>4. IsFiniteSet({m})
    BY FS_Singleton
  <2> QED
    BY <2>1, <2>3, <2>4, FS_Product
<1> HIDE DEF T
<1>4. IsFiniteSet(UNION T)
  BY <1>2, <1>3, FS_UNION
<1> QED
  BY <1>4 DEF T, PagePlaces

LEMMA PagesIsPlaces ==
  ASSUME NEW S, Sized(S)
  PROVE  PagesOf(S) \in Nat /\ PagesOf(S) = Cardinality(PagePlaces(S))
  BY PlacesFinite, FS_CardinalityType DEF PagesOf, PagePlaces

LEMMA PagesOfNone == PagesOf({}) = 0
<1>1. UNION { {m} \X (1 .. m.pages) : m \in {} } = {}
  OBVIOUS
<1> QED
  BY <1>1, FS_EmptySet DEF PagesOf

LEMMA PagesOfOne ==
  ASSUME NEW m, m.pages \in Nat
  PROVE  Sized({m}) /\ PagesOf({m}) = m.pages
<1>1. Sized({m})
  BY FS_Singleton DEF Sized
<1>2. UNION { {x} \X (1 .. x.pages) : x \in {m} } = {m} \X (1 .. m.pages)
  OBVIOUS
<1>3. IsFiniteSet({m}) /\ Cardinality({m}) = 1
  BY FS_Singleton
<1>4. IsFiniteSet(1 .. m.pages) /\ Cardinality(1 .. m.pages) = m.pages
  BY FS_Interval
<1>5. Cardinality({m} \X (1 .. m.pages)) =
        Cardinality({m}) * Cardinality(1 .. m.pages)
  BY <1>3, <1>4, FS_Product
<1>6. PagesOf({m}) = m.pages
  <2>1. PagesOf({m}) = Cardinality({m} \X (1 .. m.pages))
    BY <1>2 DEF PagesOf
  <2> QED
    BY <1>3, <1>4, <1>5, <2>1
<1> QED
  BY <1>1, <1>6

LEMMA PagesOfBoth ==
  ASSUME NEW A, NEW B, Sized(A), Sized(B), A \cap B = {}
  PROVE  Sized(A \cup B) /\ PagesOf(A \cup B) = PagesOf(A) + PagesOf(B)
<1>1. Sized(A \cup B)
  BY FS_Union DEF Sized
<1>2. PagePlaces(A \cup B) = PagePlaces(A) \cup PagePlaces(B)
  BY DEF PagePlaces
<1>3. PagePlaces(A) \cap PagePlaces(B) = {}
  BY PlacesAsPairs
<1>4. Cardinality(PagePlaces(A) \cup PagePlaces(B)) =
        Cardinality(PagePlaces(A)) + Cardinality(PagePlaces(B))
          - Cardinality(PagePlaces(A) \cap PagePlaces(B))
  BY PlacesFinite, FS_Union
<1>6. Cardinality(PagePlaces(A) \cap PagePlaces(B)) = 0
  BY <1>3, FS_EmptySet
<1>5. /\ PagesOf(A \cup B) = Cardinality(PagePlaces(A \cup B))
      /\ PagesOf(A) = Cardinality(PagePlaces(A)) /\ PagesOf(A) \in Nat
      /\ PagesOf(B) = Cardinality(PagePlaces(B)) /\ PagesOf(B) \in Nat
  BY <1>1, PagesIsPlaces
<1>7. PagesOf(A \cup B) = Cardinality(PagePlaces(A) \cup PagePlaces(B))
  BY <1>2, <1>5, Zenon
<1>8. PagesOf(A \cup B) = PagesOf(A) + PagesOf(B) - 0
  BY <1>4, <1>5, <1>6, <1>7, Zenon
<1> QED
  BY <1>1, <1>5, <1>8

(* More records take at least as many pages, by what the others take.       *)
LEMMA PagesOfPart ==
  ASSUME NEW A, NEW B, Sized(B), A \subseteq B
  PROVE  /\ Sized(A)
         /\ PagesOf(A) \in Nat
         /\ PagesOf(A) <= PagesOf(B)
         /\ \A m \in B \ A : PagesOf(A) + m.pages <= PagesOf(B)
<1>1. Sized(A) /\ Sized(B \ A)
  BY FS_Subset DEF Sized
<1>2. A \cup (B \ A) = B /\ A \cap (B \ A) = {}
  OBVIOUS
<1>3. PagesOf(B) = PagesOf(A) + PagesOf(B \ A)
  BY <1>1, <1>2, PagesOfBoth
<1>4. PagesOf(A) \in Nat /\ PagesOf(B \ A) \in Nat
  BY <1>1, PagesIsPlaces
<1>5. ASSUME NEW m \in B \ A
      PROVE  m.pages <= PagesOf(B \ A)
  <2>1. m.pages \in Nat
    BY DEF Sized
  <2>2. Sized({m}) /\ PagesOf({m}) = m.pages
    BY <2>1, PagesOfOne
  <2>3. Sized((B \ A) \ {m}) /\ (B \ A) = {m} \cup ((B \ A) \ {m})
        /\ {m} \cap ((B \ A) \ {m}) = {}
    BY <1>1, FS_Subset DEF Sized
  <2>4. PagesOf(B \ A) = PagesOf({m}) + PagesOf((B \ A) \ {m})
    BY <2>2, <2>3, PagesOfBoth
  <2>5. PagesOf((B \ A) \ {m}) \in Nat
    BY <2>3, PagesIsPlaces
  <2> QED
    BY <2>1, <2>2, <2>4, <2>5
<1> QED
  BY <1>1, <1>3, <1>4, <1>5 DEF Sized

(* As many pages of copies as of the records they are copies of.            *)
LEMMA PagesOfCopies ==
  ASSUME NEW A, Sized(A), NEW f,
         f \in [A -> { f[a] : a \in A }],
         \A a, b \in A : f[a] = f[b] => a = b,
         \A a \in A : f[a].pages = a.pages
  PROVE  LET B == { f[a] : a \in A }
         IN  Sized(B) /\ PagesOf(B) = PagesOf(A)
<1> DEFINE B == { f[a] : a \in A }
           P == PagePlaces(A)
           Q == PagePlaces(B)
           g == [p \in P |-> <<f[p[1]], p[2]>>]
<1>1. Sized(B)
  <2>1. f \in Surjection(A, B)
    BY DEF Surjection
  <2>2. IsFiniteSet(B)
    BY <2>1, FS_Surjection DEF Sized
  <2> QED
    BY <2>2 DEF Sized
<1>2. \A p \in P : \E a \in A : \E i \in 1 .. a.pages : p = <<a, i>>
  BY PlacesAsPairs
<1>3. \A q : q \in Q <=> \E a \in A : \E i \in 1 .. a.pages : q = <<f[a], i>>
  <2>1. \A q : q \in Q <=> \E b \in B : \E i \in 1 .. b.pages : q = <<b, i>>
    BY PlacesAsPairs
  <2> QED
    BY <2>1
<1>4. \A a \in A : \A i \in 1 .. a.pages : <<a, i>> \in P
  BY PlacesAsPairs
<1>5. \A a \in A : \A i \in 1 .. a.pages : g[<<a, i>>] = <<f[a], i>>
  BY <1>4
<1>6. g \in [P -> Q]
  <2>1. \A p \in P : <<f[p[1]], p[2]>> \in Q
    <3> TAKE p \in P
    <3>1. PICK a \in A : \E i \in 1 .. a.pages : p = <<a, i>>
      BY <1>2
    <3>2. PICK i \in 1 .. a.pages : p = <<a, i>>
      BY <3>1
    <3>3. p[1] = a /\ p[2] = i
      BY <3>2
    <3>4. <<f[a], i>> \in Q
      BY <1>3
    <3> QED
      BY <3>3, <3>4
  <2> HIDE DEF P, Q
  <2> QED
    BY <2>1
<1>7. g \in Injection(P, Q)
  <2>1. ASSUME NEW p \in P, NEW q \in P, g[p] = g[q]
        PROVE  p = q
    <3>1. PICK a \in A : \E i \in 1 .. a.pages : p = <<a, i>>
      BY <1>2
    <3>2. PICK i \in 1 .. a.pages : p = <<a, i>>
      BY <3>1
    <3>3. PICK b \in A : \E j \in 1 .. b.pages : q = <<b, j>>
      BY <1>2
    <3>4. PICK j \in 1 .. b.pages : q = <<b, j>>
      BY <3>3
    <3>5. <<f[a], i>> = <<f[b], j>>
      BY <1>5, <2>1, <3>2, <3>4
    <3>6. a = b /\ i = j
      BY <3>5
    <3> QED
      BY <3>2, <3>4, <3>6
  <2> HIDE DEF g
  <2> QED
    BY <1>6, <2>1 DEF Injection, IsInjective
<1>8. g \in Surjection(P, Q)
  <2>1. ASSUME NEW q \in Q
        PROVE  \E p \in P : g[p] = q
    <3>1. PICK a \in A : \E i \in 1 .. a.pages : q = <<f[a], i>>
      BY <1>3
    <3>2. PICK i \in 1 .. a.pages : q = <<f[a], i>>
      BY <3>1
    <3> QED
      BY <1>4, <1>5, <3>2
  <2> HIDE DEF g
  <2> QED
    BY <1>6, <2>1 DEF Surjection
<1>9. IsFiniteSet(P)
  BY PlacesFinite
<1> HIDE DEF P, Q, g, B
<1>10. Cardinality(Q) = Cardinality(P)
  <2>1. ExistsBijection(P, Q)
    BY <1>7, <1>8 DEF ExistsBijection, Bijection
  <2> QED
    BY <1>9, <2>1, FS_Bijection
<1>11. PagesOf(B) = PagesOf(A)
  BY <1>1, <1>10, PagesIsPlaces DEF P, Q
<1> QED
  BY <1>1, <1>11 DEF B

(* Copies that lie apart between two pages take no more than the pages      *)
(* between.                                                                 *)
LEMMA PagesFit ==
  ASSUME NEW M, Sized(M), NEW lo \in Nat, NEW hi \in Nat, lo <= hi,
         \A m \in M : m.to \in Nat /\ lo <= m.to /\ m.to + m.pages <= hi,
         \A m, n \in M : m # n => Apart(m, n)
  PROVE  PagesOf(M) <= hi - lo
<1> DEFINE P == PagePlaces(M)
           T == lo .. hi - 1
           f == [p \in P |-> p[1].to + p[2] - 1]
<1>1. \A p \in P : \E m \in M : \E i \in 1 .. m.pages : p = <<m, i>>
  BY PlacesAsPairs
<1>2. f \in [P -> T]
  <2> SUFFICES ASSUME NEW p \in P PROVE p[1].to + p[2] - 1 \in T
    OBVIOUS
  <2>1. PICK m \in M : \E i \in 1 .. m.pages : p = <<m, i>>
    BY <1>1
  <2>2. PICK i \in 1 .. m.pages : p = <<m, i>>
    BY <2>1
  <2>3. p[1] = m /\ p[2] = i
    BY <2>2
  <2>4. m.to \in Nat /\ lo <= m.to /\ m.to + m.pages <= hi /\ m.pages \in Nat
    BY DEF Sized
  <2>5. m.to + i - 1 \in T
    BY <2>4
  <2> QED
    BY <2>3, <2>5
<1>3. f \in Injection(P, T)
  <2>1. ASSUME NEW p \in P, NEW q \in P, f[p] = f[q]
        PROVE  p = q
    <3>1. PICK m \in M : \E i \in 1 .. m.pages : p = <<m, i>>
      BY <1>1
    <3>2. PICK i \in 1 .. m.pages : p = <<m, i>>
      BY <3>1
    <3>3. PICK n \in M : \E j \in 1 .. n.pages : q = <<n, j>>
      BY <1>1
    <3>4. PICK j \in 1 .. n.pages : q = <<n, j>>
      BY <3>3
    <3>5. p[1] = m /\ p[2] = i /\ q[1] = n /\ q[2] = j
      BY <3>2, <3>4
    <3>6. m.to + i - 1 = n.to + j - 1
      BY <2>1, <3>5
    <3>7. /\ m.to \in Nat /\ m.pages \in Nat
          /\ n.to \in Nat /\ n.pages \in Nat
      BY DEF Sized
    <3>8. m = n
      <4> SUFFICES ASSUME m # n PROVE FALSE
        OBVIOUS
      <4>1. m.to + m.pages <= n.to \/ n.to + n.pages <= m.to
        BY DEF Apart
      <4> QED
        BY <3>6, <3>7, <4>1
    <3> QED
      BY <3>2, <3>4, <3>6, <3>7, <3>8
  <2> HIDE DEF f
  <2> QED
    BY <1>2, <2>1 DEF Injection, IsInjective
<1>4. IsFiniteSet(T) /\ Cardinality(T) = hi - lo
  <2>1. hi - 1 \in Int /\ lo \in Int
    OBVIOUS
  <2>2. /\ IsFiniteSet(lo .. hi - 1)
        /\ Cardinality(lo .. hi - 1) = IF lo > hi - 1 THEN 0
                                       ELSE hi - 1 - lo + 1
    BY <2>1, FS_Interval
  <2> QED
    BY <2>2
<1> HIDE DEF P, T, f
<1>5. Cardinality(P) <= Cardinality(T)
  BY <1>3, <1>4, FS_Injection
<1> QED
  BY <1>4, <1>5, PagesIsPlaces DEF P

-----------------------------------------------------------------------------
(* Files                                                                    *)

(* File f is not one that is being allocated for waiting writes.            *)
Known(f) == /\ f \in 0 .. Len(files) - 1
            /\ alloc_stage # "none" => f # Len(files) - 1

(* A step leaves what lies in file f where it is and as readable as it was. *)
FileKept(f) ==
  /\ f < Len(files')
  /\ files'[f + 1].write_offset >= files[f + 1].write_offset
  /\ files[f + 1].blob_opened => files'[f + 1].blob_opened
  /\ files[f + 1].state # "deleted" => files'[f + 1].state # "deleted"
  /\ f \notin DOMAIN file_metadata /\ files[f + 1].state = "deleted" =>
       files'[f + 1].state = "deleted"

LEMMA TaskTyped ==
  ASSUME CInv, task # NoTask
  PROVE  /\ task \in Task
         /\ task.src \in Nat /\ task.dest \in Nat /\ task.state \in TaskStates
         /\ task.current_offset \in Nat /\ task.bytes_read \in Nat
         /\ task.dest_offset \in Nat /\ task.retry_count \in Nat
         /\ task.chunk \subseteq Write
         /\ task.migrated \subseteq Migration
         /\ task.committed \subseteq Migration
         /\ task.retry_target \in IoStates
         /\ Used \in Nat
<1>1. task \in Task
  BY DEF CInv, CompactionTypeOK
<1>2. /\ task.src \in Nat /\ task.dest \in Nat /\ task.state \in TaskStates
      /\ task.current_offset \in Nat /\ task.bytes_read \in Nat
      /\ task.dest_offset \in Nat /\ task.retry_count \in Nat
      /\ task.chunk \subseteq Write
      /\ task.migrated \subseteq Migration
      /\ task.committed \subseteq Migration
      /\ task.retry_target \in IoStates
  BY <1>1 DEF Task
<1>3. Sized(task.migrated)
  BY <1>2 DEF CInv, FiniteRecords, Sized, Migration
<1> QED
  BY <1>1, <1>2, <1>3, PagesIsPlaces DEF Used

LEMMA WriteFields ==
  ASSUME NEW w \in Write
  PROVE  /\ w.seq \in Sequence /\ w.key \in Keys /\ w.kind \in Kinds
         /\ w.pages \in Nat /\ w.pages # 0
         /\ w.file \in Nat /\ w.offset \in Nat
  BY DEF Write

LEMMA MigrationFields ==
  ASSUME NEW m \in Migration
  PROVE  /\ m.seq \in Sequence /\ m.key \in Keys
         /\ m.pages \in Nat /\ m.pages # 0
         /\ m.from \in Nat /\ m.to \in Nat
  BY DEF Migration

(* Places and types of the files.                                           *)
LEMMA KnownPlace ==
  ASSUME CInv, NEW f, Known(f)
  PROVE  /\ f + 1 \in 1 .. Len(files) /\ f \in Nat /\ f < Len(files)
         /\ Len(files) \in Nat
         /\ files[f + 1] \in FileInfo
         /\ files[f + 1].write_offset \in Nat
         /\ files[f + 1].file_id = f
         /\ HasFile(f) /\ IndexOfFile(f) = f + 1
<1>1. TypeOK /\ FilesInOrder
  BY DEF CInv, CompactionTypeOK
<1>2. Len(files) \in Nat /\ files \in Seq(FileInfo)
  BY <1>1 DEF TypeOK
<1>3. f + 1 \in 1 .. Len(files) /\ f \in Nat /\ f < Len(files)
  BY <1>2 DEF Known
<1>4. files[f + 1] \in FileInfo
  BY <1>2, <1>3
<1>5. files[f + 1].write_offset \in Nat
  BY <1>4 DEF FileInfo, FileStates
<1>6. files[f + 1].file_id = f
  BY <1>1, <1>3 DEF FilesInOrder
<1>7. HasFile(f) /\ IndexOfFile(f) = f + 1
  BY <1>1, <1>3, <1>2, Lookup
<1> QED
  BY <1>2, <1>3, <1>4, <1>5, <1>6, <1>7

(* The file being allocated holds nothing yet, and nobody refers to it.     *)
LEMMA RecordsKnown ==
  ASSUME CInv, NEW w \in inflight \cup disk
  PROVE  w \in Write /\ Known(w.file)
<1>1. w \in Write
  BY DEF CInv, CompactionTypeOK, TypeOK
<1>2. w.file \in Nat /\ w.offset \in Nat /\ w.pages \in Nat /\ w.pages # 0
  BY <1>1, WriteFields
<1>3. /\ w.file < Len(files) /\ w.offset >= 1
      /\ w.offset + w.pages <= Frontier(w.file)
  BY DEF CInv, RecordsInFiles
<1>4. Len(files) \in Nat
  BY DEF CInv, CompactionTypeOK, TypeOK
<1>5. ASSUME alloc_stage # "none", w.file = Len(files) - 1
      PROVE  FALSE
  <2>1. Running => task.dest # w.file
    BY <1>5 DEF CInv, AllocationInOrder
  <2>2. Frontier(w.file) = files[w.file + 1].write_offset
    BY <2>1 DEF Frontier
  <2>3. w.file + 1 = Len(files)
    BY <1>4, <1>5
  <2>4. alloc_stage \in {"blob", "header"}
    BY <1>5 DEF CInv, CompactionTypeOK, TypeOK
  <2>5. files[Len(files)].write_offset = 1
    BY <2>4 DEF CInv, FilesInOrder
  <2> QED
    BY <1>2, <1>3, <2>2, <2>3, <2>5
<1> QED
  BY <1>1, <1>2, <1>3, <1>4, <1>5 DEF Known

LEMMA ActiveKnown ==
  ASSUME CInv
  PROVE  Known(active_file_id) /\ Active = active_file_id + 1
<1>1. active_file_id \in Nat /\ Len(files) \in Nat /\ TypeOK /\ FilesInOrder
      /\ alloc_stage \in {"none", "blob", "header"}
  BY DEF CInv, CompactionTypeOK, TypeOK
<1> QED
  BY <1>1, ActiveFile DEF FilesInOrder, Known

LEMMA MetadataKnown ==
  ASSUME CInv, NEW f \in DOMAIN file_metadata
  PROVE  Known(f)
  BY DEF CInv, KnownFiles, AllocationInOrder, Known

LEMMA TaskFilesKnown ==
  ASSUME CInv, Running
  PROVE  Known(task.src) /\ Known(task.dest)
<1>1. Known(task.src)
  BY MetadataKnown DEF CInv, TaskFiles
<1>2. task # NoTask
  BY DEF Running
<1>3. task.dest \in Nat
  BY <1>2, TaskTyped
<1>4. Len(files) \in Nat /\ task.dest < Len(files)
  BY DEF CInv, CompactionTypeOK, TypeOK, TaskFiles
<1>5. alloc_stage # "none" => task.dest # Len(files) - 1
  BY DEF CInv, AllocationInOrder
<1> QED
  BY <1>1, <1>3, <1>4, <1>5 DEF Known

LEMMA ReadsKnown ==
  ASSUME CInv, NEW r \in reads
  PROVE  r \in Read /\ Known(r.file)
<1>1. r \in Read
  BY DEF CInv, CompactionTypeOK, TypeOK
<1>2. r.file \in Nat /\ r.file < Len(files) /\ Len(files) \in Nat
  BY <1>1 DEF Read, CInv, ReadsAccountedFor, CompactionTypeOK, TypeOK
<1>3. CASE \E d \in disk : d.file = r.file
  BY <1>1, <1>3, RecordsKnown
<1>4. CASE files[r.file + 1].state = "deleted"
  <2>1. alloc_stage # "none" => files[Len(files)].state = "active"
    BY DEF CInv, AllocationInOrder
  <2>2. alloc_stage # "none" => r.file # Len(files) - 1
    BY <1>2, <1>4, <2>1
  <2> QED
    BY <1>1, <1>2, <2>2 DEF Known
<1> QED
  BY <1>3, <1>4 DEF CInv, ReadsAccountedFor

LEMMA EntriesKnown ==
  ASSUME CInv, NEW k \in Keys, Find(k)
  PROVE  /\ mem_index[k] \in Entry
         /\ Known(mem_index[k].file)
         /\ mem_index[k].offset \in Nat
<1>1. mem_index[k] \in Entry
  BY DEF CInv, CompactionTypeOK, TypeOK, Find
<1>2. PICK d \in disk : d.file = mem_index[k].file
  BY DEF CInv, EntriesReadable
<1> QED
  BY <1>1, <1>2, RecordsKnown DEF Entry

-----------------------------------------------------------------------------
(* What keeps the records                                                   *)

(* A write that is given its place at the end of a live file.               *)
PlacedAtEnd(w) ==
  /\ w \in Write
  /\ Known(w.file)
  /\ w.offset >= 1
  /\ w.offset = files[w.file + 1].write_offset
  /\ w.offset + w.pages <= files'[w.file + 1].write_offset
  /\ files[w.file + 1].blob_opened
  /\ files[w.file + 1].state # "deleted"
  /\ Running => w.file # task.dest

(* The task is not at the moment at which its last chunk lies past the      *)
(* write offset of the destination.                                         *)
NotInTransit == Running => task.state # "update_indices"

LEMMA FrontierGrows ==
  ASSUME CInv, UNCHANGED task \/ (NotInTransit /\ NotInTransit'),
         NEW f, Known(f), FileKept(f), files' \in Seq(FileInfo)
  PROVE  /\ Frontier(f)' >= Frontier(f)
         /\ Frontier(f) \in Nat
         /\ Frontier(f)' \in Nat
<1>1. /\ files[f + 1].write_offset \in Nat
      /\ f \in Nat
  BY KnownPlace
<1>2. f < Len(files') /\ Len(files') \in Nat
  BY DEF FileKept
<1>3. files'[f + 1].write_offset \in Nat
  <2>1. f + 1 \in 1 .. Len(files')
    BY <1>1, <1>2
  <2>2. files'[f + 1] \in FileInfo
    BY <2>1
  <2> QED
    BY <2>2 DEF FileInfo, FileStates
<1>4. files'[f + 1].write_offset >= files[f + 1].write_offset
  BY DEF FileKept
<1>5. CASE UNCHANGED task
  <2>1. Running => task.dest_offset \in Nat /\ Used \in Nat
    BY TaskTyped DEF Running
  <2>2. Running' = Running /\ Used' = Used
    BY <1>5 DEF Running, Used
  <2> QED
    BY <1>1, <1>3, <1>4, <1>5, <2>1, <2>2 DEF Frontier
<1>6. CASE NotInTransit /\ NotInTransit'
  BY <1>1, <1>3, <1>4, <1>6 DEF NotInTransit, Frontier
<1> QED
  BY <1>5, <1>6

(* A new write lies behind the records there are.                           *)
LEMMA NewWriteApart ==
  ASSUME CInv, NEW w, PlacedAtEnd(w), NEW v, v \in Write,
         v.offset + v.pages <= files[v.file + 1].write_offset
  PROVE  ~Overlap(v, w) /\ ~Overlap(w, v) /\ v # w
<1>1. /\ w.pages \in Nat /\ w.pages # 0 /\ w.offset \in Nat
      /\ v.pages \in Nat /\ v.pages # 0 /\ v.offset \in Nat
  BY WriteFields DEF PlacedAtEnd
<1>2. v.file = w.file => v.offset + v.pages <= w.offset
  BY DEF PlacedAtEnd
<1> QED
  BY <1>1, <1>2 DEF Overlap

LEMMA RecordBeforeEnd ==
  ASSUME CInv, NEW v \in inflight \cup disk, Running => v.file # task.dest
  PROVE  v.offset + v.pages <= files[v.file + 1].write_offset
<1>1. Frontier(v.file) = files[v.file + 1].write_offset
  BY DEF Frontier
<1> QED
  BY <1>1 DEF CInv, RecordsInFiles

LEMMA NewWriteFree ==
  ASSUME CInv, NEW w, PlacedAtEnd(w), NEW v \in inflight \cup disk
  PROVE  ~Overlap(v, w) /\ ~Overlap(w, v) /\ v # w
<1>1. v \in Write
  BY RecordsKnown
<1>2. CASE Running /\ v.file = task.dest
  BY <1>2 DEF PlacedAtEnd, Overlap
<1>3. CASE ~(Running /\ v.file = task.dest)
  BY <1>1, <1>3, RecordBeforeEnd, NewWriteApart
<1> QED
  BY <1>2, <1>3

LEMMA RecordsStay ==
  ASSUME CInv, NEW W, IsFiniteSet(W),
         \A w \in W : PlacedAtEnd(w), \A v, w \in W : v = w,
         files' \in Seq(FileInfo), \A f : Known(f) => FileKept(f),
         inflight' \subseteq inflight \cup W, UNCHANGED disk,
         UNCHANGED task \/ (NotInTransit /\ NotInTransit')
  PROVE  /\ RecordsInFiles'
         /\ NoOverlap'
         /\ NotYetDurable'
         /\ IsFiniteSet(inflight') /\ IsFiniteSet(disk')
         /\ \A w \in inflight' : /\ files'[w.file + 1].blob_opened
                                 /\ files'[w.file + 1].state # "deleted"
<1>1. ASSUME NEW w \in inflight \cup disk
      PROVE  /\ w.file < Len(files')
             /\ w.offset >= 1
             /\ w.offset + w.pages <= Frontier(w.file)'
  <2>1. w \in Write /\ Known(w.file)
    BY RecordsKnown
  <2>2. FileKept(w.file)
    BY <2>1
  <2>3. /\ Frontier(w.file)' >= Frontier(w.file)
        /\ Frontier(w.file) \in Nat
        /\ Frontier(w.file)' \in Nat
    BY <2>1, <2>2, FrontierGrows
  <2>4. w.offset >= 1 /\ w.offset + w.pages <= Frontier(w.file)
    BY DEF CInv, RecordsInFiles
  <2>5. w.offset \in Nat /\ w.pages \in Nat
    BY <2>1, WriteFields
  <2> QED
    BY <2>2, <2>3, <2>4, <2>5 DEF FileKept
<1>2. ASSUME NEW w \in W
      PROVE  /\ w.file < Len(files')
             /\ w.offset >= 1
             /\ w.offset + w.pages <= Frontier(w.file)'
             /\ files'[w.file + 1].blob_opened
             /\ files'[w.file + 1].state # "deleted"
  <2>1. PlacedAtEnd(w) /\ FileKept(w.file)
    BY DEF PlacedAtEnd
  <2>2. Frontier(w.file)' = files'[w.file + 1].write_offset
    <3>1. CASE UNCHANGED task
      BY <2>1, <3>1 DEF PlacedAtEnd, Frontier, Running
    <3>2. CASE NotInTransit'
      BY <3>2 DEF NotInTransit, Frontier
    <3> QED
      BY <3>1, <3>2
  <2> QED
    BY <2>1, <2>2 DEF PlacedAtEnd, FileKept
<1>3. RecordsInFiles'
  BY <1>1, <1>2 DEF RecordsInFiles
<1>4. \A w \in W, v \in inflight \cup disk :
        ~Overlap(v, w) /\ ~Overlap(w, v) /\ v # w
  BY NewWriteFree
<1>5. NoOverlap'
  <2>1. \A v, w \in inflight \cup disk : v # w => ~Overlap(v, w)
    BY DEF CInv, NoOverlap
  <2>2. \A v, w : Overlap(v, w)' = Overlap(v, w)
    BY DEF Overlap
  <2> QED
    BY <1>4, <2>1, <2>2 DEF NoOverlap
<1>6. NotYetDurable'
  BY <1>4 DEF CInv, NotYetDurable
<1>7. IsFiniteSet(inflight') /\ IsFiniteSet(disk')
  <2>1. IsFiniteSet(inflight \cup W)
    BY FS_Union DEF CInv, FiniteRecords
  <2> QED
    BY <2>1, FS_Subset DEF CInv, FiniteRecords
<1>8. ASSUME NEW w \in inflight
      PROVE  /\ files'[w.file + 1].blob_opened
             /\ files'[w.file + 1].state # "deleted"
  <2>1. FileKept(w.file)
    BY RecordsKnown
  <2> QED
    BY <2>1 DEF CInv, WritesToLiveFiles, FileKept
<1> QED
  BY <1>2, <1>3, <1>5, <1>6, <1>7, <1>8

(* What the index and the reads in flight point at stays.                   *)
LEMMA IndexStays ==
  ASSUME CInv, \A f : Known(f) => FileKept(f), UNCHANGED <<disk, mem_index>>
  PROVE  EntriesReadable'
<1> SUFFICES ASSUME NEW k \in Keys, Find(k)'
             PROVE  /\ \E d \in disk' :
                         /\ d.kind = "put" /\ d.key = k
                         /\ d.seq = mem_index'[k].seq
                         /\ d.file = mem_index'[k].file
                         /\ d.offset = mem_index'[k].offset
                         /\ d.pages = mem_index'[k].pages
                    /\ files'[mem_index'[k].file + 1].blob_opened
                    /\ files'[mem_index'[k].file + 1].state # "deleted"
  BY DEF EntriesReadable
<1>1. Find(k)
  BY DEF Find
<1>2. Known(mem_index[k].file)
  BY <1>1, EntriesKnown
<1>3. FileKept(mem_index[k].file)
  BY <1>2
<1> QED
  BY <1>1, <1>3 DEF CInv, EntriesReadable, FileKept

LEMMA ReadsStay ==
  ASSUME CInv, \A f : Known(f) => FileKept(f), reads' \subseteq reads,
         UNCHANGED disk,
         \A f \in DOMAIN file_metadata' :
           \/ f \in DOMAIN file_metadata
           \/ ~Known(f)
           \/ files[f + 1].state # "deleted"
  PROVE  ReadsAccountedFor'
<1> SUFFICES ASSUME NEW r \in reads'
             PROVE  /\ r.file < Len(files')
                    /\ \/ \E d \in disk' :
                            /\ d.kind = "put" /\ d.key = r.key /\ d.seq = r.seq
                            /\ d.file = r.file /\ d.offset = r.offset
                            /\ d.pages = r.pages
                       \/ /\ r.file \notin DOMAIN file_metadata'
                          /\ files'[r.file + 1].state = "deleted"
  BY DEF ReadsAccountedFor
<1>1. r \in reads /\ Known(r.file)
  BY ReadsKnown
<1>2. FileKept(r.file)
  BY <1>1
<1>3. r.file < Len(files')
  BY <1>2 DEF FileKept
<1>4. CASE \E d \in disk :
             /\ d.kind = "put" /\ d.key = r.key /\ d.seq = r.seq
             /\ d.file = r.file /\ d.offset = r.offset /\ d.pages = r.pages
  BY <1>3, <1>4
<1>5. CASE /\ r.file \notin DOMAIN file_metadata
           /\ files[r.file + 1].state = "deleted"
  BY <1>1, <1>2, <1>3, <1>5 DEF FileKept
<1> QED
  BY <1>1, <1>4, <1>5 DEF CInv, ReadsAccountedFor

-----------------------------------------------------------------------------
(* Steps of the request path                                                *)

(* What a task relies on, when the engine places a write or takes one from  *)
(* the device and leaves the destination of the task alone.                 *)
LEMMA TaskUndisturbed ==
  ASSUME CInv, NEW W, \A w \in W : PlacedAtEnd(w),
         files' \in Seq(FileInfo), \A f : Known(f) => FileKept(f),
         inflight' \subseteq inflight \cup W, disk \subseteq disk',
         disk' \subseteq inflight \cup disk,
         UNCHANGED task,
         DOMAIN file_metadata \subseteq DOMAIN file_metadata',
         Running =>
           /\ active_file_id' # task.dest
           /\ files'[task.dest + 1] = files[task.dest + 1]
           /\ task.state = "init" => /\ ~allocating_new_file'
                                     /\ Len(files') = Len(files)
                                     /\ task.dest \notin DOMAIN file_metadata'
  PROVE  TaskFiles' /\ RetriesLeft' /\ ChunkInSource' /\ SourceStays'
         /\ CopiesInPlace'
<1>1. Running' = Running /\ Used' = Used
  BY DEF Running, Used
<1>2. TaskFiles'
  <2> SUFFICES ASSUME Running PROVE TaskFiles'
    BY <1>1 DEF TaskFiles
  <2>1. FileKept(task.dest)
    BY TaskFilesKnown
  <2>2. \A w \in W : w.file # task.dest
    BY DEF PlacedAtEnd
  <2>3. task.dest < Len(files')
    BY <2>1 DEF FileKept
  <2>4. \A w \in inflight' : w.file # task.dest
    BY <2>2 DEF CInv, TaskFiles
  <2> QED
    BY <2>3, <2>4 DEF CInv, TaskFiles
<1>3. RetriesLeft'
  BY DEF CInv, RetriesLeft
<1>4. ChunkInSource'
  <2> SUFFICES ASSUME Running, NEW d \in task.chunk
               PROVE  /\ d.file = task.src
                      /\ d.offset + d.pages <= files'[d.file + 1].write_offset
                      /\ \A w \in inflight' \cup disk' \cup task.chunk :
                           w # d => ~Overlap(w, d)
    BY <1>1 DEF ChunkInSource, Overlap
  <2>1. /\ d.file = task.src
        /\ d.offset + d.pages <= files[d.file + 1].write_offset
        /\ \A w \in inflight \cup disk \cup task.chunk : w # d => ~Overlap(w, d)
    BY DEF CInv, ChunkInSource
  <2>2. d \in Write
    BY TaskTyped DEF Running
  <2>3. \A w \in W : ~Overlap(w, d)
    BY <2>1, <2>2, NewWriteApart
  <2>4. d.offset + d.pages <= files'[d.file + 1].write_offset
    <3>1. Known(d.file)
      BY <2>1, TaskFilesKnown
    <3>2. files[d.file + 1].write_offset \in Nat /\ d.file \in Nat
      BY <3>1, KnownPlace
    <3>3. FileKept(d.file)
      BY <3>1
    <3>4. files'[d.file + 1].write_offset \in Nat
      <4>1. d.file + 1 \in 1 .. Len(files')
        BY <3>2, <3>3 DEF FileKept
      <4>2. files'[d.file + 1] \in FileInfo
        BY <4>1
      <4> QED
        BY <4>2 DEF FileInfo, FileStates
    <3>5. files'[d.file + 1].write_offset >= files[d.file + 1].write_offset
      BY <3>3 DEF FileKept
    <3>6. d.offset \in Nat /\ d.pages \in Nat
      BY <2>2, WriteFields
    <3> QED
      BY <2>1, <3>2, <3>4, <3>5, <3>6
  <2> QED
    BY <2>1, <2>3, <2>4
<1>5. SourceStays'
  <2>1. Running => FileKept(task.src)
    BY TaskFilesKnown
  <2> QED
    BY <1>1, <2>1 DEF CInv, SourceStays, FileKept
<1>6. CopiesInPlace'
  <2>1. \A m : Copy(m)' = Copy(m)
    BY DEF Copy
  <2>2. \A m, n : Apart(m, n)' = Apart(m, n)
    BY DEF Apart
  <2> QED
    BY <1>1, <2>1, <2>2 DEF CInv, CopiesInPlace
<1> QED
  BY <1>2, <1>3, <1>4, <1>5, <1>6

LEMMA EngineStep ==
  ASSUME CInv, CompactionTypeOK', FilesInOrder', AllocationInOrder', KnownFiles',
         NEW W, IsFiniteSet(W),
         \A w \in W : PlacedAtEnd(w), \A v, w \in W : v = w,
         \A f : Known(f) => FileKept(f),
         inflight' \subseteq inflight \cup W,
         UNCHANGED <<task, disk, mem_index>>, reads' \subseteq reads,
         files'[active_file_id' + 1].state # "deleted",
         DOMAIN file_metadata \subseteq DOMAIN file_metadata',
         \A f \in DOMAIN file_metadata' : f \in DOMAIN file_metadata \/ ~Known(f),
         Running =>
           /\ active_file_id' # task.dest
           /\ files'[task.dest + 1] = files[task.dest + 1]
           /\ task.state = "init" => /\ ~allocating_new_file'
                                     /\ Len(files') = Len(files)
                                     /\ task.dest \notin DOMAIN file_metadata'
  PROVE  CInv'
<1>1. files' \in Seq(FileInfo)
  BY DEF CompactionTypeOK, TypeOK
<1>2. /\ RecordsInFiles'
      /\ NoOverlap'
      /\ NotYetDurable'
      /\ IsFiniteSet(inflight') /\ IsFiniteSet(disk')
      /\ \A w \in inflight' : /\ files'[w.file + 1].blob_opened
                              /\ files'[w.file + 1].state # "deleted"
  BY <1>1, RecordsStay
<1>3. FiniteRecords' /\ WritesToLiveFiles'
  BY <1>2 DEF CInv, FiniteRecords, WritesToLiveFiles
<1>4. EntriesReadable'
  BY IndexStays
<1>5. ReadsAccountedFor'
  BY ReadsStay
<1>6. TaskFiles' /\ RetriesLeft' /\ ChunkInSource' /\ SourceStays'
      /\ CopiesInPlace'
  BY <1>1, TaskUndisturbed
<1>7. DestEntries'
  BY DEF CInv, DestEntries, Running, Find
<1> QED
  BY <1>2, <1>3, <1>4, <1>5, <1>6, <1>7 DEF CInv

(* A step that neither places nor takes a write nor touches the vector.     *)
LEMMA FilesAsTheyAre ==
  ASSUME CInv, UNCHANGED <<files, active_file_id>>
  PROVE  /\ \A f : Known(f) => FileKept(f)
         /\ files'[active_file_id' + 1].state # "deleted"
<1>1. ASSUME NEW f, Known(f)
      PROVE  FileKept(f)
  <2>1. files[f + 1].write_offset \in Nat /\ f < Len(files)
    BY <1>1, KnownPlace
  <2> QED
    BY <2>1 DEF FileKept
<1> QED
  BY <1>1 DEF CInv, WritesToLiveFiles

(* A submission places its write at the end of the active file.             *)
LEMMA SubmitKeeps ==
  ASSUME CInv, NEW r \in Request, Submit(r),
         UNCHANGED <<next_file_id, active_file_id, allocVars, disk, mem_index,
                     reads, compactionVars, alloc_file>>,
         pending_write_queue' \in Seq(Request), draining' \in Seq(Request),
         global_sequence' \in 0 .. MaxSequence
  PROVE  CInv'
<1> DEFINE w == Placed(r)
<1>1. TypeOK /\ FilesInOrder /\ Len(files) \in Nat
  BY DEF CInv, CompactionTypeOK, TypeOK
<1>2. UNCHANGED <<next_file_id, active_file_id, alloc_stage,
                  allocating_new_file, task, pending_tasks, compaction_paused,
                  file_metadata>>
  BY DEF allocVars, compactionVars
<1>3. /\ files' \in Seq(FileInfo)
      /\ FilesInOrder'
      /\ Len(files') = Len(files)
      /\ \A i \in 1 .. Len(files) :
           /\ files'[i].state = files[i].state
           /\ files'[i].blob_opened = files[i].blob_opened
           /\ i # Active => files'[i] = files[i]
      /\ files'[Active].write_offset = files[Active].write_offset + r.pages
      /\ w \in Write
      /\ inflight' = inflight \/ inflight' = inflight \cup {w}
      /\ replies' \in [Sequence -> Seq(Statuses)]
  BY <1>1, <1>2, Advancing
<1>4. /\ Known(active_file_id) /\ Active = active_file_id + 1
      /\ active_file_id + 1 \in 1 .. Len(files)
      /\ files[Active].write_offset \in Nat /\ r.pages \in Nat
      /\ files[Active].write_offset >= 1
      /\ files[Active].blob_opened
      /\ files[Active].state # "deleted"
  <2>1. Known(active_file_id) /\ Active = active_file_id + 1
    BY ActiveKnown
  <2>2. /\ active_file_id + 1 \in 1 .. Len(files)
        /\ files[Active].write_offset \in Nat
    BY <2>1, KnownPlace
  <2>3. files[Active].write_offset >= 1 /\ files[Active].blob_opened
    BY <1>1, <2>1, <2>2 DEF FilesInOrder
  <2>4. r.pages \in Nat
    BY DEF Request
  <2> QED
    BY <2>1, <2>2, <2>3, <2>4 DEF CInv, WritesToLiveFiles
<1>5. PlacedAtEnd(w)
  <2>1. /\ w.file = active_file_id
        /\ w.offset = files[Active].write_offset
        /\ w.pages = r.pages
    BY DEF Placed
  <2>2. Running => active_file_id # task.dest
    BY DEF CInv, TaskFiles
  <2> HIDE DEF w
  <2>3. w.offset + w.pages <= files'[w.file + 1].write_offset
    BY <1>3, <1>4, <2>1
  <2> QED
    BY <1>3, <1>4, <2>1, <2>2, <2>3 DEF PlacedAtEnd
<1> HIDE DEF w
<1>6. ASSUME NEW f, Known(f)
      PROVE  FileKept(f)
  <2>1. f + 1 \in 1 .. Len(files) /\ f < Len(files)
        /\ files[f + 1].write_offset \in Nat
    BY <1>6, KnownPlace
  <2>2. files'[f + 1].write_offset >= files[f + 1].write_offset
    BY <1>3, <1>4, <2>1
  <2> QED
    BY <1>3, <2>1, <2>2 DEF FileKept
<1>7. CompactionTypeOK'
  <2>1. inflight' \subseteq Write
    BY <1>1, <1>3 DEF TypeOK
  <2>2. TypeOK'
    BY <1>1, <1>2, <1>3, <2>1 DEF TypeOK
  <2> QED
    BY <1>2, <2>2 DEF CInv, CompactionTypeOK, Used
<1>8. AllocationInOrder' /\ KnownFiles'
  <2>1. Len(files) \in 1 .. Len(files)
    BY <1>1, <1>4
  <2>2. files'[Len(files')].state = files[Len(files)].state
    BY <1>3, <2>1
  <2> QED
    BY <1>2, <1>3, <2>2
    DEF CInv, AllocationInOrder, KnownFiles, Running
<1>9. files'[active_file_id' + 1].state # "deleted"
  BY <1>2, <1>3, <1>4
<1>10. Running => files'[task.dest + 1] = files[task.dest + 1]
  <2> SUFFICES ASSUME Running
               PROVE  files'[task.dest + 1] = files[task.dest + 1]
    OBVIOUS
  <2>1. task.dest + 1 \in 1 .. Len(files) /\ task.dest \in Nat
    BY TaskFilesKnown, KnownPlace
  <2>2. task.dest + 1 # Active
    BY <1>1, <1>4, <2>1 DEF CInv, TaskFiles, TypeOK
  <2> QED
    BY <1>3, <2>1, <2>2
<1>11. IsFiniteSet({w})
  BY FS_Singleton
<1>12. inflight' \subseteq inflight \cup {w}
  BY <1>3
<1>13. Running =>
         /\ active_file_id' # task.dest
         /\ files'[task.dest + 1] = files[task.dest + 1]
         /\ task.state = "init" => /\ ~allocating_new_file'
                                   /\ Len(files') = Len(files)
                                   /\ task.dest \notin DOMAIN file_metadata'
  BY <1>2, <1>3, <1>10 DEF CInv, TaskFiles
<1> QED
  BY <1>2, <1>3, <1>5, <1>6, <1>7, <1>8, <1>9, <1>11, <1>12, <1>13, EngineStep

(* The queues, the counters and the replies: nothing a record depends on.   *)
LEMMA OnlyQueuesMove ==
  ASSUME CInv,
         UNCHANGED <<files, next_file_id, active_file_id, allocVars, inflight,
                     disk, mem_index, compactionVars, alloc_file>>,
         reads' \subseteq reads,
         pending_write_queue' \in Seq(Request), draining' \in Seq(Request),
         global_sequence' \in 0 .. MaxSequence,
         replies' \in [Sequence -> Seq(Statuses)]
  PROVE  CInv'
<1>1. UNCHANGED <<alloc_stage, allocating_new_file, task, pending_tasks,
                  compaction_paused, file_metadata>>
  BY DEF allocVars, compactionVars
<1>2. CompactionTypeOK'
  <2>1. TypeOK'
    BY <1>1 DEF CInv, CompactionTypeOK, TypeOK
  <2> QED
    BY <1>1, <2>1 DEF CInv, CompactionTypeOK, Used
<1>3. FilesInOrder'
  BY <1>1 DEF CInv, FilesInOrder
<1>4. AllocationInOrder' /\ KnownFiles'
  BY <1>1 DEF CInv, AllocationInOrder, KnownFiles, Running
<1>5. /\ \A f : Known(f) => FileKept(f)
      /\ files'[active_file_id' + 1].state # "deleted"
  BY FilesAsTheyAre
<1>6. IsFiniteSet({})
  BY FS_EmptySet
<1>7. Running =>
         /\ active_file_id' # task.dest
         /\ files'[task.dest + 1] = files[task.dest + 1]
         /\ task.state = "init" => /\ ~allocating_new_file'
                                   /\ Len(files') = Len(files)
                                   /\ task.dest \notin DOMAIN file_metadata'
  BY <1>1 DEF CInv, TaskFiles
<1> DEFINE W == {}
<1>8. /\ \A w \in W : PlacedAtEnd(w)
      /\ \A v, w \in W : v = w
      /\ inflight' \subseteq inflight \cup W
      /\ IsFiniteSet(W)
  BY <1>6
<1> HIDE DEF W
<1> QED
  BY <1>1, <1>2, <1>3, <1>4, <1>5, <1>7, <1>8, EngineStep

(* put_async or delete_async asks for a new file: the active file is sealed *)
(* and, unless the AllocLog is near full, an empty file is pushed.          *)
LEMMA AllocateKeeps ==
  ASSUME CInv, NEW queue \in Seq(Request), ~allocating_new_file, ~InAllocation,
         AllocateNewFileAsync(SealActive, queue), HandsOver,
         UNCHANGED <<active_file_id, inflight, draining, disk, mem_index, reads,
                     compactionVars>>,
         global_sequence' \in 0 .. MaxSequence
  PROVE  CInv'
<1>1. /\ TypeOK /\ FilesInOrder /\ Len(files) \in Nat
      /\ active_file_id \in Nat /\ next_file_id = Len(files)
      /\ alloc_stage = "none"
  BY DEF CInv, CompactionTypeOK, TypeOK, FilesInOrder, AllocationInOrder
<1>2. UNCHANGED <<task, pending_tasks, compaction_paused, file_metadata>>
  BY DEF compactionVars
<1>3. /\ SealActive \in Seq(FileInfo)
      /\ Len(SealActive) = Len(files)
      /\ \A i \in 1 .. Len(files) :
           /\ SealActive[i].file_id = files[i].file_id
           /\ SealActive[i].write_offset = files[i].write_offset
           /\ SealActive[i].blob_opened = files[i].blob_opened
           /\ SealActive[i].state = IF i = Active THEN "sealed"
                                    ELSE files[i].state
           /\ i # Active => SealActive[i] = files[i]
  BY <1>1, Sealing
<1>4. /\ files' \in Seq(FileInfo)
      /\ next_file_id' \in Nat
      /\ allocating_new_file' \in BOOLEAN
      /\ alloc_stage' \in {"none", "blob", "header"}
      /\ pending_write_queue' \in Seq(Request)
      /\ replies' \in [Sequence -> Seq(Statuses)]
      /\ FilesInOrder'
  BY <1>1, <1>3, Allocating
<1>5. /\ Known(active_file_id) /\ Active = active_file_id + 1
      /\ active_file_id + 1 \in 1 .. Len(files)
  BY ActiveKnown, KnownPlace
<1>6. /\ Len(files') >= Len(files)
      /\ \A i \in 1 .. Len(files) : files'[i] = SealActive[i]
      /\ \/ files' = SealActive /\ UNCHANGED <<alloc_stage, allocating_new_file>>
         \/ /\ alloc_stage' = "blob" /\ allocating_new_file'
            /\ Len(files') = Len(files) + 1
            /\ files'[Len(files) + 1].state = "active"
  <2>1. CASE files' = SealActive /\ UNCHANGED allocVars
    BY <1>1, <1>3, <2>1 DEF allocVars
  <2>2. CASE /\ files' = Append(SealActive, NewFile(next_file_id))
             /\ alloc_stage' = "blob" /\ allocating_new_file' = TRUE
    <3> DEFINE nf == NewFile(next_file_id)
    <3>1. nf \in FileInfo /\ nf.state = "active"
      BY <1>1 DEF NewFile, FileInfo, FileStates
    <3> HIDE DEF nf
    <3>2. files' = Append(SealActive, nf)
      BY <2>2 DEF nf
    <3>3. /\ Len(files') = Len(files) + 1
          /\ \A i \in 1 .. Len(files) : files'[i] = SealActive[i]
          /\ files'[Len(files) + 1] = nf
      BY <1>1, <1>3, <3>1, <3>2
    <3> QED
      BY <1>1, <2>2, <3>1, <3>3
  <2> QED
    BY <2>1, <2>2 DEF AllocateNewFileAsync
<1>7. ASSUME NEW f, Known(f)
      PROVE  FileKept(f)
  <2>1. f + 1 \in 1 .. Len(files) /\ f < Len(files) /\ f \in Nat
        /\ files[f + 1].write_offset \in Nat
    BY <1>7, KnownPlace
  <2>2. files'[f + 1] = SealActive[f + 1]
    BY <1>6, <2>1
  <2>3. f < Len(files')
    BY <1>1, <1>6, <2>1
  <2>4. f + 1 = Active => files[f + 1].state # "deleted"
    BY <1>5 DEF CInv, WritesToLiveFiles
  <2>5. SealActive[f + 1].write_offset = files[f + 1].write_offset
    BY <1>3, <2>1
  <2>6. SealActive[f + 1].blob_opened = files[f + 1].blob_opened
    BY <1>3, <2>1
  <2>7. SealActive[f + 1].state = IF f + 1 = Active THEN "sealed"
                                  ELSE files[f + 1].state
    BY <1>3, <2>1
  <2> QED
    BY <2>1, <2>2, <2>3, <2>4, <2>5, <2>6, <2>7 DEF FileKept
<1>8. CompactionTypeOK'
  <2>1. alloc_file' \in Nat
    BY <1>1 DEF CInv, CompactionTypeOK, HandsOver
  <2>2. TypeOK'
    BY <1>1, <1>4 DEF TypeOK
  <2> QED
    BY <1>2, <2>1, <2>2 DEF CInv, CompactionTypeOK, Used
<1>9. KnownFiles'
  BY <1>1, <1>2, <1>6 DEF CInv, KnownFiles
<1>10. AllocationInOrder'
  <2>1. CASE UNCHANGED <<alloc_stage, allocating_new_file>>
    BY <1>1, <2>1 DEF CInv, AllocationInOrder
  <2>2. CASE /\ alloc_stage' = "blob" /\ allocating_new_file'
             /\ Len(files') = Len(files) + 1
             /\ files'[Len(files) + 1].state = "active"
    <3>1. alloc_file' = Len(files') - 1
      BY <1>1, <2>2 DEF HandsOver
    <3>2. Len(files') - 1 \notin DOMAIN file_metadata
      BY <1>1, <2>2 DEF CInv, KnownFiles
    <3>3. Running => task.dest # Len(files') - 1
      BY <1>1, <2>2, TaskFilesKnown, KnownPlace
    <3> QED
      BY <1>2, <2>2, <3>1, <3>2, <3>3 DEF AllocationInOrder, Running
  <2> QED
    BY <1>6, <2>1, <2>2
<1>11. Running =>
         /\ active_file_id' # task.dest
         /\ files'[task.dest + 1] = files[task.dest + 1]
         /\ task.state # "init"
  <2> SUFFICES ASSUME Running
               PROVE  /\ active_file_id' # task.dest
                      /\ files'[task.dest + 1] = files[task.dest + 1]
                      /\ task.state # "init"
    OBVIOUS
  <2>1. task.dest + 1 \in 1 .. Len(files) /\ task.dest \in Nat
    BY TaskFilesKnown, KnownPlace
  <2>2. active_file_id' # task.dest /\ task.dest + 1 # Active
    BY <1>1, <1>5, <2>1 DEF CInv, TaskFiles
  <2>3. task.state # "init"
    BY DEF InAllocation, Running
  <2> QED
    BY <1>3, <1>6, <2>1, <2>2, <2>3
<1>12. files'[active_file_id' + 1].state # "deleted"
  <2>1. FileKept(active_file_id)
    BY <1>5, <1>7
  <2> QED
    BY <2>1 DEF FileKept, CInv, WritesToLiveFiles
<1> DEFINE W == {}
<1>13. /\ \A w \in W : PlacedAtEnd(w)
       /\ \A v, w \in W : v = w
       /\ inflight' \subseteq inflight \cup W
       /\ IsFiniteSet(W)
  BY FS_EmptySet
<1> HIDE DEF W
<1> QED
  BY <1>2, <1>4, <1>7, <1>8, <1>9, <1>10, <1>11, <1>12, <1>13, EngineStep

(* put_async and delete_async from the sequence number on.                  *)
LEMMA AcceptKeeps ==
  ASSUME CInv, NEW r \in Request, Accept(r), ~InAllocation, HandsOver,
         UNCHANGED compactionVars
  PROVE  CInv'
<1>1. global_sequence' \in 0 .. MaxSequence
  BY PathAssumption DEF Accept, Request, Sequence
<1>2. UNCHANGED <<active_file_id, draining, disk, mem_index, reads>>
  BY DEF Accept, dataVars
<1>3. Append(pending_write_queue, r) \in Seq(Request)
      /\ pending_write_queue \in Seq(Request) /\ draining \in Seq(Request)
      /\ replies \in [Sequence -> Seq(Statuses)]
  BY DEF CInv, CompactionTypeOK, TypeOK
<1>4. CASE /\ Submit(r)
           /\ UNCHANGED <<next_file_id, allocVars, pending_write_queue>>
  <2>1. UNCHANGED alloc_file
    BY <1>4 DEF HandsOver, allocVars
  <2> QED
    BY <1>1, <1>2, <1>3, <1>4, <2>1, SubmitKeeps
<1>5. CASE /\ pending_write_queue' = Append(pending_write_queue, r)
           /\ UNCHANGED <<files, next_file_id, allocVars, inflight, replies>>
  <2>1. UNCHANGED alloc_file
    BY <1>5 DEF HandsOver, allocVars
  <2> QED
    BY <1>1, <1>2, <1>3, <1>5, <2>1, OnlyQueuesMove
<1>6. CASE /\ ~allocating_new_file
           /\ AllocateNewFileAsync(SealActive, Append(pending_write_queue, r))
           /\ UNCHANGED inflight
  BY <1>1, <1>2, <1>3, <1>6, AllocateKeeps
<1> QED
  BY <1>4, <1>5, <1>6 DEF Accept

(* What find returns after a completion it returned before, or it is the    *)
(* entry of the write.                                                      *)
LEMMA LiveEntries ==
  ASSUME TypeOK, NEW w \in Write,
         mem_index' = IF w.kind = "put" THEN Upsert(w) ELSE Remove(w.key),
         NEW k \in Keys, Find(k)'
  PROVE  \/ w.kind = "put" /\ k = w.key /\ mem_index'[k] = EntryOf(w)
         \/ Find(k) /\ mem_index'[k] = mem_index[k]
<1>1. mem_index \in [Keys -> Entry \cup {NoEntry}] /\ w.key \in Keys
  BY WriteFields DEF TypeOK
<1>2. CASE mem_index' = mem_index
  BY <1>2 DEF Find
<1>3. CASE w.kind = "put" /\ mem_index' = [mem_index EXCEPT ![w.key] = EntryOf(w)]
  BY <1>1, <1>3 DEF Find
<1>4. CASE Find(w.key) /\ mem_index' = [mem_index EXCEPT ![w.key].deleted = TRUE]
  <2>1. k # w.key
    <3> SUFFICES ASSUME k = w.key PROVE FALSE
      OBVIOUS
    <3>1. mem_index[k] \in Entry
      BY <1>1 , <1>4 DEF Find
    <3>2. mem_index'[k] = [mem_index[k] EXCEPT !.deleted = TRUE]
      BY <1>1, <1>4
    <3>3. mem_index'[k].deleted
      BY <3>1, <3>2 DEF Entry
    <3> QED
      BY <3>3 DEF Find
  <2> QED
    BY <1>1, <1>4, <2>1 DEF Find
<1> QED
  BY <1>2, <1>3, <1>4 DEF Upsert, Remove

(* A write in flight has its pages for itself.                              *)
LEMMA NoneUnder ==
  ASSUME CInv, NEW w \in inflight
  PROVE  { d \in disk : ~Overlap(d, w) } = disk
BY DEF CInv, NoOverlap, NotYetDurable

(* on_put_async_write_complete and its kin, with any status.                *)
LEMMA CompletionKeeps ==
  ASSUME CInv, NEW w \in inflight, WriteComplete(w) \/ WriteFailed(w),
         HandsOver, UNCHANGED compactionVars
  PROVE  CInv'
<1>1. TypeOK /\ w \in Write /\ w.seq \in Sequence
  BY WriteFields DEF CInv, CompactionTypeOK, TypeOK
<1>2. /\ UNCHANGED <<files, next_file_id, active_file_id, allocating_new_file,
                     alloc_stage, pending_write_queue, draining,
                     global_sequence, reads, task, pending_tasks,
                     compaction_paused, file_metadata, alloc_file>>
      /\ inflight' = inflight \ {w}
  BY DEF WriteComplete, WriteFailed, fileVars, allocVars, queueVars, HandsOver,
         compactionVars
<1>3. \/ /\ disk' = disk \cup {w}
         /\ mem_index' = IF w.kind = "put" THEN Upsert(w) ELSE Remove(w.key)
      \/ disk' = disk /\ mem_index' = mem_index
  BY NoneUnder DEF WriteComplete, WriteFailed
<1>4. replies' \in [Sequence -> Seq(Statuses)]
  <2>1. \/ replies' = Reply(w.seq, "ok")
        \/ replies' = Reply(w.seq, "io_error")
    BY DEF WriteComplete, WriteFailed
  <2>2. /\ replies \in [Sequence -> Seq(Statuses)]
        /\ "ok" \in Statuses /\ "io_error" \in Statuses
    BY <1>1 DEF TypeOK, Statuses
  <2>3. /\ Append(replies[w.seq], "ok") \in Seq(Statuses)
        /\ Append(replies[w.seq], "io_error") \in Seq(Statuses)
    BY <1>1, <2>2
  <2> HIDE DEF Statuses, Sequence
  <2> QED
    BY <1>1, <2>1, <2>2, <2>3 DEF Reply
<1>5. /\ inflight' \cup disk' \subseteq inflight \cup disk
      /\ inflight' \subseteq inflight
      /\ disk' \subseteq Write /\ inflight' \subseteq Write
      /\ disk \subseteq disk' /\ disk' \subseteq inflight \cup disk
  BY <1>1, <1>2, <1>3 DEF TypeOK
<1>6. mem_index' \in [Keys -> Entry \cup {NoEntry}]
  <2>1. mem_index \in [Keys -> Entry \cup {NoEntry}]
    BY <1>1 DEF TypeOK
  <2> QED
    BY <1>1, <1>3, <2>1, Indexing
<1>7. Running' = Running /\ Used' = Used
      /\ \A f : Frontier(f)' = Frontier(f)
  BY <1>2 DEF Running, Used, Frontier
<1>8. CompactionTypeOK'
  <2>1. TypeOK'
    BY <1>1, <1>2, <1>4, <1>5, <1>6 DEF TypeOK
  <2> QED
    BY <1>2, <1>7, <2>1 DEF CInv, CompactionTypeOK
<1>9. FilesInOrder' /\ AllocationInOrder' /\ KnownFiles' /\ WritesToLiveFiles'
  BY <1>2, <1>5, <1>7
  DEF CInv, FilesInOrder, AllocationInOrder, KnownFiles, WritesToLiveFiles
<1>10. RecordsInFiles'
  BY <1>2, <1>5, <1>7 DEF CInv, RecordsInFiles
<1>11. FiniteRecords'
  <2>1. IsFiniteSet(disk \cup inflight)
    BY FS_Union DEF CInv, FiniteRecords
  <2> QED
    BY <1>2, <1>5, <2>1, FS_Subset DEF CInv, FiniteRecords
<1>12. NoOverlap' /\ NotYetDurable'
  BY <1>2, <1>3, <1>5 DEF CInv, NoOverlap, NotYetDurable, Overlap
<1>13. TaskFiles' /\ RetriesLeft' /\ ChunkInSource' /\ SourceStays'
       /\ CopiesInPlace'
  <2> DEFINE W == {}
  <2>1. /\ \A v \in W : PlacedAtEnd(v)
        /\ inflight' \subseteq inflight \cup W
    BY <1>5
  <2> HIDE DEF W
  <2>2. \A f : Known(f) => FileKept(f)
    BY <1>2, FilesAsTheyAre
  <2>3. files' \in Seq(FileInfo)
    BY <1>1, <1>2 DEF TypeOK
  <2>4. Running =>
           /\ active_file_id' # task.dest
           /\ files'[task.dest + 1] = files[task.dest + 1]
           /\ task.state = "init" => /\ ~allocating_new_file'
                                     /\ Len(files') = Len(files)
                                     /\ task.dest \notin DOMAIN file_metadata'
    BY <1>2 DEF CInv, TaskFiles
  <2>5. DOMAIN file_metadata \subseteq DOMAIN file_metadata'
    BY <1>2
  <2> QED
    BY <1>2, <1>5, <2>1, <2>2, <2>3, <2>4, <2>5, TaskUndisturbed
<1>14. ASSUME NEW k \in Keys, Find(k)'
       PROVE  \/ /\ mem_index' [k] = EntryOf(w) /\ w.kind = "put" /\ k = w.key
                 /\ w \in disk'
              \/ Find(k) /\ mem_index'[k] = mem_index[k]
  BY <1>1, <1>3, <1>14, LiveEntries DEF Find
<1>15. DestEntries'
  <2> SUFFICES ASSUME Running, NEW k \in Keys, Find(k)',
                      mem_index'[k].file = task.dest
               PROVE  \E m \in task.committed :
                         m.key = k /\ m.to = mem_index'[k].offset
    BY <1>2, <1>7 DEF DestEntries
  <2>1. mem_index'[k] # EntryOf(w)
    BY DEF CInv, TaskFiles, EntryOf
  <2> QED
    BY <1>14, <2>1 DEF CInv, DestEntries
<1>16. EntriesReadable'
  <2> SUFFICES ASSUME NEW k \in Keys, Find(k)'
               PROVE  /\ \E d \in disk' :
                           /\ d.kind = "put" /\ d.key = k
                           /\ d.seq = mem_index'[k].seq
                           /\ d.file = mem_index'[k].file
                           /\ d.offset = mem_index'[k].offset
                           /\ d.pages = mem_index'[k].pages
                      /\ files[mem_index'[k].file + 1].blob_opened
                      /\ files[mem_index'[k].file + 1].state # "deleted"
    BY <1>2 DEF EntriesReadable
  <2>1. CASE mem_index'[k] = EntryOf(w) /\ w.kind = "put" /\ k = w.key
             /\ w \in disk'
    <3>1. /\ w.seq = mem_index'[k].seq /\ w.file = mem_index'[k].file
          /\ w.offset = mem_index'[k].offset /\ w.pages = mem_index'[k].pages
      BY <2>1 DEF EntryOf
    <3> QED
      BY <2>1, <3>1 DEF CInv, WritesToLiveFiles
  <2>2. CASE Find(k) /\ mem_index'[k] = mem_index[k]
    BY <1>5, <2>2 DEF CInv, EntriesReadable
  <2> QED
    BY <1>14, <2>1, <2>2
<1>17. ReadsAccountedFor'
  BY <1>2, <1>5 DEF CInv, ReadsAccountedFor
<1> QED
  BY <1>8, <1>9, <1>10, <1>11, <1>12, <1>13, <1>15, <1>16, <1>17 DEF CInv

(* A step that moves no file, no record, no entry and not the task.         *)
LEMMA NothingMoves ==
  ASSUME CInv,
         UNCHANGED <<files, next_file_id, active_file_id, allocVars, inflight,
                     disk, mem_index, task, file_metadata, alloc_file>>,
         CompactionTypeOK', ReadsAccountedFor'
  PROVE  CInv'
<1>1. UNCHANGED <<alloc_stage, allocating_new_file>>
  BY DEF allocVars
<1>2. /\ Running' = Running /\ Used' = Used
      /\ \A f : Frontier(f)' = Frontier(f)
      /\ \A v, w : Overlap(v, w)' = Overlap(v, w)
      /\ \A m, n : Apart(m, n)' = Apart(m, n)
      /\ \A m : Copy(m)' = Copy(m)
      /\ \A k : Find(k)' = Find(k)
  BY DEF Running, Used, Frontier, Overlap, Apart, Copy, Find
<1>3. FilesInOrder' /\ AllocationInOrder' /\ KnownFiles' /\ WritesToLiveFiles'
  BY <1>1, <1>2
  DEF CInv, FilesInOrder, AllocationInOrder, KnownFiles, WritesToLiveFiles
<1>4. RecordsInFiles' /\ FiniteRecords' /\ NoOverlap' /\ NotYetDurable'
  BY <1>2 DEF CInv, RecordsInFiles, FiniteRecords, NoOverlap, NotYetDurable
<1>5. TaskFiles' /\ RetriesLeft'
  BY <1>1, <1>2 DEF CInv, TaskFiles, RetriesLeft
<1>6. ChunkInSource' /\ SourceStays' /\ CopiesInPlace'
  BY <1>2 DEF CInv, ChunkInSource, SourceStays, CopiesInPlace
<1>7. DestEntries' /\ EntriesReadable'
  BY <1>2 DEF CInv, DestEntries, EntriesReadable
<1> QED
  BY <1>3, <1>4, <1>5, <1>6, <1>7 DEF CInv

(* get_async remembers a live entry.                                        *)
LEMMA GetKeeps ==
  ASSUME CInv, NEW k \in Keys, GetAsync(k), HandsOver, UNCHANGED compactionVars
  PROVE  CInv'
<1> DEFINE r == [key |-> k, file |-> mem_index[k].file,
                 pages |-> mem_index[k].pages,
                 offset |-> mem_index[k].offset, seq |-> mem_index[k].seq]
<1>1. /\ UNCHANGED <<files, next_file_id, active_file_id, allocVars, inflight,
                     disk, mem_index, task, pending_tasks, compaction_paused,
                     file_metadata, alloc_file, pending_write_queue, draining,
                     global_sequence, replies>>
      /\ UNCHANGED <<allocating_new_file, alloc_stage>>
      /\ reads' = reads \cup {r}
      /\ Find(k)
  BY DEF GetAsync, fileVars, dataVars, allocVars, queueVars, compactionVars,
         HandsOver
<1>2. mem_index[k] \in Entry /\ Known(mem_index[k].file)
  BY <1>1, EntriesKnown
<1>3. r \in Read
  BY <1>2 DEF Read, Entry
<1>4. /\ r.key = k /\ r.file = mem_index[k].file
      /\ r.pages = mem_index[k].pages
      /\ r.offset = mem_index[k].offset /\ r.seq = mem_index[k].seq
  OBVIOUS
<1> HIDE DEF r
<1>5. CompactionTypeOK'
  <2>1. TypeOK'
    BY <1>1, <1>3 DEF CInv, CompactionTypeOK, TypeOK
  <2> QED
    BY <1>1, <2>1 DEF CInv, CompactionTypeOK, Used
<1>6. r.file < Len(files)
  BY <1>2, <1>4, KnownPlace
<1>7. \E d \in disk :
        /\ d.kind = "put" /\ d.key = r.key /\ d.seq = r.seq
        /\ d.file = r.file /\ d.offset = r.offset /\ d.pages = r.pages
  BY <1>1, <1>4 DEF CInv, EntriesReadable
<1>8. ReadsAccountedFor'
  BY <1>1, <1>6, <1>7 DEF CInv, ReadsAccountedFor
<1> QED
  BY <1>1, <1>5, <1>8, NothingMoves

LEMMA RequestPathKeeps ==
  ASSUME CInv, RequestPath
  PROVE  CInv'
<1>1. HandsOver /\ UNCHANGED compactionVars
  BY DEF RequestPath
<1>2. global_sequence \in 0 .. MaxSequence /\ MaxSequence \in Nat
      /\ draining \in Seq(Request) /\ pending_write_queue \in Seq(Request)
      /\ replies \in [Sequence -> Seq(Statuses)]
  BY PathAssumption DEF CInv, CompactionTypeOK, TypeOK
<1>3. ASSUME ~InAllocation, NEW k \in Keys, NEW n \in PutPages, PutAsync(k, n)
      PROVE  CInv'
  <2> DEFINE r == [seq |-> global_sequence + 1, key |-> k, kind |-> "put",
                   pages |-> n]
  <2>1. r \in Request
    BY <1>2, <1>3, PathAssumption DEF PutAsync, Request, Kinds, Sequence
  <2>2. Accept(r)
    BY <1>3 DEF PutAsync
  <2> HIDE DEF r
  <2> QED
    BY <1>1, <1>3, <2>1, <2>2, AcceptKeeps
<1>4. ASSUME ~InAllocation, NEW k \in Keys, DeleteAsync(k)
      PROVE  CInv'
  <2> DEFINE r == [seq |-> global_sequence + 1, key |-> k, kind |-> "delete",
                   pages |-> 1]
  <2>1. r \in Request
    BY <1>2, <1>4 DEF DeleteAsync, Request, Kinds, Sequence
  <2>2. Accept(r)
    BY <1>4 DEF DeleteAsync
  <2> HIDE DEF r
  <2> QED
    BY <1>1, <1>4, <2>1, <2>2, AcceptKeeps
<1>5. ASSUME NEW k \in Keys, GetAsync(k)
      PROVE  CInv'
  BY <1>1, <1>5, GetKeeps
<1>6. CASE SubmitQueuedWrite
  <2>1. Head(draining) \in Request /\ Tail(draining) \in Seq(Request)
    BY <1>2, <1>6 DEF SubmitQueuedWrite
  <2>2. UNCHANGED <<disk, mem_index, allocating_new_file, alloc_file>>
    BY <1>1, <1>6 DEF SubmitQueuedWrite, dataVars, allocVars, HandsOver
  <2> QED
    BY <1>1, <1>2, <1>6, <2>1, <2>2, SubmitKeeps DEF SubmitQueuedWrite
<1>7. ASSUME NEW w \in inflight, WriteComplete(w) \/ WriteFailed(w)
      PROVE  CInv'
  BY <1>1, <1>7, CompletionKeeps
<1>8. ASSUME NEW r \in reads, GetComplete(r)
      PROVE  CInv'
  <2>1. /\ UNCHANGED <<files, next_file_id, active_file_id, allocVars, inflight,
                       disk, mem_index, alloc_file, pending_write_queue,
                       draining, global_sequence, replies>>
        /\ reads' \subseteq reads
    BY <1>1, <1>8 DEF GetComplete, fileVars, dataVars, allocVars, queueVars,
                      HandsOver
  <2> QED
    BY <1>1, <1>2, <2>1, OnlyQueuesMove
<1> QED
  BY <1>3, <1>4, <1>5, <1>6, <1>7, <1>8 DEF RequestPath, Calls, Completion

-----------------------------------------------------------------------------
(* The steps of an allocation and of the scheduler                          *)

(* One file of the vector changes, its id does not.                         *)
LEMMA OneFile ==
  ASSUME TypeOK, FilesInOrder, NEW i \in 1 .. Len(files), NEW f1 \in FileInfo,
         files' = [files EXCEPT ![i] = f1],
         f1.file_id = files[i].file_id, f1.write_offset >= 1,
         UNCHANGED <<next_file_id, active_file_id>>,
         i = active_file_id + 1 => f1.blob_opened,
         alloc_stage' \in {"none", "blob", "header"},
         alloc_stage' # "none" /\ i = Len(files) =>
           /\ f1.write_offset = 1
           /\ alloc_stage' = "header" => f1.blob_opened,
         alloc_stage' # "none" => alloc_stage # "none",
         alloc_stage' = "header" => alloc_stage = "header" \/ i = Len(files)
  PROVE  /\ files' \in Seq(FileInfo)
         /\ Len(files') = Len(files)
         /\ \A j \in 1 .. Len(files) :
              files'[j] = IF j = i THEN f1 ELSE files[j]
         /\ FilesInOrder'
<1>1. files \in Seq(FileInfo) /\ Len(files) \in Nat /\ active_file_id \in Nat
      /\ alloc_stage \in {"none", "blob", "header"}
  BY DEF TypeOK
<1>2. /\ files' \in Seq(FileInfo)
      /\ Len(files') = Len(files)
      /\ \A j \in 1 .. Len(files) :
           files'[j] = IF j = i THEN f1 ELSE files[j]
  BY <1>1
<1>3. \A j \in 1 .. Len(files') : /\ files'[j].file_id = j - 1
                                  /\ files'[j].write_offset >= 1
  BY <1>2 DEF FilesInOrder
<1>4. active_file_id + 1 \in 1 .. Len(files)
  BY <1>1 DEF FilesInOrder
<1>5. files'[active_file_id' + 1].blob_opened
  BY <1>2, <1>4 DEF FilesInOrder
<1>6. ASSUME alloc_stage' # "none"
      PROVE  /\ active_file_id < Len(files) - 1
             /\ files'[Len(files)].write_offset = 1
             /\ alloc_stage' = "header" => files'[Len(files)].blob_opened
  <2>1. alloc_stage \in {"blob", "header"} /\ Len(files) \in 1 .. Len(files)
    BY <1>1, <1>4, <1>6
  <2>2. files'[Len(files)] = IF Len(files) = i THEN f1 ELSE files[Len(files)]
    BY <1>2, <2>1
  <2>3. /\ active_file_id < Len(files) - 1
        /\ files[Len(files)].write_offset = 1
        /\ alloc_stage = "header" => files[Len(files)].blob_opened
    BY <2>1 DEF FilesInOrder
  <2> QED
    BY <1>6, <2>2, <2>3
<1> QED
  BY <1>2, <1>3, <1>5, <1>6 DEF FilesInOrder

(* While a file is allocated for waiting writes no task is in the loop that *)
(* allocates its destination.                                               *)
LEMMA OneAllocation ==
  ASSUME CInv, alloc_stage # "none"
  PROVE  /\ allocating_new_file
         /\ Running => task.state # "init" /\ task.dest # Len(files) - 1
         /\ active_file_id < Len(files) - 1
         /\ Len(files) \in 1 .. Len(files) /\ Len(files) \in Nat
         /\ files[Len(files)] \in FileInfo
         /\ files[Len(files)].file_id = Len(files) - 1
         /\ files[Len(files)].write_offset = 1
         /\ files[Len(files)].state = "active"
         /\ alloc_file = Len(files) - 1
         /\ Len(files) - 1 \notin DOMAIN file_metadata
         /\ ~Known(Len(files) - 1)
<1>1. /\ alloc_stage \in {"blob", "header"} /\ Len(files) \in Nat
      /\ active_file_id \in Nat /\ files \in Seq(FileInfo)
  BY DEF CInv, CompactionTypeOK, TypeOK
<1>2. active_file_id < Len(files) - 1 /\ files[Len(files)].write_offset = 1
  BY <1>1 DEF CInv, FilesInOrder
<1>3. Len(files) \in 1 .. Len(files)
  BY <1>1, <1>2
<1>4. files[Len(files)].file_id = Len(files) - 1
  BY <1>3 DEF CInv, FilesInOrder
<1>5. ~Known(Len(files) - 1)
  BY DEF Known
<1> QED
  BY <1>1, <1>2, <1>3, <1>4, <1>5 DEF CInv, AllocationInOrder, TaskFiles

LEMMA OwnBlobKeeps ==
  ASSUME CInv, OwnBlobOpened, UNCHANGED compactionVars
  PROVE  CInv'
<1> DEFINE n == Len(files)
           f1 == [files[n] EXCEPT !.blob_opened = TRUE]
<1>1. /\ alloc_stage = "blob" /\ alloc_stage' = "header"
      /\ UNCHANGED <<next_file_id, active_file_id, allocating_new_file,
                     pending_write_queue, draining, inflight, disk, mem_index,
                     global_sequence, reads, replies, alloc_file, task,
                     pending_tasks, compaction_paused, file_metadata>>
  BY DEF OwnBlobOpened, queueVars, dataVars, compactionVars
<1>2. TypeOK /\ FilesInOrder
  BY DEF CInv, CompactionTypeOK
<1>3. /\ allocating_new_file
      /\ Running => task.state # "init" /\ task.dest # n - 1
      /\ n \in 1 .. n /\ n \in Nat
      /\ files[n] \in FileInfo
      /\ files[n].file_id = n - 1 /\ files[n].write_offset = 1
      /\ files[n].state = "active"
      /\ alloc_file = n - 1
      /\ n - 1 \notin DOMAIN file_metadata
      /\ ~Known(n - 1)
      /\ active_file_id < n - 1
  BY <1>1, OneAllocation
<1>4. IndexOfFile(alloc_file) = n
  BY <1>2, <1>3, Lookup
<1>5. /\ f1 \in FileInfo /\ f1.file_id = files[n].file_id
      /\ f1.write_offset = 1 /\ f1.state = "active" /\ f1.blob_opened
  BY <1>3 DEF FileInfo, FileStates
<1>6. files' = [files EXCEPT ![n] = f1]
  BY <1>4 DEF OwnBlobOpened, BlobOpenedFor
<1> HIDE DEF f1
<1>7. /\ files' \in Seq(FileInfo)
      /\ Len(files') = n
      /\ \A j \in 1 .. n : files'[j] = IF j = n THEN f1 ELSE files[j]
      /\ FilesInOrder'
  <2>1. /\ f1.write_offset >= 1
        /\ n = active_file_id + 1 => f1.blob_opened
        /\ alloc_stage' \in {"none", "blob", "header"}
        /\ alloc_stage' # "none" /\ n = Len(files) =>
             /\ f1.write_offset = 1
             /\ alloc_stage' = "header" => f1.blob_opened
        /\ alloc_stage' # "none" => alloc_stage # "none"
        /\ alloc_stage' = "header" => alloc_stage = "header" \/ n = Len(files)
    BY <1>1, <1>5
  <2> HIDE DEF n
  <2>2. n \in 1 .. Len(files)
    BY <1>3 DEF n
  <2>3. UNCHANGED <<next_file_id, active_file_id>>
    BY <1>1
  <2>4. /\ files' \in Seq(FileInfo)
        /\ Len(files') = Len(files)
        /\ \A j \in 1 .. Len(files) : files'[j] = IF j = n THEN f1 ELSE files[j]
        /\ FilesInOrder'
    BY <1>2, <1>5, <1>6, <2>1, <2>2, <2>3, OneFile
  <2> QED
    BY <2>4 DEF n
<1>8. ASSUME NEW f, Known(f)
      PROVE  FileKept(f) /\ files'[f + 1] = files[f + 1]
  <2>1. f + 1 \in 1 .. n /\ f \in Nat /\ f < n
        /\ files[f + 1].write_offset \in Nat
    BY <1>8, KnownPlace
  <2>2. f # n - 1
    BY <1>3, <1>8
  <2>3. files'[f + 1] = files[f + 1]
    BY <1>3, <1>7, <2>1, <2>2
  <2> QED
    BY <1>7, <2>1, <2>3 DEF FileKept
<1>9. CompactionTypeOK'
  <2>1. TypeOK'
    BY <1>1, <1>2, <1>7 DEF TypeOK
  <2> QED
    BY <1>1, <2>1 DEF CInv, CompactionTypeOK, Used
<1>10. AllocationInOrder' /\ KnownFiles'
  <2>1. files'[n].state = "active"
    BY <1>3, <1>5, <1>7
  <2> QED
    BY <1>1, <1>3, <1>7, <2>1 DEF CInv, AllocationInOrder, KnownFiles, Running
<1>11. files'[active_file_id' + 1].state # "deleted"
  BY <1>1, <1>8, ActiveKnown DEF CInv, WritesToLiveFiles
<1>12. Running =>
         /\ active_file_id' # task.dest
         /\ files'[task.dest + 1] = files[task.dest + 1]
         /\ task.state # "init"
  BY <1>1, <1>3, <1>8, TaskFilesKnown DEF CInv, TaskFiles
<1> DEFINE W == {}
<1>13. /\ \A w \in W : PlacedAtEnd(w)
       /\ \A v, w \in W : v = w
       /\ inflight' \subseteq inflight \cup W
       /\ IsFiniteSet(W)
  BY <1>1, FS_EmptySet
<1> HIDE DEF W, n
<1> QED
  BY <1>1, <1>7, <1>8, <1>9, <1>10, <1>11, <1>12, <1>13, EngineStep

(* The new file becomes the active one and the scheduler gets to know it.   *)
LEMMA AllocatedKeeps ==
  ASSUME CInv, AllocatedForWrites
  PROVE  CInv'
<1> DEFINE n == Len(files)
<1>1. /\ alloc_stage = "header" /\ alloc_stage' = "none"
      /\ allocating_new_file' = FALSE
      /\ UNCHANGED <<files, next_file_id, inflight, disk, mem_index,
                     global_sequence, reads, alloc_file, task,
                     pending_tasks, compaction_paused>>
  BY DEF AllocatedForWrites, LastFileAllocated, AllocationOver, dataVars
<1>2. TypeOK /\ FilesInOrder
  BY DEF CInv, CompactionTypeOK
<1>3. /\ Running => task.state # "init" /\ task.dest # n - 1
      /\ n \in 1 .. n /\ n \in Nat
      /\ files[n] \in FileInfo
      /\ files[n].file_id = n - 1
      /\ files[n].state = "active"
      /\ n - 1 \notin DOMAIN file_metadata
      /\ ~Known(n - 1)
  BY <1>1, OneAllocation
<1>4. files[n].blob_opened
  BY <1>1, <1>2 DEF FilesInOrder
<1>5. /\ active_file_id' = n - 1
      /\ draining' = pending_write_queue
      /\ replies' = replies
      /\ pending_write_queue' = <<>>
  BY <1>3, <1>4 DEF AllocatedForWrites, LastFileAllocated, LastFile
<1>6. /\ DOMAIN file_metadata' = DOMAIN file_metadata \cup {n - 1}
      /\ \A f \in DOMAIN file_metadata' :
           file_metadata'[f] = IF f = n - 1 THEN "active" ELSE file_metadata[f]
  BY <1>3 DEF AllocatedForWrites, WithState, LastFile
<1>7. CompactionTypeOK'
  <2>1. TypeOK'
    <3>1. /\ active_file_id' \in Nat /\ draining' \in Seq(Request)
          /\ pending_write_queue' \in Seq(Request)
          /\ replies' \in [Sequence -> Seq(Statuses)]
      BY <1>2, <1>3, <1>5 DEF TypeOK
    <3> QED
      BY <1>1, <1>2, <3>1 DEF TypeOK
  <2>2. DOMAIN file_metadata' \subseteq Nat
    BY <1>3, <1>6 DEF CInv, CompactionTypeOK
  <2>3. \A f \in DOMAIN file_metadata' : file_metadata'[f] \in FileStates
    BY <1>6 DEF CInv, CompactionTypeOK, FileStates
  <2> QED
    BY <1>1, <2>1, <2>2, <2>3 DEF CInv, CompactionTypeOK, Used
<1>8. FilesInOrder'
  <2>1. n - 1 < n /\ n - 1 + 1 = n
    BY <1>3
  <2> QED
    BY <1>1, <1>2, <1>4, <1>5, <2>1 DEF FilesInOrder
<1>9. AllocationInOrder' /\ KnownFiles'
  BY <1>1, <1>3, <1>6 DEF CInv, AllocationInOrder, KnownFiles
<1>10. \A f : Known(f) => FileKept(f)
  <2> SUFFICES ASSUME NEW f, Known(f) PROVE FileKept(f)
    OBVIOUS
  <2>1. files[f + 1].write_offset \in Nat /\ f < n
    BY KnownPlace
  <2> QED
    BY <1>1, <2>1 DEF FileKept
<1>11. files'[active_file_id' + 1].state # "deleted"
  <2>1. n - 1 + 1 = n
    BY <1>3
  <2> QED
    BY <1>1, <1>3, <1>5, <2>1
<1>12. Running =>
         /\ active_file_id' # task.dest
         /\ files'[task.dest + 1] = files[task.dest + 1]
         /\ task.state # "init"
  BY <1>1, <1>3, <1>5
<1>14. /\ DOMAIN file_metadata \subseteq DOMAIN file_metadata'
       /\ \A f \in DOMAIN file_metadata' :
            f \in DOMAIN file_metadata \/ ~Known(f)
  BY <1>3, <1>6
<1> DEFINE W == {}
<1>13. /\ \A w \in W : PlacedAtEnd(w)
       /\ \A v, w \in W : v = w
       /\ inflight' \subseteq inflight \cup W
       /\ IsFiniteSet(W)
  BY <1>1, FS_EmptySet
<1> HIDE DEF W, n
<1> QED
  BY <1>1, <1>2, <1>7, <1>8, <1>9, <1>10, <1>11, <1>12, <1>13, <1>14, EngineStep
     DEF TypeOK

(* The rollback of an allocation takes a file nobody refers to.             *)
LEMMA DroppedKeeps ==
  ASSUME CInv, LastFileDropped, UNCHANGED compactionVars
  PROVE  CInv'
<1> DEFINE n == Len(files)
<1>1. /\ alloc_stage # "none" /\ alloc_stage' = "none"
      /\ allocating_new_file' = FALSE
      /\ DropLastFile
      /\ pending_write_queue' = <<>>
      /\ replies' = ReplyAll(pending_write_queue, "no_space")
      /\ UNCHANGED <<active_file_id, draining, inflight, disk, mem_index,
                     global_sequence, reads, alloc_file, task,
                     pending_tasks, compaction_paused, file_metadata>>
  BY DEF LastFileDropped, NewFileFailed, AllocationOver, dataVars,
         compactionVars
<1>2. TypeOK /\ FilesInOrder
  BY DEF CInv, CompactionTypeOK
<1>3. /\ Running => task.state # "init" /\ task.dest # n - 1
      /\ n \in Nat /\ active_file_id < n - 1
      /\ n - 1 \notin DOMAIN file_metadata
      /\ ~Known(n - 1)
  BY <1>1, OneAllocation
<1>4. /\ files' \in Seq(FileInfo)
      /\ Len(files') = n - 1
      /\ \A i \in 1 .. n - 1 : files'[i] = files[i]
      /\ next_file_id' \in Nat
      /\ FilesInOrder'
  BY <1>1, <1>2, <1>3, DroppingLast
<1>5. replies' \in [Sequence -> Seq(Statuses)]
  BY <1>1, <1>2, ReplyingAll DEF Statuses
<1>6. CompactionTypeOK'
  <2>1. TypeOK'
    <3>1. pending_write_queue' \in Seq(Request)
      BY <1>1
    <3> QED
      BY <1>1, <1>2, <1>4, <1>5, <3>1 DEF TypeOK
  <2> QED
    BY <1>1, <2>1 DEF CInv, CompactionTypeOK, Used
<1>7. AllocationInOrder' /\ KnownFiles'
  <2>1. DOMAIN file_metadata \subseteq 0 .. n - 1 - 1
    BY <1>3 DEF CInv, KnownFiles
  <2> QED
    BY <1>1, <1>4, <2>1 DEF CInv, AllocationInOrder, KnownFiles
<1>8. ASSUME NEW f, Known(f)
      PROVE  FileKept(f) /\ files'[f + 1] = files[f + 1]
  <2>1. f + 1 \in 1 .. n /\ f \in Nat /\ f < n
        /\ files[f + 1].write_offset \in Nat
    BY <1>8, KnownPlace
  <2>2. f # n - 1
    BY <1>3, <1>8
  <2>3. files'[f + 1] = files[f + 1] /\ f < n - 1
    BY <1>3, <1>4, <2>1, <2>2
  <2> QED
    BY <1>4, <2>1, <2>3 DEF FileKept
<1>9. files'[active_file_id' + 1].state # "deleted"
  BY <1>1, <1>8, ActiveKnown DEF CInv, WritesToLiveFiles
<1>10. Running =>
         /\ active_file_id' # task.dest
         /\ files'[task.dest + 1] = files[task.dest + 1]
         /\ task.state # "init"
  BY <1>1, <1>3, <1>8, TaskFilesKnown DEF CInv, TaskFiles
<1> DEFINE W == {}
<1>11. /\ \A w \in W : PlacedAtEnd(w)
       /\ \A v, w \in W : v = w
       /\ inflight' \subseteq inflight \cup W
       /\ IsFiniteSet(W)
  BY <1>1, FS_EmptySet
<1> HIDE DEF W, n
<1> QED
  BY <1>1, <1>4, <1>6, <1>7, <1>8, <1>9, <1>10, <1>11, EngineStep

(* schedule_compaction and the priority control touch no file.              *)
LEMMA SchedulingKeeps ==
  ASSUME CInv,
         \/ \E i \in DOMAIN files : ScheduleCompaction(files[i].file_id)
         \/ PriorityControl
  PROVE  CInv'
<1>1. UNCHANGED <<vars, task, file_metadata, alloc_file>>
  BY DEF ScheduleCompaction, PriorityControl
<1>2. UNCHANGED <<files, next_file_id, active_file_id, allocVars, inflight,
                  disk, mem_index, reads>>
  BY <1>1 DEF vars, allocVars
<1>3. compaction_paused' \in BOOLEAN /\ pending_tasks' \in Seq(Nat)
  <2>1. CASE PriorityControl
    BY <2>1 DEF PriorityControl, CInv, CompactionTypeOK
  <2>2. ASSUME NEW i \in DOMAIN files, ScheduleCompaction(files[i].file_id)
        PROVE  compaction_paused' \in BOOLEAN /\ pending_tasks' \in Seq(Nat)
    <3>1. files[i] \in FileInfo
      BY DEF CInv, CompactionTypeOK, TypeOK
    <3>2. files[i].file_id \in Nat
      BY <3>1 DEF FileInfo
    <3> QED
      BY <2>2, <3>2 DEF ScheduleCompaction, CInv, CompactionTypeOK
  <2> QED
    BY <2>1, <2>2
<1>4. TypeOK'
  BY <1>1 DEF CInv, CompactionTypeOK, TypeOK, vars
<1>5. CompactionTypeOK'
  BY <1>1, <1>3, <1>4 DEF CInv, CompactionTypeOK, Used
<1>6. ReadsAccountedFor'
  BY <1>1, <1>2 DEF CInv, ReadsAccountedFor
<1> QED
  BY <1>1, <1>2, <1>5, <1>6, NothingMoves

-----------------------------------------------------------------------------
(* Steps of a task that leave the records where they are                    *)

LEMMA TaskMoves ==
  ASSUME CInv, CompactionTypeOK', FilesInOrder', AllocationInOrder', KnownFiles',
         FiniteRecords', TaskFiles', RetriesLeft', ChunkInSource', SourceStays',
         CopiesInPlace', DestEntries', NotInTransit, NotInTransit',
         UNCHANGED <<inflight, disk, mem_index, reads>>,
         \A f : Known(f) => FileKept(f),
         files'[active_file_id' + 1].state # "deleted",
         \A f \in DOMAIN file_metadata' :
           \/ f \in DOMAIN file_metadata
           \/ ~Known(f)
           \/ files[f + 1].state # "deleted"
  PROVE  CInv'
<1> DEFINE W == {}
<1>1. /\ \A w \in W : PlacedAtEnd(w)
      /\ \A v, w \in W : v = w
      /\ inflight' \subseteq inflight \cup W
      /\ IsFiniteSet(W)
  BY FS_EmptySet
<1> HIDE DEF W
<1>2. files' \in Seq(FileInfo)
  BY DEF CompactionTypeOK, TypeOK
<1>3. /\ RecordsInFiles'
      /\ NoOverlap'
      /\ NotYetDurable'
      /\ \A w \in inflight' : /\ files'[w.file + 1].blob_opened
                              /\ files'[w.file + 1].state # "deleted"
  BY <1>1, <1>2, RecordsStay
<1>4. WritesToLiveFiles'
  BY <1>3 DEF WritesToLiveFiles
<1>5. EntriesReadable'
  BY IndexStays
<1>6. ReadsAccountedFor'
  BY ReadsStay
<1> QED
  BY <1>3, <1>4, <1>5, <1>6 DEF CInv

(* The states in which the task copies records, or waits to go on with it   *)
(* or to take it back.                                                      *)
Working == {"mark_compacting", "read_chunk", "process_entries", "write_chunk",
            "finalize", "mark_deleted", "retry_wait", "rollback"}

LEMMA RequestsWait ==
  ASSUME UNCHANGED requestVars
  PROVE  UNCHANGED <<next_file_id, active_file_id, allocVars, alloc_stage,
                     allocating_new_file, pending_write_queue, draining,
                     inflight, global_sequence, reads, replies, pending_tasks,
                     compaction_paused, alloc_file>>
  BY DEF requestVars, allocVars, queueVars

LEMMA TaskGoes ==
  ASSUME CInv, Running, UNCHANGED <<files, dataVars, requestVars>>,
         DOMAIN file_metadata' = DOMAIN file_metadata,
         \A f \in DOMAIN file_metadata' : file_metadata'[f] \in FileStates,
         task' \in Task, Used' <= ChunkPages,
         IsFiniteSet(task'.chunk), IsFiniteSet(task'.migrated),
         RetriesLeft', ChunkInSource', SourceStays', CopiesInPlace',
         task'.src = task.src, task'.dest = task.dest,
         task'.dest_offset = task.dest_offset,
         task'.committed = task.committed,
         task.state \in Working, task'.state \in Working \cup {"done", "failed"}
  PROVE  CInv'
<1>1. /\ UNCHANGED <<next_file_id, active_file_id, alloc_stage,
                     allocating_new_file, pending_write_queue, draining,
                     inflight, global_sequence, reads, replies, pending_tasks,
                     compaction_paused, alloc_file>>
      /\ UNCHANGED <<files, disk, mem_index>>
  BY RequestsWait DEF dataVars
<1>2. task'.retry_count \in Nat /\ MaxRetryCount \in Nat
  BY CompactionAssumption DEF Task
<1>3. CompactionTypeOK'
  <2>1. TypeOK'
    BY <1>1 DEF CInv, CompactionTypeOK, TypeOK
  <2>2. task' # NoTask => task'.retry_count <= MaxRetryCount
    BY <1>2 DEF RetriesLeft
  <2> QED
    BY <1>1, <2>1, <2>2 DEF CInv, CompactionTypeOK
<1>4. FilesInOrder'
  BY <1>1 DEF CInv, FilesInOrder
<1>5. AllocationInOrder' /\ KnownFiles'
  BY <1>1 DEF CInv, AllocationInOrder, KnownFiles, Running
<1>6. FiniteRecords'
  BY <1>1 DEF CInv, FiniteRecords
<1>7. TaskFiles'
  <2> SUFFICES ASSUME Running' PROVE TaskFiles'
    BY DEF TaskFiles
  <2>1. task'.state \in Working
    BY DEF Running
  <2>2. /\ task'.state \notin {"init", "closing", "deleting",
                               "rollback_mark_sealed"}
        /\ task.state \in TaskStates \ {"init", "closing", "deleting",
                                        "rollback_mark_sealed"}
    BY <2>1 DEF Working, TaskStates, IoStates
  <2> QED
    BY <1>1, <2>2 DEF CInv, TaskFiles
<1>8. DestEntries'
  BY <1>1 DEF CInv, DestEntries, Find
<1>9. NotInTransit /\ NotInTransit'
  BY DEF NotInTransit, Working
<1>10. /\ \A f : Known(f) => FileKept(f)
       /\ files'[active_file_id' + 1].state # "deleted"
  BY <1>1, FilesAsTheyAre
<1> QED
  BY <1>1, <1>3, <1>4, <1>5, <1>6, <1>7, <1>8, <1>9, <1>10, TaskMoves

(* The task only changes its state or counts.                               *)
LEMMA TaskWaits ==
  ASSUME CInv, Running, UNCHANGED <<files, dataVars, requestVars>>,
         DOMAIN file_metadata' = DOMAIN file_metadata,
         \A f \in DOMAIN file_metadata' : file_metadata'[f] \in FileStates,
         task' \in Task, RetriesLeft',
         task'.src = task.src, task'.dest = task.dest,
         task'.dest_offset = task.dest_offset,
         task'.committed = task.committed, task'.migrated = task.migrated,
         task'.chunk \subseteq task.chunk,
         task.state \in Working, task'.state \in Working \cup {"done", "failed"}
  PROVE  CInv'
<1>1. UNCHANGED <<inflight, disk, files>>
  BY RequestsWait DEF dataVars
<1>2. Used' = Used /\ task # NoTask
  BY DEF Used, Running
<1>3. Used' <= ChunkPages
  BY <1>2 DEF CInv, CompactionTypeOK
<1>4. IsFiniteSet(task'.chunk) /\ IsFiniteSet(task'.migrated)
  BY <1>2, FS_Subset DEF CInv, FiniteRecords
<1>5. ChunkInSource'
  BY <1>1 DEF CInv, ChunkInSource, Overlap
<1>6. SourceStays'
  BY <1>1 DEF CInv, SourceStays
<1>7. CopiesInPlace'
  <2>1. task'.state # "update_indices" /\ task.state # "update_indices"
    BY DEF Working
  <2> QED
    BY <1>1, <1>2, <2>1 DEF CInv, CopiesInPlace, Copy, Apart
<1> QED
  BY <1>3, <1>4, <1>5, <1>6, <1>7, TaskGoes

(* The task is over, or gone.                                               *)
LEMMA TaskStops ==
  ASSUME CInv, ~Running', NotInTransit,
         UNCHANGED <<files, next_file_id, active_file_id, allocVars, queueVars,
                     inflight, dataVars, global_sequence, reads, replies,
                     compaction_paused, file_metadata, alloc_file>>,
         pending_tasks' \in Seq(Nat),
         task' \in Task \cup {NoTask}, RetriesLeft',
         task' # NoTask => /\ Used' <= ChunkPages
                           /\ IsFiniteSet(task'.chunk)
                           /\ IsFiniteSet(task'.migrated)
  PROVE  CInv'
<1>1. UNCHANGED <<alloc_stage, allocating_new_file, pending_write_queue,
                  draining, disk, mem_index>>
  BY DEF allocVars, queueVars, dataVars
<1>2. CompactionTypeOK'
  <2>1. TypeOK'
    BY <1>1 DEF CInv, CompactionTypeOK, TypeOK
  <2>2. task' # NoTask => task'.retry_count <= MaxRetryCount
    <3> SUFFICES ASSUME task' # NoTask
                 PROVE  task'.retry_count <= MaxRetryCount
      OBVIOUS
    <3>1. task'.retry_count \in Nat /\ MaxRetryCount \in Nat
      BY CompactionAssumption DEF Task
    <3> QED
      BY <3>1 DEF RetriesLeft
  <2> QED
    BY <1>1, <2>1, <2>2 DEF CInv, CompactionTypeOK
<1>3. FilesInOrder'
  BY <1>1 DEF CInv, FilesInOrder
<1>4. AllocationInOrder' /\ KnownFiles' /\ FiniteRecords'
  BY <1>1 DEF CInv, AllocationInOrder, KnownFiles, FiniteRecords
<1>5. TaskFiles' /\ ChunkInSource' /\ SourceStays' /\ CopiesInPlace'
      /\ DestEntries' /\ NotInTransit'
  BY DEF TaskFiles, ChunkInSource, SourceStays, CopiesInPlace, DestEntries,
         NotInTransit
<1>6. /\ \A f : Known(f) => FileKept(f)
      /\ files'[active_file_id' + 1].state # "deleted"
  BY FilesAsTheyAre
<1> QED
  BY <1>1, <1>2, <1>3, <1>4, <1>5, <1>6, TaskMoves

(* Nothing takes pages: the write buffer is empty.                          *)
LEMMA NothingUsed ==
  ASSUME task'.migrated = {}
  PROVE  Used' = 0
BY PagesOfNone DEF Used

(* The steps and completions that change the state of the task only.        *)
LEMMA WaitingSteps ==
  ASSUME CInv,
         \/ ReadNextChunk \/ WriteChunk \/ Finalize \/ MarkDeleted
         \/ CheckRetryTimeout \/ IoFailed
         \/ HeaderWritten /\ task.state = "mark_compacting"
  PROVE  CInv'
<1>1. /\ task # NoTask
      /\ task.state \in Working \ {"process_entries", "rollback"}
  BY DEF ReadNextChunk, WriteChunk, Finalize, MarkDeleted, CheckRetryTimeout,
         IoFailed, HeaderWritten, StepIn, IoPendingIn, Working
<1>2. Running
  BY <1>1 DEF Running, Working
<1>3. /\ task \in Task /\ task.bytes_read \in Nat
      /\ task.retry_count \in Nat
      /\ task.current_offset \in Nat
      /\ task.src \in DOMAIN file_metadata
      /\ files[Src].write_offset \in Nat
  <2>1. Known(task.src)
    BY <1>2, TaskFilesKnown
  <2> QED
    BY <1>1, <1>2, <2>1, TaskTyped, KnownPlace DEF CInv, TaskFiles, Src
<1>4. UNCHANGED <<files, dataVars, requestVars>>
  BY DEF ReadNextChunk, WriteChunk, Finalize, MarkDeleted, CheckRetryTimeout,
         IoFailed, HeaderWritten
<1>5. /\ DOMAIN file_metadata' = DOMAIN file_metadata
      /\ \A f \in DOMAIN file_metadata' : file_metadata'[f] \in FileStates
  <2>1. \/ file_metadata' = file_metadata
        \/ file_metadata' = [file_metadata EXCEPT ![task.src] = "deleted"]
    BY DEF ReadNextChunk, WriteChunk, Finalize, MarkDeleted, CheckRetryTimeout,
           IoFailed, HeaderWritten
  <2> QED
    BY <1>3, <2>1 DEF CInv, CompactionTypeOK, FileStates
<1>6. /\ task.retry_count < MaxRetryCount
      /\ task.retry_target \in {"mark_compacting", "read_chunk", "write_chunk",
                                "mark_deleted"}
  BY <1>1 DEF CInv, RetriesLeft, Working
<1>r. MaxRetryCount \in Nat /\ ChunkPages \in Nat
  BY CompactionAssumption
<1>7. \/ \E s \in Working : task' = [task EXCEPT !.state = s]
      \/ \E b \in BOOLEAN : task' = [task EXCEPT !.io_pending = b]
      \/ \E n \in Nat : task' = [task EXCEPT !.io_pending = TRUE,
                                             !.bytes_read = n]
      \/ \E s \in Working : task' = [task EXCEPT !.io_pending = FALSE,
                                                 !.state = s]
      \/ /\ task.state \in {"mark_compacting", "read_chunk", "write_chunk",
                            "mark_deleted"}
         /\ \/ /\ task.retry_count + 1 < MaxRetryCount
               /\ task' = [task EXCEPT !.io_pending = FALSE, !.retry_count = @ + 1,
                                       !.state = "retry_wait",
                                       !.retry_target = task.state]
            \/ task' = [task EXCEPT !.io_pending = FALSE, !.retry_count = @ + 1,
                                    !.state = "rollback"]
  <2>1. CASE ReadNextChunk
    <3>1. files[Src].write_offset - task.current_offset > 0 =>
            files[Src].write_offset - task.current_offset \in Nat
      BY <1>3
    <3>2. \/ \E s \in {"write_chunk", "finalize"} :
               task' = [task EXCEPT !.state = s]
          \/ \E n \in Nat : task' = [task EXCEPT !.io_pending = TRUE,
                                                 !.bytes_read = n]
      BY <1>r, <2>1, <3>1 DEF ReadNextChunk, Goto
    <3> QED
      BY <3>2 DEF Working
  <2>2. CASE WriteChunk \/ MarkDeleted
    BY <2>2 DEF WriteChunk, MarkDeleted, SubmitIo
  <2>3. CASE Finalize
    BY <2>3 DEF Finalize, Goto, Working
  <2>4. CASE CheckRetryTimeout
    <3>1. task.retry_target \in Working
      BY <1>6 DEF Working
    <3> QED
      BY <2>4, <3>1 DEF CheckRetryTimeout, Goto
  <2>5. CASE HeaderWritten /\ task.state = "mark_compacting"
    BY <2>5 DEF HeaderWritten, IoPendingIn, CompleteTo, Working
  <2>6. CASE IoFailed
    <3>1. task.state \in {"mark_compacting", "read_chunk", "write_chunk",
                          "mark_deleted"}
      BY <2>6 DEF IoFailed, IoPendingIn
    <3> DEFINE c == [task EXCEPT !.io_pending = FALSE, !.retry_count = @ + 1]
    <3>2. c.retry_count = task.retry_count + 1
      BY <1>3 DEF Task
    <3>3. \/ /\ c.retry_count < MaxRetryCount
             /\ task' = [c EXCEPT !.state = "retry_wait",
                                  !.retry_target = task.state]
          \/ task' = [c EXCEPT !.state = "rollback"]
      BY <2>6 DEF IoFailed, HandleIoError
    <3> QED
      BY <3>1, <3>2, <3>3
  <2> QED
    BY <2>1, <2>2, <2>3, <2>4, <2>5, <2>6
<1>8. /\ task' \in Task
      /\ task'.src = task.src /\ task'.dest = task.dest
      /\ task'.dest_offset = task.dest_offset
      /\ task'.committed = task.committed /\ task'.migrated = task.migrated
      /\ task'.chunk = task.chunk
      /\ task'.state \in Working
      /\ task'.retry_target \in {"mark_compacting", "read_chunk", "write_chunk",
                                 "mark_deleted"}
      /\ \/ task'.retry_count < MaxRetryCount
         \/ task'.retry_count = MaxRetryCount /\ task'.state = "rollback"
  <2>1. CASE \E s \in Working : task' = [task EXCEPT !.state = s]
    BY <1>1, <1>3, <1>6, <2>1 DEF Task, TaskStates, IoStates, Working
  <2>2. CASE \E b \in BOOLEAN : task' = [task EXCEPT !.io_pending = b]
    BY <1>1, <1>3, <1>6, <2>2 DEF Task, TaskStates, IoStates, Working
  <2>3. CASE \E n \in Nat : task' = [task EXCEPT !.io_pending = TRUE,
                                                !.bytes_read = n]
    BY <1>1, <1>3, <1>6, <2>3 DEF Task, TaskStates, IoStates, Working
  <2>4. CASE \E s \in Working : task' = [task EXCEPT !.io_pending = FALSE,
                                                    !.state = s]
    BY <1>1, <1>3, <1>6, <2>4 DEF Task, TaskStates, IoStates, Working
  <2>5. CASE /\ task.state \in {"mark_compacting", "read_chunk", "write_chunk",
                                "mark_deleted"}
             /\ task.retry_count + 1 < MaxRetryCount
             /\ task' = [task EXCEPT !.io_pending = FALSE, !.retry_count = @ + 1,
                                     !.state = "retry_wait",
                                     !.retry_target = task.state]
    <3>1. task.retry_count + 1 \in Nat /\ task.retry_count + 1 < MaxRetryCount
      BY <1>3, <2>5
    <3> DEFINE c == task.retry_count + 1
    <3>2. task' = [task EXCEPT !.io_pending = FALSE, !.retry_count = c,
                               !.state = "retry_wait",
                               !.retry_target = task.state]
      BY <1>3, <2>5
    <3> HIDE DEF c
    <3>3. /\ task' \in Task
          /\ task'.src = task.src /\ task'.dest = task.dest
          /\ task'.dest_offset = task.dest_offset
          /\ task'.committed = task.committed
          /\ task'.migrated = task.migrated /\ task'.chunk = task.chunk
          /\ task'.state = "retry_wait" /\ task'.retry_target = task.state
          /\ task'.retry_count = c
      BY <1>3, <2>5, <3>1, <3>2 DEF c, Task, TaskStates, IoStates
    <3> QED
      BY <2>5, <3>1, <3>3 DEF c, Working
  <2>6. CASE task' = [task EXCEPT !.io_pending = FALSE, !.retry_count = @ + 1,
                                  !.state = "rollback"]
    <3>1. /\ task.retry_count + 1 \in Nat
          /\ \/ task.retry_count + 1 < MaxRetryCount
             \/ task.retry_count + 1 = MaxRetryCount
      BY <1>3, <1>6, <1>r
    <3> DEFINE c == task.retry_count + 1
    <3>2. task' = [task EXCEPT !.io_pending = FALSE, !.retry_count = c,
                               !.state = "rollback"]
      BY <1>3, <2>6
    <3> HIDE DEF c
    <3>3. /\ task' \in Task
          /\ task'.src = task.src /\ task'.dest = task.dest
          /\ task'.dest_offset = task.dest_offset
          /\ task'.committed = task.committed
          /\ task'.migrated = task.migrated /\ task'.chunk = task.chunk
          /\ task'.state = "rollback"
          /\ task'.retry_target = task.retry_target
          /\ task'.retry_count = c
      BY <1>3, <3>1, <3>2 DEF c, Task, TaskStates
    <3> QED
      BY <1>6, <3>1, <3>3 DEF c, Working
  <2> QED
    BY <1>7, <2>1, <2>2, <2>3, <2>4, <2>5, <2>6
<1>9. RetriesLeft'
  BY <1>8 DEF RetriesLeft
<1> QED
  BY <1>1, <1>2, <1>4, <1>5, <1>8, <1>9, TaskWaits

(* The ends of a task.                                                      *)
LEMMA EndingSteps ==
  ASSUME CInv,
         \/ HeaderWritten /\ task.state = "mark_deleted"
         \/ SealedWritten \/ TaskOver
  PROVE  CInv'
<1>1. /\ task # NoTask
      /\ task.state \in {"mark_deleted", "rollback_mark_sealed", "done",
                         "failed"}
  BY DEF HeaderWritten, SealedWritten, TaskOver, IoPendingIn
<1>2. task \in Task /\ NotInTransit
  BY <1>1, TaskTyped DEF NotInTransit
<1>3. /\ UNCHANGED <<files, next_file_id, active_file_id, allocVars, queueVars,
                     inflight, dataVars, global_sequence, reads, replies,
                     compaction_paused, file_metadata, alloc_file>>
      /\ pending_tasks' = pending_tasks
  BY DEF HeaderWritten, SealedWritten, TaskOver, requestVars, vars, allocVars,
         queueVars, dataVars
<1>4. pending_tasks' \in Seq(Nat)
  BY <1>3 DEF CInv, CompactionTypeOK
<1>5. CASE HeaderWritten /\ task.state = "mark_deleted"
  <2>1. task' = [task EXCEPT !.io_pending = FALSE, !.state = "done",
                             !.migrated = {}, !.committed = {}]
    BY <1>5 DEF HeaderWritten, IoPendingIn
  <2>2. /\ task' \in Task /\ task'.state = "done" /\ task'.migrated = {}
        /\ task'.chunk = task.chunk /\ task'.retry_count = task.retry_count
        /\ task'.retry_target = task.retry_target
    BY <1>2, <2>1 DEF Task, TaskStates
  <2>3. Used' <= ChunkPages
    BY <2>2, NothingUsed, CompactionAssumption
  <2>4. IsFiniteSet(task'.chunk) /\ IsFiniteSet(task'.migrated)
    BY <1>1, <2>2, FS_EmptySet DEF CInv, FiniteRecords
  <2>5. RetriesLeft' /\ ~Running'
    BY <1>1, <1>5, <2>2 DEF CInv, RetriesLeft, Running
  <2> QED
    BY <1>2, <1>3, <1>4, <2>2, <2>3, <2>4, <2>5, TaskStops
<1>6. CASE SealedWritten
  <2>1. task' = [task EXCEPT !.io_pending = FALSE, !.state = "failed"]
    BY <1>6 DEF SealedWritten, CompleteTo
  <2>2. /\ task' \in Task /\ task'.state = "failed"
        /\ task'.migrated = task.migrated
        /\ task'.chunk = task.chunk /\ task'.retry_count = task.retry_count
        /\ task'.retry_target = task.retry_target
    BY <1>2, <2>1 DEF Task, TaskStates
  <2>3. Used' <= ChunkPages
    BY <1>1, <2>2 DEF Used, CInv, CompactionTypeOK
  <2>4. IsFiniteSet(task'.chunk) /\ IsFiniteSet(task'.migrated)
    BY <1>1, <2>2 DEF CInv, FiniteRecords
  <2>5. RetriesLeft' /\ ~Running'
    BY <1>1, <2>2 DEF CInv, RetriesLeft, Running
  <2> QED
    BY <1>2, <1>3, <1>4, <2>2, <2>3, <2>4, <2>5, TaskStops
<1>7. CASE TaskOver
  <2>1. task' = NoTask
    BY <1>7 DEF TaskOver
  <2>2. RetriesLeft' /\ ~Running'
    BY <2>1 DEF RetriesLeft, Running
  <2> QED
    BY <1>2, <1>3, <1>4, <2>1, <2>2, TaskStops
<1> QED
  BY <1>5, <1>6, <1>7

(* A task taken from the queue gets an empty file behind all others.        *)
LEMMA InitKeeps ==
  ASSUME CInv, InitTask, SerialAllocation
  PROVE  CInv'
<1>1. /\ task = NoTask /\ ~Running /\ NotInTransit
      /\ ~allocating_new_file
      /\ UNCHANGED <<active_file_id, allocVars, queueVars, inflight, dataVars,
                     global_sequence, reads, replies, compaction_paused,
                     file_metadata, alloc_file>>
      /\ UNCHANGED <<alloc_stage, allocating_new_file, pending_write_queue,
                     draining, disk, mem_index>>
  BY DEF InitTask, Running, NotInTransit, allocVars, queueVars, dataVars
<1>2. /\ Head(pending_tasks) \in Nat
      /\ pending_tasks' \in Seq(Nat)
  BY DEF InitTask, CInv, CompactionTypeOK
<1>3. TypeOK /\ FilesInOrder /\ Len(files) \in Nat /\ next_file_id = Len(files)
      /\ files \in Seq(FileInfo) /\ active_file_id \in Nat
      /\ alloc_stage = "none"
  BY <1>1 DEF CInv, CompactionTypeOK, TypeOK, FilesInOrder, AllocationInOrder
<1>4. MaxRetryCount \in Nat /\ MaxRetryCount # 0 /\ ChunkPages \in Nat
  BY CompactionAssumption
<1> DEFINE src == Head(pending_tasks)
<1>5. CASE /\ task' = [NewTask(src, 0) EXCEPT !.state = "failed"]
           /\ UNCHANGED <<files, next_file_id>>
  <2>1. /\ task' \in Task /\ task'.state = "failed" /\ task'.migrated = {}
        /\ task'.chunk = {} /\ task'.retry_count = 0
        /\ task'.retry_target = "mark_compacting"
    BY <1>2, <1>5 DEF NewTask, Task, TaskStates, IoStates
  <2>2. Used' <= ChunkPages
    BY <1>4, <2>1, NothingUsed
  <2>3. RetriesLeft' /\ ~Running'
    BY <1>4, <2>1 DEF RetriesLeft, Running
  <2>4. IsFiniteSet(task'.chunk) /\ IsFiniteSet(task'.migrated)
    BY <2>1, FS_EmptySet
  <2> QED
    BY <1>1, <1>2, <1>5, <2>1, <2>2, <2>3, <2>4, TaskStops
<1>6. CASE /\ src \in DOMAIN file_metadata
           /\ task' = NewTask(src, next_file_id)
           /\ PushFile(files)
  <2> DEFINE n == Len(files)
             nf == NewFile(next_file_id)
  <2>1. /\ nf \in FileInfo /\ nf.file_id = n /\ nf.write_offset = 1
        /\ nf.state = "active"
    BY <1>3 DEF NewFile, FileInfo, FileStates
  <2> HIDE DEF nf
  <2>2. /\ files' = Append(files, nf) /\ next_file_id' = n + 1
    BY <1>3, <1>6 DEF PushFile, nf
  <2>3. /\ files' \in Seq(FileInfo)
        /\ Len(files') = n + 1
        /\ \A i \in 1 .. n : files'[i] = files[i]
        /\ files'[n + 1] = nf
    BY <1>3, <2>1, <2>2
  <2>4. /\ task' \in Task /\ task'.src = src /\ task'.dest = n
        /\ task'.state = "init" /\ task'.chunk = {} /\ task'.dest_offset = 1
        /\ task'.migrated = {} /\ task'.committed = {} /\ task'.retry_count = 0
        /\ task'.retry_target = "mark_compacting"
    <3>1. task' = NewTask(src, n) /\ src \in Nat /\ n \in Nat
      BY <1>2, <1>3, <1>6
    <3> HIDE DEF src, n
    <3> QED
      BY <3>1 DEF NewTask, Task, TaskStates, IoStates
  <2>5. active_file_id + 1 \in 1 .. n
    BY <1>3 DEF FilesInOrder
  <2>6. FilesInOrder'
    <3>1. \A i \in 1 .. Len(files') : /\ files'[i].file_id = i - 1
                                      /\ files'[i].write_offset >= 1
      <4> TAKE i \in 1 .. Len(files')
      <4>1. CASE i \in 1 .. n
        BY <1>3, <2>3, <4>1 DEF FilesInOrder
      <4>2. CASE i = n + 1
        BY <1>3, <2>1, <2>3, <4>2
      <4> QED
        BY <1>3, <2>3, <4>1, <4>2
    <3>2. files'[active_file_id' + 1].blob_opened
      BY <1>1, <1>3, <2>3, <2>5 DEF FilesInOrder
    <3> QED
      BY <1>1, <1>3, <2>2, <2>3, <2>5, <3>1, <3>2 DEF FilesInOrder
  <2>7. ASSUME NEW f, Known(f)
        PROVE  FileKept(f) /\ f < n /\ f \in Nat /\ files'[f + 1] = files[f + 1]
    <3>1. f + 1 \in 1 .. n /\ f \in Nat /\ f < n
          /\ files[f + 1].write_offset \in Nat
      BY <2>7, KnownPlace
    <3>2. files'[f + 1] = files[f + 1]
      BY <2>3, <3>1
    <3>3. f < Len(files')
      BY <1>3, <2>3, <3>1
    <3> QED
      BY <3>1, <3>2, <3>3 DEF FileKept
  <2>8. CompactionTypeOK'
    <3>1. TypeOK'
      BY <1>1, <1>3, <2>2, <2>3 DEF TypeOK
    <3>2. Used' <= ChunkPages
      BY <1>4, <2>4, NothingUsed
    <3> QED
      BY <1>1, <1>2, <1>4, <2>4, <3>1, <3>2 DEF CInv, CompactionTypeOK
  <2>9. AllocationInOrder' /\ KnownFiles'
    <3>1. \A f \in DOMAIN file_metadata' : f \in 0 .. n + 1 - 1
      BY <1>1, <1>3 DEF CInv, KnownFiles
    <3> QED
      BY <1>1, <1>3, <2>3, <3>1 DEF CInv, AllocationInOrder, KnownFiles
  <2>10. FiniteRecords'
    BY <1>1, <2>4, FS_EmptySet DEF CInv, FiniteRecords
  <2>11. TaskFiles'
    <3>1. src \in Nat /\ src < n
      BY <1>6, <2>7, MetadataKnown
    <3>2. active_file_id < n
      BY <1>3 DEF FilesInOrder
    <3>3. \A w \in inflight' : w.file # n
      <4> SUFFICES ASSUME NEW w \in inflight PROVE w.file # n
        BY <1>1
      <4>1. w.file < n /\ w.file \in Nat
        BY <2>7, RecordsKnown
      <4> QED
        BY <1>3, <4>1
    <3>4. n \notin DOMAIN file_metadata'
      BY <1>1, <1>3, <2>7, MetadataKnown
    <3>5. n < Len(files') /\ n = Len(files') - 1
      BY <1>3, <2>3
    <3>6. n # src /\ n # active_file_id'
      BY <1>1, <1>3, <3>1, <3>2
    <3> HIDE DEF n, src
    <3>7. /\ task'.src \in DOMAIN file_metadata'
          /\ task'.dest < Len(files')
          /\ task'.dest # task'.src
          /\ task'.dest # active_file_id'
          /\ \A w \in inflight' : w.file # task'.dest
          /\ files'[task'.dest + 1].write_offset = task'.dest_offset
          /\ ~allocating_new_file'
          /\ task'.dest = Len(files') - 1
          /\ task'.dest \notin DOMAIN file_metadata'
          /\ files'[task'.dest + 1].state # "deleted"
      BY <1>1, <1>6, <2>1, <2>3, <2>4, <3>3, <3>4, <3>5, <3>6
    <3> QED
      BY <2>4, <3>7 DEF TaskFiles
  <2>12. RetriesLeft'
    BY <1>4, <2>4 DEF RetriesLeft
  <2>13. ChunkInSource' /\ SourceStays' /\ CopiesInPlace' /\ NotInTransit'
    BY <2>4 DEF ChunkInSource, SourceStays, CopiesInPlace, NotInTransit
  <2>14. DestEntries'
    <3> SUFFICES ASSUME NEW k \in Keys, Find(k), mem_index[k].file = n
                 PROVE  FALSE
      BY <1>1, <2>4 DEF DestEntries, Find
    <3>1. Known(n)
      BY EntriesKnown
    <3> QED
      BY <1>3, <2>7, <3>1
  <2>15. files'[active_file_id' + 1].state # "deleted"
    BY <1>1, <2>7, ActiveKnown DEF CInv, WritesToLiveFiles
  <2>16. \A f : Known(f) => FileKept(f)
    BY <2>7
  <2> QED
    BY <1>1, <2>6, <2>8, <2>9, <2>10, <2>11, <2>12, <2>13, <2>14, <2>15, <2>16,
       TaskMoves
<1> QED
  BY <1>5, <1>6 DEF InitTask

-----------------------------------------------------------------------------
(* Steps of a task that touch its files                                     *)

(* A step of the task on one of its files: the vector stays in order and    *)
(* the file that is being allocated meanwhile is not concerned.             *)
LEMMA OwnFile ==
  ASSUME CInv, Running, UNCHANGED requestVars,
         NEW f \in {task.src, task.dest}, NEW f1 \in FileInfo,
         files' = [files EXCEPT ![f + 1] = f1],
         f1.file_id = f, f1.write_offset >= 1,
         f = task.src /\ files[f + 1].blob_opened => f1.blob_opened,
         DOMAIN file_metadata' \subseteq DOMAIN file_metadata \cup {task.dest},
         Running' => task'.dest = task.dest
  PROVE  /\ f + 1 \in 1 .. Len(files) /\ IndexOfFile(f) = f + 1
         /\ files' \in Seq(FileInfo)
         /\ Len(files') = Len(files)
         /\ \A g : Known(g) =>
              files'[g + 1] = IF g = f THEN f1 ELSE files[g + 1]
         /\ FilesInOrder' /\ AllocationInOrder' /\ KnownFiles'
<1>1. UNCHANGED <<next_file_id, active_file_id, alloc_stage,
                  allocating_new_file, alloc_file>>
  BY RequestsWait
<1>2. /\ TypeOK /\ FilesInOrder
      /\ alloc_stage \in {"none", "blob", "header"}
      /\ Len(files) \in Nat
  BY DEF CInv, CompactionTypeOK, TypeOK
<1>3. Known(f) /\ Known(task.dest)
  BY TaskFilesKnown
<1>4. f + 1 \in 1 .. Len(files) /\ f \in Nat /\ files[f + 1].file_id = f
      /\ IndexOfFile(f) = f + 1
  BY <1>3, KnownPlace
<1>5. f + 1 = active_file_id + 1 => f1.blob_opened
  <2>1. active_file_id \in Nat /\ files[active_file_id + 1].blob_opened
    BY <1>2 DEF TypeOK, FilesInOrder
  <2>2. f # active_file_id \/ f = task.src
    BY DEF CInv, TaskFiles
  <2> QED
    BY <1>4, <2>1, <2>2
<1>6. alloc_stage # "none" => f + 1 # Len(files)
  BY <1>2, <1>3, <1>4 DEF Known
<1>7. /\ alloc_stage' \in {"none", "blob", "header"}
      /\ alloc_stage' # "none" /\ f + 1 = Len(files) =>
           /\ f1.write_offset = 1
           /\ alloc_stage' = "header" => f1.blob_opened
      /\ alloc_stage' # "none" => alloc_stage # "none"
      /\ alloc_stage' = "header" => alloc_stage = "header" \/ f + 1 = Len(files)
      /\ UNCHANGED <<next_file_id, active_file_id>>
      /\ f1.file_id = files[f + 1].file_id
  BY <1>1, <1>2, <1>4, <1>6
<1>8. /\ files' \in Seq(FileInfo)
      /\ Len(files') = Len(files)
      /\ \A j \in 1 .. Len(files) :
           files'[j] = IF j = f + 1 THEN f1 ELSE files[j]
      /\ FilesInOrder'
  BY <1>2, <1>4, <1>5, <1>7, OneFile
<1>9. ASSUME NEW g, Known(g)
      PROVE  files'[g + 1] = IF g = f THEN f1 ELSE files[g + 1]
  <2>1. g + 1 \in 1 .. Len(files) /\ g \in Nat
    BY <1>9, KnownPlace
  <2> QED
    BY <1>4, <1>8, <2>1
<1>10. KnownFiles'
  <2>1. task.dest \in 0 .. Len(files) - 1
    BY <1>3 DEF Known
  <2> QED
    BY <1>8, <2>1 DEF CInv, KnownFiles
<1>11. AllocationInOrder'
  <2> SUFFICES ASSUME alloc_stage # "none"
               PROVE  /\ alloc_file = Len(files) - 1
                      /\ files'[Len(files)].state = "active"
                      /\ Len(files) - 1 \notin DOMAIN file_metadata'
                      /\ Running' => task'.dest # Len(files) - 1
    BY <1>1, <1>8 DEF CInv, AllocationInOrder
  <2>1. /\ Len(files) \in 1 .. Len(files)
        /\ files[Len(files)].state = "active"
        /\ alloc_file = Len(files) - 1
        /\ Len(files) - 1 \notin DOMAIN file_metadata
        /\ task.dest # Len(files) - 1
    BY OneAllocation
  <2>2. files'[Len(files)] = files[Len(files)]
    BY <1>6, <1>8, <2>1
  <2> QED
    BY <2>1, <2>2
<1> QED
  BY <1>4, <1>8, <1>9, <1>10, <1>11

LEMMA TypedStep ==
  ASSUME CInv, UNCHANGED requestVars,
         files' \in Seq(FileInfo), disk' \subseteq Write,
         mem_index' \in [Keys -> Entry \cup {NoEntry}],
         task' \in Task, Used' <= ChunkPages, RetriesLeft',
         DOMAIN file_metadata' \subseteq Nat,
         \A f \in DOMAIN file_metadata' : file_metadata'[f] \in FileStates
  PROVE  CompactionTypeOK'
<1>1. UNCHANGED <<next_file_id, active_file_id, alloc_stage,
                  allocating_new_file, pending_write_queue, draining,
                  inflight, global_sequence, reads, replies, pending_tasks,
                  compaction_paused, alloc_file>>
  BY RequestsWait
<1>2. TypeOK'
  BY <1>1 DEF CInv, CompactionTypeOK, TypeOK
<1>3. task' # NoTask => task'.retry_count <= MaxRetryCount
  <2>1. task'.retry_count \in Nat /\ MaxRetryCount \in Nat
    BY CompactionAssumption DEF Task
  <2> QED
    BY <2>1 DEF RetriesLeft
<1> QED
  BY <1>1, <1>2, <1>3 DEF CInv, CompactionTypeOK

(* Nothing of what the task has gathered changes.                           *)
LEMMA TaskKeepsPlace ==
  ASSUME CInv, Running, UNCHANGED <<inflight, disk, mem_index>>,
         files' \in Seq(FileInfo), FileKept(task.src),
         task'.src = task.src, task'.dest = task.dest,
         task'.dest_offset = task.dest_offset,
         task'.committed = task.committed, task'.migrated = task.migrated,
         task'.chunk = task.chunk, NotInTransit, task'.state # "update_indices"
  PROVE  /\ ChunkInSource' /\ SourceStays' /\ CopiesInPlace' /\ DestEntries'
         /\ FiniteRecords' /\ Used' = Used
<1>1. Used' = Used /\ task # NoTask
  BY DEF Used, Running
<1>2. FiniteRecords'
  BY <1>1 DEF CInv, FiniteRecords
<1>3. ASSUME NEW d \in task.chunk
      PROVE  d.offset + d.pages <= files'[d.file + 1].write_offset
  <2>1. d \in Write /\ d.file = task.src
        /\ d.offset + d.pages <= files[d.file + 1].write_offset
    BY <1>1, TaskTyped DEF CInv, ChunkInSource
  <2>2. /\ files[task.src + 1].write_offset \in Nat
        /\ task.src \in Nat
    BY TaskFilesKnown, KnownPlace
  <2>3. files'[task.src + 1].write_offset \in Nat
    <3>1. task.src + 1 \in 1 .. Len(files')
      BY <2>2 DEF FileKept
    <3>2. files'[task.src + 1] \in FileInfo
      BY <3>1
    <3> QED
      BY <3>2 DEF FileInfo, FileStates
  <2>4. files'[task.src + 1].write_offset >= files[task.src + 1].write_offset
    BY DEF FileKept
  <2>5. d.offset \in Nat /\ d.pages \in Nat
    BY <2>1, WriteFields
  <2> QED
    BY <2>1, <2>2, <2>3, <2>4, <2>5
<1>4. ChunkInSource'
  BY <1>3 DEF CInv, ChunkInSource, Overlap
<1>5. SourceStays'
  BY DEF CInv, SourceStays, FileKept
<1>6. CopiesInPlace'
  BY <1>1 DEF CInv, CopiesInPlace, Copy, Apart
<1>7. DestEntries'
  BY DEF CInv, DestEntries, Find
<1> QED
  BY <1>1, <1>2, <1>4, <1>5, <1>6, <1>7

(* The state of the source is set: the step before the copying and the one  *)
(* that ends a rollback.                                                    *)
LEMMA MarkingSteps ==
  ASSUME CInv, MarkCompacting \/ RollbackMarkSealed
  PROVE  CInv'
<1>0. PICK st \in {"compacting", "sealed"} :
      /\ files' = [files EXCEPT ![Src].state = st]
      /\ file_metadata' = [file_metadata EXCEPT ![task.src] = st]
  BY DEF MarkCompacting, RollbackMarkSealed
<1>1. /\ task # NoTask
      /\ task.state \in {"mark_compacting", "rollback_mark_sealed"}
      /\ task' = [task EXCEPT !.io_pending = TRUE]
      /\ UNCHANGED requestVars /\ UNCHANGED <<disk, mem_index>>
  BY DEF MarkCompacting, RollbackMarkSealed, StepIn, SubmitIo, dataVars
<1>2. Running
  BY <1>1 DEF Running
<1>3. /\ task \in Task
      /\ Known(task.src) /\ Known(task.dest) /\ task.src # task.dest
      /\ task.src \in DOMAIN file_metadata
  BY <1>2, TaskFilesKnown, TaskTyped DEF CInv, TaskFiles, Running
<1>4. /\ files[task.src + 1] \in FileInfo /\ files[task.src + 1].file_id = task.src
      /\ files[task.src + 1].write_offset \in Nat
      /\ Src = task.src + 1
      /\ task.src + 1 \in 1 .. Len(files)
  BY <1>3, KnownPlace DEF Src
<1> DEFINE f1 == [files[task.src + 1] EXCEPT !.state = st]
<1>5. /\ f1 \in FileInfo /\ f1.file_id = task.src /\ f1.state = st
      /\ f1.write_offset = files[task.src + 1].write_offset
      /\ f1.blob_opened = files[task.src + 1].blob_opened
  BY <1>4 DEF FileInfo, FileStates
<1>6. files' = [files EXCEPT ![task.src + 1] = f1]
  BY <1>0, <1>4
<1>7. f1.write_offset >= 1
  BY <1>4, <1>5 DEF CInv, FilesInOrder
<1> HIDE DEF f1
<1>8. /\ task' \in Task /\ task'.io_pending
      /\ task'.src = task.src /\ task'.dest = task.dest
      /\ task'.state = task.state
      /\ task'.dest_offset = task.dest_offset
      /\ task'.committed = task.committed /\ task'.migrated = task.migrated
      /\ task'.chunk = task.chunk /\ task'.retry_count = task.retry_count
      /\ task'.retry_target = task.retry_target
  BY <1>1, <1>3 DEF Task
<1>9. DOMAIN file_metadata' = DOMAIN file_metadata
      /\ \A f \in DOMAIN file_metadata' : file_metadata'[f] \in FileStates
  BY <1>0, <1>3 DEF CInv, CompactionTypeOK, FileStates
<1>10. /\ files' \in Seq(FileInfo)
       /\ Len(files') = Len(files)
       /\ \A g : Known(g) =>
            files'[g + 1] = IF g = task.src THEN f1 ELSE files[g + 1]
       /\ FilesInOrder' /\ AllocationInOrder' /\ KnownFiles'
  <2>1. DOMAIN file_metadata' \subseteq DOMAIN file_metadata \cup {task.dest}
    BY <1>9
  <2>2. task.src \in {task.src, task.dest}
    OBVIOUS
  <2> QED
    BY <1>1, <1>2, <1>5, <1>6, <1>7, <1>8, <2>1, <2>2, OwnFile
<1>11. \A g : Known(g) => FileKept(g)
  <2> SUFFICES ASSUME NEW g, Known(g) PROVE FileKept(g)
    OBVIOUS
  <2>1. g < Len(files) /\ files[g + 1].write_offset \in Nat
    BY KnownPlace
  <2>2. files'[g + 1] = IF g = task.src THEN f1 ELSE files[g + 1]
    BY <1>10
  <2>3. CASE g = task.src
    <3>1. /\ files'[g + 1].write_offset = files[g + 1].write_offset
          /\ files'[g + 1].blob_opened = files[g + 1].blob_opened
          /\ files'[g + 1].state # "deleted"
          /\ g \in DOMAIN file_metadata
      BY <1>3, <1>5, <2>2, <2>3
    <3> QED
      BY <1>10, <2>1, <3>1 DEF FileKept
  <2>4. CASE g # task.src
    <3>1. files'[g + 1] = files[g + 1] /\ g < Len(files')
      BY <1>10, <2>1, <2>2, <2>4
    <3> QED
      BY <2>1, <3>1 DEF FileKept
  <2> QED
    BY <2>3, <2>4
<1>12. NotInTransit /\ NotInTransit' /\ task'.state # "update_indices"
  BY <1>1, <1>8 DEF NotInTransit
<1>13. /\ ChunkInSource' /\ SourceStays' /\ CopiesInPlace' /\ DestEntries'
       /\ FiniteRecords' /\ Used' = Used
  <2>1. FileKept(task.src)
    BY <1>3, <1>11
  <2>2. UNCHANGED <<inflight, disk, mem_index>>
    BY <1>1, RequestsWait
  <2> QED
    BY <1>2, <1>8, <1>10, <1>12, <2>1, <2>2, TaskKeepsPlace
<1>14. RetriesLeft'
  BY <1>1, <1>8 DEF CInv, RetriesLeft
<1>15. CompactionTypeOK'
  <2>1. Used' <= ChunkPages
    BY <1>1, <1>13 DEF CInv, CompactionTypeOK
  <2>2. /\ DOMAIN file_metadata' \subseteq Nat
        /\ mem_index' \in [Keys -> Entry \cup {NoEntry}]
        /\ disk' \subseteq Write
    BY <1>1, <1>9 DEF CInv, CompactionTypeOK, TypeOK
  <2> QED
    BY <1>1, <1>8, <1>9, <1>10, <1>14, <2>1, <2>2, TypedStep
<1>16. TaskFiles'
  <2>1. files'[task.dest + 1] = files[task.dest + 1]
    BY <1>3, <1>10
  <2>2. UNCHANGED <<inflight, active_file_id>>
    BY <1>1, RequestsWait
  <2>3. task'.state \notin {"init", "deleting", "closing"}
    BY <1>1, <1>8
  <2> QED
    BY <1>1, <1>2, <1>8, <1>9, <1>10, <2>1, <2>2, <2>3 DEF CInv, TaskFiles
<1>17. files'[active_file_id' + 1].state # "deleted"
  <2>1. FileKept(active_file_id) /\ active_file_id' = active_file_id
    BY <1>1, <1>11, ActiveKnown, RequestsWait
  <2> QED
    BY <2>1 DEF FileKept, CInv, WritesToLiveFiles
<1> QED
  BY <1>1, <1>9, <1>10, <1>11, <1>12, <1>13, <1>14, <1>15, <1>16, <1>17,
     RequestsWait, TaskMoves

(* What holds while the destination is being allocated.                     *)
LEMMA DestinationNew ==
  ASSUME CInv, InAllocation
  PROVE  /\ Running /\ task \in Task /\ NotInTransit
         /\ ~allocating_new_file /\ alloc_stage = "none"
         /\ task.dest = Len(files) - 1
         /\ task.dest \notin DOMAIN file_metadata
         /\ task.dest_offset = 1 /\ task.committed = {} /\ task.migrated = {}
         /\ files[task.dest + 1].write_offset = 1
         /\ files[task.dest + 1].state # "deleted"
         /\ Known(task.dest) /\ Known(task.src) /\ task.src # task.dest
<1>1. Running /\ task.state = "init"
  BY DEF InAllocation, Running
<1>2. task \in Task /\ Known(task.dest) /\ Known(task.src)
  BY <1>1, TaskTyped, TaskFilesKnown DEF Running
<1>3. NotInTransit
  BY <1>1 DEF NotInTransit
<1> QED
  BY <1>1, <1>2, <1>3 DEF CInv, TaskFiles, AllocationInOrder

(* allocate_new_file returns with the destination.                          *)
LEMMA DestAllocatedKeeps ==
  ASSUME CInv, DestAllocated
  PROVE  CInv'
<1>1. /\ InAllocation /\ task.state = "init" /\ task # NoTask
      /\ task' = [task EXCEPT !.state = "mark_compacting"]
      /\ UNCHANGED requestVars /\ UNCHANGED <<disk, mem_index>>
  BY DEF DestAllocated, InAllocation, dataVars
<1>2. /\ Running /\ task \in Task /\ NotInTransit
      /\ task.dest_offset = 1 /\ task.committed = {} /\ task.migrated = {}
      /\ files[task.dest + 1].write_offset = 1
      /\ files[task.dest + 1].state # "deleted"
      /\ Known(task.dest) /\ Known(task.src) /\ task.src # task.dest
  BY <1>1, DestinationNew
<1>3. /\ files[task.dest + 1] \in FileInfo
      /\ files[task.dest + 1].file_id = task.dest
      /\ Dest = task.dest + 1 /\ task.dest \in Nat
  BY <1>2, KnownPlace DEF Dest
<1> DEFINE f1 == [files[task.dest + 1] EXCEPT !.blob_opened = TRUE]
<1>4. /\ f1 \in FileInfo /\ f1.file_id = task.dest
      /\ f1.state = files[task.dest + 1].state
      /\ f1.write_offset = 1 /\ f1.blob_opened
  BY <1>2, <1>3 DEF FileInfo, FileStates
<1>5. files' = [files EXCEPT ![task.dest + 1] = f1]
  BY <1>3 DEF DestAllocated, BlobOpenedFor, Dest
<1> HIDE DEF f1
<1>6. /\ task' \in Task /\ task'.state = "mark_compacting"
      /\ task'.src = task.src /\ task'.dest = task.dest
      /\ task'.dest_offset = task.dest_offset
      /\ task'.committed = task.committed /\ task'.migrated = task.migrated
      /\ task'.chunk = task.chunk /\ task'.retry_count = task.retry_count
      /\ task'.retry_target = task.retry_target
  BY <1>1, <1>2 DEF Task, TaskStates, IoStates
<1>7. /\ DOMAIN file_metadata' = DOMAIN file_metadata \cup {task.dest}
      /\ \A f \in DOMAIN file_metadata' : file_metadata'[f] \in FileStates
  BY DEF DestAllocated, WithState, CInv, CompactionTypeOK, FileStates
<1>8. /\ files' \in Seq(FileInfo)
      /\ Len(files') = Len(files)
      /\ \A g : Known(g) =>
           files'[g + 1] = IF g = task.dest THEN f1 ELSE files[g + 1]
      /\ FilesInOrder' /\ AllocationInOrder' /\ KnownFiles'
  <2>1. DOMAIN file_metadata' \subseteq DOMAIN file_metadata \cup {task.dest}
    BY <1>7
  <2>2. task.dest \in {task.src, task.dest} /\ f1.write_offset >= 1
    BY <1>4
  <2> QED
    BY <1>1, <1>2, <1>4, <1>5, <1>6, <2>1, <2>2, OwnFile
<1>9. \A g : Known(g) => FileKept(g)
  <2> SUFFICES ASSUME NEW g, Known(g) PROVE FileKept(g)
    OBVIOUS
  <2>1. g < Len(files) /\ files[g + 1].write_offset \in Nat
    BY KnownPlace
  <2>2. files'[g + 1] = IF g = task.dest THEN f1 ELSE files[g + 1]
    BY <1>8
  <2>3. CASE g = task.dest
    <3>1. /\ files'[g + 1].write_offset = files[g + 1].write_offset
          /\ files'[g + 1].blob_opened
          /\ files'[g + 1].state = files[g + 1].state
      BY <1>2, <1>4, <2>2, <2>3
    <3> QED
      BY <1>8, <2>1, <3>1 DEF FileKept
  <2>4. CASE g # task.dest
    <3>1. files'[g + 1] = files[g + 1] /\ g < Len(files')
      BY <1>8, <2>1, <2>2, <2>4
    <3> QED
      BY <2>1, <3>1 DEF FileKept
  <2> QED
    BY <2>3, <2>4
<1>10. NotInTransit' /\ task'.state # "update_indices"
  BY <1>6 DEF NotInTransit
<1>11. /\ ChunkInSource' /\ SourceStays' /\ CopiesInPlace' /\ DestEntries'
       /\ FiniteRecords' /\ Used' = Used
  <2>1. FileKept(task.src)
    BY <1>2, <1>9
  <2>2. UNCHANGED <<inflight, disk, mem_index>>
    BY <1>1, RequestsWait
  <2> QED
    BY <1>2, <1>6, <1>8, <1>10, <2>1, <2>2, TaskKeepsPlace
<1>12. RetriesLeft'
  BY <1>1, <1>6 DEF CInv, RetriesLeft
<1>13. CompactionTypeOK'
  <2>1. Used' <= ChunkPages
    BY <1>1, <1>11 DEF CInv, CompactionTypeOK
  <2>2. /\ DOMAIN file_metadata' \subseteq Nat
        /\ mem_index' \in [Keys -> Entry \cup {NoEntry}]
        /\ disk' \subseteq Write
    BY <1>1, <1>3, <1>7 DEF CInv, CompactionTypeOK, TypeOK
  <2> QED
    BY <1>1, <1>6, <1>7, <1>8, <1>12, <2>1, <2>2, TypedStep
<1>14. TaskFiles'
  <2>1. /\ files'[task.dest + 1].blob_opened
        /\ files'[task.dest + 1].write_offset = task.dest_offset
        /\ files'[task.dest + 1].state # "deleted"
    BY <1>2, <1>4, <1>8
  <2>2. UNCHANGED <<inflight, active_file_id>>
    BY <1>1, RequestsWait
  <2> QED
    BY <1>2, <1>6, <1>7, <1>8, <2>1, <2>2 DEF CInv, TaskFiles
<1>15. files'[active_file_id' + 1].state # "deleted"
  <2>1. FileKept(active_file_id) /\ active_file_id' = active_file_id
    BY <1>1, <1>9, ActiveKnown, RequestsWait
  <2> QED
    BY <2>1 DEF FileKept, CInv, WritesToLiveFiles
<1>16. \A f \in DOMAIN file_metadata' :
         \/ f \in DOMAIN file_metadata
         \/ files[f + 1].state # "deleted"
  BY <1>2, <1>7
<1> QED
  BY <1>1, <1>2, <1>8, <1>9, <1>10, <1>11, <1>12, <1>13, <1>14, <1>15, <1>16,
     RequestsWait, TaskMoves

(* A destination that could not be allocated is taken back; it was empty    *)
(* and nobody else knew it.                                                 *)
LEMMA DestNotAllocatedKeeps ==
  ASSUME CInv, DestNotAllocated
  PROVE  CInv'
<1> DEFINE n == Len(files)
<1>1. /\ InAllocation /\ task # NoTask /\ task.state = "init"
      /\ task' = [task EXCEPT !.state = "failed"]
      /\ DropLastFile
      /\ UNCHANGED <<active_file_id, alloc_stage, allocating_new_file,
                     pending_write_queue, draining, inflight, disk, mem_index,
                     global_sequence, reads, replies, pending_tasks,
                     compaction_paused, file_metadata, alloc_file>>
  BY DEF DestNotAllocated, InAllocation, pathVars, allocVars, queueVars,
         dataVars
<1>2. /\ Running /\ task \in Task
      /\ alloc_stage = "none"
      /\ task.dest = n - 1
      /\ task.dest \notin DOMAIN file_metadata
      /\ task.dest_offset = 1
      /\ files[task.dest + 1].write_offset = 1
      /\ files[task.dest + 1].state # "deleted"
      /\ Known(task.dest)
  BY <1>1, DestinationNew
<1>3. TypeOK /\ FilesInOrder /\ n \in Nat /\ active_file_id \in Nat
  BY DEF CInv, CompactionTypeOK, TypeOK
<1>4. active_file_id < n - 1
  <2>1. active_file_id # n - 1 /\ active_file_id < n
    BY <1>2, <1>3 DEF CInv, TaskFiles, FilesInOrder
  <2> QED
    BY <1>3, <2>1
<1>5. /\ files' \in Seq(FileInfo)
      /\ Len(files') = n - 1
      /\ \A i \in 1 .. n - 1 : files'[i] = files[i]
      /\ next_file_id' \in Nat
      /\ FilesInOrder'
  BY <1>1, <1>2, <1>3, <1>4, DroppingLast
<1>6. ASSUME NEW f, Known(f), f # task.dest
      PROVE  f < Len(files') /\ files'[f + 1] = files[f + 1]
  <2>1. f \in Nat /\ f < n
    BY <1>6, KnownPlace
  <2>2. f + 1 \in 1 .. n - 1 /\ f < n - 1
    BY <1>2, <1>3, <1>6, <2>1
  <2> QED
    BY <1>5, <2>2
<1>7. ASSUME NEW w \in inflight \cup disk
      PROVE  w.file # task.dest /\ Known(w.file)
  <2>1. w \in Write /\ Known(w.file)
    BY RecordsKnown
  <2>2. SUFFICES ASSUME w.file = task.dest PROVE FALSE
    BY <2>1
  <2>3. Frontier(w.file) = 1
    BY <1>1, <1>2, <2>2 DEF Frontier
  <2>4. w.offset >= 1 /\ w.offset + w.pages <= 1
    BY <2>3 DEF CInv, RecordsInFiles
  <2> QED
    BY <2>1, <2>4, WriteFields
<1>8. /\ task' \in Task /\ task'.state = "failed"
      /\ task'.migrated = task.migrated /\ task'.chunk = task.chunk
      /\ task'.retry_count = task.retry_count
      /\ task'.retry_target = task.retry_target
  BY <1>1, <1>2 DEF Task, TaskStates
<1>9. ~Running' /\ Used' = Used
  BY <1>8 DEF Running, Used
<1>10. RetriesLeft'
  BY <1>1, <1>8 DEF CInv, RetriesLeft
<1>11. CompactionTypeOK'
  <2>1. TypeOK'
    BY <1>1, <1>3, <1>5 DEF TypeOK
  <2>2. task'.retry_count <= MaxRetryCount /\ Used' <= ChunkPages
    BY <1>1, <1>8, <1>9 DEF CInv, CompactionTypeOK
  <2> QED
    BY <1>1, <1>8, <2>1, <2>2 DEF CInv, CompactionTypeOK
<1>12. AllocationInOrder' /\ KnownFiles'
  <2>1. DOMAIN file_metadata \subseteq 0 .. n - 1 - 1
    BY <1>2, <1>3 DEF CInv, KnownFiles
  <2> QED
    BY <1>1, <1>2, <1>5, <2>1 DEF CInv, AllocationInOrder, KnownFiles
<1>13. RecordsInFiles'
  <2> SUFFICES ASSUME NEW w \in inflight \cup disk
               PROVE  /\ w.file < Len(files')
                      /\ w.offset >= 1
                      /\ w.offset + w.pages <= Frontier(w.file)'
    BY <1>1 DEF RecordsInFiles
  <2>1. w.file < Len(files') /\ files'[w.file + 1] = files[w.file + 1]
    BY <1>6, <1>7
  <2>2. Frontier(w.file)' = Frontier(w.file)
    BY <1>1, <1>9, <2>1 DEF Frontier
  <2> QED
    BY <2>1, <2>2 DEF CInv, RecordsInFiles
<1>14. FiniteRecords'
  BY <1>1, <1>8 DEF CInv, FiniteRecords
<1>15. WritesToLiveFiles'
  <2>1. files'[active_file_id + 1] = files[active_file_id + 1]
    BY <1>2, <1>3, <1>4, <1>6, ActiveKnown
  <2>2. \A w \in inflight : files'[w.file + 1] = files[w.file + 1]
    BY <1>6, <1>7
  <2> QED
    BY <1>1, <2>1, <2>2 DEF CInv, WritesToLiveFiles
<1>16. NoOverlap' /\ NotYetDurable'
  BY <1>1 DEF CInv, NoOverlap, NotYetDurable, Overlap
<1>17. TaskFiles' /\ ChunkInSource' /\ SourceStays' /\ CopiesInPlace'
       /\ DestEntries'
  BY <1>9 DEF TaskFiles, ChunkInSource, SourceStays, CopiesInPlace, DestEntries
<1>18. ReadsAccountedFor'
  <2> SUFFICES ASSUME NEW r \in reads
               PROVE  r.file < Len(files') /\ files'[r.file + 1] = files[r.file + 1]
    BY <1>1 DEF CInv, ReadsAccountedFor
  <2>1. Known(r.file)
    BY ReadsKnown
  <2>2. r.file # task.dest
    BY <1>2, <1>7 DEF CInv, ReadsAccountedFor
  <2> QED
    BY <1>6, <2>1, <2>2
<1>19. EntriesReadable'
  <2> SUFFICES ASSUME NEW k \in Keys, Find(k)
               PROVE  files'[mem_index[k].file + 1] = files[mem_index[k].file + 1]
    BY <1>1 DEF CInv, EntriesReadable, Find
  <2>1. Known(mem_index[k].file)
    BY EntriesKnown
  <2>2. mem_index[k].file # task.dest
    BY <1>7 DEF CInv, EntriesReadable
  <2> QED
    BY <1>6, <2>1, <2>2
<1> QED
  BY <1>5, <1>10, <1>11, <1>12, <1>13, <1>14, <1>15, <1>16, <1>17, <1>18, <1>19
  DEF CInv

-----------------------------------------------------------------------------
(* Copying                                                                  *)

(* The read of a chunk: what it finds is on the disk or on its way there.   *)
LEMMA ChunkReadKeeps ==
  ASSUME CInv, ChunkRead
  PROVE  CInv'
<1>1. PICK landed \in SUBSET { w \in inflight : InChunk(w) } :
        task' = [task EXCEPT
                   !.io_pending = FALSE, !.state = "process_entries",
                   !.chunk = landed \cup { d \in disk : InChunk(d) }]
  BY DEF ChunkRead
<1>2. /\ task # NoTask /\ task.state = "read_chunk"
      /\ UNCHANGED <<files, file_metadata, dataVars, requestVars>>
      /\ UNCHANGED <<inflight, disk>>
  BY RequestsWait DEF ChunkRead, IoPendingIn, dataVars
<1>3. Running /\ task \in Task
  BY <1>2, TaskTyped DEF Running
<1> DEFINE C == landed \cup { d \in disk : InChunk(d) }
<1>4. /\ C \subseteq inflight \cup disk
      /\ \A d \in C : d.file = task.src
  BY DEF InChunk
<1>5. C \subseteq Write /\ IsFiniteSet(C)
  <2>1. IsFiniteSet(inflight \cup disk)
    BY FS_Union DEF CInv, FiniteRecords
  <2> QED
    BY <1>4, <2>1, FS_Subset DEF CInv, CompactionTypeOK, TypeOK
<1> HIDE DEF C
<1>6. task' = [task EXCEPT !.io_pending = FALSE, !.state = "process_entries",
                           !.chunk = C]
  BY <1>1 DEF C
<1>7. /\ task' \in Task /\ task'.state = "process_entries"
      /\ task'.chunk = C
      /\ task'.src = task.src /\ task'.dest = task.dest
      /\ task'.dest_offset = task.dest_offset
      /\ task'.committed = task.committed /\ task'.migrated = task.migrated
      /\ task'.retry_count = task.retry_count
      /\ task'.retry_target = task.retry_target
  BY <1>3, <1>5, <1>6 DEF Task, TaskStates
<1>8. Used' = Used
  BY <1>7 DEF Used
<1>9. ChunkInSource'
  <2> SUFFICES ASSUME NEW d \in C
               PROVE  /\ d.file = task.src
                      /\ d.offset + d.pages <= files[d.file + 1].write_offset
                      /\ \A w \in inflight \cup disk \cup C :
                           w # d => ~Overlap(w, d)
    BY <1>2, <1>7 DEF ChunkInSource, Overlap
  <2>1. d \in inflight \cup disk /\ d.file # task.dest
    BY <1>3, <1>4 DEF CInv, TaskFiles
  <2>2. d.offset + d.pages <= files[d.file + 1].write_offset
    BY <2>1, RecordBeforeEnd
  <2>3. \A w \in inflight \cup disk \cup C : w # d => ~Overlap(w, d)
    BY <1>4, <2>1 DEF CInv, NoOverlap
  <2> QED
    BY <1>4, <2>2, <2>3
<1>10. SourceStays'
  BY <1>2, <1>3, <1>7 DEF CInv, SourceStays
<1>11. CopiesInPlace'
  BY <1>2, <1>3, <1>7, <1>8 DEF CInv, CopiesInPlace, Copy, Apart
<1>12. RetriesLeft'
  BY <1>2, <1>7 DEF CInv, RetriesLeft
<1>13. /\ Used' <= ChunkPages
       /\ IsFiniteSet(task'.chunk) /\ IsFiniteSet(task'.migrated)
       /\ \A f \in DOMAIN file_metadata' : file_metadata'[f] \in FileStates
       /\ DOMAIN file_metadata' = DOMAIN file_metadata
  BY <1>2, <1>5, <1>7, <1>8 DEF CInv, CompactionTypeOK, FiniteRecords
<1>14. task.state \in Working /\ task'.state \in Working
  BY <1>2, <1>7 DEF Working
<1> QED
  BY <1>2, <1>3, <1>7, <1>9, <1>10, <1>11, <1>12, <1>13, <1>14, TaskGoes

(* The records of S before d, and the copy of d behind theirs.              *)
Before(S, d) == {e \in S : e.offset < d.offset}

CopyOf(S, d) ==
  [key |-> d.key, seq |-> d.seq, pages |-> d.pages, from |-> d.offset,
   to |-> task.dest_offset + Used + PagesOf(Before(S, d))]

LEMMA SamePlace ==
  ASSUME NEW v \in Write, NEW w \in Write, v.file = w.file, v.offset = w.offset
  PROVE  Overlap(v, w)
  BY WriteFields DEF Overlap

(* Records of a chunk are apart, so each copy lies behind the ones before.  *)
LEMMA CopiesOfChunk ==
  ASSUME CInv, Running, NEW S, S \subseteq task.chunk
  PROVE  /\ Copies(S) = { CopyOf(S, d) : d \in S }
         /\ Sized(S)
         /\ \A d \in S : PagesOf(Before(S, d)) \in Nat
         /\ \A d, e \in S : d.offset < e.offset =>
              PagesOf(Before(S, d)) + d.pages <= PagesOf(Before(S, e))
         /\ \A d, e \in S : d.offset = e.offset => d = e
<1>1. S \subseteq Write /\ IsFiniteSet(S)
  BY TaskTyped, FS_Subset DEF CInv, FiniteRecords, Running
<1>2. Sized(S)
  BY <1>1, WriteFields DEF Sized
<1>3. \A d, e \in S : d.file = e.file /\ (d # e => ~Overlap(d, e))
  BY DEF CInv, ChunkInSource
<1>4. ASSUME NEW d \in S, NEW e \in S, d.offset = e.offset
      PROVE  d = e
  BY <1>1, <1>3, <1>4, SamePlace
<1>5. ASSUME NEW d \in S
      PROVE  Before(S, d) \subseteq S /\ Sized(Before(S, d))
             /\ PagesOf(Before(S, d)) \in Nat
  <2>1. Before(S, d) \subseteq S
    BY DEF Before
  <2> QED
    BY <1>2, <2>1, PagesOfPart
<1>6. ASSUME NEW d \in S, NEW e \in S, d.offset < e.offset
      PROVE  PagesOf(Before(S, d)) + d.pages <= PagesOf(Before(S, e))
  <2>1. d.offset \in Nat /\ e.offset \in Nat
    BY <1>1, WriteFields
  <2>2. Before(S, d) \subseteq Before(S, e)
    <3>1. \A c \in S : c.offset \in Nat
      BY <1>1, WriteFields
    <3> QED
      BY <1>6, <2>1, <3>1 DEF Before
  <2>3. d \in Before(S, e) /\ d \notin Before(S, d)
    BY <1>6, <2>1 DEF Before
  <2> QED
    BY <1>5, <2>2, <2>3, PagesOfPart
<1>7. Copies(S) = { CopyOf(S, d) : d \in S }
  BY DEF Copies, CopyOf, Before
<1> QED
  BY <1>2, <1>4, <1>5, <1>6, <1>7

(* The copies that fit are the first ones; they lie one behind another and  *)
(* end where they have taken their pages.                                   *)
LEMMA TakenInPlace ==
  ASSUME CInv, Running, NEW S, S \subseteq task.chunk
  PROVE  LET taken == { m \in Copies(S) : Fits(m) }
             b     == task.dest_offset + Used
         IN  /\ taken \subseteq Migration
             /\ Sized(taken)
             /\ \A m \in taken : \E d \in S :
                  /\ d.key = m.key /\ d.seq = m.seq /\ d.pages = m.pages
                  /\ d.offset = m.from
             /\ \A m \in taken : b <= m.to /\ m.to + m.pages <= b + PagesOf(taken)
             /\ \A m, n \in taken : m # n => Apart(m, n)
<1> DEFINE b == task.dest_offset + Used
           cp == [d \in S |-> CopyOf(S, d)]
           T == { d \in S : Fits(CopyOf(S, d)) }
           taken == { m \in Copies(S) : Fits(m) }
<1>1. /\ Copies(S) = { CopyOf(S, d) : d \in S }
      /\ Sized(S)
      /\ \A d \in S : PagesOf(Before(S, d)) \in Nat
      /\ \A d, e \in S : d.offset < e.offset =>
           PagesOf(Before(S, d)) + d.pages <= PagesOf(Before(S, e))
      /\ \A d, e \in S : d.offset = e.offset => d = e
  BY CopiesOfChunk
<1>2. /\ task.dest_offset \in Nat /\ Used \in Nat /\ S \subseteq Write
      /\ ChunkPages \in Nat
  BY TaskTyped, CompactionAssumption DEF Running
<1>3. b \in Nat
  BY <1>2
<1>4. taken = { CopyOf(S, d) : d \in T }
  BY <1>1
<1>5. ASSUME NEW d \in S
      PROVE  /\ CopyOf(S, d) \in Migration
             /\ CopyOf(S, d).key = d.key /\ CopyOf(S, d).seq = d.seq
             /\ CopyOf(S, d).pages = d.pages /\ CopyOf(S, d).from = d.offset
             /\ CopyOf(S, d).to = b + PagesOf(Before(S, d))
             /\ b <= CopyOf(S, d).to
             /\ CopyOf(S, d).to \in Nat
             /\ d.pages \in Nat /\ d.offset \in Nat
             /\ PagesOf(Before(S, d)) \in Nat
  <2>1. /\ d.key \in Keys /\ d.seq \in Sequence /\ d.pages \in Nat \ {0}
        /\ d.offset \in Nat
    BY <1>2, WriteFields
  <2>2. PagesOf(Before(S, d)) \in Nat
    BY <1>1
  <2>3. b + PagesOf(Before(S, d)) \in Nat /\ b <= b + PagesOf(Before(S, d))
    BY <1>3, <2>2
  <2>4. CopyOf(S, d).to = b + PagesOf(Before(S, d))
    BY DEF CopyOf
  <2> QED
    BY <2>1, <2>2, <2>3, <2>4 DEF CopyOf, Migration
<1> HIDE DEF b
<1>6. ASSUME NEW d \in S, NEW e \in S, d.offset < e.offset
      PROVE  CopyOf(S, d).to + d.pages <= CopyOf(S, e).to
  <2>1. PagesOf(Before(S, d)) + d.pages <= PagesOf(Before(S, e))
    BY <1>1, <1>6
  <2> QED
    BY <1>3, <1>5, <2>1
<1>7. ASSUME NEW d \in S, NEW e \in S, d # e
      PROVE  Apart(CopyOf(S, d), CopyOf(S, e))
  <2>1. d.offset < e.offset \/ e.offset < d.offset
    BY <1>1, <1>5, <1>7
  <2> QED
    BY <1>5, <1>6, <2>1 DEF Apart
<1>8. ASSUME NEW d \in T
      PROVE  Before(S, d) \subseteq T
  <2> SUFFICES ASSUME NEW e \in S, e.offset < d.offset
               PROVE  Fits(CopyOf(S, e))
    BY DEF Before
  <2>1. CopyOf(S, e).to + e.pages <= CopyOf(S, d).to
    BY <1>6
  <2>2. CopyOf(S, d).to + d.pages <= task.dest_offset + ChunkPages
    BY <1>5 DEF Fits
  <2>3. CopyOf(S, e).to + e.pages <= task.dest_offset + ChunkPages
    BY <1>2, <1>5, <2>1, <2>2
  <2> QED
    BY <1>5, <2>3 DEF Fits
<1>9. Sized(T)
  <2>1. T \subseteq S
    OBVIOUS
  <2> QED
    BY <1>1, <2>1, PagesOfPart
<1>10. Sized(taken) /\ PagesOf(taken) = PagesOf(T)
  <2> DEFINE f == [d \in T |-> CopyOf(S, d)]
  <2>1. /\ f \in [T -> { f[d] : d \in T }]
        /\ \A c, d \in T : f[c] = f[d] => c = d
        /\ \A d \in T : f[d].pages = d.pages
    <3>1. \A c, d \in T : f[c] = f[d] => c = d
      <4> SUFFICES ASSUME NEW c \in T, NEW d \in T, f[c] = f[d]
                   PROVE  c = d
        OBVIOUS
      <4>1. CopyOf(S, c) = CopyOf(S, d)
        OBVIOUS
      <4>2. c.offset = d.offset
        BY <1>5, <4>1
      <4> QED
        BY <1>1, <4>2
    <3>2. \A d \in T : f[d].pages = d.pages
      BY <1>5
    <3> QED
      BY <3>1, <3>2
  <2>2. taken = { f[d] : d \in T }
    BY <1>4
  <2> HIDE DEF f, T, taken
  <2> QED
    BY <1>9, <2>1, <2>2, PagesOfCopies
<1>11. ASSUME NEW d \in T
       PROVE  CopyOf(S, d).to + d.pages <= b + PagesOf(taken)
  <2>1. Before(S, d) \subseteq T /\ d \in T \ Before(S, d)
    <3>1. Before(S, d) \subseteq T
      BY <1>8
    <3>2. ~(d.offset < d.offset)
      <4>1. d \in S
        OBVIOUS
      <4>2. d.offset \in Nat
        BY <1>5, <4>1
      <4> QED
        BY <4>2
    <3>3. d \notin Before(S, d)
      BY <3>2 DEF Before
    <3> QED
      BY <3>1, <3>3
  <2>2. PagesOf(Before(S, d)) + d.pages <= PagesOf(T)
    BY <1>9, <2>1, PagesOfPart
  <2>3. PagesOf(taken) \in Nat
    BY <1>10, PagesIsPlaces
  <2> QED
    BY <1>3, <1>5, <1>10, <2>2, <2>3
<1> HIDE DEF taken
<1>12. taken \subseteq Migration
  BY <1>4, <1>5
<1>13. \A m \in taken : \E d \in S :
         /\ d.key = m.key /\ d.seq = m.seq /\ d.pages = m.pages
         /\ d.offset = m.from
  BY <1>4, <1>5
<1>14. \A m \in taken : b <= m.to /\ m.to + m.pages <= b + PagesOf(taken)
  BY <1>4, <1>5, <1>11
<1>15. \A m, n \in taken : m # n => Apart(m, n)
  BY <1>4, <1>7
<1> QED
  BY <1>10, <1>12, <1>13, <1>14, <1>15 DEF taken, b

(* What the index sends to the source is on the disk as the chunk has it.   *)
LEMMA LiveInSource ==
  ASSUME CInv, Running, NEW d \in task.chunk, ShouldMigrate(d)
  PROVE  /\ d \in disk /\ d.kind = "put" /\ d.file = task.src
         /\ files[task.src + 1].blob_opened
         /\ files[task.src + 1].state # "deleted"
<1>1. /\ d.key \in Keys /\ d \in Write /\ d.kind = "put"
      /\ Find(d.key) /\ mem_index[d.key].file = task.src
      /\ mem_index[d.key].offset = d.offset
  BY TaskTyped, WriteFields DEF ShouldMigrate, Running
<1>2. /\ d.file = task.src
      /\ \A w \in inflight \cup disk \cup task.chunk : w # d => ~Overlap(w, d)
  BY DEF CInv, ChunkInSource
<1>3. PICK e \in disk : e.file = task.src /\ e.offset = d.offset
  BY <1>1 DEF CInv, EntriesReadable
<1>4. e \in Write
  BY RecordsKnown
<1>5. Overlap(e, d)
  BY <1>1, <1>2, <1>3, <1>4, SamePlace
<1>6. e = d
  BY <1>2, <1>5
<1>7. files[task.src + 1].blob_opened /\ files[task.src + 1].state # "deleted"
  BY <1>1 DEF CInv, EntriesReadable
<1> QED
  BY <1>1, <1>2, <1>3, <1>6, <1>7

(* The live records of a chunk, as many as fit, join the write buffer.      *)
LEMMA ProcessEntriesKeeps ==
  ASSUME CInv, ProcessEntries
  PROVE  CInv'
<1> DEFINE S == { d \in task.chunk : ShouldMigrate(d) }
           taken == { m \in Copies(S) : Fits(m) }
           M == task.migrated \cup taken
           b == task.dest_offset + Used
<1>1. /\ task # NoTask /\ task.state = "process_entries"
      /\ UNCHANGED <<files, file_metadata, dataVars, requestVars>>
      /\ UNCHANGED <<inflight, disk>>
  BY RequestsWait DEF ProcessEntries, StepIn, dataVars
<1>2. Running
  BY <1>1 DEF Running
<1>3. PICK next \in {"read_chunk", "write_chunk"}, offset \in
             {task.current_offset, task.current_offset + task.bytes_read} :
        task' = [task EXCEPT !.migrated = M, !.chunk = {}, !.bytes_read = 0,
                             !.state = next, !.current_offset = offset]
  <2>1. task \in Task /\ task.current_offset + 0 = task.current_offset
    BY <1>1, TaskTyped
  <2>2. \/ task' = [[task EXCEPT !.migrated = @ \cup taken, !.chunk = {},
                                 !.bytes_read = 0]
                      EXCEPT !.state = "read_chunk",
                             !.current_offset = @ + task.bytes_read]
        \/ task' = [[task EXCEPT !.migrated = @ \cup taken, !.chunk = {},
                                 !.bytes_read = 0]
                      EXCEPT !.state = "write_chunk"]
    BY DEF ProcessEntries
  <2> HIDE DEF taken
  <2>3. \/ task' = [task EXCEPT !.migrated = M, !.chunk = {}, !.bytes_read = 0,
                                !.state = "read_chunk",
                                !.current_offset =
                                    task.current_offset + task.bytes_read]
        \/ task' = [task EXCEPT !.migrated = M, !.chunk = {}, !.bytes_read = 0,
                                !.state = "write_chunk",
                                !.current_offset = task.current_offset]
    BY <2>1, <2>2 DEF Task
  <2> QED
    BY <2>3
<1>4. /\ taken \subseteq Migration
      /\ Sized(taken)
      /\ \A m \in taken : \E d \in S :
           /\ d.key = m.key /\ d.seq = m.seq /\ d.pages = m.pages
           /\ d.offset = m.from
      /\ \A m \in taken : b <= m.to /\ m.to + m.pages <= b + PagesOf(taken)
      /\ \A m, n \in taken : m # n => Apart(m, n)
  <2>1. S \subseteq task.chunk
    OBVIOUS
  <2> HIDE DEF S
  <2> QED
    BY <1>2, <2>1, TakenInPlace
<1>5. \A m \in taken : m.to + m.pages <= task.dest_offset + ChunkPages
  BY DEF Fits
<1>6. \A d \in S : /\ d \in disk /\ d.kind = "put" /\ d.file = task.src
                   /\ files[task.src + 1].blob_opened
                   /\ files[task.src + 1].state # "deleted"
  BY <1>2, LiveInSource
<1> HIDE DEF S, taken
<1>7. /\ task.dest_offset \in Nat /\ Used \in Nat /\ task.migrated \subseteq Migration
      /\ task.committed \subseteq Migration /\ task \in Task
      /\ task.current_offset \in Nat /\ task.bytes_read \in Nat
      /\ ChunkPages \in Nat
  BY <1>1, TaskTyped, CompactionAssumption
<1>8. b \in Nat /\ PagesOf(taken) \in Nat /\ b = task.dest_offset + Used
  BY <1>4, <1>7, PagesIsPlaces
<1>9. /\ \A m \in task.committed : m.to + m.pages <= task.dest_offset
      /\ \A m \in task.migrated : m.to >= task.dest_offset /\ m.to + m.pages <= b
      /\ \A m, n \in task.committed \cup task.migrated : m # n => Apart(m, n)
      /\ \A m \in task.committed : m.to >= 1 /\ Copy(m) \in disk
  BY <1>2 DEF CInv, CopiesInPlace
<1> HIDE DEF b
<1>10. Sized(task.migrated) /\ Used = PagesOf(task.migrated)
  BY <1>1, <1>7, MigrationFields DEF CInv, FiniteRecords, Sized, Used
<1>11. task.migrated \cap taken = {}
  <2> SUFFICES ASSUME NEW m \in task.migrated, m \in taken PROVE FALSE
    OBVIOUS
  <2>1. m.to \in Nat /\ m.pages \in Nat /\ m.pages # 0
    BY <1>7, MigrationFields
  <2> QED
    BY <1>4, <1>8, <1>9, <2>1
<1>12. Sized(M) /\ PagesOf(M) = Used + PagesOf(taken)
  BY <1>4, <1>10, <1>11, PagesOfBoth
<1>13. ASSUME NEW m \in task.committed \cup task.migrated, NEW n \in taken
       PROVE  Apart(m, n) /\ Apart(n, m)
  <2>1. /\ m.to \in Nat /\ m.pages \in Nat /\ n.to \in Nat
    BY <1>4, <1>7, MigrationFields
  <2>2. m.to + m.pages <= b
    BY <1>7, <1>8, <1>9, <2>1
  <2>3. b <= n.to
    BY <1>4
  <2> QED
    BY <1>8, <2>1, <2>2, <2>3 DEF Apart
<1>14. \A m, n \in task.committed \cup M : m # n => Apart(m, n)
  BY <1>4, <1>9, <1>13
<1>15. ASSUME NEW m \in M
       PROVE  /\ m.to \in Nat /\ m.pages \in Nat
              /\ task.dest_offset <= m.to
              /\ m.to + m.pages <= task.dest_offset + ChunkPages
              /\ m.to + m.pages <= task.dest_offset + (Used + PagesOf(taken))
  <2>1. m \in Migration /\ m.to \in Nat /\ m.pages \in Nat
    BY <1>4, <1>7, MigrationFields
  <2>2. Used <= ChunkPages
    BY <1>1 DEF CInv, CompactionTypeOK
  <2>3. CASE m \in task.migrated
    BY <1>7, <1>8, <1>9, <2>1, <2>2, <2>3
  <2>4. CASE m \in taken
    BY <1>4, <1>5, <1>7, <1>8, <2>1, <2>4
  <2> QED
    BY <2>3, <2>4
<1>16. PagesOf(M) <= ChunkPages
  <2>1. task.dest_offset + ChunkPages \in Nat
        /\ task.dest_offset <= task.dest_offset + ChunkPages
    BY <1>7
  <2> HIDE DEF M
  <2>2. PagesOf(M) <= task.dest_offset + ChunkPages - task.dest_offset
    BY <1>7, <1>12, <1>14, <1>15, <2>1, PagesFit
  <2>3. PagesOf(M) \in Nat
    BY <1>12, PagesIsPlaces
  <2> QED
    BY <1>7, <2>2, <2>3
<1>17. M \subseteq Migration /\ IsFiniteSet(M)
  BY <1>4, <1>7, <1>12 DEF Sized
<1>18. ASSUME NEW m \in taken
       PROVE  /\ files[task.src + 1].blob_opened
              /\ files[task.src + 1].state # "deleted"
              /\ \E d \in disk :
                   /\ d.kind = "put" /\ d.key = m.key /\ d.seq = m.seq
                   /\ d.pages = m.pages /\ d.file = task.src
                   /\ d.offset = m.from
  <2>1. PICK d \in S : /\ d.key = m.key /\ d.seq = m.seq /\ d.pages = m.pages
                       /\ d.offset = m.from
    BY <1>4
  <2>2. /\ d \in disk /\ d.kind = "put" /\ d.file = task.src
        /\ files[task.src + 1].blob_opened
        /\ files[task.src + 1].state # "deleted"
    BY <1>6
  <2> QED
    BY <2>1, <2>2
<1>31. \A m \in M : m \in task.migrated \/ m \in taken
  OBVIOUS
<1> HIDE DEF M
<1>19. offset \in Nat
  BY <1>7
<1>20. /\ task' \in Task /\ task'.state = next
       /\ task'.chunk = {} /\ task'.migrated = M
       /\ task'.src = task.src /\ task'.dest = task.dest
       /\ task'.dest_offset = task.dest_offset
       /\ task'.committed = task.committed
       /\ task'.retry_count = task.retry_count
       /\ task'.retry_target = task.retry_target
  <2>1. next \in TaskStates
    BY DEF TaskStates, IoStates
  <2> QED
    BY <1>3, <1>7, <1>17, <1>19, <2>1 DEF Task
<1>21. Used' = PagesOf(M) /\ Used' = Used + PagesOf(taken)
  BY <1>12, <1>20 DEF Used
<1>22. SourceStays'
  <2> SUFFICES ASSUME NEW m \in task.committed \cup M
               PROVE  /\ files[task.src + 1].blob_opened
                      /\ files[task.src + 1].state # "deleted"
                      /\ \E d \in disk :
                           /\ d.kind = "put" /\ d.key = m.key /\ d.seq = m.seq
                           /\ d.pages = m.pages /\ d.file = task.src
                           /\ d.offset = m.from
    BY <1>1, <1>20 DEF SourceStays
  <2>1. CASE m \in taken
    BY <1>18, <2>1
  <2>2. CASE m \in task.committed \cup task.migrated
    BY <1>2, <2>2 DEF CInv, SourceStays
  <2> QED
    BY <1>31, <2>1, <2>2
<1>23. CopiesInPlace'
  <2>1. \A m : Copy(m)' = Copy(m)
    BY <1>20 DEF Copy
  <2>2. \A m \in M : /\ m.to >= task.dest_offset
                     /\ m.to + m.pages <= task.dest_offset + (Used + PagesOf(taken))
    BY <1>7, <1>15
  <2> QED
    BY <1>1, <1>9, <1>14, <1>20, <1>21, <2>1, <2>2 DEF CopiesInPlace, Apart
<1>24. ChunkInSource'
  BY <1>20 DEF ChunkInSource
<1>25. RetriesLeft'
  BY <1>1, <1>20 DEF CInv, RetriesLeft
<1>26. /\ Used' <= ChunkPages
       /\ IsFiniteSet(task'.chunk) /\ IsFiniteSet(task'.migrated)
       /\ \A f \in DOMAIN file_metadata' : file_metadata'[f] \in FileStates
       /\ DOMAIN file_metadata' = DOMAIN file_metadata
  BY <1>1, <1>16, <1>17, <1>20, <1>21, FS_EmptySet DEF CInv, CompactionTypeOK
<1>27. task.state \in Working /\ task'.state \in Working
  BY <1>1, <1>20 DEF Working
<1> QED
  BY <1>1, <1>2, <1>20, <1>22, <1>23, <1>24, <1>25, <1>26, <1>27, TaskGoes


(* The copies of a chunk reach the disk behind what the destination holds.  *)
LEMMA ChunkWrittenKeeps ==
  ASSUME CInv, ChunkWritten
  PROVE  CInv'
<1> DEFINE C == { Copy(m) : m \in task.migrated }
<1>1. /\ task # NoTask /\ task.state = "write_chunk"
      /\ UNCHANGED <<files, file_metadata, mem_index, requestVars>>
      /\ UNCHANGED <<next_file_id, active_file_id, alloc_stage,
                     allocating_new_file, inflight, reads, alloc_file>>
  BY RequestsWait DEF ChunkWritten, IoPendingIn
<1>2. Running
  BY <1>1 DEF Running
<1>3. /\ task.dest_offset \in Nat /\ Used \in Nat
      /\ task.migrated \subseteq Migration /\ task.committed \subseteq Migration
      /\ task \in Task /\ task.dest \in Nat
  BY <1>1, TaskTyped
<1>4. /\ task.dest < Len(files) /\ task.dest # task.src
      /\ \A w \in inflight : w.file # task.dest
      /\ files[task.dest + 1].write_offset = task.dest_offset
      /\ files[task.dest + 1].blob_opened
      /\ files[task.dest + 1].state # "deleted"
  BY <1>1, <1>2 DEF CInv, TaskFiles, TaskStates, IoStates
<1>5. task.dest_offset >= 1
  <2>1. task.dest + 1 \in 1 .. Len(files)
    BY <1>2, TaskFilesKnown, KnownPlace
  <2> QED
    BY <1>4, <2>1 DEF CInv, FilesInOrder
<1>6. /\ \A m \in task.migrated : /\ m.to >= task.dest_offset
                                  /\ m.to + m.pages <= task.dest_offset + Used
      /\ \A m, n \in task.committed \cup task.migrated : m # n => Apart(m, n)
      /\ \A m \in task.committed : m.to + m.pages <= task.dest_offset
                                   /\ m.to >= 1
      /\ \A m \in task.committed : Copy(m) \in disk
  BY <1>2 DEF CInv, CopiesInPlace
<1>7. ASSUME NEW m \in task.migrated
      PROVE  /\ Copy(m) \in Write
             /\ Copy(m).file = task.dest /\ Copy(m).offset = m.to
             /\ Copy(m).pages = m.pages
             /\ m.to \in Nat /\ m.pages \in Nat
  <2>1. m \in Migration
    BY <1>3
  <2>2. "put" \in Kinds
    BY DEF Kinds
  <2> QED
    BY <1>3, <2>1, <2>2 DEF Copy, Migration, Write
<1>8. /\ \A c \in C : c \in Write /\ c.file = task.dest
      /\ \A c \in C : /\ c.offset >= task.dest_offset
                      /\ c.offset + c.pages <= task.dest_offset + Used
  BY <1>6, <1>7
<1>9. ASSUME NEW c \in C, NEW e \in C, c # e
      PROVE  ~Overlap(c, e)
  <2>1. PICK m \in task.migrated : c = Copy(m)
    OBVIOUS
  <2>2. PICK n \in task.migrated : e = Copy(n)
    OBVIOUS
  <2>3. Apart(m, n)
    BY <1>6, <1>9, <2>1, <2>2
  <2> QED
    BY <1>7, <2>1, <2>2, <2>3 DEF Apart, Overlap
<1>10. IsFiniteSet(C)
  <2> DEFINE f == [m \in task.migrated |-> Copy(m)]
  <2>1. f \in Surjection(task.migrated, C)
    <3>1. f \in [task.migrated -> C]
      OBVIOUS
    <3>2. \A c \in C : \E m \in task.migrated : f[m] = c
      OBVIOUS
    <3> QED
      BY <3>1, <3>2 DEF Surjection
  <2> HIDE DEF f, C
  <2> QED
    BY <1>1, <2>1, FS_Surjection DEF CInv, FiniteRecords
<1> HIDE DEF C
<1>11. ASSUME NEW w \in inflight \cup disk
       PROVE  /\ w \in Write
              /\ w.file = task.dest => w.offset + w.pages <= task.dest_offset
              /\ w.file # task.dest =>
                   w.offset + w.pages <= files[w.file + 1].write_offset
              /\ w.file < Len(files) /\ w.offset >= 1
  <2>1. w \in Write
    BY RecordsKnown
  <2>2. Frontier(w.file) = files[w.file + 1].write_offset
    BY <1>1 DEF Frontier
  <2> QED
    BY <1>4, <2>1, <2>2 DEF CInv, RecordsInFiles
<1>12. ASSUME NEW w \in inflight \cup disk, NEW c \in C
       PROVE  ~Overlap(w, c) /\ ~Overlap(c, w) /\ (w \in inflight => w # c)
  <2>1. c.file = task.dest /\ c.offset >= task.dest_offset
        /\ c.offset \in Nat /\ c.pages \in Nat
    BY <1>8, WriteFields
  <2>2. w.offset \in Nat /\ w.pages \in Nat
    BY <1>11, WriteFields
  <2>3. w.file = task.dest => w.offset + w.pages <= task.dest_offset
    BY <1>11
  <2>4. w \in inflight => w.file # task.dest
    BY <1>4
  <2> QED
    BY <1>3, <2>1, <2>2, <2>3, <2>4 DEF Overlap
<1>13. disk' = disk \cup C
  <2>1. disk' = { d \in disk : \A c \in C : ~Overlap(d, c) } \cup C
    BY DEF ChunkWritten, C
  <2> QED
    BY <1>12, <2>1
<1>14. /\ task' \in Task /\ task'.state = "update_indices"
       /\ task'.chunk = task.chunk /\ task'.migrated = task.migrated
       /\ task'.src = task.src /\ task'.dest = task.dest
       /\ task'.dest_offset = task.dest_offset
       /\ task'.committed = task.committed
       /\ task'.retry_count = 0
       /\ task'.retry_target = task.retry_target
  BY <1>3 DEF ChunkWritten, Task, TaskStates
<1>15. Used' = Used
  BY <1>14 DEF Used
<1>16. Running'
  BY <1>14, NoTaskAssumption DEF Running
<1>17. \A m : Copy(m)' = Copy(m)
  BY <1>14 DEF Copy
<1>18. \A v, w : Overlap(v, w)' = Overlap(v, w)
  BY DEF Overlap
<1>19. RetriesLeft'
  <2>1. 0 < MaxRetryCount
    BY CompactionAssumption
  <2> QED
    BY <1>1, <1>14, <2>1 DEF CInv, RetriesLeft
<1>20. CompactionTypeOK'
  <2>1. /\ files' \in Seq(FileInfo) /\ disk' \subseteq Write
        /\ mem_index' \in [Keys -> Entry \cup {NoEntry}]
        /\ Used' <= ChunkPages
        /\ DOMAIN file_metadata' \subseteq Nat
        /\ \A f \in DOMAIN file_metadata' : file_metadata'[f] \in FileStates
    BY <1>1, <1>8, <1>13, <1>15 DEF CInv, CompactionTypeOK, TypeOK
  <2> QED
    BY <1>1, <1>14, <1>19, <2>1, TypedStep
<1>21. FilesInOrder' /\ KnownFiles' /\ WritesToLiveFiles'
  BY <1>1 DEF CInv, FilesInOrder, KnownFiles, WritesToLiveFiles
<1>22. AllocationInOrder'
  BY <1>1, <1>2, <1>14 DEF CInv, AllocationInOrder
<1>23. RecordsInFiles'
  <2>1. ASSUME NEW w \in inflight \cup disk \cup C
        PROVE  /\ w.file < Len(files)
               /\ w.offset >= 1
               /\ w.offset + w.pages <= Frontier(w.file)'
    <3>1. w \in Write /\ w.offset \in Nat /\ w.pages \in Nat
      BY <1>8, <1>11, WriteFields
    <3>2. CASE w.file = task.dest
      <4>1. Frontier(w.file)' = task.dest_offset + Used
        BY <1>14, <1>15, <1>16, <3>2 DEF Frontier
      <4>2. w.offset >= 1
        BY <1>3, <1>5, <1>8, <1>11, <3>1
      <4>3. w.offset + w.pages <= task.dest_offset + Used
        BY <1>3, <1>8, <1>11, <3>1, <3>2
      <4> QED
        BY <1>4, <3>2, <4>1, <4>2, <4>3
    <3>3. CASE w.file # task.dest
      <4>1. Frontier(w.file)' = files[w.file + 1].write_offset
        BY <1>1, <1>14, <3>3 DEF Frontier
      <4>2. w \in inflight \cup disk
        BY <1>8, <3>3
      <4> QED
        BY <1>11, <3>3, <4>1, <4>2
    <3> QED
      BY <3>2, <3>3
  <2> QED
    BY <1>1, <1>13, <2>1 DEF RecordsInFiles
<1>24. FiniteRecords'
  <2>1. IsFiniteSet(disk \cup C)
    BY <1>10, FS_Union DEF CInv, FiniteRecords
  <2> QED
    BY <1>1, <1>13, <1>14, <2>1 DEF CInv, FiniteRecords
<1>25. TaskFiles'
  BY <1>1, <1>2, <1>14 DEF CInv, TaskFiles, TaskStates, IoStates
<1>26. NoOverlap'
  <2>1. \A v, w \in inflight \cup disk \cup C : v # w => ~Overlap(v, w)
    BY <1>9, <1>12 DEF CInv, NoOverlap
  <2> QED
    BY <1>1, <1>13, <1>18, <2>1 DEF NoOverlap
<1>27. NotYetDurable'
  BY <1>1, <1>12, <1>13 DEF CInv, NotYetDurable
<1>28. ChunkInSource'
  <2> SUFFICES ASSUME NEW d \in task.chunk
               PROVE  /\ d.file = task.src
                      /\ d.offset + d.pages <= files[d.file + 1].write_offset
                      /\ \A w \in inflight \cup (disk \cup C) \cup task.chunk :
                           w # d => ~Overlap(w, d)
    BY <1>1, <1>13, <1>14, <1>18 DEF ChunkInSource
  <2>1. /\ d.file = task.src
        /\ d.offset + d.pages <= files[d.file + 1].write_offset
        /\ \A w \in inflight \cup disk \cup task.chunk :
             w # d => ~Overlap(w, d)
    BY <1>2 DEF CInv, ChunkInSource
  <2>2. \A w \in C : ~Overlap(w, d)
    BY <1>4, <1>8, <2>1 DEF Overlap
  <2> QED
    BY <2>1, <2>2
<1>29. SourceStays'
  BY <1>1, <1>2, <1>13, <1>14 DEF CInv, SourceStays
<1>30. CopiesInPlace'
  <2>1. \A m \in task.migrated : Copy(m) \in C
    BY DEF C
  <2>2. \A m \in task.committed \cup task.migrated : Copy(m) \in disk'
    BY <1>6, <1>13, <2>1
  <2> QED
    BY <1>6, <1>14, <1>15, <1>17, <2>2 DEF CopiesInPlace, Apart
<1>31. DestEntries'
  BY <1>1, <1>2, <1>14 DEF CInv, DestEntries, Find
<1>32. ReadsAccountedFor'
  BY <1>1, <1>13 DEF CInv, ReadsAccountedFor
<1>33. EntriesReadable'
  BY <1>1, <1>13 DEF CInv, EntriesReadable, Find
<1> QED
  BY <1>19, <1>20, <1>21, <1>22, <1>23, <1>24, <1>25, <1>26, <1>27, <1>28,
     <1>29, <1>30, <1>31, <1>32, <1>33
  DEF CInv


(* Two records of the disk at one place are one.                            *)
LEMMA OneRecord ==
  ASSUME CInv, NEW d \in disk, NEW e \in disk,
         d.file = e.file, d.offset = e.offset
  PROVE  d = e
<1>1. d \in Write /\ e \in Write
  BY RecordsKnown
<1>2. Overlap(d, e)
  BY <1>1, SamePlace
<1> QED
  BY <1>2 DEF CInv, NoOverlap

(* The destination in the vector, and how far it is filled.                 *)
LEMMA DestInPlace ==
  ASSUME CInv, Running
  PROVE  /\ task.dest + 1 \in 1 .. Len(files) /\ task.dest \in Nat
         /\ Dest = task.dest + 1
         /\ files[task.dest + 1] \in FileInfo
         /\ files[task.dest + 1].file_id = task.dest
         /\ files[task.dest + 1].write_offset = task.dest_offset
         /\ task.dest_offset >= 1
<1>1. Known(task.dest)
  BY TaskFilesKnown
<1>2. task.dest + 1 \in 1 .. Len(files)
  BY <1>1, KnownPlace
<1>3. files[task.dest + 1].write_offset = task.dest_offset
  BY DEF CInv, TaskFiles
<1>4. files[task.dest + 1].write_offset >= 1
  BY <1>2 DEF CInv, FilesInOrder
<1> QED
  BY <1>1, <1>2, <1>3, <1>4, KnownPlace DEF Dest

(* update_indices moves an entry exactly when its record was copied.        *)
LEMMA EntriesMove ==
  ASSUME CInv, Running, mem_index' = MovedIndex(task.migrated)
  PROVE  /\ mem_index' \in [Keys -> Entry \cup {NoEntry}]
         /\ \A k \in Keys :
              \/ mem_index'[k] = mem_index[k]
              \/ /\ Find(k) /\ mem_index'[k] \in Entry
                 /\ \E m \in task.migrated :
                      /\ m.key = k /\ mem_index'[k].seq = m.seq
                      /\ mem_index'[k].file = task.dest
                      /\ mem_index'[k].offset = m.to
                      /\ mem_index'[k].pages = m.pages
<1> DEFINE At(k) == { m \in task.migrated : /\ m.key = k
                                            /\ mem_index[k].file = task.src
                                            /\ mem_index[k].offset = m.from }
<1>1. task.migrated \subseteq Migration /\ task.dest \in Nat
  BY TaskTyped DEF Running
<1>2. mem_index \in [Keys -> Entry \cup {NoEntry}]
  BY DEF CInv, CompactionTypeOK, TypeOK
<1>3. ASSUME NEW k \in Keys
      PROVE  \/ mem_index'[k] = mem_index[k]
             \/ /\ Find(k) /\ mem_index'[k] \in Entry
                /\ \E m \in task.migrated :
                     /\ m.key = k /\ mem_index'[k].seq = m.seq
                     /\ mem_index'[k].file = task.dest
                     /\ mem_index'[k].offset = m.to
                     /\ mem_index'[k].pages = m.pages
  <2>1. CASE ~(Find(k) /\ At(k) # {})
    <3>1. mem_index'[k] = mem_index[k]
      BY <2>1 DEF MovedIndex
    <3> QED
      BY <3>1
  <2>2. CASE Find(k) /\ At(k) # {}
    <3> DEFINE m == CHOOSE n \in At(k) : TRUE
    <3>1. m \in At(k)
      BY <2>2
    <3>2. mem_index'[k] = MovedTo(k, task.dest, m.to, m.pages)
      BY <2>2 DEF MovedIndex
    <3> HIDE DEF m
    <3>3. /\ m \in task.migrated /\ m.key = k
          /\ mem_index[k].file = task.src /\ mem_index[k].offset = m.from
      BY <3>1
    <3>4. m \in Migration /\ m.to \in Nat /\ m.pages \in Nat \ {0}
      BY <1>1, <3>3, MigrationFields
    <3>5. mem_index[k] \in Entry
      BY <1>2, <2>2 DEF Find
    <3>6. /\ mem_index'[k] \in Entry
          /\ mem_index'[k].seq = mem_index[k].seq
          /\ mem_index'[k].file = task.dest
          /\ mem_index'[k].offset = m.to
          /\ mem_index'[k].pages = m.pages
      BY <1>1, <3>2, <3>4, <3>5 DEF MovedTo, Entry
    <3>7. PICK d \in disk : /\ d.seq = m.seq /\ d.file = task.src
                            /\ d.offset = m.from
      BY <3>3 DEF CInv, SourceStays
    <3>8. PICK e \in disk : /\ e.seq = mem_index[k].seq
                            /\ e.file = mem_index[k].file
                            /\ e.offset = mem_index[k].offset
      BY <2>2 DEF CInv, EntriesReadable
    <3>9. e = d
      BY <3>3, <3>7, <3>8, OneRecord
    <3> QED
      BY <2>2, <3>3, <3>6, <3>7, <3>8, <3>9
  <2> QED
    BY <2>1, <2>2
<1>4. mem_index' = [k \in Keys |-> mem_index'[k]]
  <2>1. \E F \in {[k \in Keys |-> mem_index'[k]]} : mem_index' = F
    BY DEF MovedIndex
  <2> QED
    BY <2>1
<1> QED
  BY <1>2, <1>3, <1>4


(* The entries of a chunk move to its copies, which are part of the         *)
(* destination from here on.                                                *)
LEMMA UpdateIndicesKeeps ==
  ASSUME CInv, UpdateIndices
  PROVE  CInv'
<1> DEFINE d1 == task.dest_offset + Used
           f1 == [files[task.dest + 1] EXCEPT !.write_offset = d1]
<1>1. /\ task # NoTask /\ task.state = "update_indices"
      /\ mem_index' = MovedIndex(task.migrated)
      /\ task' = Committed
      /\ files' = [files EXCEPT ![Dest].write_offset = task'.dest_offset]
      /\ UNCHANGED <<file_metadata, disk, requestVars>>
      /\ UNCHANGED <<next_file_id, active_file_id, alloc_stage,
                     allocating_new_file, inflight, reads, alloc_file>>
  BY RequestsWait DEF UpdateIndices, StepIn
<1>2. Running
  BY <1>1 DEF Running
<1>3. /\ task.dest_offset \in Nat /\ Used \in Nat
      /\ task.migrated \subseteq Migration /\ task.committed \subseteq Migration
      /\ task.chunk \subseteq Write
      /\ task \in Task /\ task.dest \in Nat /\ task.src \in Nat
  BY <1>1, TaskTyped
<1>4. /\ task.dest < Len(files) /\ task.dest # task.src
      /\ \A w \in inflight : w.file # task.dest
      /\ task.dest # active_file_id
      /\ files[task.dest + 1].blob_opened
      /\ files[task.dest + 1].state # "deleted"
      /\ task.src \in DOMAIN file_metadata
  BY <1>1, <1>2 DEF CInv, TaskFiles, TaskStates, IoStates
<1>5. /\ Dest = task.dest + 1
      /\ files[task.dest + 1] \in FileInfo
      /\ files[task.dest + 1].file_id = task.dest
      /\ files[task.dest + 1].write_offset = task.dest_offset
      /\ task.dest_offset >= 1
  BY <1>2, DestInPlace
<1>6. d1 \in Nat /\ d1 >= 1 /\ d1 >= task.dest_offset
  BY <1>3, <1>5
<1>7. /\ task'.dest_offset = d1 /\ task'.state = "read_chunk"
      /\ task'.src = task.src /\ task'.dest = task.dest
      /\ task'.committed = task.committed \cup task.migrated
      /\ task'.migrated = {} /\ task'.chunk = task.chunk
      /\ task'.retry_count = task.retry_count
      /\ task'.retry_target = task.retry_target
      /\ task' \in Task
  <2> HIDE DEF d1
  <2>1. Committed = [task EXCEPT !.committed = task.committed \cup task.migrated,
                                 !.migrated = {}, !.state = "read_chunk",
                                 !.dest_offset = d1]
    BY <1>3 DEF Committed, d1, Task
  <2>2. task' = [task EXCEPT !.committed = task.committed \cup task.migrated,
                             !.migrated = {}, !.state = "read_chunk",
                             !.dest_offset = d1]
    BY <1>1, <2>1
  <2>3. task.committed \cup task.migrated \in SUBSET Migration
    BY <1>3
  <2> DEFINE c == task.committed \cup task.migrated
  <2> HIDE DEF c
  <2>4. task' = [task EXCEPT !.committed = c, !.migrated = {},
                             !.state = "read_chunk", !.dest_offset = d1]
    BY <2>2 DEF c
  <2>5. c \in SUBSET Migration
    BY <2>3 DEF c
  <2>6. /\ task'.dest_offset = d1 /\ task'.state = "read_chunk"
        /\ task'.src = task.src /\ task'.dest = task.dest
        /\ task'.committed = c
        /\ task'.migrated = {} /\ task'.chunk = task.chunk
        /\ task'.retry_count = task.retry_count
        /\ task'.retry_target = task.retry_target
        /\ task' \in Task
    BY <1>3, <1>6, <2>4, <2>5 DEF Task, TaskStates, IoStates
  <2> QED
    BY <2>6 DEF c
<1>8. f1 \in FileInfo /\ f1.file_id = task.dest /\ f1.write_offset = d1
      /\ f1.state = files[task.dest + 1].state
      /\ f1.blob_opened = files[task.dest + 1].blob_opened
  BY <1>5, <1>6 DEF FileInfo
<1>9. files' = [files EXCEPT ![task.dest + 1] = f1]
  BY <1>1, <1>5, <1>7
<1> HIDE DEF f1
<1>10. /\ task.dest + 1 \in 1 .. Len(files)
       /\ files' \in Seq(FileInfo)
       /\ Len(files') = Len(files)
       /\ \A g : Known(g) =>
            files'[g + 1] = IF g = task.dest THEN f1 ELSE files[g + 1]
       /\ FilesInOrder' /\ AllocationInOrder' /\ KnownFiles'
  <2>1. /\ f1.write_offset >= 1
        /\ task.dest = task.src /\ files[task.dest + 1].blob_opened =>
             f1.blob_opened
        /\ DOMAIN file_metadata' \subseteq DOMAIN file_metadata \cup {task.dest}
        /\ Running' => task'.dest = task.dest
        /\ task.dest \in {task.src, task.dest}
    BY <1>1, <1>4, <1>6, <1>7, <1>8
  <2> QED
    BY <1>1, <1>2, <1>8, <1>9, <2>1, OwnFile
<1>11. ASSUME NEW g, Known(g)
       PROVE  /\ g < Len(files')
              /\ files'[g + 1].state = files[g + 1].state
              /\ files'[g + 1].blob_opened = files[g + 1].blob_opened
              /\ g # task.dest => files'[g + 1] = files[g + 1]
              /\ files'[task.dest + 1].write_offset = d1
  <2>1. g < Len(files) /\ Known(task.dest)
    BY <1>2, <1>11, KnownPlace, TaskFilesKnown
  <2> QED
    BY <1>8, <1>10, <1>11, <2>1
<1>12. Known(task.src) /\ Known(task.dest)
  BY <1>2, TaskFilesKnown
<1> HIDE DEF d1
<1>13. /\ mem_index' \in [Keys -> Entry \cup {NoEntry}]
       /\ \A k \in Keys :
            \/ mem_index'[k] = mem_index[k]
            \/ /\ Find(k) /\ mem_index'[k] \in Entry
               /\ \E m \in task.migrated :
                    /\ m.key = k /\ mem_index'[k].seq = m.seq
                    /\ mem_index'[k].file = task.dest
                    /\ mem_index'[k].offset = m.to
                    /\ mem_index'[k].pages = m.pages
  BY <1>1, <1>2, EntriesMove
<1>14. /\ \A m \in task.migrated : /\ m.to >= task.dest_offset
                                   /\ m.to + m.pages <= d1
                                   /\ Copy(m) \in disk
       /\ \A m, n \in task.committed \cup task.migrated : m # n => Apart(m, n)
       /\ \A m \in task.committed : m.to + m.pages <= task.dest_offset
                                    /\ m.to >= 1
                                    /\ Copy(m) \in disk
  BY <1>1, <1>2 DEF CInv, CopiesInPlace, d1
<1>15. Used' = 0
  BY <1>7, NothingUsed
<1>16. RetriesLeft'
  BY <1>1, <1>7 DEF CInv, RetriesLeft
<1>17. CompactionTypeOK'
  <2>1. /\ disk' \subseteq Write /\ 0 <= ChunkPages
        /\ DOMAIN file_metadata' \subseteq Nat
        /\ \A f \in DOMAIN file_metadata' : file_metadata'[f] \in FileStates
    BY <1>1, CompactionAssumption DEF CInv, CompactionTypeOK, TypeOK
  <2> QED
    BY <1>1, <1>7, <1>10, <1>13, <1>15, <1>16, <2>1, TypedStep
<1>19. RecordsInFiles'
  <2> SUFFICES ASSUME NEW w \in inflight \cup disk
               PROVE  /\ w.file < Len(files')
                      /\ w.offset >= 1
                      /\ w.offset + w.pages <= Frontier(w.file)'
    BY <1>1 DEF RecordsInFiles
  <2>1. Known(w.file)
    BY RecordsKnown
  <2>2. /\ w.file < Len(files) /\ w.offset >= 1
        /\ w.offset + w.pages <= Frontier(w.file)
    BY DEF CInv, RecordsInFiles
  <2>3. Frontier(w.file) = IF w.file = task.dest THEN d1
                           ELSE files[w.file + 1].write_offset
    BY <1>1, <1>2 DEF Frontier, d1
  <2>4. Frontier(w.file)' = files'[w.file + 1].write_offset
    BY <1>7 DEF Frontier
  <2>5. Frontier(w.file)' = Frontier(w.file)
    BY <1>11, <1>12, <2>1, <2>3, <2>4
  <2> QED
    BY <1>11, <2>1, <2>2, <2>5
<1>20. FiniteRecords'
  BY <1>1, <1>7, FS_EmptySet DEF CInv, FiniteRecords
<1>21. WritesToLiveFiles'
  <2>1. Known(active_file_id) /\ \A w \in inflight : Known(w.file)
    BY ActiveKnown, RecordsKnown
  <2> QED
    BY <1>1, <1>11, <2>1 DEF CInv, WritesToLiveFiles
<1>22. TaskFiles'
  BY <1>1, <1>4, <1>7, <1>11, <1>12 DEF TaskFiles
<1>23. NoOverlap' /\ NotYetDurable'
  BY <1>1 DEF CInv, NoOverlap, NotYetDurable, Overlap
<1>24. ChunkInSource'
  <2> SUFFICES ASSUME NEW d \in task.chunk
               PROVE  /\ d.file = task.src
                      /\ d.offset + d.pages <= files'[d.file + 1].write_offset
                      /\ \A w \in inflight \cup disk \cup task.chunk :
                           w # d => ~Overlap(w, d)
    BY <1>1, <1>7 DEF ChunkInSource, Overlap
  <2>1. /\ d.file = task.src
        /\ d.offset + d.pages <= files[d.file + 1].write_offset
        /\ \A w \in inflight \cup disk \cup task.chunk :
             w # d => ~Overlap(w, d)
    BY <1>2 DEF CInv, ChunkInSource
  <2>2. files'[task.src + 1] = files[task.src + 1]
    BY <1>4, <1>11, <1>12
  <2> QED
    BY <2>1, <2>2
<1>25. SourceStays'
  BY <1>1, <1>2, <1>7, <1>11, <1>12 DEF CInv, SourceStays
<1>26. CopiesInPlace'
  <2>1. \A m : Copy(m)' = Copy(m)
    BY <1>7 DEF Copy
  <2>2. ASSUME NEW m \in task.committed \cup task.migrated
        PROVE  m.to + m.pages <= d1 /\ m.to >= 1 /\ Copy(m) \in disk
    <3>1. m.to \in Nat /\ m.pages \in Nat
      BY <1>3, MigrationFields
    <3> QED
      BY <1>3, <1>5, <1>6, <1>14, <3>1
  <2> QED
    BY <1>1, <1>7, <1>14, <2>1, <2>2 DEF CopiesInPlace, Apart
<1>27. DestEntries'
  <2> SUFFICES ASSUME NEW k \in Keys, Find(k)', mem_index'[k].file = task.dest
               PROVE  \E m \in task.committed \cup task.migrated :
                        m.key = k /\ m.to = mem_index'[k].offset
    BY <1>7 DEF DestEntries
  <2>1. CASE mem_index'[k] = mem_index[k]
    BY <1>2, <2>1 DEF CInv, DestEntries, Find
  <2> QED
    BY <1>13, <2>1
<1>28. ReadsAccountedFor'
  <2>1. \A r \in reads : Known(r.file)
    BY ReadsKnown
  <2> QED
    BY <1>1, <1>11, <2>1 DEF CInv, ReadsAccountedFor
<1>29. EntriesReadable'
  <2> SUFFICES ASSUME NEW k \in Keys, Find(k)'
               PROVE  /\ \E d \in disk :
                           /\ d.kind = "put" /\ d.key = k
                           /\ d.seq = mem_index'[k].seq
                           /\ d.file = mem_index'[k].file
                           /\ d.offset = mem_index'[k].offset
                           /\ d.pages = mem_index'[k].pages
                      /\ files'[mem_index'[k].file + 1].blob_opened
                      /\ files'[mem_index'[k].file + 1].state # "deleted"
    BY <1>1 DEF EntriesReadable
  <2>1. CASE mem_index'[k] = mem_index[k]
    <3>1. Find(k)
      BY <2>1 DEF Find
    <3>2. Known(mem_index[k].file)
      BY <3>1, EntriesKnown
    <3> QED
      BY <1>11, <2>1, <3>1, <3>2 DEF CInv, EntriesReadable
  <2>2. CASE \E m \in task.migrated :
               /\ m.key = k /\ mem_index'[k].seq = m.seq
               /\ mem_index'[k].file = task.dest
               /\ mem_index'[k].offset = m.to
               /\ mem_index'[k].pages = m.pages
    <3>1. PICK m \in task.migrated :
               /\ m.key = k /\ mem_index'[k].seq = m.seq
               /\ mem_index'[k].file = task.dest
               /\ mem_index'[k].offset = m.to
               /\ mem_index'[k].pages = m.pages
      BY <2>2
    <3>2. /\ Copy(m).kind = "put" /\ Copy(m).key = m.key
          /\ Copy(m).seq = m.seq /\ Copy(m).file = task.dest
          /\ Copy(m).offset = m.to /\ Copy(m).pages = m.pages
      BY DEF Copy
    <3>3. Copy(m) \in disk
      BY <1>14
    <3> QED
      BY <1>4, <1>11, <1>12, <3>1, <3>2, <3>3
  <2> QED
    BY <1>13, <2>1, <2>2
<1> QED
  BY <1>10, <1>16, <1>17, <1>19, <1>20, <1>21, <1>22, <1>23, <1>24, <1>25,
     <1>26, <1>27, <1>28, <1>29
  DEF CInv


-----------------------------------------------------------------------------
(* Rollback                                                                 *)

(* revert_index_update returns every entry of the destination to its record *)
(* in the source, and touches no other.                                     *)
LEMMA EntriesReturn ==
  ASSUME CInv, Running, mem_index' = RevertedIndex
  PROVE  /\ mem_index' \in [Keys -> Entry \cup {NoEntry}]
         /\ \A k \in Keys :
              \/ /\ mem_index'[k] = mem_index[k]
                 /\ ~(Find(k) /\ mem_index[k].file = task.dest)
              \/ /\ Find(k) /\ mem_index'[k] \in Entry
                 /\ \E m \in task.committed \cup task.migrated :
                      /\ m.key = k /\ mem_index'[k].seq = m.seq
                      /\ mem_index'[k].file = task.src
                      /\ mem_index'[k].offset = m.from
                      /\ mem_index'[k].pages = m.pages
<1> DEFINE M == task.committed \cup task.migrated
           At(k) == { m \in M : /\ m.key = k
                                /\ mem_index[k].file = task.dest
                                /\ mem_index[k].offset = m.to }
<1>1. M \subseteq Migration /\ task.src \in Nat
  BY TaskTyped DEF Running
<1>2. mem_index \in [Keys -> Entry \cup {NoEntry}]
  BY DEF CInv, CompactionTypeOK, TypeOK
<1>3. ASSUME NEW k \in Keys
      PROVE  \/ /\ mem_index'[k] = mem_index[k]
                /\ ~(Find(k) /\ mem_index[k].file = task.dest)
             \/ /\ Find(k) /\ mem_index'[k] \in Entry
                /\ \E m \in M :
                     /\ m.key = k /\ mem_index'[k].seq = m.seq
                     /\ mem_index'[k].file = task.src
                     /\ mem_index'[k].offset = m.from
                     /\ mem_index'[k].pages = m.pages
  <2>1. CASE ~(Find(k) /\ At(k) # {})
    <3>1. mem_index'[k] = mem_index[k]
      BY <2>1 DEF RevertedIndex
    <3>2. ASSUME Find(k), mem_index[k].file = task.dest
          PROVE  FALSE
      <4>1. PICK n \in task.committed : n.key = k /\ n.to = mem_index[k].offset
        BY <3>2 DEF CInv, DestEntries
      <4>2. n \in At(k)
        BY <3>2, <4>1
      <4> QED
        BY <2>1, <3>2, <4>2
    <3> QED
      BY <3>1, <3>2
  <2>2. CASE Find(k) /\ At(k) # {}
    <3> DEFINE m == CHOOSE n \in At(k) : TRUE
    <3>1. m \in At(k)
      BY <2>2
    <3>2. mem_index'[k] = MovedTo(k, task.src, m.from, m.pages)
      BY <2>2 DEF RevertedIndex
    <3> HIDE DEF m
    <3>3. /\ m \in M /\ m.key = k
          /\ mem_index[k].file = task.dest /\ mem_index[k].offset = m.to
      BY <3>1
    <3>4. /\ m \in Migration /\ m.from \in Nat /\ m.to \in Nat
          /\ m.pages \in Nat /\ m.pages \in Nat \ {0}
      BY <1>1, <3>3, MigrationFields
    <3>5. mem_index[k] \in Entry
      BY <1>2, <2>2 DEF Find
    <3>6. /\ mem_index'[k] \in Entry
          /\ mem_index'[k].seq = mem_index[k].seq
          /\ mem_index'[k].file = task.src
          /\ mem_index'[k].offset = m.from
          /\ mem_index'[k].pages = m.pages
      BY <1>1, <3>2, <3>4, <3>5 DEF MovedTo, Entry
    <3>7. PICK n \in task.committed : n.key = k /\ n.to = mem_index[k].offset
      BY <2>2, <3>3 DEF CInv, DestEntries
    <3>8. n = m
      <4>1. n \in M /\ n \in Migration
        BY <1>1, <3>7
      <4>2. n.to = m.to /\ n.pages \in Nat /\ n.pages # 0
        BY <3>3, <3>7, <4>1, MigrationFields
      <4>3. ~Apart(n, m)
        BY <3>4, <4>2 DEF Apart
      <4> QED
        BY <3>3, <4>1, <4>3 DEF CInv, CopiesInPlace
    <3>9. /\ Copy(m) \in disk
          /\ Copy(m).seq = m.seq /\ Copy(m).file = task.dest
          /\ Copy(m).offset = m.to
      BY <3>7, <3>8 DEF CInv, CopiesInPlace, Copy
    <3>10. PICK e \in disk : /\ e.seq = mem_index[k].seq
                             /\ e.file = mem_index[k].file
                             /\ e.offset = mem_index[k].offset
      BY <2>2 DEF CInv, EntriesReadable
    <3>11. e = Copy(m)
      BY <3>3, <3>9, <3>10, OneRecord
    <3> QED
      BY <2>2, <3>3, <3>6, <3>9, <3>10, <3>11
  <2> QED
    BY <2>1, <2>2
<1>4. mem_index' = [k \in Keys |-> mem_index'[k]]
  <2>1. \E F \in {[k \in Keys |-> mem_index'[k]]} : mem_index' = F
    BY DEF RevertedIndex
  <2> QED
    BY <2>1
<1> QED
  BY <1>2, <1>3, <1>4

(* Every entry goes back to the source before the destination is given up.  *)
LEMMA StartRollbackKeeps ==
  ASSUME CInv, StartRollback
  PROVE  CInv'
<1>1. /\ task # NoTask /\ task.state = "rollback"
      /\ mem_index' = RevertedIndex
      /\ UNCHANGED <<disk, requestVars>>
      /\ UNCHANGED <<next_file_id, active_file_id, alloc_stage,
                     allocating_new_file, inflight, reads, alloc_file>>
  BY RequestsWait DEF StartRollback, StepIn
<1>2. Running
  BY <1>1 DEF Running
<1>3. /\ task.committed \subseteq Migration /\ task.chunk \subseteq Write
      /\ task \in Task /\ task.dest \in Nat /\ task.src \in Nat
      /\ task.migrated \subseteq Migration
  BY <1>1, TaskTyped
<1>4. /\ task.dest < Len(files) /\ task.dest # task.src
      /\ \A w \in inflight : w.file # task.dest
      /\ task.dest # active_file_id
      /\ files[task.dest + 1].blob_opened
      /\ task.src \in DOMAIN file_metadata
  BY <1>1, <1>2 DEF CInv, TaskFiles, TaskStates, IoStates
<1>5. /\ Dest = task.dest + 1
      /\ files[task.dest + 1] \in FileInfo
      /\ files[task.dest + 1].file_id = task.dest
      /\ files[task.dest + 1].write_offset = task.dest_offset
      /\ task.dest_offset >= 1
  BY <1>2, DestInPlace
<1>6. PICK f1 \in {files[task.dest + 1],
                   [files[task.dest + 1] EXCEPT !.state = "deleted"]},
           st \in {"closing", "rollback_mark_sealed"}, io \in BOOLEAN :
        /\ files' = [files EXCEPT ![task.dest + 1] = f1]
        /\ task' = [task EXCEPT !.committed = {}, !.migrated = {},
                                !.state = st, !.io_pending = io]
        /\ st = "closing" => f1.state = "deleted"
  <2>1. CASE /\ task' = [[task EXCEPT !.committed = {}, !.migrated = {}]
                           EXCEPT !.state = "closing", !.io_pending = TRUE]
             /\ files' = [files EXCEPT ![Dest].state = "deleted"]
    <3> DEFINE f1 == [files[task.dest + 1] EXCEPT !.state = "deleted"]
    <3>1. files' = [files EXCEPT ![task.dest + 1] = f1]
      BY <1>5, <2>1
    <3>2. f1.state = "deleted"
      BY <1>5 DEF FileInfo
    <3>3. task' = [task EXCEPT !.committed = {}, !.migrated = {},
                               !.state = "closing", !.io_pending = TRUE]
      BY <1>3, <2>1 DEF Task
    <3> QED
      BY <3>1, <3>2, <3>3
  <2>2. CASE /\ task' = [[task EXCEPT !.committed = {}, !.migrated = {}]
                           EXCEPT !.state = "rollback_mark_sealed"]
             /\ files' = files
    <3>1. files' = [files EXCEPT ![task.dest + 1] = files[task.dest + 1]]
      <4>1. files \in Seq(FileInfo)
        BY DEF CInv, CompactionTypeOK, TypeOK
      <4> QED
        BY <2>2, <4>1
    <3>2. task.io_pending \in BOOLEAN
      BY <1>3 DEF Task
    <3>3. task' = [task EXCEPT !.committed = {}, !.migrated = {},
                               !.state = "rollback_mark_sealed",
                               !.io_pending = task.io_pending]
      BY <1>3, <2>2 DEF Task
    <3> QED
      BY <3>1, <3>2, <3>3
  <2> QED
    BY <2>1, <2>2 DEF StartRollback
<1>7. /\ task'.dest_offset = task.dest_offset /\ task'.state = st
      /\ task'.src = task.src /\ task'.dest = task.dest
      /\ task'.committed = {} /\ task'.migrated = {}
      /\ task'.chunk = task.chunk
      /\ task'.retry_count = task.retry_count
      /\ task'.retry_target = task.retry_target
      /\ task' \in Task
  <2>1. st \in TaskStates
    BY DEF TaskStates, IoStates
  <2> QED
    BY <1>3, <1>6, <2>1 DEF Task
<1>8. /\ f1 \in FileInfo /\ f1.file_id = task.dest
      /\ f1.write_offset = task.dest_offset
      /\ f1.blob_opened
      /\ files[task.dest + 1].state = "deleted" => f1.state = "deleted"
  <2>1. "deleted" \in FileStates
    BY DEF FileStates
  <2> QED
    BY <1>4, <1>5, <2>1 DEF FileInfo
<1>9. /\ DOMAIN file_metadata' = DOMAIN file_metadata
      /\ \A f \in DOMAIN file_metadata' : file_metadata'[f] \in FileStates
  <2>1. \A f \in DOMAIN file_metadata : file_metadata[f] \in FileStates
    BY DEF CInv, CompactionTypeOK
  <2>2. \/ file_metadata' = file_metadata
        \/ file_metadata' = [file_metadata EXCEPT ![task.dest] = "deleted"]
    BY DEF StartRollback
  <2> QED
    BY <2>1, <2>2 DEF FileStates
<1>10. /\ task.dest + 1 \in 1 .. Len(files)
       /\ files' \in Seq(FileInfo)
       /\ Len(files') = Len(files)
       /\ \A g : Known(g) =>
            files'[g + 1] = IF g = task.dest THEN f1 ELSE files[g + 1]
       /\ FilesInOrder' /\ AllocationInOrder' /\ KnownFiles'
  <2>1. /\ f1.write_offset >= 1
        /\ task.dest = task.src /\ files[task.dest + 1].blob_opened =>
             f1.blob_opened
        /\ DOMAIN file_metadata' \subseteq DOMAIN file_metadata \cup {task.dest}
        /\ Running' => task'.dest = task.dest
        /\ task.dest \in {task.src, task.dest}
        /\ files' = [files EXCEPT ![task.dest + 1] = f1]
    BY <1>4, <1>5, <1>6, <1>7, <1>8, <1>9
  <2> QED
    BY <1>1, <1>2, <1>8, <2>1, OwnFile
<1>11. ASSUME NEW g, Known(g)
       PROVE  /\ g < Len(files')
              /\ files'[g + 1].write_offset = files[g + 1].write_offset
              /\ g # task.dest => files'[g + 1] = files[g + 1]
              /\ files[g + 1].state = "deleted" => files'[g + 1].state = "deleted"
  <2>1. g < Len(files)
    BY <1>11, KnownPlace
  <2> QED
    BY <1>5, <1>8, <1>10, <1>11, <2>1
<1>12. Known(task.src) /\ Known(task.dest)
  BY <1>2, TaskFilesKnown
<1>13. /\ mem_index' \in [Keys -> Entry \cup {NoEntry}]
       /\ \A k \in Keys :
            \/ /\ mem_index'[k] = mem_index[k]
               /\ ~(Find(k) /\ mem_index[k].file = task.dest)
            \/ /\ Find(k) /\ mem_index'[k] \in Entry
               /\ \E m \in task.committed \cup task.migrated :
                    /\ m.key = k /\ mem_index'[k].seq = m.seq
                    /\ mem_index'[k].file = task.src
                    /\ mem_index'[k].offset = m.from
                    /\ mem_index'[k].pages = m.pages
  BY <1>1, <1>2, EntriesReturn
<1>14. Used' = 0
  BY <1>7, NothingUsed
<1>15. RetriesLeft'
  BY <1>1, <1>7 DEF CInv, RetriesLeft
<1>16. CompactionTypeOK'
  <2>1. /\ disk' \subseteq Write /\ 0 <= ChunkPages
        /\ DOMAIN file_metadata' \subseteq Nat
    BY <1>1, <1>9, CompactionAssumption DEF CInv, CompactionTypeOK, TypeOK
  <2> QED
    BY <1>1, <1>7, <1>9, <1>10, <1>13, <1>14, <1>15, <2>1, TypedStep
<1>17. RecordsInFiles'
  <2> SUFFICES ASSUME NEW w \in inflight \cup disk
               PROVE  /\ w.file < Len(files')
                      /\ w.offset >= 1
                      /\ w.offset + w.pages <= Frontier(w.file)'
    BY <1>1 DEF RecordsInFiles
  <2>1. Known(w.file)
    BY RecordsKnown
  <2>2. /\ w.offset >= 1
        /\ w.offset + w.pages <= Frontier(w.file)
    BY DEF CInv, RecordsInFiles
  <2>3. Frontier(w.file) = files[w.file + 1].write_offset
    BY <1>1 DEF Frontier
  <2>4. Frontier(w.file)' = files'[w.file + 1].write_offset
    BY <1>7 DEF Frontier
  <2> QED
    BY <1>11, <2>1, <2>2, <2>3, <2>4
<1>18. FiniteRecords'
  BY <1>1, <1>7, FS_EmptySet DEF CInv, FiniteRecords
<1>19. WritesToLiveFiles'
  <2>1. Known(active_file_id) /\ \A w \in inflight : Known(w.file)
    BY ActiveKnown, RecordsKnown
  <2> QED
    BY <1>1, <1>4, <1>11, <2>1 DEF CInv, WritesToLiveFiles
<1>20. TaskFiles'
  <2>1. /\ files'[task.dest + 1] = f1 /\ task.dest < Len(files')
    BY <1>10, <1>11, <1>12
  <2> QED
    BY <1>1, <1>4, <1>6, <1>7, <1>8, <1>9, <2>1 DEF TaskFiles
<1>21. NoOverlap' /\ NotYetDurable'
  BY <1>1 DEF CInv, NoOverlap, NotYetDurable, Overlap
<1>22. ChunkInSource'
  <2> SUFFICES ASSUME NEW d \in task.chunk
               PROVE  /\ d.file = task.src
                      /\ d.offset + d.pages <= files'[d.file + 1].write_offset
                      /\ \A w \in inflight \cup disk \cup task.chunk :
                           w # d => ~Overlap(w, d)
    BY <1>1, <1>7 DEF ChunkInSource, Overlap
  <2>1. /\ d.file = task.src
        /\ d.offset + d.pages <= files[d.file + 1].write_offset
        /\ \A w \in inflight \cup disk \cup task.chunk :
             w # d => ~Overlap(w, d)
    BY <1>2 DEF CInv, ChunkInSource
  <2>2. files'[task.src + 1] = files[task.src + 1]
    BY <1>4, <1>11, <1>12
  <2> QED
    BY <2>1, <2>2
<1>23. SourceStays' /\ CopiesInPlace'
  BY <1>7 DEF SourceStays, CopiesInPlace
<1>24. DestEntries'
  <2> SUFFICES ASSUME NEW k \in Keys, Find(k)', mem_index'[k].file = task.dest
               PROVE  FALSE
    BY <1>7 DEF DestEntries
  <2>1. CASE /\ mem_index'[k] = mem_index[k]
             /\ ~(Find(k) /\ mem_index[k].file = task.dest)
    BY <2>1 DEF Find
  <2> QED
    BY <1>4, <1>13, <2>1
<1>25. ReadsAccountedFor'
  <2>1. \A r \in reads : Known(r.file)
    BY ReadsKnown
  <2> QED
    BY <1>1, <1>9, <1>11, <2>1 DEF CInv, ReadsAccountedFor
<1>26. EntriesReadable'
  <2> SUFFICES ASSUME NEW k \in Keys, Find(k)'
               PROVE  /\ \E d \in disk :
                           /\ d.kind = "put" /\ d.key = k
                           /\ d.seq = mem_index'[k].seq
                           /\ d.file = mem_index'[k].file
                           /\ d.offset = mem_index'[k].offset
                           /\ d.pages = mem_index'[k].pages
                      /\ files'[mem_index'[k].file + 1].blob_opened
                      /\ files'[mem_index'[k].file + 1].state # "deleted"
    BY <1>1 DEF EntriesReadable
  <2>1. CASE /\ mem_index'[k] = mem_index[k]
             /\ ~(Find(k) /\ mem_index[k].file = task.dest)
    <3>1. Find(k)
      BY <2>1 DEF Find
    <3>2. Known(mem_index[k].file)
      BY <3>1, EntriesKnown
    <3> QED
      BY <1>11, <2>1, <3>1, <3>2 DEF CInv, EntriesReadable
  <2>2. CASE \E m \in task.committed \cup task.migrated :
               /\ m.key = k /\ mem_index'[k].seq = m.seq
               /\ mem_index'[k].file = task.src
               /\ mem_index'[k].offset = m.from
               /\ mem_index'[k].pages = m.pages
    <3>1. files'[task.src + 1] = files[task.src + 1]
      BY <1>4, <1>11, <1>12
    <3> QED
      BY <1>2, <2>2, <3>1 DEF CInv, SourceStays
  <2> QED
    BY <1>13, <2>1, <2>2
<1> QED
  BY <1>10, <1>15, <1>16, <1>17, <1>18, <1>19, <1>20, <1>21, <1>22, <1>23,
     <1>24, <1>25, <1>26
  DEF CInv


(* The destination that is closed and deleted has no entry left.            *)
LEMMA NoEntryInDest ==
  ASSUME CInv, Running,
         task.state \in {"closing", "deleting", "rollback_mark_sealed"},
         NEW k \in Keys, Find(k)
  PROVE  mem_index[k].file # task.dest
BY DEF CInv, TaskFiles, DestEntries

LEMMA DestClosedKeeps ==
  ASSUME CInv, DestClosed
  PROVE  CInv'
<1> DEFINE f1 == [files[task.dest + 1] EXCEPT !.blob_opened = FALSE]
<1>1. /\ task # NoTask /\ task.state = "closing"
      /\ UNCHANGED <<file_metadata, disk, mem_index, requestVars>>
      /\ UNCHANGED <<next_file_id, active_file_id, alloc_stage,
                     allocating_new_file, inflight, reads, alloc_file>>
  BY RequestsWait DEF DestClosed, IoPendingIn, dataVars
<1>2. Running
  BY <1>1 DEF Running
<1>3. task \in Task /\ task.chunk \subseteq Write
  BY <1>1, TaskTyped
<1>4. /\ task.dest < Len(files) /\ task.dest # task.src
      /\ \A w \in inflight : w.file # task.dest
      /\ task.dest # active_file_id
      /\ files[task.dest + 1].state = "deleted"
      /\ task.committed = {}
      /\ task.src \in DOMAIN file_metadata
  BY <1>1, <1>2 DEF CInv, TaskFiles
<1>5. /\ Dest = task.dest + 1
      /\ files[task.dest + 1] \in FileInfo
      /\ files[task.dest + 1].file_id = task.dest
      /\ files[task.dest + 1].write_offset = task.dest_offset
      /\ task.dest_offset >= 1
  BY <1>2, DestInPlace
<1>6. PICK st \in {"deleting", "rollback_mark_sealed"}, io \in BOOLEAN :
        task' = [task EXCEPT !.state = st, !.io_pending = io]
  <2>1. CASE task' = [task EXCEPT !.state = "deleting"]
    <3>1. task' = [task EXCEPT !.state = "deleting",
                               !.io_pending = task.io_pending]
      BY <1>3, <2>1 DEF Task
    <3>2. task.io_pending \in BOOLEAN
      BY <1>3 DEF Task
    <3> QED
      BY <3>1, <3>2
  <2>2. CASE task' = [task EXCEPT !.io_pending = FALSE,
                                  !.state = "rollback_mark_sealed"]
    <3>1. task' = [task EXCEPT !.state = "rollback_mark_sealed",
                               !.io_pending = FALSE]
      BY <1>3, <2>2 DEF Task
    <3> QED
      BY <3>1
  <2> QED
    BY <2>1, <2>2 DEF DestClosed, Goto, CompleteTo
<1>7. /\ task'.dest_offset = task.dest_offset /\ task'.state = st
      /\ task'.src = task.src /\ task'.dest = task.dest
      /\ task'.committed = task.committed /\ task'.migrated = task.migrated
      /\ task'.chunk = task.chunk
      /\ task'.retry_count = task.retry_count
      /\ task'.retry_target = task.retry_target
      /\ task' \in Task
  <2>1. st \in TaskStates
    BY DEF TaskStates, IoStates
  <2> QED
    BY <1>3, <1>6, <2>1 DEF Task
<1>8. /\ f1 \in FileInfo /\ f1.file_id = task.dest
      /\ f1.write_offset = task.dest_offset /\ f1.state = "deleted"
  BY <1>4, <1>5 DEF FileInfo
<1>9. files' = [files EXCEPT ![task.dest + 1] = f1]
  BY <1>5 DEF DestClosed
<1> HIDE DEF f1
<1>10. /\ task.dest + 1 \in 1 .. Len(files)
       /\ files' \in Seq(FileInfo)
       /\ Len(files') = Len(files)
       /\ \A g : Known(g) =>
            files'[g + 1] = IF g = task.dest THEN f1 ELSE files[g + 1]
       /\ FilesInOrder' /\ AllocationInOrder' /\ KnownFiles'
  <2>1. /\ f1.write_offset >= 1
        /\ task.dest = task.src /\ files[task.dest + 1].blob_opened =>
             f1.blob_opened
        /\ DOMAIN file_metadata' \subseteq DOMAIN file_metadata \cup {task.dest}
        /\ Running' => task'.dest = task.dest
        /\ task.dest \in {task.src, task.dest}
    BY <1>1, <1>4, <1>5, <1>7, <1>8
  <2> QED
    BY <1>1, <1>2, <1>8, <1>9, <2>1, OwnFile
<1>11. ASSUME NEW g, Known(g)
       PROVE  /\ g < Len(files')
              /\ files'[g + 1].write_offset = files[g + 1].write_offset
              /\ g # task.dest => files'[g + 1] = files[g + 1]
              /\ files[g + 1].state = "deleted" => files'[g + 1].state = "deleted"
  <2>1. g < Len(files)
    BY <1>11, KnownPlace
  <2> QED
    BY <1>5, <1>8, <1>10, <1>11, <2>1
<1>12. Known(task.src) /\ Known(task.dest)
  BY <1>2, TaskFilesKnown
<1>13. Used' = Used
  BY <1>7 DEF Used
<1>14. RetriesLeft'
  BY <1>1, <1>7 DEF CInv, RetriesLeft
<1>15. CompactionTypeOK'
  <2>1. /\ disk' \subseteq Write /\ Used' <= ChunkPages
        /\ mem_index' \in [Keys -> Entry \cup {NoEntry}]
        /\ DOMAIN file_metadata' \subseteq Nat
        /\ \A f \in DOMAIN file_metadata' : file_metadata'[f] \in FileStates
    BY <1>1, <1>13 DEF CInv, CompactionTypeOK, TypeOK
  <2> QED
    BY <1>1, <1>7, <1>10, <1>14, <2>1, TypedStep
<1>16. RecordsInFiles'
  <2> SUFFICES ASSUME NEW w \in inflight \cup disk
               PROVE  /\ w.file < Len(files')
                      /\ w.offset >= 1
                      /\ w.offset + w.pages <= Frontier(w.file)'
    BY <1>1 DEF RecordsInFiles
  <2>1. Known(w.file)
    BY RecordsKnown
  <2>2. /\ w.offset >= 1
        /\ w.offset + w.pages <= Frontier(w.file)
    BY DEF CInv, RecordsInFiles
  <2>3. Frontier(w.file) = files[w.file + 1].write_offset
    BY <1>1 DEF Frontier
  <2>4. Frontier(w.file)' = files'[w.file + 1].write_offset
    BY <1>7 DEF Frontier
  <2> QED
    BY <1>11, <2>1, <2>2, <2>3, <2>4
<1>17. FiniteRecords'
  BY <1>1, <1>7 DEF CInv, FiniteRecords
<1>18. WritesToLiveFiles'
  <2>1. Known(active_file_id) /\ \A w \in inflight : Known(w.file)
    BY ActiveKnown, RecordsKnown
  <2> QED
    BY <1>1, <1>4, <1>11, <2>1 DEF CInv, WritesToLiveFiles
<1>19. TaskFiles'
  <2>1. /\ files'[task.dest + 1] = f1 /\ task.dest < Len(files')
    BY <1>10, <1>11, <1>12
  <2> QED
    BY <1>1, <1>4, <1>7, <1>8, <2>1 DEF TaskFiles
<1>20. NoOverlap' /\ NotYetDurable'
  BY <1>1 DEF CInv, NoOverlap, NotYetDurable, Overlap
<1>21. files'[task.src + 1] = files[task.src + 1]
  BY <1>4, <1>11, <1>12
<1>22. ChunkInSource'
  <2> SUFFICES ASSUME NEW d \in task.chunk
               PROVE  /\ d.file = task.src
                      /\ d.offset + d.pages <= files'[d.file + 1].write_offset
                      /\ \A w \in inflight \cup disk \cup task.chunk :
                           w # d => ~Overlap(w, d)
    BY <1>1, <1>7 DEF ChunkInSource, Overlap
  <2>1. /\ d.file = task.src
        /\ d.offset + d.pages <= files[d.file + 1].write_offset
        /\ \A w \in inflight \cup disk \cup task.chunk :
             w # d => ~Overlap(w, d)
    BY <1>2 DEF CInv, ChunkInSource
  <2> QED
    BY <1>21, <2>1
<1>23. SourceStays'
  BY <1>1, <1>2, <1>7, <1>21 DEF CInv, SourceStays
<1>24. CopiesInPlace'
  BY <1>1, <1>2, <1>7, <1>13 DEF CInv, CopiesInPlace, Copy, Apart
<1>25. DestEntries'
  BY <1>1, <1>2, <1>7 DEF CInv, DestEntries, Find
<1>26. ReadsAccountedFor'
  <2>1. \A r \in reads : Known(r.file)
    BY ReadsKnown
  <2> QED
    BY <1>1, <1>11, <2>1 DEF CInv, ReadsAccountedFor
<1>27. EntriesReadable'
  <2> SUFFICES ASSUME NEW k \in Keys, Find(k)
               PROVE  files'[mem_index[k].file + 1] = files[mem_index[k].file + 1]
    BY <1>1 DEF CInv, EntriesReadable, Find
  <2>1. Known(mem_index[k].file)
    BY EntriesKnown
  <2>2. mem_index[k].file # task.dest
    BY <1>1, <1>2, NoEntryInDest
  <2> QED
    BY <1>11, <2>1, <2>2
<1> QED
  BY <1>10, <1>14, <1>15, <1>16, <1>17, <1>18, <1>19, <1>20, <1>22, <1>23,
     <1>24, <1>25, <1>26, <1>27
  DEF CInv

(* The blob of the destination goes, or does not; the scheduler forgets it  *)
(* either way.                                                              *)
LEMMA DestDeletedKeeps ==
  ASSUME CInv, DestDeleted
  PROVE  CInv'
<1>1. /\ task # NoTask /\ task.state = "deleting"
      /\ UNCHANGED <<files, mem_index, requestVars>>
      /\ UNCHANGED <<next_file_id, active_file_id, alloc_stage,
                     allocating_new_file, inflight, reads, alloc_file>>
  BY RequestsWait DEF DestDeleted, IoPendingIn
<1>2. Running
  BY <1>1 DEF Running
<1>3. task \in Task
  BY <1>1, TaskTyped
<1>4. /\ task.dest < Len(files) /\ task.dest # task.src
      /\ \A w \in inflight : w.file # task.dest
      /\ task.dest # active_file_id
      /\ files[task.dest + 1].state = "deleted"
      /\ task.committed = {}
      /\ task.src \in DOMAIN file_metadata
      /\ files[task.dest + 1].write_offset = task.dest_offset
  BY <1>1, <1>2 DEF CInv, TaskFiles
<1>5. /\ disk' \subseteq disk
      /\ \A d \in disk : d.file # task.dest => d \in disk'
  BY DEF DestDeleted
<1>6. /\ DOMAIN file_metadata' = DOMAIN file_metadata \ {task.dest}
      /\ \A f \in DOMAIN file_metadata' : file_metadata'[f] = file_metadata[f]
  BY DEF DestDeleted
<1>7. /\ task'.dest_offset = task.dest_offset
      /\ task'.state = "rollback_mark_sealed"
      /\ task'.src = task.src /\ task'.dest = task.dest
      /\ task'.committed = {} /\ task'.migrated = task.migrated
      /\ task'.chunk = task.chunk
      /\ task'.retry_count = task.retry_count
      /\ task'.retry_target = task.retry_target
      /\ task' \in Task
  BY <1>3, <1>4 DEF DestDeleted, CompleteTo, Task, TaskStates, IoStates
<1>8. Used' = Used
  BY <1>7 DEF Used
<1>9. RetriesLeft'
  BY <1>1, <1>7 DEF CInv, RetriesLeft
<1>10. CompactionTypeOK'
  <2>1. /\ files' \in Seq(FileInfo)
        /\ disk' \subseteq Write /\ Used' <= ChunkPages
        /\ mem_index' \in [Keys -> Entry \cup {NoEntry}]
        /\ DOMAIN file_metadata' \subseteq Nat
        /\ \A f \in DOMAIN file_metadata' : file_metadata'[f] \in FileStates
    BY <1>1, <1>5, <1>6, <1>8 DEF CInv, CompactionTypeOK, TypeOK
  <2> QED
    BY <1>1, <1>7, <1>9, <2>1, TypedStep
<1>11. FilesInOrder' /\ WritesToLiveFiles'
  BY <1>1 DEF CInv, FilesInOrder, WritesToLiveFiles
<1>12. AllocationInOrder' /\ KnownFiles'
  BY <1>1, <1>2, <1>6, <1>7 DEF CInv, AllocationInOrder, KnownFiles
<1>13. RecordsInFiles'
  <2>1. \A f : Frontier(f)' = Frontier(f)
    BY <1>1, <1>7 DEF Frontier
  <2> QED
    BY <1>1, <1>5, <2>1 DEF CInv, RecordsInFiles
<1>14. FiniteRecords'
  <2>1. IsFiniteSet(disk')
    BY <1>5, FS_Subset DEF CInv, FiniteRecords
  <2> QED
    BY <1>1, <1>7, <2>1 DEF CInv, FiniteRecords
<1>15. TaskFiles'
  BY <1>1, <1>4, <1>6, <1>7 DEF TaskFiles
<1>16. NoOverlap' /\ NotYetDurable'
  BY <1>1, <1>5 DEF CInv, NoOverlap, NotYetDurable, Overlap
<1>17. ChunkInSource'
  BY <1>1, <1>2, <1>5, <1>7 DEF CInv, ChunkInSource, Overlap
<1>18. SourceStays'
  <2> SUFFICES ASSUME NEW m \in task.migrated
               PROVE  /\ files[task.src + 1].blob_opened
                      /\ files[task.src + 1].state # "deleted"
                      /\ \E d \in disk' :
                           /\ d.kind = "put" /\ d.key = m.key /\ d.seq = m.seq
                           /\ d.pages = m.pages /\ d.file = task.src
                           /\ d.offset = m.from
    BY <1>1, <1>7 DEF SourceStays
  <2> QED
    BY <1>2, <1>4, <1>5 DEF CInv, SourceStays
<1>19. CopiesInPlace'
  BY <1>1, <1>2, <1>4, <1>7, <1>8 DEF CInv, CopiesInPlace, Apart
<1>20. DestEntries'
  BY <1>1, <1>2, <1>4, <1>7 DEF CInv, DestEntries, Find
<1>21. ReadsAccountedFor'
  BY <1>1, <1>4, <1>5, <1>6 DEF CInv, ReadsAccountedFor
<1>22. EntriesReadable'
  <2> SUFFICES ASSUME NEW k \in Keys, Find(k)
               PROVE  /\ \E d \in disk' :
                           /\ d.kind = "put" /\ d.key = k
                           /\ d.seq = mem_index[k].seq
                           /\ d.file = mem_index[k].file
                           /\ d.offset = mem_index[k].offset
                           /\ d.pages = mem_index[k].pages
                      /\ files[mem_index[k].file + 1].blob_opened
                      /\ files[mem_index[k].file + 1].state # "deleted"
    BY <1>1 DEF EntriesReadable, Find
  <2>1. mem_index[k].file # task.dest
    BY <1>1, <1>2, NoEntryInDest
  <2> QED
    BY <1>5, <2>1 DEF CInv, EntriesReadable
<1> QED
  BY <1>9, <1>10, <1>11, <1>12, <1>13, <1>14, <1>15, <1>16, <1>17, <1>18,
     <1>19, <1>20, <1>21, <1>22
  DEF CInv


-----------------------------------------------------------------------------
(* All steps together                                                       *)

LEMMA InitCInv ==
  ASSUME CompactionInit
  PROVE  CInv
<1>1. Init /\ task = NoTask /\ pending_tasks = <<>> /\ compaction_paused = FALSE
      /\ file_metadata = [f \in {0} |-> "active"] /\ alloc_file = 0
  BY DEF CompactionInit
<1>2. TypeOK /\ FilesInOrder /\ NoOverlap /\ NotYetDurable
  BY <1>1, InitIInv DEF IInv
<1>3. /\ DOMAIN file_metadata = {0} /\ file_metadata[0] = "active"
      /\ ~Running
  BY <1>1 DEF Running
<1>4. CompactionTypeOK
  <2>1. pending_tasks \in Seq(Nat)
    BY <1>1
  <2>2. "active" \in FileStates
    BY DEF FileStates
  <2> QED
    BY <1>1, <1>2, <1>3, <2>1, <2>2 DEF CompactionTypeOK
<1>5. /\ inflight = {} /\ disk = {} /\ reads = {} /\ alloc_stage = "none"
      /\ allocating_new_file = FALSE /\ active_file_id = 0
      /\ \A k \in Keys : ~Find(k)
  BY <1>1 DEF Init, Find
<1>6. Len(files) = 1 /\ files[1].state # "deleted"
  <2> DEFINE f0 == [NewFile(0) EXCEPT !.blob_opened = TRUE]
  <2>1. f0.state = "active"
    BY DEF NewFile
  <2> HIDE DEF f0
  <2>2. files = <<f0>>
    BY <1>1 DEF Init, f0
  <2> QED
    BY <2>1, <2>2
<1>7. AllocationInOrder /\ KnownFiles /\ WritesToLiveFiles
  <2>1. 0 \in 0 .. Len(files) - 1
    BY <1>6
  <2>2. files[active_file_id + 1].state # "deleted"
    BY <1>5, <1>6
  <2> QED
    BY <1>3, <1>5, <2>1, <2>2
    DEF AllocationInOrder, KnownFiles, WritesToLiveFiles
<1>8. RecordsInFiles /\ FiniteRecords /\ ReadsAccountedFor /\ EntriesReadable
  BY <1>1, <1>5, FS_EmptySet
  DEF RecordsInFiles, FiniteRecords, ReadsAccountedFor, EntriesReadable
<1>9. TaskFiles /\ RetriesLeft /\ ChunkInSource /\ SourceStays /\ CopiesInPlace
      /\ DestEntries
  BY <1>1, <1>3
  DEF TaskFiles, RetriesLeft, ChunkInSource, SourceStays, CopiesInPlace,
      DestEntries
<1> QED
  BY <1>2, <1>4, <1>7, <1>8, <1>9 DEF CInv

LEMMA NextCInv ==
  ASSUME SerialAllocation, CInv, [CompactionNext]_allVars
  PROVE  CInv'
<1>1. CASE RequestPath
  BY <1>1, RequestPathKeeps
<1>2. CASE AllocationGoesOn
  BY <1>2, OwnBlobKeeps, DroppedKeeps DEF AllocationGoesOn
<1>3. CASE AllocatedForWrites
  BY <1>3, AllocatedKeeps
<1>4. CASE \/ \E i \in DOMAIN files : ScheduleCompaction(files[i].file_id)
           \/ PriorityControl
  BY <1>4, SchedulingKeeps
<1>5. CASE TaskStep
  <2>1. CASE InitTask
    BY <2>1, InitKeeps
  <2>2. CASE MarkCompacting \/ RollbackMarkSealed
    BY <2>2, MarkingSteps
  <2>3. CASE \/ ReadNextChunk \/ WriteChunk \/ Finalize \/ MarkDeleted
             \/ CheckRetryTimeout
    BY <2>3, WaitingSteps
  <2>4. CASE ProcessEntries
    BY <2>4, ProcessEntriesKeeps
  <2>5. CASE UpdateIndices
    BY <2>5, UpdateIndicesKeeps
  <2>6. CASE StartRollback
    BY <2>6, StartRollbackKeeps
  <2>7. CASE TaskOver
    BY <2>7, EndingSteps
  <2> QED
    BY <1>5, <2>1, <2>2, <2>3, <2>4, <2>5, <2>6, <2>7 DEF TaskStep
<1>6. CASE TaskIo
  <2>1. CASE DestAllocated
    BY <2>1, DestAllocatedKeeps
  <2>2. CASE DestNotAllocated
    BY <2>2, DestNotAllocatedKeeps
  <2>3. CASE HeaderWritten
    <3>1. task.state = "mark_compacting" \/ task.state = "mark_deleted"
      BY <2>3 DEF HeaderWritten, IoPendingIn
    <3> QED
      BY <2>3, <3>1, WaitingSteps, EndingSteps
  <2>4. CASE SealedWritten
    BY <2>4, EndingSteps
  <2>5. CASE ChunkRead
    BY <2>5, ChunkReadKeeps
  <2>6. CASE ChunkWritten
    BY <2>6, ChunkWrittenKeeps
  <2>7. CASE IoFailed
    BY <2>7, WaitingSteps
  <2>8. CASE DestClosed
    BY <2>8, DestClosedKeeps
  <2>9. CASE DestDeleted
    BY <2>9, DestDeletedKeeps
  <2> QED
    BY <1>6, <2>1, <2>2, <2>3, <2>4, <2>5, <2>6, <2>7, <2>8, <2>9 DEF TaskIo
<1>7. CASE UNCHANGED allVars
  <2>1. UNCHANGED <<vars, task, pending_tasks, compaction_paused, file_metadata,
                    alloc_file>>
    BY <1>7 DEF allVars, compactionVars
  <2>2. /\ UNCHANGED <<files, next_file_id, active_file_id, allocVars, inflight,
                       disk, mem_index>>
        /\ UNCHANGED reads
    BY <2>1 DEF vars, allocVars
  <2>3. CompactionTypeOK'
    BY <2>1 DEF CInv, CompactionTypeOK, TypeOK, Used, vars
  <2>4. ReadsAccountedFor'
    BY <2>1, <2>2 DEF CInv, ReadsAccountedFor
  <2> QED
    BY <2>1, <2>2, <2>3, <2>4, NothingMoves
<1> QED
  BY <1>1, <1>2, <1>3, <1>4, <1>5, <1>6, <1>7 DEF CompactionNext

-----------------------------------------------------------------------------
(* Results                                                                  *)

(* The invariant the results below follow from holds in every state in      *)
(* which requests, allocations and compactions leave the engine, whatever   *)
(* fails and however often a task is retried or rolled back.                *)
THEOREM CompactionInvariance ==
  ASSUME SerialAllocation
  PROVE  CompactionSpec => []CInv
<1>1. CompactionInit => CInv
  BY InitCInv
<1>2. CInv /\ [CompactionNext]_allVars => CInv'
  BY NextCInv
<1> QED
  BY <1>1, <1>2, PTL DEF CompactionSpec

(* The scheduler and the engine stay of their types; in particular the      *)
(* write buffer of a task never takes more than a chunk, process_entries    *)
(* included, and handle_io_error never counts past kMaxRetryCount.          *)
THEOREM CompactionTypeCorrect ==
  ASSUME SerialAllocation
  PROVE  CompactionSpec => []CompactionTypeOK
<1>1. CInv => CompactionTypeOK
  BY DEF CInv
<1> QED
  BY <1>1, CompactionInvariance, PTL

(* No write, of a request or of a task, is ever placed over another one:    *)
(* the copies lie where nothing lies, whichever chunks were retried.        *)
THEOREM CopiesNeverOverlap ==
  ASSUME SerialAllocation
  PROVE  CompactionSpec => []NoOverlap
<1>1. CInv => NoOverlap
  BY DEF CInv
<1> QED
  BY <1>1, CompactionInvariance, PTL

(* While update_indices and revert_index_update move entries, what find     *)
(* returns is where a put record of the key with its sequence is, in a file *)
(* get_async can read.                                                      *)
THEOREM CompactionKeepsIndex ==
  ASSUME SerialAllocation
  PROVE  CompactionSpec => []IndexPointsAtRecord
<1>1. ASSUME CInv PROVE IndexPointsAtRecord
  <2> SUFFICES ASSUME NEW k \in Keys, Find(k)
      PROVE  /\ \E d \in disk :
                  /\ d.kind = "put"
                  /\ d.key = k
                  /\ <<d.seq, d.file, d.offset, d.pages>>
                       = <<mem_index[k].seq, mem_index[k].file,
                           mem_index[k].offset, mem_index[k].pages>>
             /\ HasFile(mem_index[k].file)
             /\ files[IndexOfFile(mem_index[k].file)].blob_opened
    BY DEF IndexPointsAtRecord
  <2>1. /\ \E d \in disk :
             /\ d.kind = "put" /\ d.key = k /\ d.seq = mem_index[k].seq
             /\ d.file = mem_index[k].file /\ d.offset = mem_index[k].offset
             /\ d.pages = mem_index[k].pages
        /\ files[mem_index[k].file + 1].blob_opened
    BY <1>1 DEF CInv, EntriesReadable
  <2>2. HasFile(mem_index[k].file)
        /\ IndexOfFile(mem_index[k].file) = mem_index[k].file + 1
    BY <1>1, EntriesKnown, KnownPlace
  <2> QED
    BY <2>1, <2>2
<1>2. CInv => IndexPointsAtRecord
  BY <1>1
<1> QED
  BY <1>2, CompactionInvariance, PTL

(* start_rollback takes every entry back before the destination goes.       *)
THEOREM RollbackLeavesNoEntry ==
  ASSUME SerialAllocation
  PROVE  CompactionSpec => []NoEntryInRemovedFile
<1>1. ASSUME CInv PROVE NoEntryInRemovedFile
  <2> SUFFICES ASSUME NEW k \in Keys, Find(k)
      PROVE  files[IndexOfFile(mem_index[k].file)].state # "deleted"
    BY DEF NoEntryInRemovedFile
  <2>1. IndexOfFile(mem_index[k].file) = mem_index[k].file + 1
    BY <1>1, EntriesKnown, KnownPlace
  <2> QED
    BY <1>1, <2>1 DEF CInv, EntriesReadable
<1>2. CInv => NoEntryInRemovedFile
  BY <1>1
<1> QED
  BY <1>2, CompactionInvariance, PTL

(* A read in flight loses its record only to a rollback that removed the    *)
(* destination it was sent to.                                              *)
THEOREM CompactionKeepsReads ==
  ASSUME SerialAllocation
  PROVE  CompactionSpec => []ReadsMissOnlyRemoved
<1>1. ASSUME CInv PROVE ReadsMissOnlyRemoved
  <2> SUFFICES ASSUME NEW r \in reads
      PROVE  \/ \E d \in disk :
                  /\ d.kind = "put"
                  /\ <<d.key, d.seq, d.file, d.offset, d.pages>>
                       = <<r.key, r.seq, r.file, r.offset, r.pages>>
             \/ files[IndexOfFile(r.file)].state = "deleted"
    BY DEF ReadsMissOnlyRemoved
  <2>1. IndexOfFile(r.file) = r.file + 1
    BY <1>1, ReadsKnown, KnownPlace
  <2> QED
    BY <1>1, <2>1 DEF CInv, ReadsAccountedFor
<1>2. CInv => ReadsMissOnlyRemoved
  BY <1>1
<1> QED
  BY <1>2, CompactionInvariance, PTL
=============================================================================
