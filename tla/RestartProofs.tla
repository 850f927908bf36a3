---------------------------- MODULE RestartProofs ----------------------------
(***************************************************************************)
(* The theorems about Restart, whatever the sizes, the calls, the errors   *)
(* and the crashes: types (RestartTypeCorrect); one write of the           *)
(* superblock that is cut short never leaves the engine without one        *)
(* (OneCutIsSurvivedAlways); the blobs that the copy open would load maps  *)
(* exist (MappedBlobsAlwaysExist) and no two files of a session share a    *)
(* blob or an id (FilesAlwaysDistinct); after sessions that were all       *)
(* closed, gets return what was acknowledged (AcksAlwaysSurviveClose,      *)
(* OnePageAcksAlwaysSurvive); and data that the superblock recorded as     *)
(* written stays as it is (RecordedDataAlwaysStays).                       *)
(*                                                                         *)
(* IInv, for the second, counts: each torn copy has cost a cut of its own, *)
(* since a close writes the two copies one after the other, and gives up   *)
(* when the first write fails. For that, what it writes must be a valid    *)
(* superblock, so the superblock in memory is followed through the session.*)
(*                                                                         *)
(* BInv, for the next two, says what a recovery may delete: the entries of *)
(* the log that follow upon the sequence of the copy that open would load  *)
(* name blobs that this copy does not map, and a close writes a sequence   *)
(* upon which no entry follows. The id of a file is its place in files_,   *)
(* which is why the number of mappings is the next id.                     *)
(*                                                                         *)
(* KInv, for the last two, says that the index in memory is always the one *)
(* that a recovery would make from the files as they are. It needs what    *)
(* the scan of a blob finds: each file is filled with whole records, end   *)
(* to end, up to its write_offset (Filled), each chunk that recovery reads *)
(* then starts with a record, and the chunks together give all of them     *)
(* (ScanFileIs). A record that is written comes last in the scan, since    *)
(* the active file is the last one (AInv), and its sequence is the         *)
(* highest, so that entering it in memory is what a recovery does with it  *)
(* (RecordIsEntered). TInv has the types that all of this rests on.        *)
(*                                                                         *)
(* The operators that Restart defines by recursive functions and by folds  *)
(* (FlattenSeq, FoldLeft, ScanChunk, ScanFile, UpdateMappings) come with   *)
(* lemmas that such a function exists and computes its steps (FoldExists,  *)
(* FlattenExists, ParseExists, ScanExists), by induction over the naturals *)
(* in the form of CountUp and CountDown: a set that holds the first number *)
(* and with each the next one holds them all.                              *)
(***************************************************************************)
EXTENDS Restart, SequenceTheorems, WellFoundedInduction, TLAPS

Fields == {"file_mappings", "active_file_id", "alloc_log_sequence"}

IsCopy(sb) == DOMAIN sb = Fields

(* In a session superblock_ is one that could be written.                   *)
MemoryHasSuperblock ==
  state \notin {"closed", "error"} => IsCopy(superblock)

CopiesTornOrWritten ==
  /\ primary = Torn \/ IsCopy(primary)
  /\ backup = Torn \/ IsCopy(backup)

EachTornCopyCostACut ==
  /\ cuts \in Nat
  /\ primary = Torn => cuts >= 1
  /\ backup = Torn => cuts >= 1
  /\ primary = Torn /\ backup = Torn => cuts >= 2

IInv == MemoryHasSuperblock /\ CopiesTornOrWritten /\ EachTornCopyCostACut

-----------------------------------------------------------------------------

(* What is in memory never passes for a torn copy.                          *)
LEMMA CopyIsNotTorn ==
  ASSUME NEW sb, IsCopy(sb)
  PROVE  sb # Torn
<1>1. DOMAIN Torn = {"file_mappings"}
  BY DEF Torn
<1>2. DOMAIN sb # DOMAIN Torn
  BY <1>1 DEF IsCopy, Fields
<1> QED
  BY <1>2

(* The state that create leaves has both copies.                            *)
LEMMA InitIInv == Init => IInv
<1> SUFFICES ASSUME Init PROVE IInv
  OBVIOUS
<1>1. IsCopy(superblock) /\ primary = superblock /\ backup = superblock
      /\ cuts = 0
  BY DEF Init, IsCopy, Fields
<1>2. primary # Torn /\ backup # Torn
  BY <1>1, CopyIsNotTorn
<1> QED
  BY <1>1, <1>2 DEF IInv, MemoryHasSuperblock, CopiesTornOrWritten,
                    EachTornCopyCostACut

(* A write of one copy, whole or cut short, whatever becomes of memory.     *)
LEMMA WriteOfBackup ==
  ASSUME IInv, IsCopy(superblock), primary' = primary,
         \/ backup' = superblock /\ cuts' = cuts
         \/ backup' \in CutShort(backup) /\ cuts' = cuts + 1
  PROVE  CopiesTornOrWritten' /\ EachTornCopyCostACut'
<1>1. superblock # Torn
  BY CopyIsNotTorn
<1>2. backup' = Torn \/ IsCopy(backup')
  BY DEF IInv, CopiesTornOrWritten, CutShort
<1>3. CASE backup' = superblock /\ cuts' = cuts
  BY <1>1, <1>2, <1>3 DEF IInv, CopiesTornOrWritten, EachTornCopyCostACut
<1>4. CASE backup' \in CutShort(backup) /\ cuts' = cuts + 1
  BY <1>1, <1>2, <1>4 DEF IInv, CopiesTornOrWritten, EachTornCopyCostACut
<1> QED
  BY <1>3, <1>4

LEMMA WriteOfPrimary ==
  ASSUME IInv, IsCopy(superblock), backup' = backup,
         \/ primary' = superblock /\ cuts' = cuts
         \/ primary' \in CutShort(primary) /\ cuts' = cuts + 1
  PROVE  CopiesTornOrWritten' /\ EachTornCopyCostACut'
<1>1. superblock # Torn
  BY CopyIsNotTorn
<1>2. primary' = Torn \/ IsCopy(primary')
  BY DEF IInv, CopiesTornOrWritten, CutShort
<1>3. CASE primary' = superblock /\ cuts' = cuts
  BY <1>1, <1>2, <1>3 DEF IInv, CopiesTornOrWritten, EachTornCopyCostACut
<1>4. CASE primary' \in CutShort(primary) /\ cuts' = cuts + 1
  BY <1>1, <1>2, <1>4 DEF IInv, CopiesTornOrWritten, EachTornCopyCostACut
<1> QED
  BY <1>3, <1>4

(* A step that writes neither copy.                                         *)
LEMMA CopiesKept ==
  ASSUME IInv, UNCHANGED <<primary, backup, cuts>>
  PROVE  CopiesTornOrWritten' /\ EachTornCopyCostACut'
BY DEF IInv, CopiesTornOrWritten, EachTornCopyCostACut, IsCopy

-----------------------------------------------------------------------------

(* put and del leave the copies alone; FileOpened changes the mappings of   *)
(* the superblock in memory.                                                *)
LEMMA CallsPreserveIInv ==
  ASSUME IInv, Calls \/ Steps
  PROVE  IInv'
<1>1. UNCHANGED <<primary, backup, cuts, state>>
  BY DEF Calls, Steps, Put, Del, Begin, BlobAllocated, BlobNotAllocated,
         LogWritten, LogNotWritten, FileOpened, FileNotOpened, Written,
         NotWritten, deviceVars, historyVars
<1>2. superblock' = superblock
      \/ \E m : superblock' = [superblock EXCEPT !.file_mappings = m]
  BY DEF Calls, Steps, Put, Del, Begin, BlobAllocated, BlobNotAllocated,
         LogWritten, LogNotWritten, FileOpened, FileNotOpened, Written,
         NotWritten
<1>3. IsCopy(superblock) => IsCopy(superblock')
  BY <1>2 DEF IsCopy
<1> QED
  BY <1>1, <1>3, CopiesKept DEF IInv, MemoryHasSuperblock

(* close writes the backup, then the primary.                               *)
LEMMA ClosePreservesIInv ==
  ASSUME IInv, Close
  PROVE  IInv'
<1>1. CASE CloseBegin
  <2>1. IsCopy(superblock')
    BY <1>1 DEF CloseBegin, IsCopy, Fields
  <2>2. UNCHANGED <<primary, backup, cuts>>
    BY <1>1 DEF CloseBegin, deviceVars, historyVars
  <2> QED
    BY <2>1, <2>2, CopiesKept DEF IInv, MemoryHasSuperblock
<1>2. CASE WriteBackup
  <2>1. IsCopy(superblock)
    BY <1>2 DEF WriteBackup, IInv, MemoryHasSuperblock
  <2>2. CopiesTornOrWritten' /\ EachTornCopyCostACut'
    BY <1>2, <2>1, WriteOfBackup DEF WriteBackup
  <2>3. MemoryHasSuperblock'
    BY <1>2, <2>1 DEF WriteBackup, Forget, MemoryHasSuperblock
  <2> QED
    BY <2>2, <2>3 DEF IInv
<1>3. CASE WritePrimary
  <2>1. IsCopy(superblock)
    BY <1>3 DEF WritePrimary, IInv, MemoryHasSuperblock
  <2>2. CopiesTornOrWritten' /\ EachTornCopyCostACut'
    BY <1>3, <2>1, WriteOfPrimary DEF WritePrimary
  <2>3. MemoryHasSuperblock'
    BY <1>3 DEF WritePrimary, Forget, MemoryHasSuperblock
  <2> QED
    BY <2>2, <2>3 DEF IInv
<1> QED
  BY <1>1, <1>2, <1>3 DEF Close

(* open takes a copy that is not torn and writes none.                      *)
LEMMA OpenPreservesIInv ==
  ASSUME IInv, Open
  PROVE  IInv'
<1>1. UNCHANGED <<primary, backup, cuts>>
  BY DEF Open, OpenFromPrimary, OpenFromBackup, Load, OpenFailed, DeleteLogged,
         RebuildFileInfo, ReleaseDangling, Recover, deviceVars, historyVars
<1>2. MemoryHasSuperblock'
  <2>1. CASE OpenFromPrimary \/ OpenFromBackup
    BY <2>1 DEF OpenFromPrimary, OpenFromBackup, Load, IInv,
                CopiesTornOrWritten, MemoryHasSuperblock, IsCopy
  <2>2. CASE OpenFailed
    BY <2>2 DEF OpenFailed, MemoryHasSuperblock
  <2>3. CASE DeleteLogged \/ RebuildFileInfo \/ ReleaseDangling \/ Recover
    BY <2>3 DEF DeleteLogged, RebuildFileInfo, ReleaseDangling, Recover, IInv,
                MemoryHasSuperblock, IsCopy
  <2> QED
    BY <2>1, <2>2, <2>3 DEF Open
<1> QED
  BY <1>1, <1>2, CopiesKept DEF IInv

(* A crash cuts at most the write that was under way.                       *)
LEMMA CrashPreservesIInv ==
  ASSUME IInv, Crash
  PROVE  IInv'
<1>1. MemoryHasSuperblock'
  BY DEF Crash, CrashWith, Forget, MemoryHasSuperblock
<1>2. IsCopy(superblock)
  BY DEF Crash, CrashWith, IInv, MemoryHasSuperblock
<1>3. \/ UNCHANGED <<primary, backup, cuts>>
      \/ backup' \in CutShort(backup) /\ cuts' = cuts + 1 /\ primary' = primary
      \/ primary' \in CutShort(primary) /\ cuts' = cuts + 1 /\ backup' = backup
  BY DEF Crash, CrashWith
<1>4. CopiesTornOrWritten' /\ EachTornCopyCostACut'
  BY <1>2, <1>3, CopiesKept, WriteOfBackup, WriteOfPrimary
<1> QED
  BY <1>1, <1>4 DEF IInv

LEMMA NextPreservesIInv == IInv /\ [Next]_vars => IInv'
<1> SUFFICES ASSUME IInv, [Next]_vars PROVE IInv'
  OBVIOUS
<1>1. CASE Next
  BY <1>1, CallsPreserveIInv, ClosePreservesIInv, OpenPreservesIInv,
     CrashPreservesIInv DEF Next
<1>2. CASE UNCHANGED vars
  BY <1>2 DEF vars, deviceVars, historyVars, IInv, MemoryHasSuperblock,
              CopiesTornOrWritten, EachTornCopyCostACut, IsCopy
<1> QED
  BY <1>1, <1>2

(* One write of the superblock cut short leaves a valid copy                *)
(* (write_superblock, load_superblock).                                     *)
THEOREM OneCutIsSurvivedAlways == Spec => []OneCutIsSurvived
<1>1. IInv => OneCutIsSurvived
  BY DEF IInv, EachTornCopyCostACut, OneCutIsSurvived
<1> QED
  BY <1>1, InitIInv, NextPreservesIInv, PTL DEF Spec

-----------------------------------------------------------------------------
(* What open needs is there *)

InSession == state \notin {"closed", "error"}

(* Ids are places: that is what Len of the mappings is taken for.           *)
InOrder(fs) ==
  /\ fs \in Seq(FileInfo)
  /\ \A i \in 1 .. Len(fs) : fs[i].file_id = i - 1
  /\ \A i, j \in 1 .. Len(fs) : fs[i].blob = fs[j].blob => i = j

IsSound(sb) ==
  /\ sb \in Superblock
  /\ sb.alloc_log_sequence >= 1
  /\ InOrder(sb.file_mappings)
  /\ sb.active_file_id < Len(sb.file_mappings)

(* The first n entries of the page follow upon the sequence `base', and the *)
(* next one does not: it is what load_entries stops at.                     *)
Follow(page, base, n) ==
  /\ \A i \in 0 .. n - 1 : page[i].sequence = base + i + 1
  /\ \A i \in n .. LogCapacity - 1 : page[i].sequence <= base + i

(* What a recovery from sb deletes is not what sb maps.                     *)
Spares(sb, page, n) == \A i \in 0 .. n - 1 : page[i].blob \notin Mapped(sb)

CopiesSound == /\ primary = Torn \/ IsSound(primary)
               /\ backup = Torn \/ IsSound(backup)

(* All blobs that sb maps exist, and remain after a recovery from it.       *)
IsSafe(sb, blobs, page) ==
  /\ Mapped(sb) \subseteq blobs
  /\ \E n \in 0 .. LogCapacity : /\ Follow(page, sb.alloc_log_sequence, n)
                                 /\ Spares(sb, page, n)

LoadedIsSafe == Loaded # Torn => IsSafe(Loaded, DOMAIN disk, log_page)

(* alloc_log_manager_ in a session. In the session of create the superblock *)
(* counts the first entry as done (`done' is 1), later ones start at none.  *)
LogFollows(lg, sb, done) ==
  LET base == sb.alloc_log_sequence IN
  /\ done <= lg.tail
  /\ lg.sequence = base + lg.tail - done
  /\ \A i \in 0 .. lg.tail - 1 : lg.page[i].sequence = base + i + 1 - done
  /\ \A i \in lg.tail .. LogCapacity - 1 : lg.page[i].sequence <= base + i
  /\ done = 0 => Spares(sb, lg.page, lg.tail)

LogInMemory == \E done \in {0, 1} : LogFollows(log, Loaded, done)

(* No entry on the device follows upon what a close would write.            *)
LogOnDevice ==
  \A i \in 0 .. LogCapacity - 1 : log_page[i].sequence <= log.sequence + i

Allocates == call.at \in {"log", "open"}

(* The files of a session, and those of the superblock in memory: all but   *)
(* the one that is being allocated.                                         *)
FilesMapped ==
  /\ InOrder(files)
  /\ \A i \in 1 .. Len(files) : files[i].blob \in DOMAIN disk
  /\ next_file_id = Len(files)
  /\ ~Allocates => Len(files) = Len(superblock.file_mappings)
  /\ Allocates => Len(files) = Len(superblock.file_mappings) + 1
  /\ \A i \in 1 .. Len(superblock.file_mappings) :
       files[i].blob = superblock.file_mappings[i].blob
  /\ active_file_id < Len(superblock.file_mappings)
  /\ Allocates => files[Len(files)].blob \notin Mapped(Loaded)

SessionIsSound ==
  InSession =>
    /\ Loaded # Torn
    /\ IsSound(superblock)
    /\ Mapped(superblock) \subseteq DOMAIN disk
    /\ LogOnDevice
    /\ state # "primary" => LogInMemory
    /\ state \in {"log", "dangling"} => superblock = Loaded
    /\ state = "dangling" => files = superblock.file_mappings
    /\ state = "ready" => FilesMapped
    /\ state \in {"backup", "primary"} =>
         superblock.alloc_log_sequence = log.sequence
    /\ state = "primary" => backup = superblock

FileTypes ==
  /\ DOMAIN disk \subseteq Blobs
  /\ log_page \in LogPage
  /\ log \in [tail : 0 .. LogCapacity, sequence : Nat, page : LogPage]
  /\ state \in {"ready", "closed", "backup", "primary", "log", "dangling",
                "error"}
  /\ call \in {NoCall} \cup
              [at : {"blob", "log", "open", "write"}, request : Request]
  /\ state # "ready" => call = NoCall
  /\ active_file_id \in Nat
  /\ writes \in 0 .. MaxWrites

BInv == FileTypes /\ CopiesSound /\ LoadedIsSafe /\ SessionIsSound

-----------------------------------------------------------------------------
(* The operators *)

(* A set of ids has a least one.                                            *)
LEMMA Least ==
  ASSUME NEW T, T \subseteq Nat, T # {}
  PROVE  LET t == CHOOSE b \in T : \A c \in T : b <= c
         IN  t \in T /\ \A c \in T : t <= c
<1>1. PICK t \in T : \A v \in T : ~ (<<v, t>> \in OpToRel(<, Nat))
  BY WFMin, NatLessThanWellFounded, Zenon
<1>2. \A v \in T : ~ (v < t)
  BY <1>1 DEF OpToRel
<1>3. \A v \in T : t <= v
  BY <1>2
<1> QED
  BY <1>3

(* The fields of a superblock and of a FileInfo.                            *)
LEMMA FieldsOf ==
  ASSUME NEW fs, InOrder(fs)
  PROVE  /\ Len(fs) \in Nat /\ DOMAIN fs = 1 .. Len(fs)
         /\ \A i \in 1 .. Len(fs) :
              /\ fs[i] \in FileInfo
              /\ fs[i].file_id = i - 1
              /\ fs[i].blob \in Blobs
              /\ fs[i].write_offset \in 1 .. FilePages
<1>1. fs \in Seq(FileInfo)
  BY DEF InOrder
<1>2. Len(fs) \in Nat /\ DOMAIN fs = 1 .. Len(fs)
      /\ \A i \in 1 .. Len(fs) : fs[i] \in FileInfo
  BY <1>1
<1>3. \A i \in 1 .. Len(fs) : fs[i].file_id = i - 1
  BY DEF InOrder
<1> QED
  BY <1>2, <1>3 DEF FileInfo

(* What a superblock of these files maps.                                   *)
LEMMA MappedOf ==
  ASSUME NEW sb, IsSound(sb)
  PROVE  /\ Mapped(sb) = { sb.file_mappings[i].blob :
                            i \in 1 .. Len(sb.file_mappings) }
         /\ Len(sb.file_mappings) \in Nat
         /\ sb.alloc_log_sequence \in Nat \ {0}
         /\ sb.active_file_id \in Nat
         /\ sb # Torn
<1>1. InOrder(sb.file_mappings) /\ sb \in Superblock
      /\ sb.alloc_log_sequence >= 1
  BY DEF IsSound
<1>2. DOMAIN sb = Fields
  BY <1>1 DEF Superblock, Fields
<1>3. sb # Torn
  BY <1>2, CopyIsNotTorn DEF IsCopy
<1>4. sb.alloc_log_sequence \in Nat /\ sb.active_file_id \in Nat
  BY <1>1 DEF Superblock
<1> QED
  BY <1>1, <1>3, <1>4, FieldsOf DEF Mapped

(* active_file_id is the place of the active file.                          *)
LEMMA ActivePlace ==
  ASSUME InOrder(files), NEW id \in Nat, id < Len(files)
  PROVE  /\ IndexOfFile(id) = id + 1
         /\ HasFile(id)
         /\ id + 1 \in 1 .. Len(files)
<1>1. Len(files) \in Nat /\ DOMAIN files = 1 .. Len(files)
      /\ \A i \in 1 .. Len(files) : files[i].file_id = i - 1
  BY FieldsOf
<1>2. id + 1 \in DOMAIN files /\ files[id + 1].file_id = id
  BY <1>1
<1>3. \A i \in DOMAIN files : files[i].file_id = id => i = id + 1
  BY <1>1
<1> QED
  BY <1>1, <1>2, <1>3 DEF IndexOfFile, HasFile

(* The entries that a recovery with this superblock takes from the log are  *)
(* those that follow upon its sequence.                                     *)
LEMMA LoadedAre ==
  ASSUME NEW sb, sb.alloc_log_sequence \in Nat, log_page \in LogPage,
         NEW n \in 0 .. LogCapacity,
         Follow(log_page, sb.alloc_log_sequence, n)
  PROVE  LoadedEntries(sb) = [i \in 1 .. n |-> log_page[i - 1]]
<1> DEFINE base == sb.alloc_log_sequence
           last(i) == IF i = 0 THEN sb.alloc_log_sequence
                      ELSE log_page[i - 1].sequence
           Stops(m) == /\ \A i \in 0 .. m - 1 : log_page[i].sequence > last(i)
                       /\ m = LogCapacity \/ log_page[m].sequence <= last(m)
<1>1. LogCapacity \in Nat \ {0}
  BY RestartAssumption
<1>2. \A i \in 0 .. n - 1 : log_page[i].sequence = base + i + 1
  BY DEF Follow
<1>3. \A i \in n .. LogCapacity - 1 : log_page[i].sequence <= base + i
  BY DEF Follow
<1>4. \A i \in 0 .. n : last(i) = base + i
  BY <1>1, <1>2
<1>5. Stops(n)
  BY <1>1, <1>2, <1>3, <1>4
<1>6. ASSUME NEW m \in 0 .. LogCapacity, Stops(m) PROVE m = n
  <2>1. ~ (m < n)
    <3>1. SUFFICES ASSUME m < n PROVE FALSE
      OBVIOUS
    <3>2. log_page[m].sequence = base + m + 1 /\ last(m) = base + m
      BY <3>1, <1>2, <1>4
    <3> QED
      BY <3>1, <3>2, <1>1, <1>6
  <2>2. ~ (n < m)
    <3>1. SUFFICES ASSUME n < m PROVE FALSE
      OBVIOUS
    <3>2. log_page[n].sequence > last(n)
      BY <3>1, <1>6
    <3>3. log_page[n].sequence <= base + n /\ last(n) = base + n
      BY <3>1, <1>1, <1>3, <1>4
    <3>4. log_page[n].sequence \in Nat
      BY <3>1, <1>1 DEF LogPage, LogEntry, NoLogEntry
    <3> QED
      BY <3>2, <3>3, <3>4
  <2> QED
    BY <2>1, <2>2
<1>7. (CHOOSE m \in 0 .. LogCapacity : Stops(m)) = n
  BY <1>5, <1>6
<1> QED
  BY <1>7 DEF LoadedEntries

(* close: the mappings become the files, when there are as many of them.    *)
LEMMA MappingsBecomeFiles ==
  ASSUME NEW m, InOrder(m), NEW fs, InOrder(fs), Len(m) = Len(fs)
  PROVE  UpdateMappings(m, fs) = fs
<1> DEFINE n == Len(fs)
           mixed(i) == [j \in 1 .. n |-> IF j <= i THEN fs[j] ELSE m[j]]
           Solves(u) == u = [i \in 0 .. n |->
                               IF i = 0 THEN m
                               ELSE UpdateMapping(u[i - 1], fs[i])]
           g == [i \in 0 .. n |-> mixed(i)]
           upto == CHOOSE u : Solves(u)
<1>1. /\ n \in Nat
      /\ m \in [1 .. n -> FileInfo] /\ fs \in [1 .. n -> FileInfo]
      /\ \A j \in 1 .. n : m[j].file_id = j - 1 /\ fs[j].file_id = j - 1
  <2>1. m \in Seq(FileInfo) /\ fs \in Seq(FileInfo)
    BY DEF InOrder
  <2> QED
    BY <2>1, FieldsOf
<1>2. UpdateMappings(m, fs) = upto[n]
  BY DEF UpdateMappings
<1>3. ASSUME NEW i \in 1 .. n
      PROVE  UpdateMapping(mixed(i - 1), fs[i]) = mixed(i)
  <2>1. mixed(i - 1) \in [1 .. n -> FileInfo]
        /\ \A j \in 1 .. n : mixed(i - 1)[j].file_id = j - 1
    BY <1>1
  <2>2. ASSUME NEW w, w = mixed(i - 1)
        PROVE  UpdateMapping(w, fs[i]) =
                 [j \in 1 .. n |-> IF j = i THEN fs[i] ELSE w[j]]
    <3> HIDE DEF mixed
    <3>1. /\ DOMAIN w = 1 .. n
          /\ \A j \in 1 .. n : w[j].file_id = fs[i].file_id <=> j = i
      BY <1>1, <2>1, <2>2
    <3>2. \E j \in DOMAIN w : w[j].file_id = fs[i].file_id
      BY <3>1
    <3>3. UpdateMapping(w, fs[i]) =
            [j \in 1 .. n |-> IF w[j].file_id = fs[i].file_id
                              THEN fs[i] ELSE w[j]]
      BY <3>1, <3>2 DEF UpdateMapping
    <3> QED
      BY <3>1, <3>3
  <2>3. UpdateMapping(mixed(i - 1), fs[i]) =
          [j \in 1 .. n |-> IF j = i THEN fs[i] ELSE mixed(i - 1)[j]]
    BY <2>2
  <2>4. \A j \in 1 .. n : (IF j = i THEN fs[i] ELSE mixed(i - 1)[j])
                          = mixed(i)[j]
    BY <1>1
  <2> QED
    BY <2>3, <2>4
<1>4. mixed(0) = m /\ mixed(n) = fs
  BY <1>1
<1>5. Solves(g)
  <2> HIDE DEF mixed
  <2>1. \A i \in 0 .. n : g[i] = IF i = 0 THEN m
                                 ELSE UpdateMapping(g[i - 1], fs[i])
    BY <1>1, <1>3, <1>4
  <2> QED
    BY <2>1
<1>6. Solves(upto)
  BY <1>5
<1>7. \A i \in 0 .. n : upto[i] = mixed(i)
  <2> DEFINE T == { i \in 0 .. n : upto[i] # mixed(i) }
  <2> HIDE DEF upto, mixed
  <2>1. SUFFICES ASSUME T # {} PROVE FALSE
    OBVIOUS
  <2>2. PICK t \in T : \A c \in T : t <= c
    <3>1. T \subseteq Nat
      BY <1>1
    <3> HIDE DEF T
    <3> QED
      BY <2>1, <3>1, Least
  <2>3. t # 0
    BY <1>1, <1>4, <1>6
  <2>4. t \in 1 .. n /\ t - 1 \in 0 .. n /\ t - 1 \notin T
    BY <1>1, <2>2, <2>3
  <2>5. upto[t - 1] = mixed(t - 1)
    BY <2>4
  <2>6. upto[t] = UpdateMapping(upto[t - 1], fs[t])
    BY <1>1, <1>6, <2>4
  <2>7. upto[t] = mixed(t)
    BY <1>3, <2>4, <2>5, <2>6
  <2> QED
    BY <2>7
<1> QED
  BY <1>1, <1>2, <1>4, <1>7

(* ... and of a file that has none yet adds one.                            *)
LEMMA MappingAdded ==
  ASSUME NEW m, InOrder(m), NEW f, f.file_id = Len(m)
  PROVE  UpdateMapping(m, f) = Append(m, f)
<1>1. Len(m) \in Nat /\ DOMAIN m = 1 .. Len(m)
      /\ \A i \in 1 .. Len(m) : m[i].file_id = i - 1
  BY FieldsOf
<1>2. ~ \E i \in DOMAIN m : m[i].file_id = f.file_id
  BY <1>1
<1> QED
  BY <1>2 DEF UpdateMapping

(* Files stay in order when one is added for a new blob, when the last one  *)
(* is dropped, and when one of them changes its size or state.              *)
LEMMA FileAdded ==
  ASSUME NEW fs, InOrder(fs), NEW f \in FileInfo, f.file_id = Len(fs),
         \A i \in 1 .. Len(fs) : fs[i].blob # f.blob
  PROVE  /\ InOrder(Append(fs, f))
         /\ Len(Append(fs, f)) = Len(fs) + 1
         /\ \A i \in 1 .. Len(fs) : Append(fs, f)[i] = fs[i]
         /\ Append(fs, f)[Len(fs) + 1] = f
<1>1. /\ fs \in Seq(FileInfo) /\ Len(fs) \in Nat
      /\ \A i \in 1 .. Len(fs) : fs[i].file_id = i - 1
      /\ \A i, j \in 1 .. Len(fs) : fs[i].blob = fs[j].blob => i = j
  BY DEF InOrder
<1> DEFINE gs == Append(fs, f)
<1>2. gs \in Seq(FileInfo) /\ Len(gs) = Len(fs) + 1
      /\ \A i \in 1 .. Len(fs) : gs[i] = fs[i]
  BY <1>1
<1>3. gs[Len(fs) + 1] = f
  BY <1>1
<1> HIDE DEF gs
<1>4. \A i \in 1 .. Len(gs) : i \in 1 .. Len(fs) \/ i = Len(fs) + 1
  BY <1>1, <1>2
<1>5. \A i \in 1 .. Len(gs) : gs[i].file_id = i - 1
  BY <1>1, <1>2, <1>3, <1>4
<1>6. \A i, j \in 1 .. Len(gs) : gs[i].blob = gs[j].blob => i = j
  BY <1>1, <1>2, <1>3, <1>4
<1>7. InOrder(gs)
  BY <1>2, <1>5, <1>6 DEF InOrder
<1> QED
  BY <1>2, <1>3, <1>7 DEF gs

LEMMA FileDropped ==
  ASSUME NEW fs, InOrder(fs), Len(fs) >= 1
  PROVE  LET gs == SubSeq(fs, 1, Len(fs) - 1)
         IN  /\ InOrder(gs)
             /\ Len(gs) = Len(fs) - 1
             /\ \A i \in 1 .. Len(fs) - 1 : gs[i] = fs[i]
<1>1. /\ fs \in Seq(FileInfo) /\ Len(fs) \in Nat
      /\ \A i \in 1 .. Len(fs) : fs[i].file_id = i - 1
      /\ \A i, j \in 1 .. Len(fs) : fs[i].blob = fs[j].blob => i = j
  BY DEF InOrder
<1> DEFINE gs == SubSeq(fs, 1, Len(fs) - 1)
<1>2. gs \in Seq(FileInfo) /\ Len(gs) = Len(fs) - 1
      /\ \A i \in 1 .. Len(fs) - 1 : gs[i] = fs[i]
  <2> DEFINE n == Len(fs) - 1
  <2>1. n \in Nat /\ \A i \in 1 .. n : fs[i] \in FileInfo
    BY <1>1
  <2>2. gs = [i \in 1 .. n |-> fs[i]]
    BY <1>1
  <2>3. gs \in [1 .. n -> FileInfo]
    BY <2>1, <2>2
  <2> HIDE DEF gs, n
  <2>4. gs \in Seq(FileInfo) /\ Len(gs) = n
    BY <2>1, <2>3
  <2> QED
    BY <2>2, <2>4 DEF n
<1> HIDE DEF gs
<1>3. \A i \in 1 .. Len(gs) : i \in 1 .. Len(fs) /\ gs[i] = fs[i]
  BY <1>1, <1>2
<1>4. \A i \in 1 .. Len(gs) : gs[i].file_id = i - 1
  BY <1>1, <1>3
<1>5. \A i, j \in 1 .. Len(gs) : gs[i].blob = gs[j].blob => i = j
  BY <1>1, <1>3
<1>6. InOrder(gs)
  BY <1>2, <1>4, <1>5 DEF InOrder
<1> QED
  BY <1>2, <1>6 DEF gs

LEMMA FileChanged ==
  ASSUME NEW fs, InOrder(fs), NEW i \in 1 .. Len(fs), NEW f \in FileInfo,
         f.file_id = fs[i].file_id, f.blob = fs[i].blob
  PROVE  LET gs == [fs EXCEPT ![i] = f]
         IN  /\ InOrder(gs)
             /\ Len(gs) = Len(fs)
             /\ \A j \in 1 .. Len(fs) : gs[j].blob = fs[j].blob
<1>1. /\ fs \in Seq(FileInfo) /\ Len(fs) \in Nat
      /\ \A j \in 1 .. Len(fs) : fs[j].file_id = j - 1
      /\ \A j, k \in 1 .. Len(fs) : fs[j].blob = fs[k].blob => j = k
  BY DEF InOrder
<1> DEFINE gs == [fs EXCEPT ![i] = f]
<1>2. gs \in Seq(FileInfo) /\ Len(gs) = Len(fs)
      /\ \A j \in 1 .. Len(fs) : gs[j] = IF j = i THEN f ELSE fs[j]
  <2>1. DOMAIN gs = 1 .. Len(fs)
        /\ \A j \in 1 .. Len(fs) : gs[j] = IF j = i THEN f ELSE fs[j]
    BY <1>1
  <2>2. \A j \in 1 .. Len(fs) : gs[j] \in FileInfo
    BY <1>1, <2>1
  <2>3. gs = [j \in 1 .. Len(fs) |-> gs[j]]
    BY <2>1
  <2>4. gs \in [1 .. Len(fs) -> FileInfo]
    BY <2>2, <2>3, Zenon
  <2> HIDE DEF gs
  <2>5. gs \in Seq(FileInfo) /\ Len(gs) = Len(fs)
    BY <1>1, <2>1, <2>4
  <2> QED
    BY <2>1, <2>5
<1> HIDE DEF gs
<1>3. \A j \in 1 .. Len(fs) : gs[j].blob = fs[j].blob
                              /\ gs[j].file_id = fs[j].file_id
  BY <1>2
<1>4. InOrder(gs)
  BY <1>1, <1>2, <1>3 DEF InOrder
<1> QED
  BY <1>2, <1>3, <1>4 DEF gs

-----------------------------------------------------------------------------
(* The invariant *)

(* create leaves file 0 in the first blob, and the entry of the AllocLog    *)
(* that it wrote for it.                                                    *)
LEMMA InitBInv == Init => BInv
<1> SUFFICES ASSUME Init PROVE BInv
  OBVIOUS
<1> DEFINE b == CHOOSE b \in Blobs : \A c \in Blobs : b <= c
           f == NewFile(0, b)
           page == [i \in 0 .. LogCapacity - 1 |->
                      IF i = 0 THEN [sequence |-> 1, blob |-> b, file_id |-> 0]
                      ELSE NoLogEntry]
<1>1. /\ Blobs \subseteq Nat /\ LogCapacity \in Nat \ {0}
      /\ FilePages \in Nat \ {0, 1} /\ MaxWrites \in Nat
  BY RestartAssumption
<1>2. b \in Blobs
  BY RestartAssumption, Least
<1> HIDE DEF b
<1>3. f \in FileInfo /\ f.file_id = 0 /\ f.blob = b
  BY <1>1, <1>2 DEF NewFile, FileInfo
<1> HIDE DEF f
<1>4. <<f>> \in Seq(FileInfo) /\ Len(<<f>>) = 1 /\ <<f>>[1] = f
  BY <1>3
<1>5. InOrder(<<f>>)
  BY <1>3, <1>4 DEF InOrder
<1>6. page \in LogPage
      /\ \A i \in 0 .. LogCapacity - 1 :
           page[i].sequence = IF i = 0 THEN 1 ELSE 0
  BY <1>1, <1>2 DEF LogPage, LogEntry, NoLogEntry
<1> HIDE DEF page
<1>7. /\ superblock = [file_mappings |-> <<f>>, active_file_id |-> 0,
                       alloc_log_sequence |-> 1]
      /\ primary = superblock /\ backup = superblock
      /\ DOMAIN disk = {b}
      /\ log_page = page
      /\ log = [tail |-> 1, sequence |-> 1, page |-> page]
      /\ state = "ready" /\ call = NoCall
      /\ files = <<f>> /\ active_file_id = 0 /\ next_file_id = 1
      /\ writes = 0
  BY DEF Init, b, f, page
<1>8. FileTypes
  BY <1>1, <1>2, <1>6, <1>7 DEF FileTypes
<1>9. superblock.file_mappings = <<f>> /\ superblock.alloc_log_sequence = 1
      /\ superblock.active_file_id = 0 /\ superblock \in Superblock
  <2> DEFINE fs == <<f>>
  <2>1. fs \in Seq(FileInfo)
    BY <1>4
  <2> HIDE DEF fs
  <2>2. superblock = [file_mappings |-> fs, active_file_id |-> 0,
                      alloc_log_sequence |-> 1]
    BY <1>7 DEF fs
  <2>3. superblock.file_mappings = fs /\ superblock.alloc_log_sequence = 1
        /\ superblock.active_file_id = 0 /\ superblock \in Superblock
    BY <2>1, <2>2 DEF Superblock
  <2> QED
    BY <2>3 DEF fs
<1>10. IsSound(superblock)
  BY <1>4, <1>5, <1>9 DEF IsSound
<1>11. Loaded = superblock /\ Loaded # Torn /\ CopiesSound
  BY <1>7, <1>10, MappedOf DEF Loaded, CopiesSound
<1>12. Mapped(superblock) = {b}
  <2>1. Mapped(superblock) = { <<f>>[i].blob : i \in 1 .. 1 }
    BY <1>4, <1>9, <1>10, MappedOf
  <2>2. \A i \in 1 .. 1 : <<f>>[i].blob = b
    BY <1>3, <1>4
  <2> QED
    BY <2>1, <2>2
<1>13. LoadedIsSafe
  <2>1. Follow(log_page, 1, 0)
    BY <1>1, <1>6, <1>7 DEF Follow
  <2>2. Spares(Loaded, log_page, 0)
    BY DEF Spares
  <2>3. Mapped(Loaded) \subseteq DOMAIN disk
    BY <1>7, <1>11, <1>12
  <2> QED
    BY <1>1, <1>9, <1>11, <2>1, <2>2, <2>3 DEF LoadedIsSafe, IsSafe
<1>14. LogOnDevice
  BY <1>1, <1>6, <1>7 DEF LogOnDevice
<1>15. LogInMemory
  <2>1. LogFollows(log, Loaded, 1)
    BY <1>1, <1>6, <1>7, <1>9, <1>11 DEF LogFollows
  <2> QED
    BY <2>1 DEF LogInMemory
<1>16. FilesMapped
  BY <1>3, <1>4, <1>5, <1>7, <1>9, <1>12, <1>11
     DEF FilesMapped, NoCall, Allocates
<1>17. SessionIsSound
  BY <1>7, <1>10, <1>11, <1>12, <1>14, <1>15, <1>16 DEF SessionIsSound
<1> QED
  BY <1>8, <1>11, <1>13, <1>17 DEF BInv

(* The session of a state that is in one.                                   *)
LEMMA InReady ==
  ASSUME BInv, state = "ready"
  PROVE  /\ Loaded # Torn /\ IsSound(Loaded) /\ IsSound(superblock)
         /\ Mapped(superblock) \subseteq DOMAIN disk
         /\ Mapped(Loaded) \subseteq DOMAIN disk
         /\ LogOnDevice /\ FilesMapped
         /\ LogInMemory
         /\ \E n \in 0 .. LogCapacity :
              /\ Follow(log_page, Loaded.alloc_log_sequence, n)
              /\ Spares(Loaded, log_page, n)
<1>1. SessionIsSound /\ InSession /\ state # "primary"
  BY DEF BInv, InSession
<1>2. /\ Loaded # Torn /\ IsSound(superblock)
      /\ Mapped(superblock) \subseteq DOMAIN disk
      /\ LogOnDevice /\ FilesMapped
      /\ LogInMemory
  BY <1>1 DEF SessionIsSound
<1>3. IsSound(Loaded)
  BY <1>2 DEF BInv, CopiesSound, Loaded
<1> QED
  BY <1>2, <1>3 DEF BInv, LoadedIsSafe, IsSafe

(* A step that keeps what the copies of the superblock map.                 *)
LEMMA CopiesKeptSafe ==
  ASSUME BInv, UNCHANGED <<primary, backup, log_page>>,
         Loaded # Torn => Mapped(Loaded) \subseteq DOMAIN disk'
  PROVE  /\ Loaded' = Loaded
         /\ CopiesSound' /\ LoadedIsSafe'
<1>1. Loaded' = Loaded
  BY DEF Loaded
<1>2. CopiesSound'
  BY DEF BInv, CopiesSound
<1>3. LoadedIsSafe'
  BY <1>1 DEF BInv, LoadedIsSafe, IsSafe
<1> QED
  BY <1>1, <1>2, <1>3

(* The log does not change.                                                 *)
LEMMA LogKept ==
  ASSUME UNCHANGED <<primary, backup, log_page, log>>
  PROVE  /\ LogOnDevice => LogOnDevice'
         /\ LogInMemory => LogInMemory'
<1>1. Loaded' = Loaded
  BY DEF Loaded
<1>2. LogOnDevice => LogOnDevice'
  BY DEF LogOnDevice
<1>3. LogInMemory => LogInMemory'
  BY <1>1 DEF LogInMemory
<1> QED
  BY <1>2, <1>3

(* A step of put or del that leaves the log alone.                          *)
LEMMA CallStep ==
  ASSUME BInv, state = "ready", state' = "ready",
         UNCHANGED <<primary, backup, log_page, log>>,
         DOMAIN disk \subseteq DOMAIN disk',
         FileTypes', FilesMapped',
         IsSound(superblock'), Mapped(superblock') \subseteq DOMAIN disk'
  PROVE  BInv'
<1>1. /\ Loaded # Torn /\ Mapped(Loaded) \subseteq DOMAIN disk
      /\ LogOnDevice /\ LogInMemory
  BY InReady
<1>2. Loaded' = Loaded /\ CopiesSound' /\ LoadedIsSafe'
  BY <1>1, CopiesKeptSafe
<1>3. LogOnDevice' /\ LogInMemory'
  BY <1>1, LogKept
<1>4. SessionIsSound'
  BY <1>1, <1>2, <1>3 DEF SessionIsSound
<1> QED
  BY <1>2, <1>4 DEF BInv

(* The files keep their ids and blobs.                                      *)
LEMMA FilesKept ==
  ASSUME FilesMapped, IsSound(superblock),
         InOrder(files'), Len(files') = Len(files),
         \A i \in 1 .. Len(files) : files'[i].blob = files[i].blob,
         DOMAIN disk \subseteq DOMAIN disk',
         UNCHANGED <<primary, backup, superblock, active_file_id,
                     next_file_id>>,
         Allocates' = Allocates
  PROVE  FilesMapped'
<1>1. Loaded' = Loaded
  BY DEF Loaded
<1>2. Len(files) \in Nat /\ Len(superblock.file_mappings) \in Nat
  BY FieldsOf, MappedOf DEF FilesMapped
<1>3. \A i \in 1 .. Len(superblock.file_mappings) : i \in 1 .. Len(files)
  <2>1. Len(files) = Len(superblock.file_mappings)
        \/ Len(files) = Len(superblock.file_mappings) + 1
    BY DEF FilesMapped
  <2> QED
    BY <1>2, <2>1
<1>4. Allocates => Len(files) \in 1 .. Len(files)
  BY <1>2 DEF FilesMapped
<1> QED
  BY <1>1, <1>2, <1>3, <1>4 DEF FilesMapped

(* What a call asks for, and where a call that waits stands.                *)
LEMMA CallTypes ==
  ASSUME FileTypes, NEW io, Waits(io), io # "none"
  PROVE  /\ call.at = io /\ io \in {"blob", "log", "open", "write"}
         /\ call.request \in Request
         /\ \A at \in {"blob", "log", "open", "write"} :
              /\ [call EXCEPT !.at = at] \in
                   [at : {"blob", "log", "open", "write"}, request : Request]
              /\ [call EXCEPT !.at = at].at = at
<1>1. call.at = io /\ call # NoCall
  BY DEF Waits, NoCall
<1>2. call \in [at : {"blob", "log", "open", "write"}, request : Request]
  BY <1>1 DEF FileTypes
<1> QED
  BY <1>1, <1>2

(* A call that fits the active file goes on to its write; one that does not *)
(* seals it first.                                                          *)
LEMMA BeginBInv ==
  ASSUME BInv, NEW k \in Keys, NEW kind \in {"put", "delete"},
         NEW n \in Nat \ {0},
         Begin([id |-> writes + 1, key |-> k, kind |-> kind, pages |-> n])
  PROVE  BInv'
<1> DEFINE r == [id |-> writes + 1, key |-> k, kind |-> kind, pages |-> n]
<1>1. /\ state = "ready" /\ call = NoCall /\ writes < MaxWrites
      /\ writes' = writes + 1
      /\ \/ /\ files' = [files EXCEPT ![Active].state = "sealed"]
            /\ call' = [at |-> "blob", request |-> r]
         \/ /\ call' = [at |-> "write", request |-> r]
            /\ files' = files
      /\ UNCHANGED <<disk, primary, backup, log_page, state, superblock,
                     active_file_id, next_file_id, log>>
  BY DEF Begin, deviceVars
<1>2. FileTypes /\ FilesMapped /\ IsSound(superblock)
      /\ Mapped(superblock) \subseteq DOMAIN disk
  BY <1>1, InReady DEF BInv
<1>3. writes \in 0 .. MaxWrites /\ MaxWrites \in Nat
      /\ active_file_id \in Nat
  BY <1>2, RestartAssumption DEF FileTypes
<1>4. r \in Request
  BY <1>1, <1>3 DEF Request
<1>5. call'.at \in {"blob", "write"}
      /\ call' \in [at : {"blob", "log", "open", "write"}, request : Request]
  <2> HIDE DEF r
  <2> QED
    BY <1>1, <1>4
<1>6. FileTypes'
  BY <1>1, <1>2, <1>3, <1>5 DEF FileTypes
<1>7. Allocates' = FALSE /\ Allocates = FALSE
  BY <1>1, <1>5 DEF Allocates, NoCall
<1>8. /\ InOrder(files') /\ Len(files') = Len(files)
      /\ \A i \in 1 .. Len(files) : files'[i].blob = files[i].blob
  <2>1. CASE files' = files
    BY <1>2, <2>1 DEF FilesMapped
  <2>2. CASE files' = [files EXCEPT ![Active].state = "sealed"]
    <3>1. InOrder(files) /\ active_file_id < Len(files)
      BY <1>2, <1>3, <1>7, MappedOf DEF FilesMapped
    <3>2. Active \in 1 .. Len(files)
      BY <1>3, <3>1, ActivePlace DEF Active
    <3>3. PICK a \in 1 .. Len(files) : a = Active
      BY <3>2
    <3> DEFINE f == [files[a] EXCEPT !.state = "sealed"]
    <3>4. files[a] \in FileInfo
      BY <3>1, FieldsOf
    <3>5. f \in FileInfo /\ f.file_id = files[a].file_id
          /\ f.blob = files[a].blob
      BY <3>4 DEF FileInfo
    <3>6. files' = [files EXCEPT ![a] = f]
      BY <2>2, <3>3
    <3> HIDE DEF f
    <3>7. LET gs == [files EXCEPT ![a] = f]
          IN  /\ InOrder(gs) /\ Len(gs) = Len(files)
              /\ \A j \in 1 .. Len(files) : gs[j].blob = files[j].blob
      BY <3>1, <3>5, FileChanged
    <3> QED
      BY <3>6, <3>7
  <2> QED
    BY <1>1, <2>1, <2>2
<1>9. FilesMapped'
  BY <1>1, <1>2, <1>7, <1>8, FilesKept
<1> QED
  BY <1>1, <1>2, <1>6, <1>9, CallStep

(* The new file gets a blob that no superblock maps: those exist, and the   *)
(* blobstore makes one that does not.                                       *)
LEMMA BlobAllocatedBInv ==
  ASSUME BInv, BlobAllocated
  PROVE  BInv'
<1> DEFINE free == Blobs \ DOMAIN disk
<1>1. PICK b : b = CHOOSE x \in free : \A c \in free : x <= c
  OBVIOUS
<1> DEFINE f == NewFile(next_file_id, b)
<1>2. /\ Waits("blob") /\ free # {}
      /\ disk' = [x \in DOMAIN disk \cup {b} |->
                    IF x = b THEN [p \in Page |-> NoData] ELSE disk[x]]
      /\ files' = Append(files, f)
      /\ next_file_id' = next_file_id + 1
      /\ call' = [call EXCEPT !.at = "log"]
      /\ UNCHANGED <<primary, backup, log_page, state, superblock,
                     active_file_id, log, writes>>
  BY <1>1 DEF BlobAllocated, historyVars
<1>3. state = "ready" /\ state' = "ready"
  BY <1>2 DEF Waits
<1>4. FileTypes /\ FilesMapped /\ IsSound(superblock)
      /\ Mapped(superblock) \subseteq DOMAIN disk
      /\ Mapped(Loaded) \subseteq DOMAIN disk
  BY <1>3, InReady DEF BInv
<1>5. b \in Blobs /\ b \notin DOMAIN disk
  <2>1. free \subseteq Nat /\ free # {}
    BY <1>2, RestartAssumption
  <2>2. b \in free
    <3> HIDE DEF free
    <3> QED
      BY <1>1, <2>1, Least
  <2> QED
    BY <2>2
<1>6. DOMAIN disk' = DOMAIN disk \cup {b}
  BY <1>2
<1>7. ~Allocates /\ Allocates'
      /\ call' \in [at : {"blob", "log", "open", "write"}, request : Request]
  BY <1>2, <1>4, CallTypes DEF Allocates
<1>8. FileTypes'
  BY <1>2, <1>3, <1>4, <1>5, <1>6, <1>7 DEF FileTypes
<1>9. Len(files) \in Nat /\ next_file_id = Len(files) /\ InOrder(files)
      /\ Len(superblock.file_mappings) = Len(files)
  BY <1>4, <1>7, FieldsOf DEF FilesMapped
<1>10. f \in FileInfo /\ f.file_id = Len(files) /\ f.blob = b
  BY <1>5, <1>9, RestartAssumption DEF NewFile, FileInfo
<1> HIDE DEF f, free
<1>11. \A i \in 1 .. Len(files) : files[i].blob # f.blob
  BY <1>4, <1>5, <1>10 DEF FilesMapped
<1>12. /\ InOrder(files') /\ Len(files') = Len(files) + 1
       /\ \A i \in 1 .. Len(files) : files'[i] = files[i]
       /\ files'[Len(files) + 1] = f
  BY <1>2, <1>9, <1>10, <1>11, FileAdded
<1>13. FilesMapped'
  <2>1. Loaded' = Loaded
    BY <1>2 DEF Loaded
  <2>2. files'[Len(files')].blob \notin Mapped(Loaded')
    BY <1>4, <1>5, <1>10, <1>12, <2>1
  <2>3. \A i \in 1 .. Len(files') : files'[i].blob \in DOMAIN disk'
    <3>1. \A i \in 1 .. Len(files') : i \in 1 .. Len(files)
                                      \/ i = Len(files) + 1
      BY <1>9, <1>12
    <3> QED
      BY <1>4, <1>6, <1>10, <1>12, <3>1 DEF FilesMapped
  <2>4. \A i \in 1 .. Len(superblock.file_mappings) :
          files'[i].blob = superblock.file_mappings[i].blob
    BY <1>4, <1>9, <1>12 DEF FilesMapped
  <2> QED
    BY <1>2, <1>4, <1>7, <1>9, <1>12, <2>2, <2>3, <2>4 DEF FilesMapped
<1> QED
  BY <1>2, <1>3, <1>4, <1>6, <1>8, <1>13, CallStep

(* A step of a call that changes neither files nor superblock.              *)
LEMMA CallGoesOn ==
  ASSUME BInv, state = "ready", state' = "ready",
         UNCHANGED <<primary, backup, log_page, log, superblock, files,
                     active_file_id, next_file_id, writes>>,
         DOMAIN disk' = DOMAIN disk,
         call' \in {NoCall} \cup
                   [at : {"blob", "log", "open", "write"}, request : Request],
         Allocates' = Allocates
  PROVE  BInv'
<1>1. FileTypes /\ FilesMapped /\ IsSound(superblock)
      /\ Mapped(superblock) \subseteq DOMAIN disk
  BY InReady DEF BInv
<1>2. FileTypes'
  BY <1>1 DEF FileTypes
<1>3. FilesMapped'
  BY <1>1, FilesKept DEF FilesMapped
<1> QED
  BY <1>1, <1>2, <1>3, CallStep

LEMMA BlobNotAllocatedBInv ==
  ASSUME BInv, BlobNotAllocated
  PROVE  BInv'
<1>1. state = "ready" /\ state' = "ready" /\ call.at = "blob"
      /\ call' = NoCall
      /\ UNCHANGED <<disk, primary, backup, log_page, log, superblock, files,
                     active_file_id, next_file_id, writes>>
  BY DEF BlobNotAllocated, Waits, deviceVars, fileVars, historyVars
<1>2. Allocates = FALSE /\ Allocates' = FALSE
  BY <1>1 DEF Allocates, NoCall
<1> QED
  BY <1>1, <1>2, CallGoesOn

(* The write of a record changes pages of a blob, never the set of blobs.   *)
LEMMA StoreKeepsBlobs ==
  ASSUME NEW parts
  PROVE  DOMAIN Store(parts) = DOMAIN disk
BY DEF Store

LEMMA NotWrittenBInv ==
  ASSUME BInv, NotWritten
  PROVE  BInv'
<1>1. state = "ready" /\ state' = "ready" /\ call.at = "write"
      /\ call' = NoCall
      /\ UNCHANGED <<primary, backup, log_page, log, superblock, files,
                     active_file_id, next_file_id, writes>>
      /\ \E parts : disk' = Store(parts)
  BY DEF NotWritten, Waits, fileVars
<1>2. Allocates = FALSE /\ Allocates' = FALSE
  BY <1>1 DEF Allocates, NoCall
<1> QED
  BY <1>1, <1>2, StoreKeepsBlobs, CallGoesOn

LEMMA WrittenBInv ==
  ASSUME BInv, Written
  PROVE  BInv'
<1>1. /\ Waits("write") /\ Fits
      /\ disk' = Store(1 .. Writing.pages)
      /\ files' = Advance(Writing.pages)
      /\ call' = NoCall
      /\ UNCHANGED <<primary, backup, log_page, state, superblock,
                     active_file_id, next_file_id, log, writes>>
  BY DEF Written
<1>2. state = "ready" /\ state' = "ready" /\ call.at = "write"
      /\ DOMAIN disk' = DOMAIN disk
  BY <1>1, StoreKeepsBlobs DEF Waits
<1>3. FileTypes /\ FilesMapped /\ IsSound(superblock)
      /\ Mapped(superblock) \subseteq DOMAIN disk
  BY <1>2, InReady DEF BInv
<1>4. Allocates = FALSE /\ Allocates' = FALSE
  BY <1>1, <1>2 DEF Allocates, NoCall
<1>5. FileTypes'
  BY <1>1, <1>2, <1>3 DEF FileTypes
<1>6. InOrder(files) /\ active_file_id \in Nat /\ active_file_id < Len(files)
  BY <1>3, <1>4, MappedOf DEF FilesMapped, FileTypes
<1>7. PICK a \in 1 .. Len(files) : a = Active
  BY <1>6, ActivePlace DEF Active
<1>8. PICK n \in Nat \ {0} : n = Writing.pages
  BY <1>1, <1>3, CallTypes DEF Writing, Request
<1>9. /\ InOrder(files') /\ Len(files') = Len(files)
      /\ \A i \in 1 .. Len(files) : files'[i].blob = files[i].blob
  <2>1. files[a] \in FileInfo
        /\ files[a].write_offset + n \in (1 .. FilePages) \cap (0 .. FilePages)
    BY <1>1, <1>6, <1>7, <1>8, FieldsOf, RestartAssumption DEF Fits
  <2>2. PICK g : g = [files[a] EXCEPT !.write_offset = @ + n]
    OBVIOUS
  <2>3. PICK f : f = [g EXCEPT !.size = files[a].write_offset + n]
    OBVIOUS
  <2>4. g \in FileInfo /\ g.file_id = files[a].file_id
        /\ g.blob = files[a].blob
    BY <2>1, <2>2 DEF FileInfo
  <2>5. f \in FileInfo /\ f.file_id = files[a].file_id
        /\ f.blob = files[a].blob
    BY <2>1, <2>3, <2>4 DEF FileInfo
  <2>6. files' = [files EXCEPT ![a] = f]
    <3>1. files \in [1 .. Len(files) -> FileInfo]
      BY <1>6 DEF InOrder
    <3>2. files' = [files EXCEPT ![a].write_offset = @ + n,
                                 ![a].size = files[a].write_offset + n]
      BY <1>1, <1>7, <1>8 DEF Advance
    <3> QED
      BY <2>2, <2>3, <3>1, <3>2
  <2>7. LET gs == [files EXCEPT ![a] = f]
        IN  /\ InOrder(gs) /\ Len(gs) = Len(files)
            /\ \A j \in 1 .. Len(files) : gs[j].blob = files[j].blob
    BY <1>6, <2>5, FileChanged
  <2> QED
    BY <2>6, <2>7
<1>10. FilesMapped'
  BY <1>1, <1>2, <1>3, <1>4, <1>9, FilesKept
<1> QED
  BY <1>1, <1>2, <1>3, <1>5, <1>10, CallStep

(* The rollback takes back the id and the place that were given last.       *)
LEMMA RollbackKeepsFiles ==
  ASSUME BInv, state = "ready", Allocates, DropFile, ~Allocates',
         UNCHANGED <<primary, backup, superblock, active_file_id>>,
         DOMAIN disk' = DOMAIN disk
  PROVE  FilesMapped'
<1>1. FilesMapped /\ InOrder(files)
      /\ Len(superblock.file_mappings) \in Nat
  BY InReady, MappedOf DEF FilesMapped
<1>2. PICK n \in Nat : n = Len(superblock.file_mappings)
  BY <1>1
<1>3. Len(files) = n + 1 /\ next_file_id = n + 1
  BY <1>1, <1>2 DEF FilesMapped
<1>4. /\ InOrder(files') /\ Len(files') = n
      /\ \A i \in 1 .. n : files'[i] = files[i]
  BY <1>1, <1>3, FileDropped DEF DropFile
<1>5. next_file_id' = n
  BY <1>3 DEF DropFile
<1>6. \A i \in 1 .. n : files'[i].blob \in DOMAIN disk'
                        /\ files'[i].blob = superblock.file_mappings[i].blob
  BY <1>1, <1>2, <1>3, <1>4 DEF FilesMapped
<1> QED
  BY <1>1, <1>2, <1>4, <1>5, <1>6 DEF FilesMapped

LEMMA FileNotOpenedBInv ==
  ASSUME BInv, FileNotOpened
  PROVE  BInv'
<1>1. state = "ready" /\ state' = "ready" /\ call.at = "open"
      /\ call' = NoCall /\ DropFile
      /\ UNCHANGED <<disk, primary, backup, log_page, log, superblock,
                     active_file_id, writes>>
  BY DEF FileNotOpened, Waits, deviceVars, historyVars
<1>2. FileTypes /\ IsSound(superblock)
      /\ Mapped(superblock) \subseteq DOMAIN disk
  BY <1>1, InReady DEF BInv
<1>3. Allocates /\ ~Allocates'
  BY <1>1 DEF Allocates, NoCall
<1>4. FilesMapped'
  BY <1>1, <1>3, RollbackKeepsFiles
<1>5. FileTypes'
  BY <1>1, <1>2 DEF FileTypes
<1> QED
  BY <1>1, <1>2, <1>4, <1>5, CallStep

(* The superblock in memory maps a file once it is open.                    *)
LEMMA FileOpenedBInv ==
  ASSUME BInv, FileOpened
  PROVE  BInv'
<1>1. PICK f : f = files[Len(files)]
  OBVIOUS
<1>2. PICK m : m = superblock.file_mappings
  OBVIOUS
<1>3. /\ Waits("open")
      /\ superblock' = [superblock EXCEPT !.file_mappings =
                          UpdateMapping(m, f)]
      /\ active_file_id' = f.file_id
      /\ call' = [call EXCEPT !.at = "write"]
      /\ UNCHANGED <<disk, primary, backup, log_page, state, files,
                     next_file_id, log, writes>>
  BY <1>1, <1>2 DEF FileOpened, deviceVars, historyVars
<1>4. state = "ready" /\ state' = "ready" /\ call.at = "open"
  BY <1>3 DEF Waits
<1>5. FileTypes /\ FilesMapped /\ IsSound(superblock)
      /\ Mapped(superblock) \subseteq DOMAIN disk
  BY <1>4, InReady DEF BInv
<1>6. Allocates /\ ~Allocates'
      /\ call' \in [at : {"blob", "log", "open", "write"}, request : Request]
  BY <1>3, <1>4, <1>5, CallTypes DEF Allocates
<1>7. PICK n \in Nat : n = Len(m)
  BY <1>2, <1>5, MappedOf
<1>8. InOrder(files) /\ InOrder(m) /\ Len(files) = n + 1
  BY <1>2, <1>5, <1>6, <1>7 DEF FilesMapped, IsSound
<1>9. f \in FileInfo /\ f.file_id = n /\ f.blob \in DOMAIN disk
  BY <1>1, <1>5, <1>8, FieldsOf DEF FilesMapped
<1>10. \A i \in 1 .. n : m[i].blob = files[i].blob
  BY <1>2, <1>5, <1>7 DEF FilesMapped
<1>11. \A i \in 1 .. n : m[i].blob # f.blob
  <2>1. \A i, j \in 1 .. n + 1 : files[i].blob = files[j].blob => i = j
    BY <1>8 DEF InOrder
  <2> QED
    BY <1>1, <1>8, <1>10, <2>1
<1>12. PICK ms : ms = UpdateMapping(m, f)
  OBVIOUS
<1>13. /\ InOrder(ms) /\ Len(ms) = n + 1
       /\ \A i \in 1 .. n : ms[i] = m[i]
       /\ ms[n + 1] = f
  <2>1. ms = Append(m, f)
    BY <1>7, <1>8, <1>9, <1>12, MappingAdded
  <2> QED
    BY <1>7, <1>8, <1>9, <1>11, <2>1, FileAdded
<1>14. superblock'.file_mappings = ms
       /\ superblock'.active_file_id = superblock.active_file_id
       /\ superblock'.alloc_log_sequence = superblock.alloc_log_sequence
       /\ superblock' \in Superblock
  <2>1. ms \in Seq(FileInfo)
    BY <1>13 DEF InOrder
  <2>2. superblock \in Superblock
    BY <1>5 DEF IsSound
  <2> QED
    BY <1>3, <1>12, <2>1, <2>2 DEF Superblock
<1>15. IsSound(superblock')
  <2>1. superblock.active_file_id < n /\ superblock.active_file_id \in Nat
        /\ superblock.alloc_log_sequence >= 1
    BY <1>2, <1>5, <1>7, MappedOf DEF IsSound
  <2> QED
    BY <1>13, <1>14, <2>1 DEF IsSound
<1>16. \A i \in 1 .. n + 1 : ms[i].blob = files[i].blob
  BY <1>1, <1>8, <1>10, <1>13
<1>17. Mapped(superblock') \subseteq DOMAIN disk'
  <2>1. Mapped(superblock') = { ms[i].blob : i \in 1 .. n + 1 }
    BY <1>13, <1>14, <1>15, MappedOf
  <2> QED
    BY <1>3, <1>5, <1>8, <1>16, <2>1 DEF FilesMapped
<1>18. FileTypes'
  BY <1>3, <1>4, <1>5, <1>6, <1>9 DEF FileTypes
<1>19. FilesMapped'
  BY <1>3, <1>5, <1>6, <1>8, <1>9, <1>13, <1>14, <1>16 DEF FilesMapped
<1> QED
  BY <1>3, <1>4, <1>15, <1>17, <1>18, <1>19, CallStep

(* The log goes on following when an entry is added to it.                  *)
LEMMA EntryFollows ==
  ASSUME NEW lg, lg \in [tail : 0 .. LogCapacity, sequence : Nat, page : LogPage],
         NEW sb, sb.alloc_log_sequence \in Nat,
         NEW done \in {0, 1}, LogFollows(lg, sb, done), lg.tail < LogCapacity,
         NEW e \in LogEntry, e.sequence = lg.sequence + 1,
         done = 0 => e.blob \notin Mapped(sb),
         NEW lh, lh = [tail |-> lg.tail + 1, sequence |-> lg.sequence + 1,
                       page |-> [lg.page EXCEPT ![lg.tail] = e]]
  PROVE  /\ LogFollows(lh, sb, done)
         /\ lh \in [tail : 0 .. LogCapacity, sequence : Nat, page : LogPage]
         /\ lh.sequence = lg.sequence + 1
<1>1. LogCapacity \in Nat \ {0}
  BY RestartAssumption
<1>2. PICK t \in Nat : t = lg.tail
  BY <1>1
<1>3. PICK base \in Nat : base = sb.alloc_log_sequence
  OBVIOUS
<1>4. PICK page \in LogPage : page = lg.page
  OBVIOUS
<1>5. PICK after : after = [page EXCEPT ![t] = e]
  OBVIOUS
<1>6. lh.tail = t + 1 /\ lh.sequence = lg.sequence + 1 /\ lh.page = after
      /\ lg.sequence \in Nat /\ t + 1 \in 0 .. LogCapacity
  BY <1>1, <1>2, <1>4, <1>5
<1>7. after \in LogPage
      /\ \A i \in 0 .. LogCapacity - 1 :
           after[i] = IF i = t THEN e ELSE page[i]
  BY <1>1, <1>2, <1>5 DEF LogPage
<1>8. /\ done <= t /\ lg.sequence = base + t - done
      /\ \A i \in 0 .. t - 1 : page[i].sequence = base + i + 1 - done
      /\ \A i \in t .. LogCapacity - 1 : page[i].sequence <= base + i
      /\ done = 0 => \A i \in 0 .. t - 1 : page[i].blob \notin Mapped(sb)
  BY <1>2, <1>3, <1>4 DEF LogFollows, Spares
<1>9. \A i \in 0 .. t : after[i].sequence = base + i + 1 - done
  <2>1. t < LogCapacity
    BY <1>2
  <2> QED
    BY <1>1, <1>7, <1>8, <2>1
<1>10. \A i \in t + 1 .. LogCapacity - 1 : after[i].sequence <= base + i
  BY <1>1, <1>7, <1>8
<1>11. done = 0 => \A i \in 0 .. t : after[i].blob \notin Mapped(sb)
  <2>1. t < LogCapacity
    BY <1>2
  <2> QED
    BY <1>1, <1>7, <1>8, <2>1
<1>12. LogFollows(lh, sb, done)
  <2>1. \A i \in 0 .. lh.tail - 1 :
          lh.page[i].sequence = sb.alloc_log_sequence + i + 1 - done
    <3>1. \A i \in 0 .. lh.tail - 1 : i \in 0 .. t
      BY <1>6
    <3> QED
      BY <1>3, <1>6, <1>9, <3>1
  <2>2. \A i \in lh.tail .. LogCapacity - 1 :
          lh.page[i].sequence <= sb.alloc_log_sequence + i
    BY <1>3, <1>6, <1>10
  <2>3. done = 0 => Spares(sb, lh.page, lh.tail)
    <3>1. \A i \in 0 .. lh.tail - 1 : i \in 0 .. t
      BY <1>6
    <3> QED
      BY <1>6, <1>11, <3>1 DEF Spares
  <2>4. done <= lh.tail
        /\ lh.sequence = sb.alloc_log_sequence + lh.tail - done
    BY <1>3, <1>6, <1>8
  <2> QED
    BY <2>1, <2>2, <2>3, <2>4 DEF LogFollows
<1>13. lh \in [tail : 0 .. LogCapacity, sequence : Nat, page : LogPage]
  <2>1. lh = [tail |-> t + 1, sequence |-> lg.sequence + 1, page |-> after]
    BY <1>2, <1>4, <1>5
  <2> QED
    BY <1>6, <1>7, <2>1
<1> QED
  BY <1>6, <1>12, <1>13

(* Were this page on the device, a recovery from this superblock would take *)
(* from it only blobs that the superblock does not map, and a close would   *)
(* write a sequence that none of it follows upon.                           *)
LEMMA PageIsSafe ==
  ASSUME NEW lg, lg \in [tail : 0 .. LogCapacity, sequence : Nat, page : LogPage],
         NEW sb, sb.alloc_log_sequence \in Nat,
         NEW done \in {0, 1}, LogFollows(lg, sb, done)
  PROVE  /\ \E n \in 0 .. LogCapacity :
              /\ Follow(lg.page, sb.alloc_log_sequence, n)
              /\ Spares(sb, lg.page, n)
         /\ \A i \in 0 .. LogCapacity - 1 :
              lg.page[i].sequence <= lg.sequence + i
<1>1. LogCapacity \in Nat \ {0}
  BY RestartAssumption
<1>2. PICK t \in 0 .. LogCapacity : t = lg.tail
  OBVIOUS
<1>3. PICK base \in Nat : base = sb.alloc_log_sequence
  OBVIOUS
<1>4. PICK page \in LogPage : page = lg.page
  OBVIOUS
<1>5. /\ done <= t /\ lg.sequence = base + t - done
      /\ \A i \in 0 .. t - 1 : page[i].sequence = base + i + 1 - done
      /\ \A i \in t .. LogCapacity - 1 : page[i].sequence <= base + i
      /\ done = 0 => Spares(sb, page, t)
  BY <1>2, <1>3, <1>4 DEF LogFollows
<1>6. \A i \in 0 .. LogCapacity - 1 : page[i].sequence \in Nat
                                      /\ (i \in 0 .. t - 1
                                          \/ i \in t .. LogCapacity - 1)
  BY <1>1 DEF LogPage, LogEntry, NoLogEntry
<1>7. CASE done = 0
  <2>1. Follow(page, base, t)
    BY <1>5, <1>7 DEF Follow
  <2> QED
    BY <1>1, <1>3, <1>4, <1>5, <1>6, <1>7, <2>1
<1>8. CASE done = 1
  <2>1. \A i \in 0 .. LogCapacity - 1 : page[i].sequence <= base + i
    BY <1>1, <1>5, <1>6, <1>8
  <2>2. Follow(page, base, 0)
    BY <2>1 DEF Follow
  <2>3. Spares(sb, page, 0)
    BY DEF Spares
  <2>4. \A i \in 0 .. LogCapacity - 1 : page[i].sequence <= lg.sequence + i
    BY <1>1, <1>5, <1>6, <1>8, <2>1
  <2> QED
    BY <1>1, <1>3, <1>4, <2>2, <2>3, <2>4
<1> QED
  BY <1>7, <1>8

(* write_entry adds an entry for the file that is being allocated, whose    *)
(* blob the copy that open would load does not map.                         *)
LEMMA EntryInMemory ==
  ASSUME BInv, state = "ready", Allocates, ~LogFull, WriteEntry
  PROVE  /\ \E done \in {0, 1} : LogFollows(log', Loaded, done)
         /\ log' \in [tail : 0 .. LogCapacity, sequence : Nat, page : LogPage]
         /\ log'.sequence = log.sequence + 1
<1>1. LogCapacity \in Nat \ {0}
  BY RestartAssumption
<1>2. log \in [tail : 0 .. LogCapacity, sequence : Nat, page : LogPage]
  BY DEF BInv, FileTypes
<1>3. log.tail \in Nat /\ log.tail < LogCapacity /\ log.sequence \in Nat
  BY <1>1, <1>2 DEF LogFull
<1>4. PICK done \in {0, 1} : LogFollows(log, Loaded, done)
  BY InReady DEF LogInMemory
<1>5. Loaded.alloc_log_sequence \in Nat
  BY InReady, MappedOf
<1>6. FilesMapped /\ InOrder(files) /\ Len(superblock.file_mappings) \in Nat
  BY InReady, MappedOf DEF FilesMapped
<1>7. PICK f \in FileInfo : f = files[Len(files)]
  <2>1. Len(files) \in 1 .. Len(files)
    BY <1>6 DEF FilesMapped
  <2> QED
    BY <1>6, <2>1, FieldsOf
<1>8. f.blob \notin Mapped(Loaded) /\ f.blob \in Blobs /\ f.file_id \in Nat
  BY <1>6, <1>7 DEF FilesMapped, FileInfo
<1>9. PICK e : e = [sequence |-> log.sequence + 1, blob |-> f.blob,
                    file_id |-> f.file_id]
  OBVIOUS
<1>10. e \in LogEntry /\ e.sequence = log.sequence + 1 /\ e.blob = f.blob
  BY <1>3, <1>8, <1>9 DEF LogEntry
<1>11. log.tail % LogCapacity = log.tail
  BY <1>1, <1>3
<1>12. log' = [tail |-> log.tail + 1, sequence |-> log.sequence + 1,
               page |-> [log.page EXCEPT ![log.tail] = e]]
  BY <1>7, <1>9, <1>11 DEF WriteEntry
<1>13. PICK lh : lh = log'
  OBVIOUS
<1>14. /\ LogFollows(lh, Loaded, done)
       /\ lh \in [tail : 0 .. LogCapacity, sequence : Nat, page : LogPage]
       /\ lh.sequence = log.sequence + 1
  BY <1>2, <1>3, <1>4, <1>5, <1>8, <1>10, <1>12, <1>13, EntryFollows
<1> QED
  BY <1>13, <1>14

(* The entry is on the device before the file is open: the recovery after a *)
(* crash in between deletes the blob.                                       *)
LEMMA LogWrittenBInv ==
  ASSUME BInv, LogWritten
  PROVE  BInv'
<1>1. /\ Waits("log") /\ ~LogFull /\ WriteEntry
      /\ log_page' = log'.page
      /\ call' = [call EXCEPT !.at = "open"]
      /\ UNCHANGED <<disk, primary, backup, state, superblock, files,
                     active_file_id, next_file_id, writes>>
  BY DEF LogWritten, fileVars, historyVars
<1>2. state = "ready" /\ state' = "ready" /\ call.at = "log" /\ Allocates
  BY <1>1 DEF Waits, Allocates
<1>3. FileTypes /\ FilesMapped /\ Loaded # Torn
      /\ IsSound(superblock) /\ IsSound(Loaded)
      /\ Mapped(superblock) \subseteq DOMAIN disk
      /\ Mapped(Loaded) \subseteq DOMAIN disk
  BY <1>2, InReady DEF BInv
<1>4. PICK lg : lg = log'
  OBVIOUS
<1>5. lg \in [tail : 0 .. LogCapacity, sequence : Nat, page : LogPage]
  BY <1>1, <1>2, <1>4, EntryInMemory
<1>6. PICK done \in {0, 1} : LogFollows(lg, Loaded, done)
  BY <1>1, <1>2, <1>4, EntryInMemory
<1>7. Loaded' = Loaded
  BY <1>1 DEF Loaded
<1>8. Loaded.alloc_log_sequence \in Nat
  BY <1>3, MappedOf
<1>9. /\ \E n \in 0 .. LogCapacity :
           /\ Follow(lg.page, Loaded.alloc_log_sequence, n)
           /\ Spares(Loaded, lg.page, n)
      /\ \A i \in 0 .. LogCapacity - 1 : lg.page[i].sequence <= lg.sequence + i
  BY <1>5, <1>6, <1>8, PageIsSafe
<1>10. call' \in [at : {"blob", "log", "open", "write"}, request : Request]
       /\ call'.at = "open"
  BY <1>1, <1>3, CallTypes
<1>11. FileTypes'
  BY <1>1, <1>2, <1>3, <1>4, <1>5, <1>10 DEF FileTypes
<1>12. CopiesSound'
  BY <1>1 DEF BInv, CopiesSound
<1>13. LoadedIsSafe'
  BY <1>1, <1>3, <1>4, <1>7, <1>9 DEF LoadedIsSafe, IsSafe
<1>14. LogOnDevice'
  BY <1>1, <1>4, <1>9 DEF LogOnDevice
<1>15. LogInMemory'
  BY <1>4, <1>6, <1>7 DEF LogInMemory
<1>16. Allocates' = Allocates
  BY <1>2, <1>10 DEF Allocates
<1>17. FilesMapped'
  BY <1>1, <1>3, <1>16, FilesKept DEF FilesMapped
<1>18. SessionIsSound'
  BY <1>1, <1>2, <1>3, <1>7, <1>14, <1>15, <1>17 DEF SessionIsSound
<1> QED
  BY <1>11, <1>12, <1>13, <1>18 DEF BInv

(* When the write of the entry fails it stays in page_buf_, and goes to the *)
(* device with the next one.                                                *)
LEMMA LogNotWrittenBInv ==
  ASSUME BInv, LogNotWritten
  PROVE  BInv'
<1>1. /\ Waits("log") /\ DropFile /\ call' = NoCall
      /\ IF LogFull THEN UNCHANGED log ELSE WriteEntry
      /\ UNCHANGED <<disk, primary, backup, log_page, state, superblock,
                     active_file_id, writes>>
  BY DEF LogNotWritten, deviceVars, historyVars
<1>2. state = "ready" /\ state' = "ready" /\ call.at = "log"
      /\ Allocates /\ ~Allocates'
  BY <1>1 DEF Waits, Allocates, NoCall
<1>3. FileTypes /\ Loaded # Torn /\ IsSound(superblock)
      /\ LogOnDevice /\ LogInMemory
      /\ Mapped(superblock) \subseteq DOMAIN disk
      /\ Mapped(Loaded) \subseteq DOMAIN disk
  BY <1>2, InReady DEF BInv
<1>4. Loaded' = Loaded /\ CopiesSound' /\ LoadedIsSafe'
  BY <1>1, <1>3, CopiesKeptSafe
<1>5. FilesMapped'
  BY <1>1, <1>2, RollbackKeepsFiles
<1>6. /\ log' \in [tail : 0 .. LogCapacity, sequence : Nat, page : LogPage]
      /\ LogOnDevice' /\ LogInMemory'
  <2>1. CASE LogFull
    BY <1>1, <1>3, <2>1, LogKept DEF FileTypes
  <2>2. CASE ~LogFull
    <3>1. /\ \E done \in {0, 1} : LogFollows(log', Loaded, done)
          /\ log' \in [tail : 0 .. LogCapacity, sequence : Nat,
                       page : LogPage]
          /\ log'.sequence = log.sequence + 1
      BY <1>1, <1>2, <2>2, EntryInMemory
    <3>2. \A i \in 0 .. LogCapacity - 1 : log_page[i].sequence \in Nat
      BY <1>3 DEF FileTypes, LogPage, LogEntry, NoLogEntry
    <3>3. log.sequence \in Nat
      BY <1>3 DEF FileTypes
    <3>4. \A i \in 0 .. LogCapacity - 1 :
            log_page[i].sequence <= log.sequence + 1 + i
      BY <1>3, <3>2, <3>3, RestartAssumption DEF LogOnDevice
    <3>5. LogOnDevice'
      BY <1>1, <3>1, <3>4 DEF LogOnDevice
    <3>6. LogInMemory'
      BY <1>4, <3>1 DEF LogInMemory
    <3> QED
      BY <3>1, <3>5, <3>6
  <2> QED
    BY <2>1, <2>2
<1>7. FileTypes'
  BY <1>1, <1>2, <1>3, <1>6 DEF FileTypes
<1>8. SessionIsSound'
  BY <1>1, <1>2, <1>3, <1>4, <1>5, <1>6 DEF SessionIsSound
<1> QED
  BY <1>4, <1>7, <1>8 DEF BInv

-----------------------------------------------------------------------------
(* close *)

(* What a session has until its last write of the superblock.               *)
LEMMA InClose ==
  ASSUME BInv, state \in {"backup", "primary"}
  PROVE  /\ Loaded # Torn /\ IsSound(superblock)
         /\ superblock.alloc_log_sequence = log.sequence
         /\ LogOnDevice
         /\ IsSafe(superblock, DOMAIN disk, log_page)
         /\ IsSafe(Loaded, DOMAIN disk, log_page)
<1>1. SessionIsSound /\ InSession
  BY DEF BInv, InSession
<1>2. /\ Loaded # Torn /\ IsSound(superblock)
      /\ superblock.alloc_log_sequence = log.sequence
      /\ Mapped(superblock) \subseteq DOMAIN disk
      /\ LogOnDevice
  BY <1>1 DEF SessionIsSound
<1>3. Follow(log_page, superblock.alloc_log_sequence, 0)
  BY <1>2 DEF Follow, LogOnDevice
<1>4. Spares(superblock, log_page, 0)
  BY DEF Spares
<1>5. IsSafe(superblock, DOMAIN disk, log_page)
  BY <1>2, <1>3, <1>4, RestartAssumption DEF IsSafe
<1> QED
  BY <1>2, <1>5 DEF BInv, LoadedIsSafe

(* close makes the superblock of the files as they are.                     *)
LEMMA CloseBeginBInv ==
  ASSUME BInv, CloseBegin
  PROVE  BInv'
<1>1. PICK m : m = superblock.file_mappings
  OBVIOUS
<1>2. /\ state = "ready" /\ call = NoCall /\ state' = "backup"
      /\ superblock' = [file_mappings |-> UpdateMappings(m, files),
                        active_file_id |-> active_file_id,
                        alloc_log_sequence |-> log.sequence]
      /\ UNCHANGED <<disk, primary, backup, log_page, call, active_file_id,
                     log, writes>>
  BY <1>1 DEF CloseBegin, deviceVars, fileVars, historyVars
<1>3. FileTypes /\ FilesMapped /\ IsSound(superblock) /\ IsSound(Loaded)
      /\ Loaded # Torn /\ LogOnDevice /\ LogInMemory
      /\ Mapped(Loaded) \subseteq DOMAIN disk
  BY <1>2, InReady DEF BInv
<1>4. ~Allocates
  BY <1>2 DEF Allocates, NoCall
<1>5. InOrder(m) /\ InOrder(files) /\ Len(m) = Len(files)
  BY <1>1, <1>3, <1>4 DEF IsSound, FilesMapped
<1>6. UpdateMappings(m, files) = files
  BY <1>5, MappingsBecomeFiles
<1>7. superblock'.file_mappings = files
      /\ superblock'.active_file_id = active_file_id
      /\ superblock'.alloc_log_sequence = log.sequence
  BY <1>2, <1>6
<1>8. log.sequence \in Nat /\ log.sequence >= 1
  <2>1. PICK done \in {0, 1} : LogFollows(log, Loaded, done)
    BY <1>3 DEF LogInMemory
  <2>2. Loaded.alloc_log_sequence \in Nat \ {0}
    BY <1>3, MappedOf
  <2>3. log.tail \in Nat /\ log.sequence \in Nat
    BY <1>3, RestartAssumption DEF FileTypes
  <2> QED
    BY <2>1, <2>2, <2>3 DEF LogFollows
<1>9. IsSound(superblock')
  <2>1. superblock' \in Superblock
    BY <1>2, <1>3, <1>5, <1>6, <1>8 DEF Superblock, InOrder, FileTypes
  <2>2. active_file_id < Len(files)
    BY <1>1, <1>3, <1>5 DEF FilesMapped
  <2> QED
    BY <1>5, <1>7, <1>8, <2>1, <2>2 DEF IsSound
<1>10. Mapped(superblock') \subseteq DOMAIN disk'
  <2>1. Mapped(superblock') = { files[i].blob : i \in 1 .. Len(files) }
    BY <1>7, <1>9, MappedOf
  <2> QED
    BY <1>2, <1>3, <2>1 DEF FilesMapped
<1>11. Loaded' = Loaded /\ CopiesSound' /\ LoadedIsSafe'
  BY <1>2, <1>3, CopiesKeptSafe
<1>12. LogOnDevice' /\ LogInMemory'
  BY <1>2, <1>3, LogKept
<1>13. SessionIsSound'
  BY <1>2, <1>3, <1>7, <1>9, <1>10, <1>11, <1>12 DEF SessionIsSound
<1>14. FileTypes'
  BY <1>2, <1>3 DEF FileTypes
<1> QED
  BY <1>11, <1>13, <1>14 DEF BInv

(* The memory is gone; the device is as open needs it.                      *)
LEMMA Forgotten ==
  ASSUME BInv, Forget, UNCHANGED <<log_page, writes>>,
         DOMAIN disk' = DOMAIN disk, CopiesSound', LoadedIsSafe'
  PROVE  BInv'
<1>1. FileTypes /\ LogCapacity \in Nat \ {0}
  BY RestartAssumption DEF BInv
<1>2. /\ state' = "closed" /\ call' = NoCall /\ active_file_id' = 0
      /\ log' = [tail |-> 0, sequence |-> 0, page |-> log_page]
  BY DEF Forget
<1>3. FileTypes'
  BY <1>1, <1>2 DEF FileTypes
<1>4. SessionIsSound'
  BY <1>2 DEF SessionIsSound, InSession
<1> QED
  BY <1>3, <1>4 DEF BInv

(* Any write of one copy, whole, cut short or lost, leaves a copy to load   *)
(* that is safe.                                                            *)
LEMMA BackupIsSafe ==
  ASSUME BInv, state = "backup", backup' \in CutShort(backup),
         UNCHANGED <<primary, log_page>>, DOMAIN disk' = DOMAIN disk
  PROVE  CopiesSound' /\ LoadedIsSafe'
<1>1. /\ Loaded # Torn /\ IsSound(superblock)
      /\ IsSafe(superblock, DOMAIN disk, log_page)
      /\ IsSafe(Loaded, DOMAIN disk, log_page)
  BY InClose
<1>2. CopiesSound'
  BY <1>1 DEF BInv, CopiesSound, CutShort
<1>3. Loaded' = Loaded \/ Loaded' = superblock \/ Loaded' = Torn
  BY DEF Loaded, CutShort
<1>4. LoadedIsSafe'
  BY <1>1, <1>3 DEF LoadedIsSafe
<1> QED
  BY <1>2, <1>4

LEMMA PrimaryIsSafe ==
  ASSUME BInv, state = "primary", primary' \in CutShort(primary),
         UNCHANGED <<backup, log_page>>, DOMAIN disk' = DOMAIN disk
  PROVE  CopiesSound' /\ LoadedIsSafe'
<1>1. /\ Loaded # Torn /\ IsSound(superblock)
      /\ IsSafe(superblock, DOMAIN disk, log_page)
      /\ IsSafe(Loaded, DOMAIN disk, log_page)
  BY InClose
<1>2. backup = superblock
  BY DEF BInv, SessionIsSound, InSession
<1>3. CopiesSound'
  BY <1>1 DEF BInv, CopiesSound, CutShort
<1>4. Loaded' = Loaded \/ Loaded' = superblock \/ Loaded' = Torn
  BY <1>2 DEF Loaded, CutShort
<1>5. LoadedIsSafe'
  BY <1>1, <1>4 DEF LoadedIsSafe
<1> QED
  BY <1>3, <1>5

LEMMA WriteBackupBInv ==
  ASSUME BInv, WriteBackup
  PROVE  BInv'
<1>1. /\ state = "backup" /\ backup' \in CutShort(backup)
      /\ UNCHANGED <<disk, primary, log_page, writes>>
  BY DEF WriteBackup, CutShort
<1>2. CopiesSound' /\ LoadedIsSafe'
  BY <1>1, BackupIsSafe
<1>3. CASE Forget
  BY <1>1, <1>2, <1>3, Forgotten
<1>4. CASE ~Forget
  <2>1. /\ backup' = superblock /\ state' = "primary"
        /\ UNCHANGED <<call, superblock, active_file_id, log>>
    BY <1>4 DEF WriteBackup, fileVars
  <2>2. /\ IsSound(superblock) /\ LogOnDevice
        /\ superblock.alloc_log_sequence = log.sequence
        /\ Mapped(superblock) \subseteq DOMAIN disk
    BY <1>1, InClose DEF IsSafe
  <2>3. Loaded' # Torn
    BY <1>1, <2>1, <2>2, MappedOf DEF Loaded
  <2>4. LogOnDevice'
    BY <1>1, <2>1, <2>2 DEF LogOnDevice
  <2>5. SessionIsSound'
    BY <1>1, <2>1, <2>2, <2>3, <2>4 DEF SessionIsSound
  <2>6. FileTypes'
    BY <1>1, <2>1 DEF BInv, FileTypes
  <2> QED
    BY <1>2, <2>5, <2>6 DEF BInv
<1> QED
  BY <1>3, <1>4

LEMMA WritePrimaryBInv ==
  ASSUME BInv, WritePrimary
  PROVE  BInv'
<1>1. /\ state = "primary" /\ primary' \in CutShort(primary) /\ Forget
      /\ UNCHANGED <<disk, backup, log_page, writes>>
  BY DEF WritePrimary, CutShort
<1> QED
  BY <1>1, PrimaryIsSafe, Forgotten

LEMMA CrashBInv ==
  ASSUME BInv, Crash
  PROVE  BInv'
<1>1. Forget /\ UNCHANGED <<log_page, writes>>
  BY DEF Crash, CrashWith
<1>2. /\ state \notin {"closed", "error"}
      /\ \/ UNCHANGED <<disk, primary, backup>>
         \/ UNCHANGED <<primary, backup>> /\ \E parts : disk' = Store(parts)
         \/ state = "backup" /\ backup' \in CutShort(backup)
            /\ UNCHANGED <<disk, primary>>
         \/ state = "primary" /\ primary' \in CutShort(primary)
            /\ UNCHANGED <<disk, backup>>
  BY DEF Crash, CrashWith
<1>3. DOMAIN disk' = DOMAIN disk
  BY <1>2, StoreKeepsBlobs
<1>4. Loaded # Torn => Mapped(Loaded) \subseteq DOMAIN disk
  BY DEF BInv, LoadedIsSafe, IsSafe
<1>5. CopiesSound' /\ LoadedIsSafe'
  <2>1. CASE UNCHANGED <<primary, backup>>
    BY <1>1, <1>3, <1>4, <2>1, CopiesKeptSafe
  <2>2. CASE state = "backup" /\ backup' \in CutShort(backup)
             /\ UNCHANGED primary
    BY <1>1, <1>3, <2>2, BackupIsSafe
  <2>3. CASE state = "primary" /\ primary' \in CutShort(primary)
             /\ UNCHANGED backup
    BY <1>1, <1>3, <2>3, PrimaryIsSafe
  <2> QED
    BY <1>2, <2>1, <2>2, <2>3
<1> QED
  BY <1>1, <1>3, <1>5, Forgotten

-----------------------------------------------------------------------------
(* open *)

(* What a session has until it is ready.                                    *)
LEMMA InOpen ==
  ASSUME BInv, state \in {"log", "dangling"}
  PROVE  /\ superblock = Loaded /\ Loaded # Torn /\ IsSound(Loaded)
         /\ IsSafe(Loaded, DOMAIN disk, log_page)
         /\ LogOnDevice /\ LogInMemory
         /\ call = NoCall
         /\ state = "dangling" => files = superblock.file_mappings
<1>1. SessionIsSound /\ InSession /\ state # "primary" /\ state # "ready"
  BY DEF BInv, InSession
<1>2. superblock = Loaded /\ Loaded # Torn /\ IsSound(superblock)
      /\ LogOnDevice /\ LogInMemory
      /\ (state = "dangling" => files = superblock.file_mappings)
  BY <1>1 DEF SessionIsSound
<1> QED
  BY <1>1, <1>2 DEF BInv, LoadedIsSafe, FileTypes

(* load_entries takes the entries that follow upon the superblock.          *)
LEMMA LoadBInv ==
  ASSUME BInv, Load(Loaded), Loaded # Torn
  PROVE  BInv'
<1>1. PICK sb : sb = Loaded
  OBVIOUS
<1>2. PICK loaded : loaded = LoadedEntries(sb)
  OBVIOUS
<1>3. /\ state = "closed" /\ state' = "log" /\ superblock' = sb
      /\ log' = [tail |-> Len(loaded),
                 sequence |-> IF loaded = <<>> THEN sb.alloc_log_sequence
                              ELSE loaded[Len(loaded)].sequence,
                 page |-> log_page]
      /\ UNCHANGED <<disk, primary, backup, log_page, call, active_file_id,
                     writes>>
  BY <1>1, <1>2 DEF Load, deviceVars, fileVars, historyVars
<1>4. FileTypes /\ CopiesSound /\ LoadedIsSafe
      /\ IsSafe(sb, DOMAIN disk, log_page)
  BY <1>1 DEF BInv, LoadedIsSafe
<1>5. IsSound(sb)
  BY <1>1, <1>4 DEF CopiesSound, Loaded
<1>6. LogCapacity \in Nat \ {0} /\ log_page \in LogPage /\ call = NoCall
  BY <1>3, <1>4, RestartAssumption DEF FileTypes
<1>7. PICK base \in Nat : base = sb.alloc_log_sequence
  BY <1>5, MappedOf
<1>8. PICK n \in 0 .. LogCapacity : /\ Follow(log_page, base, n)
                                    /\ Spares(sb, log_page, n)
  BY <1>4, <1>7 DEF IsSafe
<1>9. loaded = [i \in 1 .. n |-> log_page[i - 1]]
  BY <1>2, <1>6, <1>7, <1>8, LoadedAre
<1>10. Len(loaded) = n /\ (loaded = <<>> <=> n = 0)
       /\ (n # 0 => loaded[n] = log_page[n - 1])
  BY <1>6, <1>9, SMTT(40)
<1>11. /\ \A i \in 0 .. n - 1 : log_page[i].sequence = base + i + 1
       /\ \A i \in n .. LogCapacity - 1 : log_page[i].sequence <= base + i
  BY <1>8 DEF Follow
<1>12. log' = [tail |-> n, sequence |-> base + n, page |-> log_page]
  <2>1. (IF loaded = <<>> THEN sb.alloc_log_sequence
         ELSE loaded[Len(loaded)].sequence) = base + n
    BY <1>6, <1>7, <1>10, <1>11
  <2> QED
    BY <1>3, <1>10, <2>1
<1>13. FileTypes'
  BY <1>3, <1>4, <1>6, <1>12 DEF FileTypes
<1>14. Loaded' = sb /\ CopiesSound' /\ LoadedIsSafe'
  BY <1>1, <1>3, <1>4, CopiesKeptSafe DEF IsSafe
<1>15. LogOnDevice'
  <2>1. \A i \in 0 .. LogCapacity - 1 :
          i \in 0 .. n - 1 \/ i \in n .. LogCapacity - 1
    BY <1>6
  <2>2. ASSUME NEW i \in 0 .. n - 1
        PROVE  log_page[i].sequence <= base + n + i
    BY <1>11, <2>2
  <2>3. ASSUME NEW i \in n .. LogCapacity - 1
        PROVE  log_page[i].sequence <= base + n + i
    <3>1. log_page[i].sequence \in Nat
      BY <1>6, <2>3 DEF LogPage, LogEntry, NoLogEntry
    <3> QED
      BY <1>6, <1>11, <2>3, <3>1
  <2>4. \A i \in 0 .. LogCapacity - 1 : log_page[i].sequence <= base + n + i
    BY <2>1, <2>2, <2>3
  <2> QED
    BY <1>3, <1>12, <2>4 DEF LogOnDevice
<1>16. LogFollows(log', sb, 0)
  BY <1>6, <1>7, <1>8, <1>11, <1>12 DEF LogFollows
<1>17. LogInMemory'
  BY <1>14, <1>16 DEF LogInMemory
<1>18. SessionIsSound'
  BY <1>1, <1>3, <1>4, <1>5, <1>14, <1>15, <1>17 DEF SessionIsSound, IsSafe
<1> QED
  BY <1>13, <1>14, <1>18 DEF BInv

(* The recovery deletes blobs that the superblock does not map: those of    *)
(* the AllocLog were never mapped when their entries follow upon it.        *)
LEMMA LoggedAreNotMapped ==
  ASSUME BInv, state \in {"log", "dangling"}
  PROVE  LoggedBlobs \cap Mapped(Loaded) = {}
<1>1. superblock = Loaded /\ IsSound(Loaded)
      /\ IsSafe(Loaded, DOMAIN disk, log_page)
  BY InOpen
<1>2. PICK n \in 0 .. LogCapacity :
        /\ Follow(log_page, superblock.alloc_log_sequence, n)
        /\ Spares(superblock, log_page, n)
  BY <1>1 DEF IsSafe
<1>3. LoadedEntries(superblock) = [i \in 1 .. n |-> log_page[i - 1]]
  BY <1>1, <1>2, MappedOf, LoadedAre DEF BInv, FileTypes
<1>4. \A i \in 1 .. n : log_page[i - 1].blob \notin Mapped(Loaded)
  BY <1>1, <1>2, RestartAssumption DEF Spares
<1> QED
  BY <1>3, <1>4 DEF LoggedBlobs

LEMMA DeleteBInv ==
  ASSUME BInv, DeleteLogged \/ ReleaseDangling
  PROVE  BInv'
<1>1. /\ state \in {"log", "dangling"}
      /\ UNCHANGED <<primary, backup, log_page, state, call, superblock,
                     files, active_file_id, log, writes>>
      /\ \E b : b \in LoggedBlobs \cup Dangling /\ DeleteBlob(b)
  BY DEF DeleteLogged, ReleaseDangling, fileVars, historyVars
<1>2. /\ superblock = Loaded /\ Loaded # Torn /\ IsSound(Loaded)
      /\ IsSafe(Loaded, DOMAIN disk, log_page)
      /\ LogOnDevice /\ LogInMemory
      /\ state = "dangling" => files = superblock.file_mappings
  BY <1>1, InOpen
<1>3. PICK b : b \in LoggedBlobs \cup Dangling /\ DeleteBlob(b)
  BY <1>1
<1>4. b \notin Mapped(Loaded)
  BY <1>1, <1>2, <1>3, LoggedAreNotMapped DEF Dangling
<1>5. DOMAIN disk' = DOMAIN disk \ {b}
  BY <1>3 DEF DeleteBlob
<1>6. Mapped(Loaded) \subseteq DOMAIN disk'
  BY <1>2, <1>4, <1>5 DEF IsSafe
<1>7. Loaded' = Loaded /\ CopiesSound' /\ LoadedIsSafe'
  BY <1>1, <1>6, CopiesKeptSafe
<1>8. LogOnDevice' /\ LogInMemory'
  BY <1>1, <1>2, LogKept
<1>9. FileTypes'
  BY <1>1, <1>5 DEF BInv, FileTypes
<1>10. SessionIsSound'
  BY <1>1, <1>2, <1>6, <1>7, <1>8 DEF SessionIsSound
<1> QED
  BY <1>7, <1>9, <1>10 DEF BInv

LEMMA RebuildFileInfoBInv ==
  ASSUME BInv, RebuildFileInfo
  PROVE  BInv'
<1>1. /\ state = "log"
      /\ UNCHANGED <<disk, primary, backup, log_page, call, superblock,
                     active_file_id, log, writes>>
      /\ state' = "error" \/ (state' = "dangling"
                              /\ files' = superblock.file_mappings)
  BY DEF RebuildFileInfo, deviceVars, historyVars
<1>2. /\ superblock = Loaded /\ Loaded # Torn /\ IsSound(Loaded)
      /\ Mapped(Loaded) \subseteq DOMAIN disk
      /\ LogOnDevice /\ LogInMemory /\ call = NoCall
  BY <1>1, InOpen DEF IsSafe
<1>3. Loaded' = Loaded /\ CopiesSound' /\ LoadedIsSafe'
  BY <1>1, <1>2, CopiesKeptSafe
<1>4. LogOnDevice' /\ LogInMemory'
  BY <1>1, <1>2, LogKept
<1>5. FileTypes'
  BY <1>1, <1>2 DEF BInv, FileTypes
<1>6. SessionIsSound'
  BY <1>1, <1>2, <1>3, <1>4 DEF SessionIsSound, InSession
<1> QED
  BY <1>3, <1>5, <1>6 DEF BInv

(* The files of the new session are those of the superblock, and the next   *)
(* id is the number of them.                                                *)
LEMMA RecoverBInv ==
  ASSUME BInv, Recover
  PROVE  BInv'
<1>1. /\ state = "dangling" /\ state' = "ready"
      /\ active_file_id' = superblock.active_file_id
      /\ next_file_id' = Len(superblock.file_mappings)
      /\ UNCHANGED <<disk, primary, backup, log_page, call, superblock, files,
                     log, writes>>
  BY DEF Recover, deviceVars, historyVars
<1>2. /\ superblock = Loaded /\ Loaded # Torn /\ IsSound(Loaded)
      /\ Mapped(Loaded) \subseteq DOMAIN disk
      /\ LogOnDevice /\ LogInMemory /\ call = NoCall
      /\ files = superblock.file_mappings
  BY <1>1, InOpen DEF IsSafe
<1>3. Loaded' = Loaded /\ CopiesSound' /\ LoadedIsSafe'
  BY <1>1, <1>2, CopiesKeptSafe
<1>4. LogOnDevice' /\ LogInMemory'
  BY <1>1, <1>2, LogKept
<1>5. FileTypes'
  BY <1>1, <1>2, MappedOf DEF BInv, FileTypes
<1>6. FilesMapped'
  <2>1. InOrder(files) /\ superblock.active_file_id < Len(files)
    BY <1>2 DEF IsSound
  <2>2. \A i \in 1 .. Len(files) : files[i].blob \in DOMAIN disk
    BY <1>2, MappedOf
  <2>3. ~Allocates'
    BY <1>1, <1>2 DEF Allocates, NoCall
  <2> QED
    BY <1>1, <1>2, <2>1, <2>2, <2>3 DEF FilesMapped
<1>7. SessionIsSound'
  BY <1>1, <1>2, <1>3, <1>4, <1>6 DEF SessionIsSound
<1> QED
  BY <1>3, <1>5, <1>7 DEF BInv

LEMMA OpenFailedBInv ==
  ASSUME BInv, OpenFailed
  PROVE  BInv'
<1>1. /\ state = "closed" /\ state' = "error"
      /\ UNCHANGED <<disk, primary, backup, log_page, call, active_file_id,
                     log, writes>>
  BY DEF OpenFailed, deviceVars, fileVars, historyVars
<1>2. CopiesSound' /\ LoadedIsSafe'
  BY <1>1, CopiesKeptSafe DEF BInv, LoadedIsSafe, IsSafe
<1>3. FileTypes'
  BY <1>1 DEF BInv, FileTypes
<1>4. SessionIsSound'
  BY <1>1 DEF SessionIsSound, InSession
<1> QED
  BY <1>2, <1>3, <1>4 DEF BInv

-----------------------------------------------------------------------------

LEMMA NextBInv == BInv /\ [Next]_vars => BInv'
<1> SUFFICES ASSUME BInv, [Next]_vars PROVE BInv'
  OBVIOUS
<1>1. CASE Calls
  <2>1. PICK k \in Keys, kind \in {"put", "delete"}, n \in Nat \ {0} :
          Begin([id |-> writes + 1, key |-> k, kind |-> kind, pages |-> n])
    BY <1>1, RestartAssumption DEF Calls, Put, Del
  <2> QED
    BY <2>1, BeginBInv
<1>2. CASE Steps
  BY <1>2, BlobAllocatedBInv, BlobNotAllocatedBInv, LogWrittenBInv,
     LogNotWrittenBInv, FileOpenedBInv, FileNotOpenedBInv, WrittenBInv,
     NotWrittenBInv DEF Steps
<1>3. CASE Close
  BY <1>3, CloseBeginBInv, WriteBackupBInv, WritePrimaryBInv DEF Close
<1>4. CASE Open
  <2>1. CASE OpenFromPrimary \/ OpenFromBackup
    <3>1. Loaded # Torn /\ Load(Loaded)
      BY <2>1 DEF OpenFromPrimary, OpenFromBackup, Loaded
    <3> QED
      BY <3>1, LoadBInv
  <2> QED
    BY <1>4, <2>1, OpenFailedBInv, DeleteBInv, RebuildFileInfoBInv,
       RecoverBInv DEF Open
<1>5. CASE Crash
  BY <1>5, CrashBInv
<1>6. CASE UNCHANGED vars
  <2>1. UNCHANGED <<disk, primary, backup, log_page, state, call, superblock,
                    files, active_file_id, next_file_id, log, writes>>
    BY <1>6 DEF vars, deviceVars, fileVars, historyVars
  <2>2. Loaded' = Loaded /\ Allocates' = Allocates /\ InSession' = InSession
    BY <2>1 DEF Loaded, Allocates, InSession
  <2>3. FileTypes' /\ CopiesSound' /\ LoadedIsSafe'
    BY <2>1, <2>2 DEF BInv, FileTypes, CopiesSound, LoadedIsSafe
  <2>4. LogOnDevice' = LogOnDevice /\ LogInMemory' = LogInMemory
        /\ FilesMapped' = FilesMapped
    BY <2>1, <2>2 DEF LogOnDevice, LogInMemory, FilesMapped
  <2>5. SessionIsSound'
    BY <2>1, <2>2, <2>4 DEF BInv, SessionIsSound
  <2> QED
    BY <2>3, <2>5 DEF BInv
<1> QED
  BY <1>1, <1>2, <1>3, <1>4, <1>5, <1>6 DEF Next

(* No recovery, after whatever crashes, deletes a blob that the copy open   *)
(* would load maps (process_alloc_log_recovery, release_dangling_blobs).    *)
THEOREM MappedBlobsAlwaysExist == Spec => []MappedBlobsExist
<1>1. BInv => MappedBlobsExist
  BY DEF BInv, LoadedIsSafe, IsSafe, Loaded, MappedBlobsExist
<1> QED
  BY <1>1, InitBInv, NextBInv, PTL DEF Spec

(* Files share neither ids nor blobs, and the next id is free, in every     *)
(* session (allocate_data_file, rebuild_file_info, load_existing).          *)
THEOREM FilesAlwaysDistinct == Spec => []FilesDistinct
<1>1. BInv => FilesDistinct
  <2> SUFFICES ASSUME BInv, state = "ready" PROVE FilesDistinct
    BY DEF FilesDistinct
  <2>1. FilesMapped /\ InOrder(files) /\ IsSound(superblock)
        /\ active_file_id \in Nat
    BY InReady DEF FilesMapped, BInv, FileTypes
  <2>2. /\ Len(files) \in Nat /\ DOMAIN files = 1 .. Len(files)
        /\ \A i \in 1 .. Len(files) : files[i].file_id = i - 1
    BY <2>1, FieldsOf
  <2>3. active_file_id < Len(files)
    <3>1. Len(files) = Len(superblock.file_mappings)
          \/ Len(files) = Len(superblock.file_mappings) + 1
      BY <2>1 DEF FilesMapped
    <3> QED
      BY <2>1, <2>2, <3>1, MappedOf DEF FilesMapped
  <2>4. HasFile(active_file_id)
    BY <2>1, <2>3, ActivePlace
  <2>5. ~HasFile(next_file_id)
    BY <2>1, <2>2 DEF HasFile, FilesMapped
  <2>6. \A i, j \in DOMAIN files :
          files[i].file_id = files[j].file_id \/ files[i].blob = files[j].blob
            => i = j
    BY <2>1, <2>2 DEF InOrder
  <2> QED
    BY <2>4, <2>5, <2>6 DEF FilesDistinct
<1> QED
  BY <1>1, InitBInv, NextBInv, PTL DEF Spec

-----------------------------------------------------------------------------
(* What recovery computes *)

(* A set of numbers that holds 0 and, with a number, the next one up to n,  *)
(* holds them all.                                                          *)
LEMMA CountUp ==
  ASSUME NEW n \in Nat, NEW T, 0 \in T,
         \A i \in 1 .. n : i - 1 \in T => i \in T
  PROVE  \A i \in 0 .. n : i \in T
<1> DEFINE B == { i \in 0 .. n : i \notin T }
<1>1. SUFFICES ASSUME B # {} PROVE FALSE
  OBVIOUS
<1>2. B \subseteq Nat
  OBVIOUS
<1>3. PICK t \in B : \A c \in B : t <= c
  <2> HIDE DEF B
  <2> QED
    BY <1>1, <1>2, Least
<1>4. t \in 1 .. n /\ t - 1 \in 0 .. n
  BY <1>3
<1>5. t - 1 \in T
  BY <1>3, <1>4
<1> QED
  BY <1>3, <1>4, <1>5

(* The index after the records of a scan were entered.                      *)
IndexAfter(s) ==
  Seqs!FoldLeft(LAMBDA index, x : Enter(index, x.file, x.offset, x.rec),
                [k \in Keys |-> NoEntry], s)

EnterItem(index, x) == Enter(index, x.file, x.offset, x.rec)

EmptyIndex == [k \in Keys |-> NoEntry]

LastOf(t) == CHOOSE x \in t : \A y \in t : x >= y

(* What the fold computes for each set of places of the scan.               *)
Folds(g, s, S) ==
  g = [t \in SUBSET S |-> IF t = {} THEN EmptyIndex
                          ELSE EnterItem(g[t \ {LastOf(t)}], s[LastOf(t)])]

LEMMA LastOfSet ==
  ASSUME NEW n \in Nat, NEW t \in SUBSET (1 .. n), n \in t
  PROVE  LastOf(t) = n
<1>1. \A y \in t : n >= y
  OBVIOUS
<1>2. \A x \in t : (\A y \in t : x >= y) => x = n
  OBVIOUS
<1> QED
  BY <1>1, <1>2 DEF LastOf

LEMMA FoldExists ==
  ASSUME NEW s, NEW n \in Nat
  PROVE  \E g : Folds(g, s, 1 .. n)
<1> DEFINE T == { m \in 0 .. n : \E g : Folds(g, s, 1 .. m) }
<1>1. 0 \in T
  <2>1. 1 .. 0 = {}
    OBVIOUS
  <2>2. Folds([t \in {{}} |-> EmptyIndex], s, {})
    <3>1. SUBSET {} = {{}}
      OBVIOUS
    <3> QED
      BY <3>1 DEF Folds
  <2> QED
    BY <2>1, <2>2
<1>2. ASSUME NEW m \in 1 .. n, m - 1 \in T PROVE m \in T
  <2>1. PICK g : Folds(g, s, 1 .. m - 1)
    BY <1>2
  <2> DEFINE P == SUBSET (1 .. m - 1)
             h == [t \in SUBSET (1 .. m) |->
                     IF m \in t THEN EnterItem(g[t \ {m}], s[m]) ELSE g[t]]
  <2>2. \A t \in P : h[t] = g[t] /\ t \in SUBSET (1 .. m)
    OBVIOUS
  <2>3. ASSUME NEW t \in SUBSET (1 .. m), m \in t
        PROVE  h[t] = EnterItem(h[t \ {LastOf(t)}], s[LastOf(t)]) /\ t # {}
    <3>1. LastOf(t) = m
      BY <2>3, LastOfSet
    <3>2. t \ {m} \in P
      OBVIOUS
    <3>3. h[t \ {m}] = g[t \ {m}]
      BY <2>2, <3>2
    <3> QED
      BY <2>3, <3>1, <3>3
  <2>4. ASSUME NEW t \in SUBSET (1 .. m), m \notin t, t # {}
        PROVE  h[t] = EnterItem(h[t \ {LastOf(t)}], s[LastOf(t)])
    <3>1. t \in P /\ t \ {LastOf(t)} \in P
      <4>1. \A x \in t : x \in 1 .. m - 1
        BY <2>4
      <4>2. t \in P
        BY <4>1
      <4> QED
        BY <4>2
    <3>2. h[t] = g[t] /\ h[t \ {LastOf(t)}] = g[t \ {LastOf(t)}]
      BY <2>2, <3>1
    <3> HIDE DEF h
    <3>3. g[t] = EnterItem(g[t \ {LastOf(t)}], s[LastOf(t)])
      BY <2>1, <2>4, <3>1 DEF Folds
    <3> QED
      BY <3>2, <3>3
  <2>5. h[{}] = EmptyIndex
    <3>1. {} \in P
      OBVIOUS
    <3>2. h[{}] = g[{}]
      BY <2>2, <3>1
    <3> HIDE DEF h
    <3> QED
      BY <2>1, <3>1, <3>2 DEF Folds
  <2>6. h = [t \in SUBSET (1 .. m) |-> h[t]]
    OBVIOUS
  <2>7. \A t \in SUBSET (1 .. m) :
          h[t] = IF t = {} THEN EmptyIndex
                 ELSE EnterItem(h[t \ {LastOf(t)}], s[LastOf(t)])
    <3> HIDE DEF h
    <3> QED
      BY <2>3, <2>4, <2>5
  <2>8. Folds(h, s, 1 .. m)
    <3> HIDE DEF h
    <3> QED
      BY <2>6, <2>7, Zenon DEF Folds
  <2> QED
    BY <2>8
<1>3. n \in T
  <2> HIDE DEF T
  <2> QED
    BY <1>1, <1>2, CountUp
<1> QED
  BY <1>3

(* The index is the last of a series that starts empty and enters one       *)
(* record of the scan after the other.                                      *)
Enters(g, s, n) ==
  /\ g[0] = EmptyIndex
  /\ \A i \in 1 .. n : g[i] = EnterItem(g[i - 1], s[i])

LEMMA IndexAfterSteps ==
  ASSUME NEW s, NEW n \in Nat, DOMAIN s = 1 .. n
  PROVE  \E g : Enters(g, s, n) /\ IndexAfter(s) = g[n]
<1> DEFINE h == CHOOSE g : Folds(g, s, DOMAIN s)
<1>1. IndexAfter(s) = h[DOMAIN s]
  BY DEF IndexAfter, Seqs!FoldLeft, Seqs!MapThenFoldSet, Seqs!Max, Folds,
         LastOf, EnterItem, EmptyIndex
<1>2. Folds(h, s, 1 .. n)
  BY FoldExists
<1> HIDE DEF h
<1> DEFINE g == [i \in 0 .. n |-> h[1 .. i]]
<1>3. g[0] = EmptyIndex
  <2>1. 1 .. 0 = {} /\ {} \in SUBSET (1 .. n)
    OBVIOUS
  <2>2. h[{}] = EmptyIndex
    BY <1>2, <2>1 DEF Folds
  <2> QED
    BY <2>1, <2>2
<1>4. ASSUME NEW i \in 1 .. n PROVE g[i] = EnterItem(g[i - 1], s[i])
  <2>1. 1 .. i \in SUBSET (1 .. n) /\ i \in 1 .. i /\ 1 .. i # {}
    OBVIOUS
  <2>2. LastOf(1 .. i) = i
    BY LastOfSet
  <2>3. (1 .. i) \ {i} = 1 .. i - 1
    OBVIOUS
  <2>4. h[1 .. i] = EnterItem(h[(1 .. i) \ {LastOf(1 .. i)}], s[LastOf(1 .. i)])
    BY <1>2, <2>1 DEF Folds
  <2>5. h[1 .. i] = EnterItem(h[1 .. i - 1], s[i])
    BY <2>2, <2>3, <2>4
  <2> QED
    BY <2>5
<1>5. Enters(g, s, n)
  BY <1>3, <1>4 DEF Enters
<1>6. IndexAfter(s) = g[n]
  BY <1>1
<1> QED
  BY <1>5, <1>6

LEMMA IndexAfterNone == IndexAfter(<<>>) = EmptyIndex
<1>1. DOMAIN <<>> = 1 .. 0 /\ 0 \in Nat
  OBVIOUS
<1>2. PICK g : Enters(g, <<>>, 0) /\ IndexAfter(<<>>) = g[0]
  BY <1>1, IndexAfterSteps
<1> QED
  BY <1>2 DEF Enters

(* One more record.                                                         *)
LEMMA IndexAfterOneMore ==
  ASSUME NEW s, NEW n \in Nat, DOMAIN s = 1 .. n,
         NEW r, DOMAIN r = 1 .. n + 1, \A i \in 1 .. n : r[i] = s[i]
  PROVE  IndexAfter(r) = EnterItem(IndexAfter(s), r[n + 1])
<1>1. PICK g : Enters(g, s, n) /\ IndexAfter(s) = g[n]
  BY IndexAfterSteps
<1>2. PICK h : Enters(h, r, n + 1) /\ IndexAfter(r) = h[n + 1]
  BY IndexAfterSteps
<1> DEFINE T == { i \in 0 .. n : h[i] = g[i] }
<1>3. 0 \in T
  BY <1>1, <1>2 DEF Enters
<1>4. ASSUME NEW i \in 1 .. n, i - 1 \in T PROVE i \in T
  <2>1. h[i] = EnterItem(h[i - 1], r[i]) /\ g[i] = EnterItem(g[i - 1], s[i])
    BY <1>1, <1>2 DEF Enters
  <2>2. r[i] = s[i] /\ h[i - 1] = g[i - 1]
    BY <1>4
  <2> QED
    BY <2>1, <2>2
<1>5. n \in T
  <2> HIDE DEF T
  <2> QED
    BY <1>3, <1>4, CountUp, SMTT(40)
<1>6. h[n + 1] = EnterItem(h[n + 1 - 1], r[n + 1])
  BY <1>2 DEF Enters
<1> QED
  BY <1>1, <1>2, <1>5, <1>6

(* A record with its sequence, and what a scan says of one.                 *)
StoredRecord == [id : 1 .. MaxWrites, key : Keys, kind : {"put", "delete"},
                 pages : Nat \ {0}, seq : Nat \ {0}]
Found == [file : Nat, offset : Nat, rec : StoredRecord]
Index == [Keys -> Entry \cup {NoEntry}]

(* MarkDeleted changes one field.                                           *)
Erased(e, d) ==
  /\ d \in Entry
  /\ d.file = e.file /\ d.offset = e.offset /\ d.seq = e.seq
  /\ d.deleted

LEMMA ErasedIs ==
  ASSUME NEW e \in Entry
  PROVE  Erased(e, [e EXCEPT !.deleted = TRUE])
BY DEF Entry, Erased

(* Entering a record concerns the entry of its key alone.                   *)
Entered(index, x, next) ==
  /\ next \in Index
  /\ \A k \in Keys : k # x.rec.key => next[k] = index[k]
  /\ x.rec.kind = "delete" =>
       IF index[x.rec.key] = NoEntry THEN next[x.rec.key] = NoEntry
       ELSE Erased(index[x.rec.key], next[x.rec.key])
  /\ x.rec.kind = "put" =>
       next[x.rec.key] =
         IF index[x.rec.key] # NoEntry /\ x.rec.seq <= index[x.rec.key].seq
         THEN index[x.rec.key]
         ELSE [file |-> x.file, offset |-> x.offset, seq |-> x.rec.seq,
               deleted |-> FALSE]

LEMMA EnterItemIs ==
  ASSUME NEW index \in Index, NEW x \in Found
  PROVE  Entered(index, x, EnterItem(index, x))
<1> DEFINE next == EnterItem(index, x)
           key  == x.rec.key
           old  == index[key]
           e == [file |-> x.file, offset |-> x.offset,
                 seq |-> x.rec.seq, deleted |-> FALSE]
<1>1. /\ x.file \in Nat /\ x.offset \in Nat /\ x.rec.seq \in Nat \ {0}
      /\ key \in Keys /\ x.rec.kind \in {"put", "delete"}
  BY DEF Found, StoredRecord
<1>2. e \in Entry
  BY <1>1 DEF Entry
<1>3. old \in Entry \cup {NoEntry}
  BY <1>1 DEF Index
<1>4. CASE x.rec.kind = "delete"
  <2>1. next = MarkDeleted(index, key)
    BY <1>4 DEF EnterItem, Enter
  <2>2. CASE old = NoEntry
    BY <1>1, <1>4, <2>1, <2>2 DEF MarkDeleted, Entered
  <2>3. CASE old # NoEntry
    <3> DEFINE d == [old EXCEPT !.deleted = TRUE]
    <3>1. Erased(old, d) /\ d \in Entry
      BY <1>3, <2>3, ErasedIs DEF Erased
    <3>2. next = [index EXCEPT ![key] = d]
      BY <2>1, <2>3 DEF MarkDeleted
    <3> HIDE DEF d, next
    <3>3. next \in Index /\ next[key] = d
          /\ \A k \in Keys : k # key => next[k] = index[k]
      BY <1>1, <3>1, <3>2 DEF Index
    <3> QED
      BY <1>1, <1>4, <2>3, <3>1, <3>3 DEF next, Entered
  <2> QED
    BY <2>2, <2>3
<1>5. CASE x.rec.kind = "put"
  <2>1. next = Upsert(index, key, e)
    BY <1>5 DEF EnterItem, Enter
  <2>2. CASE old # NoEntry /\ x.rec.seq <= old.seq
    BY <1>1, <1>5, <2>1, <2>2 DEF Upsert, Entered
  <2>3. CASE ~ (old # NoEntry /\ x.rec.seq <= old.seq)
    <3>1. next = [index EXCEPT ![key] = e]
      BY <2>1, <2>3 DEF Upsert
    <3> HIDE DEF e, next
    <3>2. next \in Index /\ next[key] = e
          /\ \A k \in Keys : k # key => next[k] = index[k]
      BY <1>1, <1>2, <3>1 DEF Index
    <3> QED
      BY <1>1, <1>5, <2>3, <3>2 DEF e, next, Entered
  <2> QED
    BY <2>2, <2>3
<1> QED
  BY <1>1, <1>4, <1>5 DEF Entered

(* Each entry of the index is that of a put of its key in the scan.         *)
IsOf(e, k, x) ==
  /\ x.rec.kind = "put" /\ x.rec.key = k
  /\ e.file = x.file /\ e.offset = x.offset /\ e.seq = x.rec.seq

LEMMA IndexAfterIs ==
  ASSUME NEW s \in Seq(Found)
  PROVE  /\ IndexAfter(s) \in Index
         /\ \A k \in Keys :
              IndexAfter(s)[k] # NoEntry =>
                \E i \in 1 .. Len(s) : IsOf(IndexAfter(s)[k], k, s[i])
<1> DEFINE n == Len(s)
<1>1. n \in Nat /\ DOMAIN s = 1 .. n /\ \A i \in 1 .. n : s[i] \in Found
  OBVIOUS
<1>2. PICK g : Enters(g, s, n) /\ IndexAfter(s) = g[n]
  BY <1>1, IndexAfterSteps
<1> DEFINE FromScan(k, m) == g[m][k] # NoEntry =>
                               \E i \in 1 .. m : IsOf(g[m][k], k, s[i])
           T == { m \in 0 .. n : g[m] \in Index
                                 /\ \A k \in Keys : FromScan(k, m) }
<1> HIDE DEF n
<1>3. 0 \in T
  <2>1. g[0] = EmptyIndex
    BY <1>2 DEF Enters
  <2> QED
    BY <1>1, <2>1 DEF EmptyIndex, Index
<1>4. ASSUME NEW m \in 1 .. n, m - 1 \in T PROVE m \in T
  <2> DEFINE x == s[m]
  <2>1. g[m] = EnterItem(g[m - 1], x) /\ x \in Found /\ g[m - 1] \in Index
    BY <1>1, <1>2, <1>4 DEF Enters
  <2>2. \A k \in Keys : FromScan(k, m - 1)
    BY <1>4
  <2>3. m - 1 \in Nat /\ m \in 1 .. m /\ \A i \in 1 .. m - 1 : i \in 1 .. m
    BY <1>1
  <2> HIDE DEF x
  <2>4. Entered(g[m - 1], x, g[m])
    BY <2>1, EnterItemIs
  <2>5. ASSUME NEW k \in Keys, g[m][k] # NoEntry
        PROVE  \E i \in 1 .. m : IsOf(g[m][k], k, s[i])
    <3>1. CASE g[m][k] = g[m - 1][k]
      BY <2>2, <2>3, <2>5, <3>1
    <3>2. CASE k = x.rec.key /\ x.rec.kind = "delete"
      <4>1. IF g[m - 1][k] = NoEntry THEN g[m][k] = NoEntry
            ELSE Erased(g[m - 1][k], g[m][k])
        BY <2>4, <3>2 DEF Entered
      <4>2. g[m - 1][k] # NoEntry
        BY <2>5, <4>1
      <4>3. PICK i \in 1 .. m - 1 : IsOf(g[m - 1][k], k, s[i])
        BY <2>2, <4>2
      <4>5. IsOf(g[m][k], k, s[i])
        BY <4>1, <4>2, <4>3 DEF IsOf, Erased
      <4> QED
        BY <2>3, <4>5
    <3>3. CASE k = x.rec.key /\ x.rec.kind = "put" /\ g[m][k] # g[m - 1][k]
      <4>1. g[m][k] = [file |-> x.file, offset |-> x.offset,
                       seq |-> x.rec.seq, deleted |-> FALSE]
        BY <2>4, <3>3 DEF Entered
      <4>2. IsOf(g[m][k], k, x)
        BY <3>3, <4>1 DEF IsOf
      <4> QED
        BY <2>3, <4>2 DEF x
    <3>4. k # x.rec.key => g[m][k] = g[m - 1][k]
      BY <2>4 DEF Entered
    <3>5. x.rec.kind \in {"put", "delete"}
      BY <2>1 DEF Found, StoredRecord
    <3> QED
      BY <3>1, <3>2, <3>3, <3>4, <3>5
  <2> QED
    BY <2>4, <2>5 DEF Entered
<1>5. n \in T
  <2> HIDE DEF T
  <2> QED
    BY <1>1, <1>3, <1>4, CountUp
<1> QED
  BY <1>2, <1>5 DEF n

(* The sequence goes on past all that were found.                           *)
LEMMA RecoveredSequenceIs ==
  ASSUME NEW s \in Seq(Found), Scan(disk, files) = s
  PROVE  /\ RecoveredSequence \in Nat \ {0}
         /\ \A i \in 1 .. Len(s) : s[i].rec.seq < RecoveredSequence
<1> DEFINE n == Len(s)
           seq(i) == s[i].rec.seq
           Seqs0(m) == {0} \cup { s[i].rec.seq : i \in 1 .. m }
           T == { m \in 0 .. n : \E b \in Seqs0(m) : \A t \in Seqs0(m) : t <= b }
<1>1. n \in Nat /\ DOMAIN s = 1 .. n /\ \A i \in 1 .. n : s[i] \in Found
  OBVIOUS
<1>2. \A i \in 1 .. n : s[i].rec.seq \in Nat
  BY <1>1 DEF Found, StoredRecord
<1> HIDE DEF n
<1>3. 0 \in T
  <2>1. Seqs0(0) = {0}
    OBVIOUS
  <2> QED
    BY <1>1, <2>1
<1>4. ASSUME NEW m \in 1 .. n, m - 1 \in T PROVE m \in T
  <2>1. PICK b \in Seqs0(m - 1) : \A t \in Seqs0(m - 1) : t <= b
    BY <1>4
  <2>2. Seqs0(m) = Seqs0(m - 1) \cup {seq(m)}
    <3>1. 1 .. m = (1 .. m - 1) \cup {m}
      BY <1>1
    <3> QED
      BY <3>1
  <2>3. Seqs0(m - 1) \subseteq Nat /\ seq(m) \in Nat
    BY <1>1, <1>2
  <2>4. ASSUME seq(m) <= b
        PROVE  \E c \in Seqs0(m) : \A t \in Seqs0(m) : t <= c
    <3> HIDE DEF Seqs0, seq
    <3>1. \A t \in Seqs0(m) : t <= b
      BY <2>1, <2>2, <2>4
    <3>2. b \in Seqs0(m)
      BY <2>1, <2>2
    <3> QED
      BY <3>1, <3>2
  <2>5. ASSUME b < seq(m)
        PROVE  \E c \in Seqs0(m) : \A t \in Seqs0(m) : t <= c
    <3> HIDE DEF Seqs0, seq
    <3>1. \A t \in Seqs0(m) : t <= seq(m)
      BY <2>1, <2>2, <2>3, <2>5
    <3>2. seq(m) \in Seqs0(m)
      BY <2>2
    <3> QED
      BY <3>1, <3>2
  <2>6. \E c \in Seqs0(m) : \A t \in Seqs0(m) : t <= c
    <3>1. seq(m) <= b \/ b < seq(m)
      BY <2>1, <2>3
    <3> HIDE DEF Seqs0, seq
    <3> QED
      BY <2>4, <2>5, <3>1
  <2> QED
    BY <2>6, SMTT(40)
<1>5. n \in T
  <2> HIDE DEF T
  <2> QED
    BY <1>1, <1>3, <1>4, CountUp
<1> DEFINE top == CHOOSE b \in Seqs0(n) : \A t \in Seqs0(n) : t <= b
<1>6. top \in Seqs0(n) /\ \A t \in Seqs0(n) : t <= top
  BY <1>5
<1>7. RecoveredSequence = 1 + top
  BY <1>1 DEF RecoveredSequence
<1> HIDE DEF top
<1>8. top \in Nat
  BY <1>2, <1>6
<1>9. \A i \in 1 .. n : s[i].rec.seq <= top
  BY <1>6
<1> QED
  BY <1>2, <1>7, <1>8, <1>9 DEF n

(* The scans of the files, one after the other.                             *)
Cat(w, v) == w \o v

Flattens(g, q, n) ==
  g = [i \in 1 .. n |-> IF i = 1 THEN q[i] ELSE Cat(g[i - 1], q[i])]

LEMMA FlattenExists ==
  ASSUME NEW q, NEW n \in Nat
  PROVE  \E g : Flattens(g, q, n)
<1> DEFINE T == { m \in 0 .. n : \E g : Flattens(g, q, m) }
<1>1. 0 \in T
  <2>1. Flattens([i \in 1 .. 0 |-> q], q, 0)
    BY DEF Flattens
  <2> QED
    BY <2>1
<1>2. ASSUME NEW m \in 1 .. n, m - 1 \in T PROVE m \in T
  <2>1. PICK g : Flattens(g, q, m - 1)
    BY <1>2
  <2> DEFINE h == [i \in 1 .. m |->
                     IF i = m THEN (IF m = 1 THEN q[m] ELSE Cat(g[m - 1], q[m]))
                     ELSE g[i]]
  <2>2. \A i \in 1 .. m - 1 : h[i] = g[i] /\ i \in 1 .. m
    OBVIOUS
  <2>3. h[m] = IF m = 1 THEN q[m] ELSE Cat(h[m - 1], q[m])
    <3>1. CASE m = 1
      BY <3>1
    <3>2. CASE m # 1
      <4>1. h[m - 1] = g[m - 1]
        BY <2>2, <3>2
      <4> QED
        BY <3>2, <4>1
    <3> QED
      BY <3>1, <3>2
  <2>4. ASSUME NEW i \in 1 .. m - 1
        PROVE  h[i] = IF i = 1 THEN q[i] ELSE Cat(h[i - 1], q[i])
    <3>1. g[i] = IF i = 1 THEN q[i] ELSE Cat(g[i - 1], q[i])
      BY <2>1 DEF Flattens
    <3>2. i # 1 => h[i - 1] = g[i - 1]
      BY <2>2
    <3>3. h[i] = g[i]
      BY <2>2
    <3> HIDE DEF h
    <3> QED
      BY <3>1, <3>2, <3>3
  <2>5. h = [i \in 1 .. m |-> h[i]]
    OBVIOUS
  <2>6. \A i \in 1 .. m : h[i] = IF i = 1 THEN q[i] ELSE Cat(h[i - 1], q[i])
    <3>1. \A i \in 1 .. m : i = m \/ i \in 1 .. m - 1
      OBVIOUS
    <3> HIDE DEF h
    <3> QED
      BY <2>3, <2>4, <3>1
  <2>7. Flattens(h, q, m)
    <3> HIDE DEF h
    <3> QED
      BY <2>5, <2>6, Zenon DEF Flattens
  <2> QED
    BY <2>7
<1>3. n \in T
  <2> HIDE DEF T
  <2> QED
    BY <1>1, <1>2, CountUp
<1> QED
  BY <1>3

Joins(g, q, n) ==
  g[1] = q[1] /\ \A i \in 2 .. n : g[i] = Cat(g[i - 1], q[i])

LEMMA FlattenSteps ==
  ASSUME NEW q, NEW n \in Nat \ {0}, Len(q) = n
  PROVE  \E g : Joins(g, q, n) /\ Seqs!FlattenSeq(q) = g[n]
<1> DEFINE g == CHOOSE g : Flattens(g, q, n)
<1>1. Seqs!FlattenSeq(q) = g[n]
  BY DEF Seqs!FlattenSeq, Flattens, Cat
<1>2. Flattens(g, q, n)
  BY FlattenExists
<1> HIDE DEF g
<1>3. \A i \in 1 .. n : g[i] = IF i = 1 THEN q[i] ELSE Cat(g[i - 1], q[i])
  BY <1>2 DEF Flattens
<1>4. g[1] = q[1]
  BY <1>3
<1>5. \A i \in 2 .. n : g[i] = Cat(g[i - 1], q[i])
  BY <1>3
<1> QED
  BY <1>1, <1>4, <1>5 DEF Joins

LEMMA FlattenNone ==
  ASSUME NEW q, Len(q) = 0
  PROVE  Seqs!FlattenSeq(q) = q
BY DEF Seqs!FlattenSeq

(* A set of numbers that holds 1 and, with a number, the next one up to n.  *)
LEMMA CountFromOne ==
  ASSUME NEW n \in Nat, NEW T, n # 0 => 1 \in T,
         \A i \in 2 .. n : i - 1 \in T => i \in T
  PROVE  \A i \in 1 .. n : i \in T
<1> DEFINE U == T \cup {0}
<1>1. 0 \in U
  OBVIOUS
<1>2. ASSUME NEW i \in 1 .. n, i - 1 \in U PROVE i \in U
  BY <1>2
<1>3. \A i \in 0 .. n : i \in U
  <2> HIDE DEF U
  <2> QED
    BY <1>1, <1>2, CountUp
<1> QED
  BY <1>3

(* Each item of a concatenation comes from one of its parts.                *)
From(w, q, m) ==
  \A i \in 1 .. Len(w) :
    \E j \in 1 .. m : \E l \in 1 .. Len(q[j]) : w[i] = q[j][l]

LEMMA ConcatFrom ==
  ASSUME NEW S, NEW q, NEW m \in Nat, NEW w \in Seq(S), NEW v \in Seq(S),
         v = q[m + 1], From(w, q, m)
  PROVE  From(Cat(w, v), q, m + 1)
<1>1. /\ Len(w \o v) = Len(w) + Len(v)
      /\ \A i \in 1 .. Len(w) + Len(v) :
           (w \o v)[i] = IF i <= Len(w) THEN w[i] ELSE v[i - Len(w)]
  BY ConcatProperties
<1>2. Len(w) \in Nat /\ Len(v) \in Nat
  OBVIOUS
<1>3. ASSUME NEW i \in 1 .. Len(w \o v)
      PROVE  \E j \in 1 .. m + 1 : \E l \in 1 .. Len(q[j]) :
               (w \o v)[i] = q[j][l]
  <2>1. CASE i <= Len(w)
    <3>1. i \in 1 .. Len(w) /\ (w \o v)[i] = w[i]
      BY <1>1, <1>2, <2>1
    <3>2. PICK j \in 1 .. m : \E l \in 1 .. Len(q[j]) : w[i] = q[j][l]
      BY <3>1 DEF From
    <3>3. j \in 1 .. m + 1
      OBVIOUS
    <3> QED
      BY <3>1, <3>2, <3>3
  <2>2. CASE i > Len(w)
    <3>1. i - Len(w) \in 1 .. Len(v) /\ (w \o v)[i] = v[i - Len(w)]
      BY <1>1, <1>2, <2>2
    <3>2. m + 1 \in 1 .. m + 1
      OBVIOUS
    <3>3. i - Len(w) \in 1 .. Len(q[m + 1])
          /\ (w \o v)[i] = q[m + 1][i - Len(w)]
      BY <3>1
    <3> QED
      BY <3>2, <3>3, Zenon
  <2> QED
    BY <1>2, <2>1, <2>2
<1> QED
  BY <1>3 DEF From, Cat

LEMMA JoinIs ==
  ASSUME NEW S, NEW q, NEW n \in Nat \ {0}, NEW g,
         \A i \in 1 .. n : q[i] \in Seq(S),
         Joins(g, q, n)
  PROVE  \A m \in 1 .. n : g[m] \in Seq(S) /\ From(g[m], q, m)
<1> DEFINE T == { m \in 1 .. n : g[m] \in Seq(S) /\ From(g[m], q, m) }
<1>1. 1 \in T
  <2>1. g[1] \in Seq(S) /\ 1 \in 1 .. 1
    BY DEF Joins
  <2>2. From(g[1], q, 1)
    BY <2>1 DEF From, Joins
  <2> QED
    BY <2>1, <2>2
<1>2. ASSUME NEW m \in 2 .. n, m - 1 \in T PROVE m \in T
  <2> DEFINE w == g[m - 1]
             v == q[m]
  <2>1. w \in Seq(S) /\ v \in Seq(S) /\ From(w, q, m - 1) /\ g[m] = Cat(w, v)
    BY <1>2 DEF Joins
  <2>2. m - 1 \in Nat /\ v = q[(m - 1) + 1] /\ (m - 1) + 1 = m
    OBVIOUS
  <2> HIDE DEF w, v
  <2>3. From(Cat(w, v), q, (m - 1) + 1)
    BY <2>1, <2>2, ConcatFrom
  <2>4. Cat(w, v) \in Seq(S)
    BY <2>1, ConcatProperties DEF Cat
  <2> QED
    BY <2>1, <2>2, <2>3, <2>4
<1>3. \A m \in 1 .. n : m \in T
  <2> HIDE DEF T
  <2> QED
    BY <1>1, <1>2, CountFromOne
<1> QED
  BY <1>3

LEMMA FlattenIs ==
  ASSUME NEW S, NEW q, NEW n \in Nat, Len(q) = n, n = 0 => q = <<>>,
         \A i \in 1 .. n : q[i] \in Seq(S)
  PROVE  /\ Seqs!FlattenSeq(q) \in Seq(S)
         /\ From(Seqs!FlattenSeq(q), q, n)
<1>1. CASE n = 0
  <2>1. Seqs!FlattenSeq(q) = <<>>
    BY <1>1, FlattenNone
  <2>2. <<>> \in Seq(S) /\ Len(<<>>) = 0
    OBVIOUS
  <2>3. From(<<>>, q, n)
    BY <2>2 DEF From
  <2> QED
    BY <2>1, <2>2, <2>3
<1>2. CASE n # 0
  <2>1. PICK g : Joins(g, q, n) /\ Seqs!FlattenSeq(q) = g[n]
    BY <1>2, FlattenSteps
  <2>2. g[n] \in Seq(S) /\ From(g[n], q, n)
    <3>1. n \in 1 .. n /\ n \in Nat \ {0}
      BY <1>2
    <3> QED
      BY <2>1, <3>1, JoinIs
  <2> QED
    BY <2>1, <2>2
<1> QED
  BY <1>1, <1>2

LEMMA JoinSame ==
  ASSUME NEW n \in Nat, NEW p, NEW q, NEW g, NEW h,
         \A i \in 1 .. n : q[i] = p[i],
         Joins(g, p, n), Joins(h, q, n)
  PROVE  \A m \in 1 .. n : h[m] = g[m]
<1> DEFINE T == { m \in 1 .. n : h[m] = g[m] }
<1>1. n # 0 => 1 \in T
  BY DEF Joins
<1>2. ASSUME NEW m \in 2 .. n, m - 1 \in T PROVE m \in T
  <2>1. h[m - 1] = g[m - 1] /\ q[m] = p[m]
    BY <1>2
  <2>2. h[m] = Cat(h[m - 1], q[m]) /\ g[m] = Cat(g[m - 1], p[m])
    BY DEF Joins
  <2> QED
    BY <2>1, <2>2
<1>3. \A m \in 1 .. n : m \in T
  <2> HIDE DEF T
  <2> QED
    BY <1>1, <1>2, CountFromOne
<1> QED
  BY <1>3

(* The last of them comes at the end.                                       *)
OneLonger(S, p, q) ==
  /\ Len(p) \in Nat /\ Len(q) = Len(p) + 1
  /\ Len(p) = 0 => p = <<>>
  /\ q[Len(p) + 1] \in Seq(S)
  /\ \A i \in 1 .. Len(p) : q[i] = p[i]

LEMMA FlattenLast ==
  ASSUME NEW S, NEW p, NEW q, OneLonger(S, p, q)
  PROVE  Seqs!FlattenSeq(q) = Seqs!FlattenSeq(p) \o q[Len(p) + 1]
<1> DEFINE n == Len(p)
<1>0. /\ n \in Nat /\ Len(q) = n + 1 /\ Len(p) = n
      /\ n = 0 => p = <<>>
      /\ q[n + 1] \in Seq(S)
      /\ \A i \in 1 .. n : q[i] = p[i]
  BY DEF OneLonger
<1> HIDE DEF n
<1> SUFFICES Seqs!FlattenSeq(q) = Seqs!FlattenSeq(p) \o q[n + 1]
  BY DEF n
<1>1. PICK h : Joins(h, q, n + 1) /\ Seqs!FlattenSeq(q) = h[n + 1]
  <2>1. n + 1 \in Nat \ {0}
    BY <1>0
  <2> QED
    BY <1>0, <2>1, FlattenSteps
<1>2. CASE n = 0
  <2>1. Seqs!FlattenSeq(p) = <<>>
    BY <1>0, <1>2, FlattenNone
  <2>2. q[n + 1] = <<>> \o q[n + 1]
    BY <1>0, ConcatEmptySeq
  <2>3. Seqs!FlattenSeq(q) = q[n + 1]
    BY <1>0, <1>1, <1>2 DEF Joins
  <2> QED
    BY <2>1, <2>2, <2>3, Zenon
<1>3. CASE n # 0
  <2>1. PICK g : Joins(g, p, n) /\ Seqs!FlattenSeq(p) = g[n]
    BY <1>0, <1>3, FlattenSteps
  <2>2. h[n] = g[n]
    <3>1. n \in 1 .. n /\ \A i \in 2 .. n : i \in 2 .. n + 1
      BY <1>0, <1>3
    <3>2. Joins(h, q, n)
      BY <1>0, <1>1, <3>1 DEF Joins
    <3>3. \A m \in 1 .. n : h[m] = g[m]
      BY <1>0, <2>1, <3>2, JoinSame
    <3> QED
      BY <3>1, <3>3
  <2>3. h[n + 1] = Cat(h[n], q[n + 1])
    <3>1. n + 1 \in 2 .. n + 1 /\ (n + 1) - 1 = n
      BY <1>0, <1>3
    <3> QED
      BY <1>0, <1>1, <3>1 DEF Joins
  <2> QED
    BY <1>1, <2>1, <2>2, <2>3 DEF Cat
<1> QED
  BY <1>2, <1>3

(* Numbers down from hi, each of which is in the set if all above it are.   *)
LEMMA CountDown ==
  ASSUME NEW lo \in Nat, NEW hi \in Nat, NEW T,
         \A p \in lo .. hi : (\A q \in p + 1 .. hi : q \in T) => p \in T
  PROVE  \A p \in lo .. hi : p \in T
<1> DEFINE B == { d \in 0 .. hi - lo : hi - d \notin T }
<1>1. SUFFICES ASSUME B # {} PROVE FALSE
  <2>1. ASSUME NEW p \in lo .. hi PROVE hi - p \in 0 .. hi - lo /\ hi - (hi - p) = p
    OBVIOUS
  <2> QED
    BY <2>1
<1>2. PICK t \in B : \A c \in B : t <= c
  <2>1. B \subseteq Nat
    OBVIOUS
  <2> HIDE DEF B
  <2> QED
    BY <1>1, <2>1, Least
<1>3. t \in 0 .. hi - lo /\ hi - t \notin T /\ hi - t \in lo .. hi
  BY <1>2
<1>4. \A q \in hi - t + 1 .. hi : q \in T
  <2>1. ASSUME NEW q \in hi - t + 1 .. hi PROVE q \in T
    <3>1. hi - q \in 0 .. hi - lo /\ hi - q < t /\ hi - (hi - q) = q
      BY <1>3
    <3>2. hi - q \notin B
      <4> HIDE DEF B
      <4> QED
        BY <1>2, <1>3, <3>1
    <3> QED
      BY <3>1, <3>2
  <2> QED
    BY <2>1
<1> QED
  BY <1>3, <1>4

StoredCell == {NoData} \cup [rec : StoredRecord, part : Nat \ {0}]

(* A record that was found is there, whole, at its place.                   *)
Placed(pages, x) ==
  /\ x.offset \in Page
  /\ pages[x.offset].part = 1 /\ pages[x.offset].rec = x.rec
  /\ Whole(pages, x.offset)

ChunkItem(pages) == { x \in [offset : Nat, rec : StoredRecord] : Placed(pages, x) }
FoundIn(id, pages) == { x \in Found : x.file = id /\ Placed(pages, x) }

(* Where parse_and_rebuild_entries stops, and where it goes on to.          *)
ParseStep(g, pages, end, p) ==
  IF p = end THEN <<>>
  ELSE IF pages[p].part # 1 THEN g[p + 1]
  ELSE IF p + pages[p].rec.pages > end \/ ~Whole(pages, p) THEN <<>>
  ELSE Cat(<<[offset |-> p, rec |-> pages[p].rec]>>, g[p + pages[p].rec.pages])

Parses(g, pages, first, end) ==
  g = [p \in first .. end |-> ParseStep(g, pages, end, p)]

(* Every record in a page has a size.                                       *)
LEMMA CellIs ==
  ASSUME NEW cell \in StoredCell, cell.part = 1
  PROVE  cell.rec \in StoredRecord /\ cell.rec.pages \in Nat \ {0}
<1>1. cell # NoData
  BY DEF NoData
<1>2. cell.rec \in StoredRecord
  BY <1>1 DEF StoredCell
<1> QED
  BY <1>2 DEF StoredRecord

(* The step of a page depends on what was parsed of the pages after it.     *)
LEMMA ParseStepSame ==
  ASSUME NEW pages \in [Page -> StoredCell], NEW p \in Nat, NEW end \in Nat,
         p < end, end <= FilePages, NEW g, NEW h,
         \A x \in p + 1 .. end : g[x] = h[x]
  PROVE  ParseStep(g, pages, end, p) = ParseStep(h, pages, end, p)
<1>1. p \in Page
  BY RestartAssumption DEF Page
<1>2. pages[p].part = 1 => pages[p].rec.pages \in Nat \ {0}
  BY <1>1, CellIs
<1>3. g[p + 1] = h[p + 1]
  OBVIOUS
<1>4. pages[p].part = 1 /\ ~(p + pages[p].rec.pages > end) =>
        g[p + pages[p].rec.pages] = h[p + pages[p].rec.pages]
  BY <1>2
<1> QED
  BY <1>3, <1>4 DEF ParseStep

LEMMA ParseExists ==
  ASSUME NEW pages \in [Page -> StoredCell], NEW first \in Nat, NEW end \in Nat,
         first <= end, end <= FilePages
  PROVE  \E g : Parses(g, pages, first, end)
<1> DEFINE T == { p \in first .. end : \E g : Parses(g, pages, p, end) }
<1>1. ASSUME NEW p \in first .. end, \A q \in p + 1 .. end : q \in T
      PROVE  p \in T
  <2>1. CASE p = end
    <3> DEFINE g == [x \in p .. end |-> <<>>]
    <3>1. \A x \in p .. end : ParseStep(g, pages, end, x) = <<>>
      BY <2>1 DEF ParseStep
    <3>2. Parses(g, pages, p, end)
      BY <3>1 DEF Parses
    <3> QED
      BY <3>2
  <2>2. CASE p # end
    <3>1. p + 1 \in p + 1 .. end /\ p < end
      BY <2>2
    <3>2. PICK g : Parses(g, pages, p + 1, end)
      BY <1>1, <3>1
    <3> DEFINE h == [x \in p .. end |->
                       IF x = p THEN ParseStep(g, pages, end, p) ELSE g[x]]
    <3>3. \A x \in p + 1 .. end : h[x] = g[x]
      OBVIOUS
    <3>4. h = [x \in p .. end |-> h[x]] /\ h[p] = ParseStep(g, pages, end, p)
      BY <3>1
    <3> HIDE DEF h
    <3>5. h[p] = ParseStep(h, pages, end, p)
      <4>1. ParseStep(g, pages, end, p) = ParseStep(h, pages, end, p)
        BY <3>1, <3>3, ParseStepSame
      <4> QED
        BY <3>4, <4>1
    <3>6. ASSUME NEW x \in p + 1 .. end
          PROVE  h[x] = ParseStep(h, pages, end, x)
      <4>1. g[x] = ParseStep(g, pages, end, x)
        BY <3>2 DEF Parses
      <4>2. ParseStep(g, pages, end, x) = ParseStep(h, pages, end, x)
        <5>1. CASE x = end
          BY <5>1 DEF ParseStep
        <5>2. CASE x # end
          <6>1. x \in Nat /\ x < end /\ \A y \in x + 1 .. end : g[y] = h[y]
            BY <3>3, <5>2
          <6> QED
            BY <6>1, ParseStepSame
        <5> QED
          BY <5>1, <5>2
      <4> QED
        BY <3>3, <4>1, <4>2
    <3>7. \A x \in p .. end : h[x] = ParseStep(h, pages, end, x)
      <4>1. \A x \in p .. end : x = p \/ x \in p + 1 .. end
        OBVIOUS
      <4> QED
        BY <3>5, <3>6, <4>1
    <3>8. Parses(h, pages, p, end)
      BY <3>4, <3>7, Zenon DEF Parses
    <3> QED
      BY <3>8
  <2> QED
    BY <2>1, <2>2
<1>2. first \in T
  <2>1. first \in first .. end
    OBVIOUS
  <2> HIDE DEF T
  <2> QED
    BY <1>1, <2>1, CountDown
<1> QED
  BY <1>2

(* What is found in a chunk is what each of its pages adds.                 *)
LEMMA ScanChunkSteps ==
  ASSUME NEW pages \in [Page -> StoredCell], NEW first \in Nat, NEW end \in Nat,
         first <= end, end <= FilePages
  PROVE  \E g : /\ ScanChunk(pages, first, end) = g[first]
                /\ \A p \in first .. end : g[p] = ParseStep(g, pages, end, p)
<1> DEFINE g == CHOOSE g : Parses(g, pages, first, end)
<1>1. ScanChunk(pages, first, end) = g[first]
  BY DEF ScanChunk, Parses, ParseStep, Cat
<1>2. Parses(g, pages, first, end)
  BY ParseExists
<1> HIDE DEF g
<1>3. \A p \in first .. end : g[p] = ParseStep(g, pages, end, p)
  BY <1>2 DEF Parses
<1> QED
  BY <1>1, <1>3

LEMMA ScanChunkTyped ==
  ASSUME NEW pages \in [Page -> StoredCell], NEW first \in Nat, NEW end \in Nat,
         first <= end, end <= FilePages
  PROVE  ScanChunk(pages, first, end) \in Seq(ChunkItem(pages))
<1>1. PICK g : /\ ScanChunk(pages, first, end) = g[first]
               /\ \A p \in first .. end : g[p] = ParseStep(g, pages, end, p)
  BY ScanChunkSteps
<1> DEFINE T == { p \in first .. end : g[p] \in Seq(ChunkItem(pages)) }
<1>2. ASSUME NEW p \in first .. end, \A q \in p + 1 .. end : q \in T
      PROVE  p \in T
  <2>1. g[p] = ParseStep(g, pages, end, p)
    BY <1>1
  <2>2. <<>> \in Seq(ChunkItem(pages))
    OBVIOUS
  <2>3. CASE p = end
    BY <2>1, <2>2, <2>3 DEF ParseStep
  <2>4. CASE p # end
    <3>1. p \in Page /\ p + 1 \in T
      BY <1>2, <2>4, RestartAssumption DEF Page
    <3>2. CASE pages[p].part # 1
      BY <2>1, <2>4, <3>1, <3>2 DEF ParseStep
    <3>3. CASE pages[p].part = 1
      <4> DEFINE r == pages[p].rec
                 item == <<[offset |-> p, rec |-> r]>>
      <4>1. r \in StoredRecord /\ r.pages \in Nat \ {0}
        BY <3>1, <3>3, CellIs
      <4>2. CASE p + r.pages > end \/ ~Whole(pages, p)
        BY <2>1, <2>2, <2>4, <3>3, <4>2 DEF ParseStep
      <4>3. CASE ~(p + r.pages > end \/ ~Whole(pages, p))
        <5>1. g[p] = Cat(item, g[p + r.pages])
          BY <2>1, <2>4, <3>3, <4>3 DEF ParseStep
        <5>2. p + r.pages \in p + 1 .. end
          BY <4>1, <4>3
        <5>3. g[p + r.pages] \in Seq(ChunkItem(pages))
          BY <1>2, <5>2
        <5>4. item \in Seq(ChunkItem(pages))
          <6> DEFINE x == [offset |-> p, rec |-> r]
          <6>1. x \in [offset : Nat, rec : StoredRecord]
            BY <4>1
          <6>2. Placed(pages, x)
            BY <3>1, <3>3, <4>3 DEF Placed
          <6>3. x \in ChunkItem(pages)
            BY <6>1, <6>2 DEF ChunkItem
          <6> HIDE DEF x
          <6>4. <<x>> \in Seq(ChunkItem(pages))
            BY <6>3
          <6> QED
            BY <6>4 DEF x
        <5> HIDE DEF item
        <5>5. Cat(item, g[p + r.pages]) \in Seq(ChunkItem(pages))
          BY <5>3, <5>4, ConcatProperties DEF Cat
        <5> QED
          BY <5>1, <5>5
      <4> QED
        BY <4>2, <4>3
    <3> QED
      BY <3>2, <3>3
  <2> QED
    BY <2>3, <2>4
<1>3. first \in T
  <2>1. first \in first .. end
    OBVIOUS
  <2> HIDE DEF T
  <2> QED
    BY <1>2, <2>1, CountDown
<1> QED
  BY <1>1, <1>3

-----------------------------------------------------------------------------
(* The scan of a file *)

StartOf(f) == IF f.file_id = 0 THEN 0 ELSE 1
EndOf(f)   == IF f.size > 0 THEN f.size ELSE FilePages

ChunkEnd(c, end) == IF c + ChunkPages < end THEN c + ChunkPages ELSE end

FileStep(g, pages, end, c) ==
  IF c >= end THEN <<>>
  ELSE IF ScanChunk(pages, c, ChunkEnd(c, end)) = <<>> THEN <<>>
  ELSE Cat(ScanChunk(pages, c, ChunkEnd(c, end)), g[c + ChunkPages])

Scans(g, pages, lo, end) ==
  g = [c \in lo .. end + ChunkPages |-> FileStep(g, pages, end, c)]

LEMMA FileStepSame ==
  ASSUME NEW pages, NEW end \in Nat, NEW c \in 0 .. end + ChunkPages, NEW g,
         NEW h, \A x \in c + 1 .. end + ChunkPages : g[x] = h[x]
  PROVE  FileStep(g, pages, end, c) = FileStep(h, pages, end, c)
<1>1. ChunkPages \in Nat \ {0}
  BY RestartAssumption
<1>2. c < end => g[c + ChunkPages] = h[c + ChunkPages]
  BY <1>1
<1> QED
  BY <1>1, <1>2 DEF FileStep

LEMMA ScanExists ==
  ASSUME NEW pages, NEW end \in Nat
  PROVE  \E g : Scans(g, pages, 0, end)
<1> DEFINE hi == end + ChunkPages
           T == { c \in 0 .. hi : \E g : Scans(g, pages, c, end) }
<1>1. hi \in Nat /\ ChunkPages \in Nat \ {0}
  BY RestartAssumption
<1>2. ASSUME NEW c \in 0 .. hi, \A q \in c + 1 .. hi : q \in T
      PROVE  c \in T
  <2>1. \E g : \A x \in c + 1 .. hi : g[x] = FileStep(g, pages, end, x)
    <3>1. CASE c = hi
      BY <1>1, <3>1
    <3>2. CASE c # hi
      <4>1. c + 1 \in T
        BY <1>1, <1>2, <3>2
      <4>2. PICK g : Scans(g, pages, c + 1, end)
        BY <4>1
      <4>3. \A x \in c + 1 .. hi : g[x] = FileStep(g, pages, end, x)
        BY <4>2 DEF Scans
      <4> QED
        BY <4>3
    <3> QED
      BY <3>1, <3>2
  <2>2. PICK g : \A x \in c + 1 .. hi : g[x] = FileStep(g, pages, end, x)
    BY <2>1
  <2> DEFINE h == [x \in c .. hi |->
                     IF x = c THEN FileStep(g, pages, end, c) ELSE g[x]]
  <2>3. \A x \in c + 1 .. hi : h[x] = g[x]
    BY <1>1
  <2>4. h = [x \in c .. hi |-> h[x]] /\ h[c] = FileStep(g, pages, end, c)
    BY <1>1
  <2> HIDE DEF h
  <2>5. ASSUME NEW x \in c .. hi
        PROVE  FileStep(g, pages, end, x) = FileStep(h, pages, end, x)
    <3>1. x \in 0 .. end + ChunkPages
          /\ \A y \in x + 1 .. end + ChunkPages : g[y] = h[y]
      BY <1>1, <2>3
    <3> QED
      BY <3>1, FileStepSame
  <2>6. \A x \in c .. hi : h[x] = FileStep(h, pages, end, x)
    <3>1. \A x \in c .. hi : x = c \/ x \in c + 1 .. hi
      BY <1>1
    <3> QED
      BY <2>2, <2>3, <2>4, <2>5, <3>1
  <2>7. Scans(h, pages, c, end)
    BY <2>4, <2>6, Zenon DEF Scans
  <2> QED
    BY <2>7
<1>3. 0 \in T
  <2>1. 0 \in 0 .. hi
    BY <1>1
  <2> HIDE DEF T, hi
  <2> QED
    BY <1>1, <1>2, <2>1, CountDown
<1> QED
  BY <1>3

(* What is found in a file.                                                 *)
LEMMA ScanFileSteps ==
  ASSUME NEW pages, NEW f, f.size \in 0 .. FilePages
  PROVE  \E g : /\ \A c \in 0 .. EndOf(f) + ChunkPages :
                     g[c] = FileStep(g, pages, EndOf(f), c)
                /\ ScanFile(pages, f) =
                     [i \in DOMAIN g[StartOf(f)] |->
                        [file |-> f.file_id,
                         offset |-> g[StartOf(f)][i].offset,
                         rec |-> g[StartOf(f)][i].rec]]
<1> DEFINE end == EndOf(f)
           g == CHOOSE g : Scans(g, pages, 0, end)
<1>1. end \in Nat
  BY RestartAssumption DEF EndOf
<1>2. ScanFile(pages, f) = [i \in DOMAIN g[StartOf(f)] |->
                        [file |-> f.file_id,
                         offset |-> g[StartOf(f)][i].offset,
                         rec |-> g[StartOf(f)][i].rec]]
  BY DEF ScanFile, Scans, FileStep, ChunkEnd, Cat, StartOf, EndOf
<1>3. Scans(g, pages, 0, end)
  BY <1>1, ScanExists
<1> HIDE DEF g
<1>4. \A c \in 0 .. end + ChunkPages : g[c] = FileStep(g, pages, end, c)
  BY <1>3 DEF Scans
<1> QED
  BY <1>2, <1>4

LEMMA ScanFileTyped ==
  ASSUME NEW pages \in [Page -> StoredCell],
         NEW f, f.size \in 0 .. FilePages, f.file_id \in Nat
  PROVE  ScanFile(pages, f) \in Seq(FoundIn(f.file_id, pages))
<1> DEFINE end == EndOf(f)
           hi == end + ChunkPages
<1>1. end \in 1 .. FilePages /\ hi \in Nat /\ ChunkPages \in Nat \ {0}
      /\ FilePages \in Nat \ {0, 1}
  BY RestartAssumption DEF EndOf
<1>2. PICK g : /\ \A c \in 0 .. hi : g[c] = FileStep(g, pages, end, c)
               /\ ScanFile(pages, f) =
                     [i \in DOMAIN g[StartOf(f)] |->
                        [file |-> f.file_id,
                         offset |-> g[StartOf(f)][i].offset,
                         rec |-> g[StartOf(f)][i].rec]]
  BY ScanFileSteps
<1> HIDE DEF end
<1> DEFINE T == { c \in 0 .. hi : g[c] \in Seq(ChunkItem(pages)) }
<1>3. ASSUME NEW c \in 0 .. hi, \A q \in c + 1 .. hi : q \in T PROVE c \in T
  <2>1. g[c] = FileStep(g, pages, end, c)
    BY <1>2
  <2>2. <<>> \in Seq(ChunkItem(pages))
    OBVIOUS
  <2>3. CASE c >= end
    BY <2>1, <2>2, <2>3 DEF FileStep
  <2>4. CASE c < end
    <3> DEFINE found == ScanChunk(pages, c, ChunkEnd(c, end))
    <3>1. ChunkEnd(c, end) \in Nat /\ c <= ChunkEnd(c, end)
          /\ ChunkEnd(c, end) <= FilePages
      BY <1>1, <2>4 DEF ChunkEnd
    <3>2. found \in Seq(ChunkItem(pages))
      <4>1. c \in Nat
        BY <1>1
      <4> QED
        BY <3>1, <4>1, ScanChunkTyped
    <3>3. g[c + ChunkPages] \in Seq(ChunkItem(pages))
      BY <1>1, <1>3, <2>4
    <3>4. g[c] = <<>> \/ g[c] = Cat(found, g[c + ChunkPages])
      BY <1>1, <2>1, <2>4 DEF FileStep
    <3> HIDE DEF found
    <3>5. Cat(found, g[c + ChunkPages]) \in Seq(ChunkItem(pages))
      BY <3>2, <3>3, ConcatProperties DEF Cat
    <3> QED
      BY <2>2, <3>4, <3>5
  <2> QED
    BY <1>1, <2>3, <2>4
<1>4. g[StartOf(f)] \in Seq(ChunkItem(pages))
  <2>1. StartOf(f) \in 0 .. hi
    BY <1>1 DEF StartOf
  <2>2. \A c \in 0 .. hi : c \in T
    <3>1. 0 \in Nat
      OBVIOUS
    <3> HIDE DEF T, hi
    <3> QED
      BY <1>1, <1>3, <3>1, CountDown
  <2> QED
    BY <2>1, <2>2
<1> DEFINE w == g[StartOf(f)]
           n == Len(w)
<1>5. n \in Nat /\ DOMAIN w = 1 .. n /\ \A i \in 1 .. n : w[i] \in ChunkItem(pages)
  BY <1>4
<1>6. ScanFile(pages, f) = [i \in 1 .. n |-> [file |-> f.file_id,
                                       offset |-> w[i].offset,
                                       rec |-> w[i].rec]]
  BY <1>2, <1>5
<1>7. \A i \in 1 .. n : [file |-> f.file_id, offset |-> w[i].offset,
                         rec |-> w[i].rec] \in FoundIn(f.file_id, pages)
  <2> HIDE DEF w, n
  <2>1. ASSUME NEW i \in 1 .. n
        PROVE  [file |-> f.file_id, offset |-> w[i].offset, rec |-> w[i].rec]
                 \in FoundIn(f.file_id, pages)
    BY <1>5 DEF ChunkItem, Placed, Found, FoundIn
  <2> QED
    BY <2>1
<1> HIDE DEF w, n
<1>8. ScanFile(pages, f) \in [1 .. n -> FoundIn(f.file_id, pages)]
  BY <1>6, <1>7
<1>9. ScanFile(pages, f) \in Seq(FoundIn(f.file_id, pages))
  BY <1>5, <1>8
<1> QED
  BY <1>9

(* The scan of some files whose blobs are there.                            *)
CanScan(d, fs) ==
  \A i \in 1 .. Len(fs) :
    /\ fs[i].size \in 0 .. FilePages /\ fs[i].file_id \in Nat
    /\ d[fs[i].blob] \in [Page -> StoredCell]

ScansOf(d, fs) == [i \in DOMAIN fs |-> ScanFile(d[fs[i].blob], fs[i])]

LEMMA ScansOfIs ==
  ASSUME NEW d, NEW fs \in Seq(FileInfo), CanScan(d, fs)
  PROVE  /\ Len(ScansOf(d, fs)) = Len(fs)
         /\ Len(fs) = 0 => ScansOf(d, fs) = <<>>
         /\ \A i \in 1 .. Len(fs) :
              /\ ScansOf(d, fs)[i] = ScanFile(d[fs[i].blob], fs[i])
              /\ ScansOf(d, fs)[i] \in Seq(Found)
              /\ ScansOf(d, fs)[i] \in Seq(FoundIn(fs[i].file_id, d[fs[i].blob]))
         /\ Scan(d, fs) = Seqs!FlattenSeq(ScansOf(d, fs))
<1>1. Len(fs) \in Nat /\ DOMAIN fs = 1 .. Len(fs)
  OBVIOUS
<1>2. ASSUME NEW i \in 1 .. Len(fs)
      PROVE  /\ ScanFile(d[fs[i].blob], fs[i]) \in Seq(FoundIn(fs[i].file_id, d[fs[i].blob]))
             /\ ScanFile(d[fs[i].blob], fs[i]) \in Seq(Found)
  <2> DEFINE S == FoundIn(fs[i].file_id, d[fs[i].blob])
  <2>1. ScanFile(d[fs[i].blob], fs[i]) \in Seq(S)
    BY ScanFileTyped DEF CanScan
  <2>2. S \subseteq Found
    BY DEF FoundIn
  <2> HIDE DEF S
  <2>3. ScanFile(d[fs[i].blob], fs[i]) \in Seq(Found)
    BY <2>1, <2>2, SeqMonotonic
  <2> QED
    BY <2>1, <2>3 DEF S
<1>3. Len(ScansOf(d, fs)) = Len(fs)
  BY <1>1 DEF ScansOf
<1>4. Len(fs) = 0 => ScansOf(d, fs) = <<>>
  BY <1>1 DEF ScansOf
<1> QED
  BY <1>1, <1>2, <1>3, <1>4 DEF ScansOf, Scan

LEMMA ScanTyped ==
  ASSUME NEW d, NEW fs \in Seq(FileInfo), CanScan(d, fs)
  PROVE  /\ Scan(d, fs) \in Seq(Found)
         /\ From(Scan(d, fs), ScansOf(d, fs), Len(fs))
<1> DEFINE q == ScansOf(d, fs)
           n == Len(fs)
<1>1. /\ Len(q) = n /\ n \in Nat /\ (n = 0 => q = <<>>)
      /\ \A i \in 1 .. n : q[i] \in Seq(Found)
      /\ Scan(d, fs) = Seqs!FlattenSeq(q)
  BY ScansOfIs
<1> HIDE DEF q, n
<1>2. Scan(d, fs) \in Seq(Found) /\ From(Scan(d, fs), q, n)
  BY <1>1, FlattenIs
<1> QED
  BY <1>2 DEF q, n

LEMMA RecoveredTyped ==
  ASSUME files \in Seq(FileInfo), CanScan(disk, files)
  PROVE  RecoveredIndex(disk, files) \in Index /\ RecoveredSequence \in Nat \ {0}
<1>1. Scan(disk, files) \in Seq(Found)
  BY ScanTyped
<1>2. RecoveredIndex(disk, files) = IndexAfter(Scan(disk, files))
  BY DEF RecoveredIndex, IndexAfter
<1> QED
  BY <1>1, <1>2, IndexAfterIs, RecoveredSequenceIs

-----------------------------------------------------------------------------
(* Types *)

DiskTyped == \A b \in DOMAIN disk : disk[b] \in [Page -> StoredCell]

SessionTyped ==
  /\ superblock \in Superblock \cup {Torn}
  /\ files \in Seq(FileInfo)
  /\ next_file_id \in Nat

IndexTyped == mem_index \in Index /\ global_sequence \in Nat

HistoryTyped ==
  /\ may \in [Keys -> SUBSET (0 .. MaxWrites)]
  /\ crashes \in 0 .. MaxCrashes /\ cuts \in 0 .. MaxCuts
  /\ faults \in 0 .. MaxFaults

TInv == DiskTyped /\ SessionTyped /\ IndexTyped /\ HistoryTyped

(* The record of a call that waits for its write, and where it goes.        *)
LEMMA WritingIs ==
  ASSUME BInv, IndexTyped, Waits("write")
  PROVE  /\ Writing \in StoredRecord /\ Writing.pages \in Nat \ {0}
         /\ Active \in 1 .. Len(files) /\ files[Active] \in FileInfo
         /\ files[Active].blob \in DOMAIN disk
         /\ files[Active].file_id = active_file_id
         /\ InOrder(files) /\ Active = active_file_id + 1
         /\ Active = Len(superblock.file_mappings)
              => Active = Len(files)
<1>1. state = "ready" /\ call.at = "write" /\ FileTypes
  BY DEF Waits, BInv
<1>2. FilesMapped /\ IsSound(superblock) /\ active_file_id \in Nat
  BY <1>1, InReady DEF FileTypes
<1>3. Allocates = FALSE
  BY <1>1 DEF Allocates
<1>4. InOrder(files) /\ active_file_id < Len(files)
      /\ Len(files) = Len(superblock.file_mappings)
      /\ \A i \in 1 .. Len(files) : files[i].blob \in DOMAIN disk
  BY <1>2, <1>3 DEF FilesMapped
<1>5. Active = active_file_id + 1 /\ Active \in 1 .. Len(files)
  BY <1>2, <1>4, ActivePlace DEF Active
<1>6. files[Active] \in FileInfo /\ files[Active].blob \in DOMAIN disk
      /\ files[Active].file_id = active_file_id
  BY <1>2, <1>4, <1>5, FieldsOf
<1>7. call.request \in Request
  BY <1>1, CallTypes
<1>8. global_sequence + 1 \in Nat \ {0}
  BY DEF IndexTyped
<1>9. Writing \in StoredRecord /\ Writing.pages \in Nat \ {0}
  BY <1>7, <1>8 DEF Writing, Request, StoredRecord
<1> QED
  BY <1>4, <1>5, <1>6, <1>9

LEMMA StoreTyped ==
  ASSUME BInv, DiskTyped, IndexTyped, Waits("write"),
         NEW parts \in SUBSET (1 .. Writing.pages)
  PROVE  /\ DOMAIN Store(parts) = DOMAIN disk
         /\ \A b \in DOMAIN disk : Store(parts)[b] \in [Page -> StoredCell]
<1>1. /\ Writing \in StoredRecord /\ Writing.pages \in Nat \ {0}
      /\ files[Active] \in FileInfo
  BY WritingIs
<1> DEFINE f == files[Active]
           w == Writing
           new == [p \in Page |-> LET i == p - f.write_offset + 1 IN
                     IF i \in parts THEN [rec |-> w, part |-> i]
                     ELSE disk[f.blob][p]]
<1>2. f.blob \in DOMAIN disk
  BY WritingIs
<1>3. disk[f.blob] \in [Page -> StoredCell]
  BY <1>2 DEF DiskTyped
<1>4. \A i \in parts : i \in Nat \ {0}
  BY <1>1
<1>5. Store(parts) = [disk EXCEPT ![f.blob] = new]
  BY DEF Store
<1> HIDE DEF w, f
<1>6. \A i \in parts : [rec |-> w, part |-> i] \in StoredCell
  BY <1>1, <1>4 DEF StoredCell, w
<1>7. new \in [Page -> StoredCell]
  BY <1>3, <1>6
<1> HIDE DEF new
<1> QED
  BY <1>2, <1>5, <1>7 DEF DiskTyped

(* What a step may do to the blobs.                                         *)
DiskChanges ==
  \/ disk' = disk
  \/ BlobAllocated
  \/ \E parts \in SUBSET (1 .. Writing.pages) :
       Waits("write") /\ disk' = Store(parts)
  \/ \E b : DeleteBlob(b)

LEMMA DiskSteps ==
  ASSUME BInv, Next
  PROVE  DiskChanges
<1>1. CASE Calls \/ Close
  BY <1>1 DEF DiskChanges, Calls, Put, Del, Begin, Close, CloseBegin, WriteBackup,
                    WritePrimary, deviceVars
<1>2. CASE Steps
  <2>1. CASE Written
    <3>1. Waits("write") /\ disk' = Store(1 .. Writing.pages)
      BY <2>1 DEF Written
    <3>2. 1 .. Writing.pages \in SUBSET (1 .. Writing.pages)
      OBVIOUS
    <3> QED
      BY <3>1, <3>2 DEF DiskChanges
  <2>2. CASE NotWritten
    BY <2>2 DEF NotWritten, DiskChanges
  <2>3. CASE BlobNotAllocated \/ LogWritten \/ LogNotWritten \/ FileOpened
             \/ FileNotOpened
    BY <2>3 DEF DiskChanges, BlobNotAllocated, LogWritten, LogNotWritten, FileOpened,
                      FileNotOpened, deviceVars
  <2> QED
    BY <1>2, <2>1, <2>2, <2>3 DEF Steps, DiskChanges
<1>3. CASE Open
  <2>1. CASE DeleteLogged \/ ReleaseDangling
    BY <2>1 DEF DeleteLogged, ReleaseDangling, DiskChanges
  <2>2. CASE OpenFromPrimary \/ OpenFromBackup \/ OpenFailed
             \/ RebuildFileInfo \/ Recover
    BY <2>2 DEF DiskChanges, OpenFromPrimary, OpenFromBackup, Load, OpenFailed,
                      RebuildFileInfo, Recover, deviceVars
  <2> QED
    BY <1>3, <2>1, <2>2 DEF Open
<1>4. CASE Crash
  <2>1. CASE call.at = "write" /\ \E parts \in SUBSET (1 .. Writing.pages) :
                                     disk' = Store(parts)
    <3>1. state = "ready"
      BY <2>1 DEF BInv, FileTypes, NoCall
    <3> QED
      BY <2>1, <3>1 DEF Waits, DiskChanges
  <2>2. disk' = disk \/ (call.at = "write"
                         /\ \E parts \in SUBSET (1 .. Writing.pages) :
                              disk' = Store(parts))
    BY <1>4 DEF Crash, CrashWith
  <2> QED
    BY <2>1, <2>2 DEF DiskChanges
<1> QED
  BY <1>1, <1>2, <1>3, <1>4 DEF Next

LEMMA DiskStep ==
  ASSUME BInv, TInv, Next
  PROVE  DiskTyped'
<1>1. DiskTyped /\ IndexTyped
  BY DEF TInv
<1>2. CASE disk' = disk
  BY <1>1, <1>2 DEF DiskTyped
<1>3. CASE BlobAllocated
  <2>1. \E b : disk' = [x \in DOMAIN disk \cup {b} |->
                IF x = b THEN [p \in Page |-> NoData] ELSE disk[x]]
    BY <1>3 DEF BlobAllocated
  <2>2. [p \in Page |-> NoData] \in [Page -> StoredCell]
    BY DEF StoredCell
  <2> QED
    BY <1>1, <2>1, <2>2 DEF DiskTyped
<1>4. CASE \E parts \in SUBSET (1 .. Writing.pages) :
             Waits("write") /\ disk' = Store(parts)
  BY <1>1, <1>4, StoreTyped DEF DiskTyped
<1>5. CASE \E b : DeleteBlob(b)
  BY <1>1, <1>5 DEF DeleteBlob, DiskTyped
<1> QED
  BY <1>2, <1>3, <1>4, <1>5, DiskSteps DEF DiskChanges

(* In a session the superblock and the files are those BInv speaks of.      *)
TypedInSession ==
  /\ InSession => superblock \in Superblock \cup {Torn}
  /\ state \in {"ready", "dangling"} => files \in Seq(FileInfo)
  /\ state = "ready" => next_file_id \in Nat

LEMMA InSessionTyped == BInv => TypedInSession
<1> SUFFICES ASSUME BInv PROVE TypedInSession
  OBVIOUS
<1>1. InSession => SessionIsSound /\ IsSound(superblock)
  BY DEF BInv, SessionIsSound
<1>2. InSession => superblock \in Superblock \cup {Torn}
                   /\ superblock.file_mappings \in Seq(FileInfo)
  BY <1>1 DEF IsSound, InOrder
<1>3. state = "ready" => InOrder(files) /\ next_file_id = Len(files)
  BY InReady DEF FilesMapped
<1>4. state = "ready" => files \in Seq(FileInfo) /\ next_file_id \in Nat
  BY <1>3, FieldsOf DEF InOrder
<1>5. state = "dangling" => files = superblock.file_mappings
  BY InOpen
<1>6. state \in {"ready", "dangling"} => InSession
  BY DEF InSession
<1> QED
  BY <1>2, <1>4, <1>5, <1>6 DEF TypedInSession

LEMMA SessionStep ==
  ASSUME BInv, BInv', SessionTyped, Next
  PROVE  SessionTyped'
<1>0. TypedInSession'
  BY InSessionTyped, PTL
<1>1. /\ InSession' => superblock' \in Superblock \cup {Torn}
      /\ state' \in {"ready", "dangling"} => files' \in Seq(FileInfo)
      /\ state' = "ready" => next_file_id' \in Nat
  BY <1>0 DEF TypedInSession
<1>2. CASE Forget
  <2>1. <<>> \in Seq(FileInfo) /\ 0 \in Nat
    OBVIOUS
  <2> QED
    BY <1>2, <2>1 DEF Forget, SessionTyped
<1>3. CASE state' = "ready"
  BY <1>1, <1>3 DEF SessionTyped, InSession
<1>4. CASE state' \notin {"closed", "error"} /\ UNCHANGED <<files, next_file_id>>
  BY <1>1, <1>4 DEF SessionTyped, InSession
<1>5. CASE UNCHANGED <<superblock, files, next_file_id>>
  BY <1>5 DEF SessionTyped
<1>6. CASE Calls \/ Steps
  <2>1. state' = "ready"
    BY <1>6 DEF Calls, Steps, Put, Del, Begin, BlobAllocated, BlobNotAllocated,
         LogWritten, LogNotWritten, FileOpened, FileNotOpened, Written,
         NotWritten, Waits
  <2> QED
    BY <1>3, <2>1
<1>7. CASE Close
  <2>1. CASE CloseBegin
    BY <1>4, <2>1 DEF CloseBegin, fileVars
  <2>2. CASE WriteBackup \/ WritePrimary
    <3>1. Forget \/ UNCHANGED <<superblock, files, next_file_id>>
      BY <2>2 DEF WriteBackup, WritePrimary, fileVars
    <3> QED
      BY <1>2, <1>5, <3>1
  <2> QED
    BY <1>7, <2>1, <2>2 DEF Close
<1>8. CASE Open
  <2>1. CASE OpenFromPrimary \/ OpenFromBackup
    BY <1>4, <2>1 DEF OpenFromPrimary, OpenFromBackup, Load, fileVars
  <2>2. CASE OpenFailed \/ DeleteLogged \/ ReleaseDangling
    BY <1>5, <2>2 DEF OpenFailed, DeleteLogged, ReleaseDangling, fileVars
  <2>3. CASE RebuildFileInfo
    <3>1. CASE state' = "dangling"
      <4>1. UNCHANGED <<superblock, next_file_id>>
        BY <2>3 DEF RebuildFileInfo
      <4> QED
        BY <1>1, <3>1, <4>1 DEF SessionTyped
    <3>2. CASE state' = "error"
      <4>1. UNCHANGED <<superblock, files, next_file_id>>
        BY <2>3, <3>2 DEF RebuildFileInfo
      <4> QED
        BY <1>5, <4>1
    <3> QED
      BY <2>3, <3>1, <3>2 DEF RebuildFileInfo
  <2>4. CASE Recover
    BY <1>3, <2>4 DEF Recover
  <2> QED
    BY <1>8, <2>1, <2>2, <2>3, <2>4 DEF Open
<1>9. CASE Crash
  BY <1>2, <1>9 DEF Crash, CrashWith
<1> QED
  BY <1>6, <1>7, <1>8, <1>9 DEF Next

(* A recovery has the blobs of all its files to scan.                       *)
LEMMA RecoverCanScan ==
  ASSUME BInv, DiskTyped, state = "dangling"
  PROVE  /\ files = superblock.file_mappings /\ InOrder(files)
         /\ files \in Seq(FileInfo) /\ CanScan(disk, files)
<1>1. superblock = Loaded /\ IsSound(Loaded)
      /\ IsSafe(Loaded, DOMAIN disk, log_page)
      /\ files = superblock.file_mappings
  BY InOpen
<1>2. InOrder(files) /\ files \in Seq(FileInfo)
  BY <1>1 DEF IsSound, InOrder
<1>3. Mapped(superblock) = { files[i].blob : i \in 1 .. Len(files) }
  BY <1>1, MappedOf
<1>4. \A i \in 1 .. Len(files) : files[i].blob \in DOMAIN disk
  BY <1>1, <1>3 DEF IsSafe
<1>5. \A i \in 1 .. Len(files) : files[i] \in FileInfo
  BY <1>2, FieldsOf
<1>6. CanScan(disk, files)
  BY <1>4, <1>5 DEF CanScan, DiskTyped, FileInfo
<1> QED
  BY <1>1, <1>2, <1>6

LEMMA IndexStep ==
  ASSUME BInv, TInv, Next
  PROVE  IndexTyped'
<1>1. DiskTyped /\ IndexTyped
  BY DEF TInv
<1>2. CASE UNCHANGED indexVars
  BY <1>1, <1>2 DEF indexVars, IndexTyped
<1>3. CASE Forget
  <2>1. [k \in Keys |-> NoEntry] \in Index /\ 0 \in Nat
    BY DEF Index
  <2> QED
    BY <1>3, <2>1 DEF Forget, IndexTyped
<1>4. CASE Written
  <2> DEFINE f == files[Active]
             x == [file |-> f.file_id, offset |-> f.write_offset,
                   rec |-> Writing]
  <2>1. Waits("write")
        /\ mem_index' = Enter(mem_index, f.file_id, f.write_offset, Writing)
        /\ global_sequence' = global_sequence + 1
    BY <1>4 DEF Written
  <2>2. Writing \in StoredRecord /\ f \in FileInfo
    BY <1>1, <2>1, WritingIs
  <2>3. f.file_id \in Nat /\ f.write_offset \in Nat
    BY <2>2 DEF FileInfo
  <2>4. x \in Found
    BY <2>2, <2>3 DEF Found
  <2>5. mem_index' = EnterItem(mem_index, x)
    BY <2>1 DEF EnterItem
  <2> HIDE DEF x
  <2>6. Entered(mem_index, x, mem_index')
    BY <1>1, <2>4, <2>5, EnterItemIs DEF IndexTyped
  <2> QED
    BY <1>1, <2>1, <2>6 DEF Entered, IndexTyped
<1>5. CASE NotWritten
  BY <1>1, <1>5 DEF NotWritten, IndexTyped
<1>6. CASE Recover
  <2>1. state = "dangling" /\ mem_index' = RecoveredIndex(disk, files)
        /\ global_sequence' = RecoveredSequence
    BY <1>6 DEF Recover
  <2>2. files \in Seq(FileInfo) /\ CanScan(disk, files)
    BY <1>1, <2>1, RecoverCanScan
  <2> QED
    BY <2>1, <2>2, RecoveredTyped DEF IndexTyped
<1>7. CASE Calls \/ (Steps /\ ~Written /\ ~NotWritten)
  BY <1>2, <1>7 DEF Calls, Put, Del, Begin, Steps, BlobAllocated,
       BlobNotAllocated, LogWritten, LogNotWritten, FileOpened, FileNotOpened
<1>8. CASE Close
  BY <1>2, <1>3, <1>8 DEF Close, CloseBegin, WriteBackup, WritePrimary
<1>9. CASE Open /\ ~Recover
  BY <1>2, <1>9 DEF Open, OpenFromPrimary, OpenFromBackup, Load, OpenFailed,
       DeleteLogged, RebuildFileInfo, ReleaseDangling
<1>10. CASE Crash
  BY <1>3, <1>10 DEF Crash, CrashWith
<1> QED
  BY <1>4, <1>5, <1>6, <1>7, <1>8, <1>9, <1>10 DEF Next

(* The bounds and what a get may return.                                    *)
LEMMA HistoryStep ==
  ASSUME BInv, HistoryTyped, Next
  PROVE  HistoryTyped'
<1>1. /\ MaxCrashes \in Nat /\ MaxCuts \in Nat /\ MaxFaults \in Nat
      /\ MaxWrites \in Nat
  BY RestartAssumption
<1>2. writes \in 0 .. MaxWrites
  BY DEF BInv, FileTypes
<1>3. may' \in [Keys -> SUBSET (0 .. MaxWrites)]
  <2>1. CASE UNCHANGED may
    BY <2>1 DEF HistoryTyped
  <2>2. CASE Calls
    <3>1. PICK r : /\ Begin(r) /\ r.key \in Keys /\ r.id = writes + 1
      <4>1. ASSUME NEW k \in Keys, NEW kind, NEW n,
                   Begin([id |-> writes + 1, key |-> k, kind |-> kind,
                          pages |-> n])
            PROVE  \E r : /\ Begin(r) /\ r.key \in Keys /\ r.id = writes + 1
        <5> DEFINE r == [id |-> writes + 1, key |-> k, kind |-> kind,
                         pages |-> n]
        <5>1. r.key \in Keys /\ r.id = writes + 1
          OBVIOUS
        <5>2. Begin(r)
          BY <4>1
        <5> HIDE DEF r
        <5> QED
          BY <5>1, <5>2
      <4>2. PICK k \in Keys : Del(k) \/ \E n \in PutPages : Put(k, n)
        BY <2>2 DEF Calls
      <4>3. CASE Del(k)
        BY <4>1, <4>3, Zenon DEF Del
      <4>4. CASE \E n \in PutPages : Put(k, n)
        BY <4>1, <4>4, Zenon DEF Put
      <4> QED
        BY <4>2, <4>3, <4>4
    <3>2. may' = [may EXCEPT ![r.key] = @ \cup {NewValue(r)}]
          /\ writes < MaxWrites
      BY <3>1 DEF Begin
    <3>3. NewValue(r) \in 0 .. MaxWrites
      BY <1>1, <1>2, <3>1, <3>2 DEF NewValue, Absent
    <3> QED
      BY <3>1, <3>2, <3>3 DEF HistoryTyped
  <2>3. CASE Written
    <3>1. /\ Waits("write")
          /\ may' = [may EXCEPT ![Writing.key] = {NewValue(call.request)}]
      BY <2>3 DEF Written
    <3>2. call.request \in Request
      BY <3>1, CallTypes DEF BInv
    <3>3. NewValue(call.request) \in 0 .. MaxWrites /\ Writing.key \in Keys
      BY <1>1, <3>2 DEF NewValue, Absent, Request, Writing
    <3> QED
      BY <3>1, <3>3 DEF HistoryTyped
  <2>4. CASE Steps /\ ~Written
    BY <2>1, <2>4 DEF Steps, BlobAllocated, BlobNotAllocated, LogWritten,
         LogNotWritten, FileOpened, FileNotOpened, NotWritten, historyVars
  <2>5. CASE Close \/ Open \/ Crash
    BY <2>1, <2>5 DEF Close, CloseBegin, WriteBackup, WritePrimary, Open,
         OpenFromPrimary, OpenFromBackup, Load, OpenFailed, DeleteLogged,
         RebuildFileInfo, ReleaseDangling, Recover, Crash, CrashWith,
         historyVars
  <2> QED
    BY <2>2, <2>3, <2>4, <2>5 DEF Next
<1>4. crashes' = crashes \/ (crashes < MaxCrashes /\ crashes' = crashes + 1)
  BY DEF Next, Calls, Put, Del, Begin, Steps, BlobAllocated, BlobNotAllocated,
         LogWritten, LogNotWritten, FileOpened, FileNotOpened, Written,
         NotWritten, Close, CloseBegin, WriteBackup, WritePrimary, Open,
         OpenFromPrimary, OpenFromBackup, Load, OpenFailed, DeleteLogged,
         RebuildFileInfo, ReleaseDangling, Recover, Crash, CrashWith,
         historyVars
<1>5. cuts' = cuts \/ (cuts < MaxCuts /\ cuts' = cuts + 1)
  BY DEF Next, Calls, Put, Del, Begin, Steps, BlobAllocated, BlobNotAllocated,
         LogWritten, LogNotWritten, FileOpened, FileNotOpened, Written,
         NotWritten, Close, CloseBegin, WriteBackup, WritePrimary, Open,
         OpenFromPrimary, OpenFromBackup, Load, OpenFailed, DeleteLogged,
         RebuildFileInfo, ReleaseDangling, Recover, Crash, CrashWith,
         historyVars
<1>6. faults' = faults \/ (faults' = faults + 1 /\ faults' <= MaxFaults)
  BY DEF Next, Calls, Put, Del, Begin, Steps, BlobAllocated, BlobNotAllocated,
         LogWritten, LogNotWritten, FileOpened, FileNotOpened, Written,
         NotWritten, Close, CloseBegin, WriteBackup, WritePrimary, Open,
         OpenFromPrimary, OpenFromBackup, Load, OpenFailed, DeleteLogged,
         RebuildFileInfo, ReleaseDangling, Recover, Crash, CrashWith,
         historyVars
<1> QED
  BY <1>1, <1>3, <1>4, <1>5, <1>6 DEF HistoryTyped

LEMMA InitTInv == Init => TInv
<1> SUFFICES ASSUME Init PROVE TInv
  OBVIOUS
<1>1. BInv /\ state = "ready"
  BY InitBInv DEF Init
<1>2. DiskTyped
  BY DEF Init, DiskTyped, StoredCell
<1>3. SessionTyped
  BY <1>1, InSessionTyped DEF TypedInSession, InSession, SessionTyped
<1>4. IndexTyped
  BY DEF Init, IndexTyped, Index
<1>5. HistoryTyped
  <2>1. {Absent} \in SUBSET (0 .. MaxWrites)
    BY RestartAssumption DEF Absent
  <2> QED
    BY <2>1, RestartAssumption DEF Init, HistoryTyped
<1> QED
  BY <1>2, <1>3, <1>4, <1>5 DEF TInv

LEMMA NextTInv == BInv /\ TInv /\ [Next]_vars => TInv'
<1> SUFFICES ASSUME BInv, TInv, [Next]_vars PROVE TInv'
  OBVIOUS
<1>1. BInv'
  BY NextBInv
<1>2. CASE Next
  BY <1>1, <1>2, DiskStep, SessionStep, IndexStep, HistoryStep DEF TInv
<1>3. CASE UNCHANGED vars
  BY <1>3 DEF vars, deviceVars, fileVars, indexVars, historyVars, TInv,
              DiskTyped, SessionTyped, IndexTyped, HistoryTyped
<1> QED
  BY <1>2, <1>3

(* Types, whatever is put, deleted, cut short or lost in a crash.           *)
THEOREM RestartTypeCorrect == Spec => []TypeOK
<1>1. BInv /\ TInv => TypeOK
  <2> SUFFICES ASSUME BInv, TInv PROVE TypeOK
    OBVIOUS
  <2>1. \A b \in DOMAIN disk : disk[b] \in [Page -> Cell]
    <3>1. StoredCell \subseteq Cell
      BY DEF StoredCell, Cell, StoredRecord, Record
    <3> QED
      BY <3>1 DEF TInv, DiskTyped
  <2>2. {primary, backup, superblock} \subseteq Superblock \cup {Torn}
    BY DEF BInv, CopiesSound, IsSound, TInv, SessionTyped
  <2> QED
    BY <2>1, <2>2 DEF TypeOK, BInv, FileTypes, TInv, SessionTyped, IndexTyped,
         HistoryTyped, Index
<1> QED
  BY <1>1, InitBInv, NextBInv, InitTInv, NextTInv, PTL DEF Spec

-----------------------------------------------------------------------------
(* What a scan finds in a file that was filled record after record *)

(* Two parses of the same pages agree.                                      *)
LEMMA ParsesSame ==
  ASSUME NEW pages \in [Page -> StoredCell], NEW first \in Nat, NEW end \in Nat,
         end <= FilePages, NEW g, NEW h,
         \A p \in first .. end : g[p] = ParseStep(g, pages, end, p),
         \A p \in first .. end : h[p] = ParseStep(h, pages, end, p)
  PROVE  \A p \in first .. end : g[p] = h[p]
<1> DEFINE T == { p \in first .. end : g[p] = h[p] }
<1>1. ASSUME NEW p \in first .. end, \A q \in p + 1 .. end : q \in T
      PROVE  p \in T
  <2>1. g[p] = ParseStep(g, pages, end, p) /\ h[p] = ParseStep(h, pages, end, p)
    OBVIOUS
  <2>2. CASE p = end
    BY <2>1, <2>2 DEF ParseStep
  <2>3. CASE p # end
    <3>1. p \in Nat /\ p < end /\ \A x \in p + 1 .. end : g[x] = h[x]
      BY <1>1, <2>3
    <3>2. ParseStep(g, pages, end, p) = ParseStep(h, pages, end, p)
      BY <3>1, ParseStepSame
    <3> QED
      BY <2>1, <3>2
  <2> QED
    BY <2>2, <2>3
<1>2. \A p \in first .. end : p \in T
  <2> HIDE DEF T
  <2> QED
    BY <1>1, CountDown
<1> QED
  BY <1>2

(* A chunk, from its first page on.                                         *)
LEMMA ScanChunkIs ==
  ASSUME NEW pages \in [Page -> StoredCell], NEW p \in Nat, NEW end \in Nat,
         p <= end, end <= FilePages
  PROVE  /\ p = end => ScanChunk(pages, p, end) = <<>>
         /\ p < end /\ pages[p].part # 1 =>
              ScanChunk(pages, p, end) = ScanChunk(pages, p + 1, end)
         /\ p < end /\ pages[p].part = 1 =>
              ScanChunk(pages, p, end) =
                IF p + pages[p].rec.pages > end \/ ~Whole(pages, p) THEN <<>>
                ELSE Cat(<<[offset |-> p, rec |-> pages[p].rec]>>,
                         ScanChunk(pages, p + pages[p].rec.pages, end))
<1> DEFINE S(x) == ScanChunk(pages, x, end)
<1>1. PICK g : /\ S(p) = g[p]
               /\ \A x \in p .. end : g[x] = ParseStep(g, pages, end, x)
  BY ScanChunkSteps
<1>2. ASSUME NEW x \in p .. end PROVE g[x] = S(x)
  <2>1. x \in Nat /\ x <= end /\ x \in x .. end
    OBVIOUS
  <2>2. PICK h : /\ S(x) = h[x]
                 /\ \A y \in x .. end : h[y] = ParseStep(h, pages, end, y)
    BY <2>1, ScanChunkSteps
  <2>3. \A y \in x .. end : g[y] = ParseStep(g, pages, end, y)
    BY <1>1
  <2> HIDE DEF S
  <2>4. \A y \in x .. end : g[y] = h[y]
    BY <2>1, <2>2, <2>3, ParsesSame
  <2> QED
    BY <2>1, <2>2, <2>4
<1>3. S(p) = ParseStep(g, pages, end, p)
  BY <1>1
<1>4. ASSUME p < end
      PROVE  /\ g[p + 1] = S(p + 1)
             /\ pages[p].part = 1 /\ ~(p + pages[p].rec.pages > end) =>
                  g[p + pages[p].rec.pages] = S(p + pages[p].rec.pages)
  <2>1. p \in Page
    BY <1>4, RestartAssumption DEF Page
  <2>2. pages[p].part = 1 => pages[p].rec.pages \in Nat \ {0}
    BY <2>1, CellIs
  <2> HIDE DEF S
  <2> QED
    BY <1>2, <1>4, <2>2
<1> QED
  BY <1>3, <1>4 DEF ParseStep

LEMMA ScanChunkEmpty ==
  ASSUME NEW pages \in [Page -> StoredCell], NEW end \in Nat, end <= FilePages
  PROVE  ScanChunk(pages, end, end) = <<>>
<1>1. end <= end
  OBVIOUS
<1> QED
  BY <1>1, ScanChunkIs

LEMMA ScanChunkSkips ==
  ASSUME NEW pages \in [Page -> StoredCell], NEW p \in Nat, NEW end \in Nat,
         p < end, end <= FilePages, pages[p].part # 1
  PROVE  ScanChunk(pages, p, end) = ScanChunk(pages, p + 1, end)
<1>1. p <= end
  OBVIOUS
<1> QED
  BY <1>1, ScanChunkIs

LEMMA ScanChunkTakes ==
  ASSUME NEW pages \in [Page -> StoredCell], NEW p \in Nat, NEW end \in Nat,
         p < end, end <= FilePages, pages[p].part = 1
  PROVE  ScanChunk(pages, p, end) =
           IF p + pages[p].rec.pages > end \/ ~Whole(pages, p) THEN <<>>
           ELSE Cat(<<[offset |-> p, rec |-> pages[p].rec]>>,
                    ScanChunk(pages, p + pages[p].rec.pages, end))
<1>1. p <= end
  OBVIOUS
<1> QED
  BY <1>1, ScanChunkIs

(* A file that was filled record after record up to its write offset.       *)
Filled(pages, wo) ==
  /\ \A p \in Page : p = 0 \/ p >= wo => pages[p] = NoData
  /\ \A p \in 1 .. wo - 1 : pages[p].part >= 1
  /\ wo > 1 => pages[1].part = 1
  /\ \A p \in 1 .. wo - 1 :
       pages[p].part = 1 =>
         LET q == p + pages[p].rec.pages
         IN  q <= wo /\ Whole(pages, p) /\ (q = wo \/ pages[q].part = 1)

(* Where a record starts or the next one will.                              *)
AtRecord(pages, wo, p) ==
  p = wo \/ (p \in 1 .. wo - 1 /\ pages[p].part = 1)

(* From one record to the next.                                             *)
LEMMA NextRecord ==
  ASSUME NEW pages \in [Page -> StoredCell], NEW wo \in 1 .. FilePages,
         Filled(pages, wo), NEW p \in 1 .. wo - 1, pages[p].part = 1,
         NEW b \in p + 1 .. wo, AtRecord(pages, wo, b)
  PROVE  /\ pages[p].rec \in StoredRecord
         /\ pages[p].rec.pages \in Nat \ {0}
         /\ p + pages[p].rec.pages \in p + 1 .. b
         /\ AtRecord(pages, wo, p + pages[p].rec.pages)
         /\ ScanChunk(pages, p, b) =
              Cat(<<[offset |-> p, rec |-> pages[p].rec]>>,
                  ScanChunk(pages, p + pages[p].rec.pages, b))
<1> DEFINE n == pages[p].rec.pages
           q == p + n
<1>1. p \in Page /\ wo \in Nat /\ wo <= FilePages /\ b \in Nat /\ p \in Nat
  BY RestartAssumption DEF Page
<1>2. pages[p].rec \in StoredRecord /\ n \in Nat \ {0}
  BY <1>1, CellIs
<1>3. q <= wo /\ Whole(pages, p) /\ (q = wo \/ pages[q].part = 1)
  BY DEF Filled
<1>4. ~(q > b)
  <2>1. SUFFICES ASSUME q > b PROVE FALSE
    OBVIOUS
  <2>2. b \in 1 .. wo - 1 /\ pages[b].part = 1
    BY <1>1, <1>2, <1>3, <2>1 DEF AtRecord
  <2>3. b - p + 1 \in 1 .. n /\ b - p + 1 # 1 /\ p + (b - p + 1) - 1 = b
    BY <1>1, <1>2, <2>1
  <2> HIDE DEF n
  <2>4. pages[b] = [rec |-> pages[p].rec, part |-> b - p + 1]
    <3>1. \A i \in 1 .. n : pages[p + i - 1] = [rec |-> pages[p].rec, part |-> i]
      BY <1>3 DEF Whole, n
    <3>2. pages[p + (b - p + 1) - 1] = [rec |-> pages[p].rec, part |-> b - p + 1]
      BY <2>3, <3>1
    <3> QED
      BY <2>3, <3>2
  <2> QED
    BY <2>2, <2>3, <2>4
<1>5. q \in p + 1 .. b
  BY <1>1, <1>2, <1>4
<1>6. AtRecord(pages, wo, q)
  BY <1>1, <1>2, <1>3, <1>5 DEF AtRecord
<1>7. ScanChunk(pages, p, b) =
        Cat(<<[offset |-> p, rec |-> pages[p].rec]>>, ScanChunk(pages, q, b))
  <2>1. p < b /\ b <= FilePages
    BY <1>1, RestartAssumption
  <2> HIDE DEF q
  <2>2. ScanChunk(pages, p, b) =
          IF q > b \/ ~Whole(pages, p) THEN <<>>
          ELSE Cat(<<[offset |-> p, rec |-> pages[p].rec]>>,
                   ScanChunk(pages, q, b))
    BY <1>1, <2>1, ScanChunkTakes DEF q
  <2> QED
    BY <1>3, <1>4, <2>2
<1> QED
  BY <1>2, <1>5, <1>6, <1>7

(* Putting sequences end to end is associative.                             *)
LEMMA CatAssociative ==
  ASSUME NEW R, NEW u \in Seq(R), NEW v \in Seq(R), NEW w \in Seq(R)
  PROVE  Cat(u, Cat(v, w)) = Cat(Cat(u, v), w)
<1>1. u \o (v \o w) = (u \o v) \o w
  BY ConcatAssociative, SMTT(40)
<1> QED
  BY <1>1 DEF Cat

(* What two neighbouring parts of a file hold is what they hold together.   *)
LEMMA ChunkJoin ==
  ASSUME NEW pages \in [Page -> StoredCell], NEW wo \in 1 .. FilePages,
         Filled(pages, wo), NEW b \in 1 .. wo, AtRecord(pages, wo, b),
         NEW c \in b .. wo, AtRecord(pages, wo, c)
  PROVE  \A a \in 1 .. b : AtRecord(pages, wo, a) =>
           ScanChunk(pages, a, c) =
             Cat(ScanChunk(pages, a, b), ScanChunk(pages, b, c))
<1> DEFINE S(x, y) == ScanChunk(pages, x, y)
           T == { a \in 1 .. b : AtRecord(pages, wo, a) =>
                                   S(a, c) = Cat(S(a, b), S(b, c)) }
<1>1. /\ wo \in Nat /\ wo <= FilePages /\ b \in Nat /\ c \in Nat
      /\ b <= c /\ c <= FilePages /\ b <= FilePages
  BY RestartAssumption
<1>2. S(b, c) \in Seq(ChunkItem(pages))
  BY <1>1, ScanChunkTyped
<1>3. ASSUME NEW a \in 1 .. b, \A q \in a + 1 .. b : q \in T PROVE a \in T
  <2>1. CASE a = b
    <3>1. S(b, b) = <<>>
      BY <1>1, ScanChunkEmpty
    <3> HIDE DEF S
    <3>2. Cat(<<>>, S(b, c)) = S(b, c)
      BY <1>2, ConcatEmptySeq DEF Cat
    <3> QED
      BY <2>1, <3>1, <3>2
  <2>2. ASSUME a # b, AtRecord(pages, wo, a)
        PROVE  S(a, c) = Cat(S(a, b), S(b, c))
    <3> DEFINE q == a + pages[a].rec.pages
               item == <<[offset |-> a, rec |-> pages[a].rec]>>
    <3>1. /\ a \in 1 .. wo - 1 /\ pages[a].part = 1
          /\ b \in a + 1 .. wo /\ c \in a + 1 .. wo
      BY <1>1, <2>2 DEF AtRecord
    <3>2. /\ q \in a + 1 .. b /\ AtRecord(pages, wo, q)
          /\ S(a, b) = Cat(item, S(q, b))
          /\ pages[a].rec \in StoredRecord
      BY <3>1, NextRecord
    <3>3. S(a, c) = Cat(item, S(q, c))
      BY <3>1, NextRecord
    <3>4. S(q, c) = Cat(S(q, b), S(b, c))
      <4> HIDE DEF S, q
      <4> QED
        BY <1>3, <3>2
    <3>5. S(q, b) \in Seq(ChunkItem(pages))
      <4>1. q \in Nat /\ q <= b
        BY <1>1, <3>2
      <4> QED
        BY <1>1, <4>1, ScanChunkTyped
    <3> DEFINE R == [offset : Nat, rec : StoredRecord]
    <3>6. item \in Seq(R)
      BY <1>1, <3>2
    <3>7. S(q, b) \in Seq(R) /\ S(b, c) \in Seq(R)
      <4>1. ChunkItem(pages) \subseteq R
        BY DEF ChunkItem
      <4> HIDE DEF S, R, q
      <4> QED
        BY <1>2, <3>5, <4>1, SeqMonotonic
    <3> HIDE DEF S, R, q, item
    <3>8. Cat(item, Cat(S(q, b), S(b, c))) = Cat(Cat(item, S(q, b)), S(b, c))
      BY <3>6, <3>7, CatAssociative
    <3> QED
      BY <3>2, <3>3, <3>4, <3>8
  <2> QED
    BY <2>1, <2>2
<1>4. \A a \in 1 .. b : a \in T
  <2>1. 1 \in Nat
    OBVIOUS
  <2> HIDE DEF T
  <2> QED
    BY <1>1, <1>3, <2>1, CountDown
<1> QED
  BY <1>4

(* A scan sees no page past its end.                                        *)
LEMMA ScanChunkSame ==
  ASSUME NEW pages \in [Page -> StoredCell], NEW others \in [Page -> StoredCell],
         NEW end \in Nat, end <= FilePages, NEW first \in Nat,
         \A x \in first .. end - 1 : others[x] = pages[x]
  PROVE  \A p \in first .. end :
           ScanChunk(others, p, end) = ScanChunk(pages, p, end)
<1> DEFINE T == { p \in first .. end :
                    ScanChunk(others, p, end) = ScanChunk(pages, p, end) }
<1>1. ASSUME NEW p \in first .. end, \A q \in p + 1 .. end : q \in T
      PROVE  p \in T
  <2>1. CASE p = end
    BY <2>1, ScanChunkEmpty
  <2>2. CASE p < end
    <3>1. p \in Page /\ others[p] = pages[p] /\ p \in Nat /\ p <= end
          /\ p + 1 \in T
      BY <1>1, <2>2, RestartAssumption DEF Page
    <3>2. ScanChunk(others, p + 1, end) = ScanChunk(pages, p + 1, end)
      BY <3>1
    <3>3. CASE pages[p].part # 1
      <4>1. ScanChunk(others, p, end) = ScanChunk(others, p + 1, end)
        BY <2>2, <3>1, <3>3, ScanChunkSkips
      <4>2. ScanChunk(pages, p, end) = ScanChunk(pages, p + 1, end)
        BY <2>2, <3>1, <3>3, ScanChunkSkips
      <4> QED
        BY <3>2, <4>1, <4>2
    <3>4. CASE pages[p].part = 1
      <4> DEFINE q == p + pages[p].rec.pages
      <4>1. pages[p].rec.pages \in Nat \ {0}
        BY <3>1, <3>4, CellIs
      <4>2. CASE q > end
        <5>1. ScanChunk(others, p, end) = <<>>
          BY <2>2, <3>1, <3>4, <4>2, ScanChunkTakes
        <5>2. ScanChunk(pages, p, end) = <<>>
          BY <2>2, <3>1, <3>4, <4>2, ScanChunkTakes
        <5> QED
          BY <5>1, <5>2
      <4>3. CASE ~(q > end)
        <5>1. q \in T
          BY <1>1, <4>1, <4>3
        <5>2. Whole(others, p) <=> Whole(pages, p)
          <6>1. \A i \in 1 .. pages[p].rec.pages :
                  others[p + i - 1] = pages[p + i - 1]
            BY <4>1, <4>3
          <6> QED
            BY <3>1, <6>1 DEF Whole
        <5>3. ScanChunk(others, q, end) = ScanChunk(pages, q, end)
          BY <5>1
        <5> DEFINE item == <<[offset |-> p, rec |-> pages[p].rec]>>
        <5>4. ScanChunk(others, p, end) =
                IF q > end \/ ~Whole(others, p) THEN <<>>
                ELSE Cat(item, ScanChunk(others, q, end))
          BY <2>2, <3>1, <3>4, ScanChunkTakes
        <5>5. ScanChunk(pages, p, end) =
                IF q > end \/ ~Whole(pages, p) THEN <<>>
                ELSE Cat(item, ScanChunk(pages, q, end))
          BY <2>2, <3>1, <3>4, ScanChunkTakes
        <5> HIDE DEF q, item
        <5> QED
          BY <5>2, <5>3, <5>4, <5>5
      <4> QED
        BY <4>2, <4>3
    <3> QED
      BY <3>3, <3>4
  <2> QED
    BY <2>1, <2>2
<1>2. \A p \in first .. end : p \in T
  <2> HIDE DEF T
  <2> QED
    BY <1>1, CountDown
<1> QED
  BY <1>2

(* Nothing is found in empty pages.                                         *)
LEMMA ScanChunkNone ==
  ASSUME NEW pages \in [Page -> StoredCell], NEW end \in Nat, end <= FilePages,
         NEW first \in Nat, \A x \in first .. end - 1 : pages[x] = NoData
  PROVE  \A p \in first .. end : ScanChunk(pages, p, end) = <<>>
<1> DEFINE T == { p \in first .. end : ScanChunk(pages, p, end) = <<>> }
<1>1. ASSUME NEW p \in first .. end, \A q \in p + 1 .. end : q \in T
      PROVE  p \in T
  <2>1. CASE p = end
    BY <2>1, ScanChunkEmpty
  <2>2. CASE p < end
    <3>1. pages[p].part # 1 /\ p \in Nat /\ p <= end /\ p + 1 \in T
      BY <1>1, <2>2 DEF NoData
    <3>2. ScanChunk(pages, p, end) = ScanChunk(pages, p + 1, end)
      BY <2>2, <3>1, ScanChunkSkips
    <3> QED
      BY <3>1, <3>2
  <2> QED
    BY <2>1, <2>2
<1>2. \A p \in first .. end : p \in T
  <2> HIDE DEF T
  <2> QED
    BY <1>1, CountDown
<1> QED
  BY <1>2

(* The chunks of a file start at multiples of their size.                   *)
LEMMA NextChunk ==
  ASSUME NEW id \in Nat, NEW c \in Nat, ChunkStart(id, c),
         c + ChunkPages \in Page
  PROVE  ChunkStart(id, c + ChunkPages)
<1> DEFINE s == IF id = 0 THEN 0 ELSE 1
<1>1. PICK n \in 0 .. FilePages : c = s + n * ChunkPages
  BY DEF ChunkStart
<1>2. ChunkPages \in Nat \ {0} /\ FilePages \in Nat /\ n \in Nat /\ s \in Nat
  BY RestartAssumption
<1>3. (n + 1) * ChunkPages = n * ChunkPages + ChunkPages
  BY <1>2
<1>4. n + 1 <= (n + 1) * ChunkPages
  BY <1>2
<1>5. c + ChunkPages = s + (n + 1) * ChunkPages
  <2>1. n * ChunkPages \in Nat
    BY <1>2
  <2> HIDE DEF s
  <2> QED
    BY <1>1, <1>2, <1>3, <2>1
<1>6. n + 1 \in 0 .. FilePages
  <2>1. (n + 1) * ChunkPages \in Nat
    BY <1>2
  <2> HIDE DEF s
  <2> QED
    BY <1>2, <1>4, <1>5, <2>1 DEF Page
<1> QED
  BY <1>5, <1>6 DEF ChunkStart

LEMMA FirstChunks ==
  ASSUME NEW id \in Nat
  PROVE  /\ id # 0 => ChunkStart(id, 1)
         /\ id = 0 => ChunkStart(id, ChunkPages)
<1>1. ChunkPages \in Nat /\ FilePages \in Nat /\ 1 \in 0 .. FilePages
      /\ 0 \in 0 .. FilePages
  BY RestartAssumption
<1>2. 1 + 0 * ChunkPages = 1 /\ 0 + 1 * ChunkPages = ChunkPages
  BY <1>1
<1> QED
  BY <1>1, <1>2 DEF ChunkStart

(* A file as its writes left it, with no record across two chunks.          *)
FilledFile(pages, f) ==
  /\ Filled(pages, f.write_offset)
  /\ f.size = IF f.write_offset = 1 THEN 0 ELSE f.write_offset

UnbrokenFile(pages, id) ==
  \A p \in Page : pages[p].part > 1 => ~ChunkStart(id, p)

Items(id, w) == [i \in DOMAIN w |-> [file |-> id, offset |-> w[i].offset,
                                     rec |-> w[i].rec]]

(* A chunk in its data starts with a record.                                *)
LEMMA ChunkStartsRecord ==
  ASSUME NEW pages \in [Page -> StoredCell], NEW wo \in 1 .. FilePages,
         Filled(pages, wo), NEW id \in Nat, UnbrokenFile(pages, id),
         NEW c \in 1 .. wo - 1, ChunkStart(id, c)
  PROVE  pages[c].part = 1
<1>1. c \in Page
  BY RestartAssumption DEF Page
<1>2. pages[c].part >= 1 /\ ~(pages[c].part > 1)
  BY <1>1 DEF Filled, UnbrokenFile
<1>3. pages[c].part \in Nat
  BY <1>1 DEF StoredCell, NoData
<1> QED
  BY <1>2, <1>3

LEMMA ChunkEndsAtRecord ==
  ASSUME NEW pages \in [Page -> StoredCell], NEW wo \in 2 .. FilePages,
         Filled(pages, wo), NEW id \in Nat, UnbrokenFile(pages, id),
         NEW c \in 0 .. wo - 1,
         ChunkStart(id, c) \/ (c = 0 /\ id = 0)
  PROVE  /\ ChunkEnd(c, wo) \in c + 1 .. wo
         /\ c = 0 => ChunkEnd(c, wo) # 1
         /\ AtRecord(pages, wo, ChunkEnd(c, wo))
<1>1. ChunkPages \in Nat \ {0, 1} /\ wo \in Nat /\ wo <= FilePages
      /\ FilePages \in Nat
  BY RestartAssumption
<1>2. /\ ChunkEnd(c, wo) \in c + 1 .. wo
      /\ c = 0 => ChunkEnd(c, wo) # 1
  BY <1>1 DEF ChunkEnd
<1>3. CASE c + ChunkPages < wo
  <2>1. c + ChunkPages \in Page /\ c + ChunkPages \in 1 .. wo - 1
    BY <1>1, <1>3 DEF Page
  <2>2. ChunkStart(id, c + ChunkPages)
    <3>1. CASE ChunkStart(id, c)
      BY <2>1, <3>1, NextChunk
    <3>2. CASE c = 0 /\ id = 0
      <4>1. c + ChunkPages = ChunkPages
        BY <1>1, <3>2
      <4> QED
        BY <3>2, <4>1, FirstChunks
    <3> QED
      BY <3>1, <3>2
  <2>3. pages[c + ChunkPages].part = 1
    BY <1>1, <2>1, <2>2, ChunkStartsRecord
  <2> QED
    BY <1>2, <1>3, <2>1, <2>3 DEF ChunkEnd, AtRecord
<1>4. CASE ~(c + ChunkPages < wo)
  BY <1>2, <1>4 DEF ChunkEnd, AtRecord
<1> QED
  BY <1>3, <1>4

(* Some record is found in a part of the file.                              *)
LEMMA ChunkHasRecord ==
  ASSUME NEW pages \in [Page -> StoredCell], NEW wo \in 1 .. FilePages,
         Filled(pages, wo), NEW p \in 1 .. wo - 1, pages[p].part = 1,
         NEW b \in p + 1 .. wo, AtRecord(pages, wo, b)
  PROVE  ScanChunk(pages, p, b) # <<>>
<1> DEFINE q == p + pages[p].rec.pages
           item == [offset |-> p, rec |-> pages[p].rec]
<1>1. q \in p + 1 .. b /\ ScanChunk(pages, p, b) = Cat(<<item>>, ScanChunk(pages, q, b))
      /\ pages[p].rec \in StoredRecord
  BY NextRecord
<1>2. ScanChunk(pages, q, b) \in Seq(ChunkItem(pages))
  <2>1. q \in Nat /\ b \in Nat /\ q <= b /\ b <= FilePages
    BY <1>1, RestartAssumption
  <2> HIDE DEF q
  <2> QED
    BY <2>1, ScanChunkTyped
<1> DEFINE v == ScanChunk(pages, q, b)
           R == [offset : Nat, rec : StoredRecord]
<1>3. item \in R
  BY <1>1
<1>4. ChunkItem(pages) \subseteq R
  BY DEF ChunkItem
<1> HIDE DEF q, v, item, R
<1>5. <<item>> \in Seq(R) /\ Len(<<item>>) = 1
  BY <1>3
<1>6. v \in Seq(R)
  BY <1>2, <1>4, SeqMonotonic DEF v
<1>7. Len(<<item>> \o v) = 1 + Len(v) /\ Len(v) \in Nat
  BY <1>5, <1>6, ConcatProperties
<1>8. Len(Cat(<<item>>, v)) # Len(<<>>)
  BY <1>7 DEF Cat
<1> QED
  BY <1>1, <1>8 DEF v

(* What the chunks from c on hold.                                          *)
LEMMA ChunksFrom ==
  ASSUME NEW pages \in [Page -> StoredCell], NEW wo \in 2 .. FilePages,
         Filled(pages, wo), NEW id \in Nat, UnbrokenFile(pages, id), NEW g,
         \A c \in 0 .. wo + ChunkPages : g[c] = FileStep(g, pages, wo, c)
  PROVE  \A c \in 1 .. wo + ChunkPages :
           /\ c >= wo => g[c] = <<>>
           /\ c < wo /\ ChunkStart(id, c) => g[c] = ScanChunk(pages, c, wo)
<1> DEFINE hi == wo + ChunkPages
           S(x, y) == ScanChunk(pages, x, y)
           Is(c) == /\ c >= wo => g[c] = <<>>
                    /\ c < wo /\ ChunkStart(id, c) => g[c] = S(c, wo)
           T == { c \in 1 .. hi : Is(c) }
<1>1. ChunkPages \in Nat \ {0, 1} /\ wo \in Nat /\ wo <= FilePages /\ hi \in Nat
      /\ FilePages \in Nat /\ wo \in 1 .. FilePages
  BY RestartAssumption
<1>2. ASSUME NEW c \in 1 .. hi, \A q \in c + 1 .. hi : q \in T PROVE c \in T
  <2>1. c >= wo => g[c] = <<>>
    BY <1>1 DEF FileStep
  <2>2. ASSUME c < wo, ChunkStart(id, c) PROVE g[c] = S(c, wo)
    <3> DEFINE last == ChunkEnd(c, wo)
               next == c + ChunkPages
    <3>1. last \in c + 1 .. wo /\ AtRecord(pages, wo, last)
      BY <1>1, <2>2, ChunkEndsAtRecord
    <3>2. c \in 1 .. wo - 1 /\ pages[c].part = 1
      BY <1>1, <2>2, ChunkStartsRecord
    <3>3. S(c, last) # <<>>
      BY <1>1, <3>1, <3>2, ChunkHasRecord
    <3>4. g[c] = Cat(S(c, last), g[next])
      BY <1>1, <2>2, <3>3 DEF FileStep
    <3>5. next \in c + 1 .. hi
      BY <1>1, <2>2
    <3>6. Is(next)
      BY <1>2, <3>5
    <3>7. CASE next < wo
      <4>1. ChunkStart(id, next) /\ last = next
        BY <1>1, <2>2, <3>7, NextChunk DEF Page, ChunkEnd
      <4>2. g[next] = S(next, wo)
        BY <3>6, <3>7, <4>1
      <4>3. /\ last \in 1 .. wo /\ wo \in last .. wo /\ c \in 1 .. last
            /\ AtRecord(pages, wo, wo) /\ AtRecord(pages, wo, c)
        BY <1>1, <3>1, <3>2 DEF AtRecord
      <4>4. S(c, wo) = Cat(S(c, last), S(last, wo))
        BY <1>1, <3>1, <4>3, ChunkJoin
      <4> QED
        BY <3>4, <4>1, <4>2, <4>4
    <3>8. CASE ~(next < wo)
      <4>1. last = wo /\ g[next] = <<>>
        BY <1>1, <3>6, <3>8 DEF ChunkEnd
      <4>2. S(c, wo) \in Seq(ChunkItem(pages))
        BY <1>1, <2>2, ScanChunkTyped
      <4> HIDE DEF S
      <4>3. Cat(S(c, wo), <<>>) = S(c, wo)
        BY <4>2, ConcatEmptySeq DEF Cat
      <4> QED
        BY <3>4, <4>1, <4>3
    <3> QED
      BY <3>7, <3>8
  <2> QED
    BY <2>1, <2>2
<1>3. \A c \in 1 .. hi : c \in T
  <2>1. 1 \in Nat
    OBVIOUS
  <2> HIDE DEF T, hi
  <2> QED
    BY <1>1, <1>2, <2>1, CountDown
<1> QED
  BY <1>3

(* All records of the file are found, and nothing else.                     *)
LEMMA ScanFileIs ==
  ASSUME NEW pages \in [Page -> StoredCell], NEW f \in FileInfo,
         FilledFile(pages, f), UnbrokenFile(pages, f.file_id)
  PROVE  ScanFile(pages, f) =
           Items(f.file_id, ScanChunk(pages, 1, f.write_offset))
<1> DEFINE wo == f.write_offset
           id == f.file_id
           end == EndOf(f)
           S(x, y) == ScanChunk(pages, x, y)
<1>1. /\ wo \in 1 .. FilePages /\ id \in Nat /\ f.size \in 0 .. FilePages
      /\ ChunkPages \in Nat \ {0, 1} /\ FilePages \in Nat \ {0, 1}
      /\ Filled(pages, wo)
  BY RestartAssumption DEF FileInfo, FilledFile
<1>2. PICK g : /\ \A c \in 0 .. end + ChunkPages : g[c] = FileStep(g, pages, end, c)
               /\ ScanFile(pages, f) = Items(id, g[StartOf(f)])
  BY <1>1, ScanFileSteps DEF Items
<1>3. CASE wo = 1
  <2>1. end = FilePages
    BY <1>1, <1>3 DEF FilledFile, EndOf
  <2>2. \A x \in Page : pages[x] = NoData
    BY <1>1, <1>3 DEF Filled, Page
  <2> DEFINE s == StartOf(f)
             last == ChunkEnd(s, end)
  <2>3. s \in 0 .. end + ChunkPages /\ s < end /\ last \in s .. FilePages
        /\ s \in Nat /\ last \in Nat /\ last <= FilePages
    BY <1>1, <2>1 DEF StartOf, ChunkEnd
  <2>4. \A x \in s .. last - 1 : pages[x] = NoData
    BY <1>1, <2>2, <2>3 DEF Page
  <2>5. S(s, last) = <<>>
    <3>1. s \in s .. last
      BY <2>3
    <3> HIDE DEF s, last
    <3> QED
      BY <2>3, <2>4, <3>1, ScanChunkNone
  <2>6. g[s] = <<>>
    <3>1. g[s] = FileStep(g, pages, end, s)
      BY <1>2, <2>3
    <3> HIDE DEF s, end
    <3> QED
      BY <2>5, <3>1 DEF FileStep
  <2>7. S(1, 1) = <<>>
    BY <1>1, ScanChunkEmpty
  <2> QED
    BY <1>2, <1>3, <2>6, <2>7
<1>4. CASE wo # 1
  <2>1. end = wo /\ wo \in 2 .. FilePages
    BY <1>1, <1>4 DEF FilledFile, EndOf
  <2>2. \A c \in 0 .. wo + ChunkPages : g[c] = FileStep(g, pages, wo, c)
    BY <1>2, <2>1
  <2>3. \A c \in 1 .. wo + ChunkPages :
           /\ c >= wo => g[c] = <<>>
           /\ c < wo /\ ChunkStart(id, c) => g[c] = S(c, wo)
    BY <1>1, <2>1, <2>2, ChunksFrom, SMTT(40)
  <2>4. CASE id # 0
    <3>1. g[1] = S(1, wo)
      BY <1>1, <2>1, <2>3, <2>4, FirstChunks
    <3> QED
      BY <1>2, <2>4, <3>1 DEF StartOf
  <2>5. CASE id = 0
    <3> DEFINE last == ChunkEnd(0, wo)
    <3>1. last \in 2 .. wo /\ AtRecord(pages, wo, last)
      <4>1. 0 \in 0 .. wo - 1
        BY <2>1
      <4>2. last \in 0 + 1 .. wo /\ last # 1 /\ AtRecord(pages, wo, last)
        BY <1>1, <2>1, <2>5, <4>1, ChunkEndsAtRecord
      <4> QED
        BY <2>1, <4>2
    <3>2. pages[1].part = 1 /\ 1 \in 1 .. wo - 1 /\ last \in 1 + 1 .. wo
          /\ AtRecord(pages, wo, 1)
      BY <1>1, <2>1, <3>1 DEF Filled, AtRecord
    <3>3. S(1, last) # <<>>
      BY <1>1, <3>1, <3>2, ChunkHasRecord
    <3>4. S(0, last) = S(1, last)
      <4>1. 0 \in Page /\ pages[0].part # 1
        BY <1>1 DEF Filled, Page, NoData
      <4>2. 0 \in Nat /\ last \in Nat /\ 0 < last /\ last <= FilePages
        BY <1>1, <3>1
      <4>3. 0 + 1 = 1
        OBVIOUS
      <4> HIDE DEF last
      <4> QED
        BY <4>1, <4>2, <4>3, ScanChunkSkips
    <3>5. g[0] = Cat(S(1, last), g[ChunkPages])
      <4>1. g[0] = FileStep(g, pages, wo, 0) /\ ~(0 >= wo)
            /\ 0 + ChunkPages = ChunkPages
        BY <1>1, <2>1, <2>2
      <4> QED
        BY <3>3, <3>4, <4>1 DEF FileStep
    <3>6. CASE ChunkPages < wo
      <4>1. last = ChunkPages /\ ChunkPages \in 1 .. wo + ChunkPages
        BY <1>1, <2>1, <3>6 DEF ChunkEnd
      <4>2. g[ChunkPages] = S(ChunkPages, wo)
        BY <1>1, <2>3, <2>5, <3>6, <4>1, FirstChunks
      <4>3. S(1, wo) = Cat(S(1, last), S(last, wo))
        <5>1. last \in 1 .. wo /\ wo \in last .. wo /\ 1 \in 1 .. last
              /\ AtRecord(pages, wo, wo)
          BY <2>1, <3>1 DEF AtRecord
        <5> QED
          BY <1>1, <3>1, <3>2, <5>1, ChunkJoin
      <4>4. g[0] = S(1, wo)
        BY <3>5, <4>1, <4>2, <4>3
      <4> QED
        BY <1>2, <2>5, <4>4 DEF StartOf
    <3>7. CASE ~(ChunkPages < wo)
      <4>1. last = wo /\ ChunkPages \in 1 .. wo + ChunkPages /\ ChunkPages >= wo
        BY <1>1, <2>1, <3>7 DEF ChunkEnd
      <4>2. g[ChunkPages] = <<>>
        BY <2>3, <4>1
      <4>3. S(1, wo) \in Seq(ChunkItem(pages))
        BY <1>1, ScanChunkTyped
      <4>4. Cat(S(1, wo), <<>>) = S(1, wo)
        <5> HIDE DEF S
        <5> QED
          BY <4>3, ConcatEmptySeq DEF Cat
      <4>5. g[0] = S(1, wo)
        BY <3>5, <4>1, <4>2, <4>4
      <4> QED
        BY <1>2, <2>5, <4>5 DEF StartOf
    <3> QED
      BY <3>6, <3>7
  <2> QED
    BY <2>4, <2>5
<1> QED
  BY <1>3, <1>4

-----------------------------------------------------------------------------
(* What a scan finds in all the files                                       *)

(* The scan of a file asks for its id and its size only.                    *)
FileScan(pages, id, size) ==
  LET end == IF size > 0 THEN size ELSE FilePages
      g   == CHOOSE g : Scans(g, pages, 0, end)
  IN  Items(id, g[IF id = 0 THEN 0 ELSE 1])

LEMMA FileScanIs ==
  ASSUME NEW pages, NEW f
  PROVE  ScanFile(pages, f) = FileScan(pages, f.file_id, f.size)
BY DEF FileScan, ScanFile, Scans, FileStep, ChunkEnd, Cat, Items

SameFile(d, f, e, g) ==
  /\ g.file_id = f.file_id /\ g.blob = f.blob
  /\ g.write_offset = f.write_offset /\ g.size = f.size
  /\ e[g.blob] = d[f.blob]

LEMMA SameFileScan ==
  ASSUME NEW d, NEW f, NEW e, NEW g, SameFile(d, f, e, g)
  PROVE  ScanFile(e[g.blob], g) = ScanFile(d[f.blob], f)
<1>1. FileScan(e[g.blob], g.file_id, g.size) = FileScan(d[f.blob], f.file_id, f.size)
  BY DEF SameFile
<1> QED
  BY <1>1, FileScanIs

LEMMA SameFilesScan ==
  ASSUME NEW d, NEW fs \in Seq(FileInfo), NEW e, NEW gs \in Seq(FileInfo),
         Len(gs) = Len(fs),
         \A i \in 1 .. Len(fs) : SameFile(d, fs[i], e, gs[i])
  PROVE  Scan(e, gs) = Scan(d, fs)
<1>1. DOMAIN gs = 1 .. Len(fs) /\ DOMAIN fs = 1 .. Len(fs)
  OBVIOUS
<1>2. \A i \in 1 .. Len(fs) :
        ScanFile(e[gs[i].blob], gs[i]) = ScanFile(d[fs[i].blob], fs[i])
  BY SameFileScan
<1>3. ScansOf(e, gs) = ScansOf(d, fs)
  BY <1>1, <1>2 DEF ScansOf
<1>4. Scan(e, gs) = Seqs!FlattenSeq(ScansOf(e, gs))
      /\ Scan(d, fs) = Seqs!FlattenSeq(ScansOf(d, fs))
  BY DEF Scan, ScansOf
<1> QED
  BY <1>3, <1>4

(* One more file.                                                           *)
LEMMA ScanOneMoreFile ==
  ASSUME NEW d, NEW fs \in Seq(FileInfo), CanScan(d, fs),
         NEW e, NEW gs \in Seq(FileInfo), CanScan(e, gs),
         Len(gs) = Len(fs) + 1,
         \A i \in 1 .. Len(fs) : SameFile(d, fs[i], e, gs[i])
  PROVE  LET n == Len(gs) IN
         /\ ScanFile(e[gs[n].blob], gs[n]) \in Seq(Found)
         /\ Scan(e, gs) = Cat(Scan(d, fs), ScanFile(e[gs[n].blob], gs[n]))
<1> DEFINE n == Len(fs)
           p == ScansOf(d, fs)
           q == ScansOf(e, gs)
<1>1. n \in Nat /\ n + 1 \in 1 .. Len(gs) /\ \A i \in 1 .. n : i \in 1 .. Len(gs)
  OBVIOUS
<1>2. /\ Len(p) = n /\ (n = 0 => p = <<>>) /\ Scan(d, fs) = Seqs!FlattenSeq(p)
      /\ \A i \in 1 .. n : p[i] = ScanFile(d[fs[i].blob], fs[i])
  BY ScansOfIs
<1>3. /\ Len(q) = n + 1 /\ Scan(e, gs) = Seqs!FlattenSeq(q)
      /\ \A i \in 1 .. n + 1 : /\ q[i] = ScanFile(e[gs[i].blob], gs[i])
                               /\ q[i] \in Seq(Found)
  BY ScansOfIs
<1>4. ASSUME NEW i \in 1 .. n PROVE q[i] = p[i]
  <2>1. i \in 1 .. n + 1 /\ SameFile(d, fs[i], e, gs[i])
    BY <1>1
  <2>2. ScanFile(e[gs[i].blob], gs[i]) = ScanFile(d[fs[i].blob], fs[i])
    BY <2>1, SameFileScan
  <2> HIDE DEF p, q, n
  <2> QED
    BY <1>2, <1>3, <2>1, <2>2
<1>5. q[n + 1] \in Seq(Found) /\ q[n + 1] = ScanFile(e[gs[n + 1].blob], gs[n + 1])
  BY <1>1, <1>3
<1> HIDE DEF p, q, n
<1>6. Seqs!FlattenSeq(q) = Seqs!FlattenSeq(p) \o q[n + 1]
  <2>1. n \in Nat /\ Len(q) = n + 1 /\ Len(p) = n /\ (n = 0 => p = <<>>)
    BY <1>1, <1>2, <1>3
  <2>2. q[n + 1] \in Seq(Found) /\ \A i \in 1 .. n : q[i] = p[i]
    BY <1>4, <1>5
  <2>3. OneLonger(Found, p, q)
    BY <2>1, <2>2 DEF OneLonger
  <2> QED
    BY <2>1, <2>3, FlattenLast
<1> QED
  BY <1>2, <1>3, <1>5, <1>6 DEF Cat, n

(* A file without records adds nothing.                                     *)
LEMMA ScanEmptyFile ==
  ASSUME NEW d, NEW fs \in Seq(FileInfo), CanScan(d, fs),
         NEW e, NEW gs \in Seq(FileInfo), CanScan(e, gs),
         Len(gs) = Len(fs) + 1,
         \A i \in 1 .. Len(fs) : SameFile(d, fs[i], e, gs[i]),
         ScanFile(e[gs[Len(gs)].blob], gs[Len(gs)]) = <<>>
  PROVE  Scan(e, gs) = Scan(d, fs)
<1>1. Scan(e, gs) = Cat(Scan(d, fs), <<>>)
  BY ScanOneMoreFile
<1>2. Scan(d, fs) \in Seq(Found)
  BY ScanTyped
<1> QED
  BY <1>1, <1>2, ConcatEmptySeq DEF Cat

(* A record written at the end of the last file is the last of the scan.    *)
LEMMA ScanLongerFile ==
  ASSUME NEW d, NEW fs \in Seq(FileInfo), CanScan(d, fs),
         NEW e, NEW gs \in Seq(FileInfo), CanScan(e, gs),
         Len(fs) # 0, Len(gs) = Len(fs),
         \A i \in 1 .. Len(fs) - 1 : SameFile(d, fs[i], e, gs[i]),
         NEW x \in Found,
         ScanFile(e[gs[Len(gs)].blob], gs[Len(gs)]) =
           Cat(ScanFile(d[fs[Len(fs)].blob], fs[Len(fs)]), <<x>>)
  PROVE  Scan(e, gs) = Cat(Scan(d, fs), <<x>>)
<1> DEFINE n == Len(fs)
           ps == [i \in 1 .. n - 1 |-> fs[i]]
           w == ScanFile(d[fs[n].blob], fs[n])
<1>1. n \in Nat \ {0} /\ n - 1 \in Nat /\ \A i \in 1 .. n : fs[i] \in FileInfo
  OBVIOUS
<1>2. ps \in Seq(FileInfo) /\ Len(ps) = n - 1
      /\ \A i \in 1 .. n - 1 : ps[i] = fs[i]
  BY <1>1
<1> HIDE DEF ps
<1>3. CanScan(d, ps)
  <2>1. ASSUME NEW i \in 1 .. n - 1
        PROVE  /\ ps[i].size \in 0 .. FilePages /\ ps[i].file_id \in Nat
               /\ d[ps[i].blob] \in [Page -> StoredCell]
    <3>1. ps[i] = fs[i] /\ i \in 1 .. n
      BY <1>1, <1>2
    <3> QED
      BY <3>1 DEF CanScan
  <2> QED
    BY <1>2, <2>1 DEF CanScan
<1>4. \A i \in 1 .. Len(ps) : SameFile(d, ps[i], d, fs[i])
                              /\ SameFile(d, ps[i], e, gs[i])
  BY <1>1, <1>2 DEF SameFile
<1>5. Scan(d, fs) = Cat(Scan(d, ps), w) /\ w \in Seq(Found)
  <2>1. Len(fs) = Len(ps) + 1 /\ \A i \in 1 .. Len(ps) : SameFile(d, ps[i], d, fs[i])
    BY <1>1, <1>2, <1>4
  <2>2. /\ Scan(d, fs) = Cat(Scan(d, ps), ScanFile(d[fs[Len(fs)].blob], fs[Len(fs)]))
        /\ ScanFile(d[fs[Len(fs)].blob], fs[Len(fs)]) \in Seq(Found)
    <3> HIDE DEF n, w
    <3> QED
      BY <1>2, <1>3, <2>1, ScanOneMoreFile
  <2> QED
    BY <2>2
<1>6. Scan(e, gs) = Cat(Scan(d, ps), Cat(w, <<x>>))
  <2>1. Len(gs) = Len(ps) + 1 /\ \A i \in 1 .. Len(ps) : SameFile(d, ps[i], e, gs[i])
    BY <1>1, <1>2, <1>4
  <2>2. Scan(e, gs) = Cat(Scan(d, ps), ScanFile(e[gs[Len(gs)].blob], gs[Len(gs)]))
    BY <1>2, <1>3, <2>1, ScanOneMoreFile
  <2> QED
    BY <2>2
<1>7. Scan(d, ps) \in Seq(Found)
  BY <1>2, <1>3, ScanTyped
<1>8. <<x>> \in Seq(Found)
  OBVIOUS
<1> HIDE DEF w
<1>9. Cat(Scan(d, ps), Cat(w, <<x>>)) = Cat(Cat(Scan(d, ps), w), <<x>>)
  BY <1>5, <1>7, <1>8, ConcatAssociative, SMTT(40) DEF Cat
<1> QED
  BY <1>5, <1>6, <1>9

(* The pages of a file after one more record.                               *)
AfterRecord(pages, wo, r) ==
  [p \in Page |-> IF p \in wo .. wo + r.pages - 1
                  THEN [rec |-> r, part |-> p - wo + 1] ELSE pages[p]]

LEMMA FilledFurther ==
  ASSUME NEW pages \in [Page -> StoredCell], NEW wo \in 1 .. FilePages,
         Filled(pages, wo), NEW r \in StoredRecord,
         wo + r.pages <= FilePages
  PROVE  LET others == AfterRecord(pages, wo, r) IN
         /\ others \in [Page -> StoredCell]
         /\ wo + r.pages \in wo + 1 .. FilePages
         /\ Filled(others, wo + r.pages)
         /\ others[wo].part = 1 /\ others[wo].rec = r /\ Whole(others, wo)
<1> DEFINE n == r.pages
           others == AfterRecord(pages, wo, r)
           end == wo + n
<1>1. n \in Nat \ {0} /\ wo \in Nat \ {0} /\ wo <= FilePages
      /\ FilePages \in Nat /\ end \in Nat
  BY RestartAssumption DEF StoredRecord
<1>2. \A p \in wo .. end - 1 :
        /\ p \in Page /\ others[p] = [rec |-> r, part |-> p - wo + 1]
  BY <1>1 DEF AfterRecord, Page
<1>3. \A p \in Page : p < wo \/ p >= end => others[p] = pages[p]
  BY <1>1 DEF AfterRecord, Page
<1>4. others \in [Page -> StoredCell]
  <2>1. \A p \in wo .. end - 1 : [rec |-> r, part |-> p - wo + 1] \in StoredCell
    BY <1>1 DEF StoredCell
  <2>2. ASSUME NEW p \in Page PROVE others[p] \in StoredCell
    <3>1. CASE p \in wo .. end - 1
      BY <1>2, <2>1, <3>1
    <3>2. CASE p < wo \/ p >= end
      BY <1>3, <3>2
    <3>3. p \in Int
      BY <1>1 DEF Page
    <3> QED
      BY <1>1, <3>1, <3>2, <3>3
  <2>3. others = [p \in Page |-> others[p]]
    BY DEF AfterRecord
  <2> HIDE DEF others
  <2> QED
    BY <2>2, <2>3
<1> HIDE DEF others
<1>5. \A p \in Page : p = 0 \/ p >= end => others[p] = NoData
  <2>1. ASSUME NEW p \in Page, p = 0 \/ p >= end PROVE others[p] = NoData
    <3>1. p < wo \/ p >= end
      BY <1>1, <2>1
    <3>2. p = 0 \/ p >= wo
      BY <1>1, <2>1 DEF Page
    <3> QED
      BY <1>3, <3>1, <3>2 DEF Filled
  <2> QED
    BY <2>1
<1>6. \A p \in 1 .. end - 1 : others[p].part >= 1
  <2>1. ASSUME NEW p \in 1 .. end - 1 PROVE others[p].part >= 1
    <3>1. CASE p < wo
      <4>1. p \in 1 .. wo - 1 /\ p \in Page
        BY <1>1, <3>1 DEF Page
      <4> QED
        BY <1>3, <3>1, <4>1 DEF Filled
    <3>2. CASE p >= wo
      <4>1. p \in wo .. end - 1 /\ p - wo + 1 >= 1
        BY <1>1, <3>2
      <4>2. others[p] = [rec |-> r, part |-> p - wo + 1]
        BY <1>2, <4>1
      <4> QED
        BY <4>1, <4>2
    <3> QED
      BY <1>1, <3>1, <3>2
  <2> QED
    BY <2>1
<1>7. others[wo].part = 1 /\ others[wo].rec = r
  <2>1. wo \in wo .. end - 1 /\ wo - wo + 1 = 1
    BY <1>1
  <2>2. others[wo] = [rec |-> r, part |-> wo - wo + 1]
    BY <1>2, <2>1
  <2> QED
    BY <2>1, <2>2
<1>8. Whole(others, wo)
  <2>1. ASSUME NEW i \in 1 .. n
        PROVE  others[wo + i - 1] = [rec |-> r, part |-> i]
    <3>1. wo + i - 1 \in wo .. end - 1 /\ (wo + i - 1) - wo + 1 = i
      BY <1>1
    <3> QED
      BY <1>2, <3>1
  <2> QED
    BY <1>7, <2>1 DEF Whole
<1>9. others[1].part = 1
  <2>1. CASE wo = 1
    BY <1>7, <2>1
  <2>2. CASE wo > 1
    <3>1. 1 \in Page /\ 1 < wo
      BY <1>1, <2>2 DEF Page
    <3> QED
      BY <1>3, <2>2, <3>1 DEF Filled
  <2> QED
    BY <1>1, <2>1, <2>2
<1>10. ASSUME NEW p \in 1 .. end - 1, others[p].part = 1
       PROVE  LET q == p + others[p].rec.pages
              IN  q <= end /\ Whole(others, p) /\ (q = end \/ others[q].part = 1)
  <2>1. CASE p >= wo
    <3>1. p \in wo .. end - 1
      BY <1>1, <2>1
    <3>2. others[p].part = p - wo + 1
      <4>1. others[p] = [rec |-> r, part |-> p - wo + 1]
        BY <1>2, <3>1
      <4> QED
        BY <4>1
    <3>3. p = wo
      BY <1>1, <1>10, <3>1, <3>2
    <3> QED
      BY <1>1, <1>7, <1>8, <3>3
  <2>2. CASE p < wo
    <3>1. p \in 1 .. wo - 1 /\ p \in Page /\ others[p] = pages[p]
      BY <1>1, <1>3, <2>2 DEF Page
    <3> DEFINE m == pages[p].rec.pages
               q == p + m
    <3>2. q <= wo /\ Whole(pages, p) /\ (q = wo \/ pages[q].part = 1)
      BY <1>10, <3>1 DEF Filled
    <3>3. m \in Nat \ {0}
      BY <1>10, <3>1, CellIs
    <3>4. \A i \in 1 .. m : p + i - 1 \in Page /\ p + i - 1 < wo
      <4>1. p + m <= wo /\ p \in Nat
        BY <1>1, <3>1, <3>2
      <4> HIDE DEF m
      <4> QED
        BY <1>1, <3>3, <4>1 DEF Page
    <3>5. \A i \in 1 .. m : others[p + i - 1] = pages[p + i - 1]
      BY <1>3, <3>4
    <3>6. Whole(others, p)
      BY <3>1, <3>2, <3>5 DEF Whole
    <3>7. others[q].part = 1
      <4>1. CASE q = wo
        BY <1>7, <4>1
      <4>2. CASE q # wo
        <5>1. q \in Page /\ q < wo
          BY <1>1, <3>1, <3>2, <3>3, <4>2, SMTT(40) DEF Page
        <5> QED
          BY <1>3, <3>2, <4>2, <5>1
      <4> QED
        BY <4>1, <4>2
    <3>8. q <= end
      BY <1>1, <3>1, <3>2, <3>3
    <3> QED
      BY <3>1, <3>6, <3>7, <3>8
  <2> QED
    BY <1>1, <2>1, <2>2
<1>11. end \in wo + 1 .. FilePages
  BY <1>1
<1>12. Filled(others, end)
  BY <1>5, <1>6, <1>9, <1>10 DEF Filled
<1> QED
  BY <1>4, <1>7, <1>8, <1>11, <1>12 DEF others

LEMMA ScanFurther ==
  ASSUME NEW pages \in [Page -> StoredCell], NEW wo \in 1 .. FilePages,
         Filled(pages, wo), NEW r \in StoredRecord,
         wo + r.pages <= FilePages
  PROVE  ScanChunk(AfterRecord(pages, wo, r), 1, wo + r.pages) =
           Cat(ScanChunk(pages, 1, wo), <<[offset |-> wo, rec |-> r]>>)
<1> DEFINE others == AfterRecord(pages, wo, r)
           end == wo + r.pages
           item == <<[offset |-> wo, rec |-> r]>>
<1>1. /\ others \in [Page -> StoredCell] /\ end \in wo + 1 .. FilePages
      /\ Filled(others, end)
      /\ others[wo].part = 1 /\ others[wo].rec = r /\ Whole(others, wo)
  BY FilledFurther
<1>2. /\ wo \in Nat \ {0} /\ end \in Nat /\ end <= FilePages /\ wo < end
      /\ end \in 1 .. FilePages /\ wo \in 1 .. end /\ end \in wo .. end
      /\ 1 \in 1 .. wo /\ wo <= FilePages /\ wo \in 1 .. end - 1
  BY <1>1, RestartAssumption
<1>3. AtRecord(others, end, wo) /\ AtRecord(others, end, end)
  BY <1>1, <1>2 DEF AtRecord
<1>4. AtRecord(others, end, 1)
  BY <1>1, <1>2 DEF AtRecord, Filled
<1>5. \A x \in 1 .. wo - 1 : others[x] = pages[x]
  <2>1. ASSUME NEW x \in 1 .. wo - 1 PROVE others[x] = pages[x]
    <3>1. x \in Page /\ x \notin wo .. wo + r.pages - 1
      BY <1>2, RestartAssumption DEF Page
    <3> QED
      BY <3>1 DEF AfterRecord
  <2> QED
    BY <2>1
<1> HIDE DEF others
<1>6. ScanChunk(others, 1, end) =
        Cat(ScanChunk(others, 1, wo), ScanChunk(others, wo, end))
  <2> HIDE DEF end
  <2> QED
    BY <1>1, <1>2, <1>3, <1>4, ChunkJoin
<1>7. ScanChunk(others, 1, wo) = ScanChunk(pages, 1, wo)
  BY <1>1, <1>2, <1>5, ScanChunkSame
<1>8. ScanChunk(others, wo, end) = Cat(item, ScanChunk(others, end, end))
  BY <1>1, <1>2, ScanChunkTakes
<1>9. ScanChunk(others, end, end) = <<>>
  BY <1>1, <1>2, ScanChunkEmpty
<1>10. Cat(item, <<>>) = item
  BY ConcatEmptySeq DEF Cat
<1> QED
  BY <1>6, <1>7, <1>8, <1>9, <1>10 DEF others

LEMMA ItemsLonger ==
  ASSUME NEW id, NEW S, NEW w \in Seq(S), NEW y \in S
  PROVE  Items(id, Cat(w, <<y>>)) =
           Cat(Items(id, w), <<[file |-> id, offset |-> y.offset,
                                rec |-> y.rec]>>)
<1> DEFINE n == Len(w)
           v == w \o <<y>>
           it(z) == [file |-> id, offset |-> z.offset, rec |-> z.rec]
           a == Items(id, w)
<1>1. n \in Nat /\ DOMAIN w = 1 .. n
  OBVIOUS
<1>2. DOMAIN v = 1 .. n + 1 /\ v[n + 1] = y /\ \A i \in 1 .. n : v[i] = w[i]
  <2>1. <<y>> \in Seq(S) /\ Len(<<y>>) = 1
    OBVIOUS
  <2>2. /\ Len(v) = n + 1 /\ v \in Seq(S)
        /\ \A i \in 1 .. n + 1 : v[i] = IF i <= n THEN w[i] ELSE <<y>>[i - n]
    BY <2>1, ConcatProperties
  <2> QED
    BY <1>1, <2>2
<1>3. /\ a \in Seq({it(w[i]) : i \in 1 .. n}) /\ Len(a) = n
      /\ \A i \in 1 .. n : a[i] = it(w[i])
  BY <1>1 DEF Items
<1> DEFINE Z == {it(w[i]) : i \in 1 .. n} \cup {it(y)}
           b == a \o <<it(y)>>
<1>4. a \in Seq(Z) /\ <<it(y)>> \in Seq(Z) /\ Len(<<it(y)>>) = 1
      /\ <<it(y)>>[1] = it(y)
  <2> HIDE DEF a, it
  <2> QED
    BY <1>3, SeqMonotonic
<1>5. DOMAIN b = 1 .. n + 1 /\ b[n + 1] = it(y)
      /\ \A i \in 1 .. n : b[i] = it(w[i])
  <2> HIDE DEF a, it, Z
  <2>1. /\ Len(b) = n + 1 /\ b \in Seq(Z)
        /\ \A i \in 1 .. n + 1 : b[i] = IF i <= n THEN a[i] ELSE <<it(y)>>[i - n]
    BY <1>3, <1>4, ConcatProperties
  <2> QED
    BY <1>1, <1>3, <1>4, <2>1
<1>6. Items(id, v) = [i \in 1 .. n + 1 |-> it(v[i])]
  BY <1>2 DEF Items
<1>7. b = [i \in 1 .. n + 1 |-> b[i]]
  <2> HIDE DEF a, it
  <2>1. b \in Seq(Z)
    <3> HIDE DEF Z
    <3> QED
      BY <1>4, ConcatProperties
  <2> HIDE DEF b, Z
  <2> QED
    BY <1>5, <2>1
<1>8. \A i \in 1 .. n + 1 : b[i] = it(v[i])
  <2> HIDE DEF b, v, it
  <2> QED
    BY <1>1, <1>2, <1>5
<1>9. Items(id, v) = b
  <2> HIDE DEF b, v, it
  <2> QED
    BY <1>6, <1>7, <1>8
<1> QED
  BY <1>9 DEF Cat

-----------------------------------------------------------------------------
(* What a recovery from these files would make of the keys                  *)

LEMMA RecoveredIs ==
  ASSUME NEW d, NEW fs
  PROVE  RecoveredIndex(d, fs) = IndexAfter(Scan(d, fs))
BY DEF RecoveredIndex, IndexAfter

(* The entry of a key is that of a record of it, whole at its place.        *)
EntryFound(d, fs, k, e) ==
  LET pages == d[fs[e.file + 1].blob] IN
  /\ e \in Entry
  /\ e.file + 1 \in 1 .. Len(fs)
  /\ fs[e.file + 1].file_id = e.file
  /\ e.offset \in Page
  /\ pages[e.offset].part = 1 /\ Whole(pages, e.offset)
  /\ \E i \in 1 .. Len(Scan(d, fs)) : e.seq = Scan(d, fs)[i].rec.seq

LEMMA EntriesFound ==
  ASSUME NEW d, NEW fs, InOrder(fs), CanScan(d, fs)
  PROVE  /\ Scan(d, fs) \in Seq(Found)
         /\ RecoveredIndex(d, fs) \in Index
         /\ \A k \in Keys :
              RecoveredIndex(d, fs)[k] # NoEntry =>
                EntryFound(d, fs, k, RecoveredIndex(d, fs)[k])
<1> DEFINE s == Scan(d, fs)
           index == RecoveredIndex(d, fs)
           q == ScansOf(d, fs)
           n == Len(fs)
<1>1. fs \in Seq(FileInfo) /\ n \in Nat /\ \A i \in 1 .. n : fs[i].file_id = i - 1
  BY FieldsOf DEF InOrder
<1>2. s \in Seq(Found) /\ From(s, q, n)
  BY <1>1, ScanTyped
<1>3. \A i \in 1 .. n : q[i] \in Seq(FoundIn(fs[i].file_id, d[fs[i].blob]))
  BY <1>1, ScansOfIs
<1>4. index = IndexAfter(s)
  BY RecoveredIs
<1> HIDE DEF s, index, q
<1>5. /\ index \in Index
      /\ \A k \in Keys : index[k] # NoEntry =>
                           \E i \in 1 .. Len(s) : IsOf(index[k], k, s[i])
  BY <1>2, <1>4, IndexAfterIs
<1>6. ASSUME NEW k \in Keys, index[k] # NoEntry
      PROVE  EntryFound(d, fs, k, index[k])
  <2> DEFINE e == index[k]
  <2>1. e \in Entry
    BY <1>5, <1>6 DEF Index
  <2>2. PICK i \in 1 .. Len(s) : IsOf(e, k, s[i])
    BY <1>5, <1>6
  <2>3. PICK j \in 1 .. n : \E l \in 1 .. Len(q[j]) : s[i] = q[j][l]
    BY <1>2 DEF From
  <2> DEFINE S == FoundIn(fs[j].file_id, d[fs[j].blob])
  <2>4. s[i] \in S
    <3>1. q[j] \in Seq(S)
      BY <1>3
    <3> HIDE DEF S
    <3> QED
      BY <2>3, <3>1
  <2>5. s[i].file = j - 1 /\ Placed(d[fs[j].blob], s[i])
    BY <1>1, <2>4 DEF FoundIn
  <2> HIDE DEF e
  <2>6. e.file + 1 = j /\ e.offset = s[i].offset /\ e.seq = s[i].rec.seq
        /\ e.file = j - 1
    BY <1>1, <2>2, <2>5 DEF IsOf
  <2>7. EntryFound(d, fs, k, e)
    BY <1>1, <2>1, <2>5, <2>6 DEF EntryFound, Placed, s
  <2> QED
    BY <2>7 DEF e
<1> QED
  BY <1>2, <1>5, <1>6 DEF s, index

(* The value of a key after a recovery.                                     *)
ValueIn(d, fs, k) ==
  LET e == RecoveredIndex(d, fs)[k] IN
  IF e = NoEntry \/ e.deleted THEN Absent
  ELSE d[fs[e.file + 1].blob][e.offset].rec.id

FilledFiles(d, fs) ==
  \A i \in 1 .. Len(fs) : FilledFile(d[fs[i].blob], fs[i])

SeqsUpTo(d, fs, s) ==
  \A i \in 1 .. Len(Scan(d, fs)) : Scan(d, fs)[i].rec.seq <= s

(* A recovery makes as much of the second as of the first.                  *)
SameToRecovery(d, fs, e, gs) ==
  /\ FilledFiles(e, gs)
  /\ Unbroken(e, gs) => Unbroken(d, fs)
  /\ Scan(e, gs) = Scan(d, fs)
  /\ \A k \in Keys : ValueIn(e, gs, k) = ValueIn(d, fs, k)

LEMMA SameValues ==
  ASSUME NEW d, NEW fs, InOrder(fs), CanScan(d, fs), NEW e, NEW gs,
         Scan(e, gs) = Scan(d, fs),
         \A i \in 1 .. Len(fs) : e[gs[i].blob] = d[fs[i].blob]
  PROVE  \A k \in Keys : ValueIn(e, gs, k) = ValueIn(d, fs, k)
<1>1. RecoveredIndex(e, gs) = RecoveredIndex(d, fs)
  BY RecoveredIs, SMTT(40)
<1>2. ASSUME NEW k \in Keys PROVE ValueIn(e, gs, k) = ValueIn(d, fs, k)
  <2> DEFINE x == RecoveredIndex(d, fs)[k]
  <2>1. x # NoEntry => EntryFound(d, fs, k, x)
    BY EntriesFound
  <2>2. x # NoEntry => e[gs[x.file + 1].blob] = d[fs[x.file + 1].blob]
    BY <2>1 DEF EntryFound
  <2> QED
    BY <1>1, <2>2 DEF ValueIn
<1> QED
  BY <1>2

LEMMA SameFilesToRecovery ==
  ASSUME NEW d, NEW fs, InOrder(fs), CanScan(d, fs), NEW e, NEW gs, InOrder(gs),
         Len(gs) = Len(fs),
         \A i \in 1 .. Len(fs) : SameFile(d, fs[i], e, gs[i]),
         FilledFiles(d, fs)
  PROVE  SameToRecovery(d, fs, e, gs)
<1>1. fs \in Seq(FileInfo) /\ gs \in Seq(FileInfo) /\ DOMAIN gs = 1 .. Len(fs)
      /\ DOMAIN fs = 1 .. Len(fs)
  BY DEF InOrder
<1>2. Scan(e, gs) = Scan(d, fs)
  BY <1>1, SameFilesScan
<1>3. \A i \in 1 .. Len(fs) : e[gs[i].blob] = d[fs[i].blob]
  BY DEF SameFile
<1>4. \A k \in Keys : ValueIn(e, gs, k) = ValueIn(d, fs, k)
  BY <1>2, <1>3, SameValues
<1>5. FilledFiles(e, gs)
  <2>1. ASSUME NEW i \in 1 .. Len(fs) PROVE FilledFile(e[gs[i].blob], gs[i])
    <3>1. FilledFile(d[fs[i].blob], fs[i]) /\ SameFile(d, fs[i], e, gs[i])
      BY DEF FilledFiles
    <3> QED
      BY <3>1 DEF FilledFile, SameFile
  <2> QED
    BY <2>1 DEF FilledFiles
<1>6. Unbroken(e, gs) => Unbroken(d, fs)
  <2> SUFFICES ASSUME Unbroken(e, gs), NEW i \in DOMAIN fs, NEW p \in Page,
                      d[fs[i].blob][p].part > 1
               PROVE  ~ChunkStart(fs[i].file_id, p)
    BY DEF Unbroken
  <2>1. SameFile(d, fs[i], e, gs[i]) /\ i \in DOMAIN gs
    BY <1>1
  <2>2. e[gs[i].blob][p].part > 1 => ~ChunkStart(gs[i].file_id, p)
    BY <2>1 DEF Unbroken
  <2> QED
    BY <2>1, <2>2 DEF SameFile
<1> QED
  BY <1>2, <1>4, <1>5, <1>6 DEF SameToRecovery

(* Nothing is found in a file without a record.                             *)
LEMMA EmptyFileScan ==
  ASSUME NEW pages \in [Page -> StoredCell], NEW f \in FileInfo,
         FilledFile(pages, f), f.write_offset = 1
  PROVE  ScanFile(pages, f) = <<>>
<1>1. \A p \in Page : pages[p] = NoData
  BY DEF FilledFile, Filled, Page
<1>2. UnbrokenFile(pages, f.file_id)
  BY <1>1 DEF UnbrokenFile, NoData
<1>3. ScanFile(pages, f) = Items(f.file_id, ScanChunk(pages, 1, 1))
  BY <1>2, ScanFileIs
<1>4. 1 \in Nat /\ 1 <= FilePages
  BY RestartAssumption
<1>5. ScanChunk(pages, 1, 1) = <<>>
  BY <1>4, ScanChunkEmpty
<1> QED
  BY <1>3, <1>5 DEF Items

(* gs are the files fs and one without a record.                            *)
OneEmptyMore(d, fs, e, gs) ==
  /\ InOrder(fs) /\ CanScan(d, fs) /\ InOrder(gs) /\ CanScan(e, gs)
  /\ Len(gs) = Len(fs) + 1
  /\ \A i \in 1 .. Len(fs) : SameFile(d, fs[i], e, gs[i])
  /\ gs[Len(gs)].write_offset = 1
  /\ FilledFile(e[gs[Len(gs)].blob], gs[Len(gs)])

LEMMA EmptyFileToRecovery ==
  ASSUME NEW d, NEW fs, NEW e, NEW gs, OneEmptyMore(d, fs, e, gs)
  PROVE  /\ FilledFiles(d, fs) => SameToRecovery(d, fs, e, gs)
         /\ FilledFiles(e, gs) => SameToRecovery(e, gs, d, fs)
<1> DEFINE n == Len(gs)
           last == gs[n]
           pages == e[last.blob]
<1>1. /\ fs \in Seq(FileInfo) /\ gs \in Seq(FileInfo) /\ Len(fs) \in Nat
      /\ DOMAIN fs = 1 .. Len(fs) /\ DOMAIN gs = 1 .. n /\ n = Len(fs) + 1
      /\ \A i \in 1 .. Len(fs) : i \in 1 .. n
      /\ n \in 1 .. n /\ last \in FileInfo
  BY DEF InOrder, OneEmptyMore
<1>2. pages \in [Page -> StoredCell] /\ FilledFile(pages, last)
      /\ last.write_offset = 1
  BY <1>1 DEF OneEmptyMore, CanScan
<1>3. ScanFile(pages, last) = <<>>
  BY <1>1, <1>2, EmptyFileScan
<1>4. Scan(e, gs) = Scan(d, fs)
  BY <1>1, <1>3, ScanEmptyFile DEF OneEmptyMore
<1>5. \A i \in 1 .. Len(fs) : e[gs[i].blob] = d[fs[i].blob]
  BY DEF SameFile, OneEmptyMore
<1>6. \A k \in Keys : ValueIn(e, gs, k) = ValueIn(d, fs, k)
  BY <1>4, <1>5, SameValues DEF OneEmptyMore
<1>7. ASSUME NEW i \in 1 .. Len(fs)
      PROVE  FilledFile(e[gs[i].blob], gs[i]) <=> FilledFile(d[fs[i].blob], fs[i])
  BY DEF OneEmptyMore, SameFile, FilledFile
<1>8. FilledFiles(d, fs) <=> FilledFiles(e, gs)
  <2>1. \A i \in 1 .. n : i \in 1 .. Len(fs) \/ i = n
    BY <1>1
  <2> QED
    BY <1>1, <1>2, <1>7, <2>1 DEF FilledFiles
<1>9. Unbroken(e, gs) <=> Unbroken(d, fs)
  <2>1. ASSUME NEW i \in 1 .. Len(fs), NEW p \in Page
        PROVE  /\ e[gs[i].blob][p].part = d[fs[i].blob][p].part
               /\ gs[i].file_id = fs[i].file_id
    BY DEF OneEmptyMore, SameFile
  <2>2. ASSUME NEW p \in Page PROVE ~(pages[p].part > 1)
    BY <1>2 DEF FilledFile, Filled, NoData, Page
  <2>3. \A i \in 1 .. n : i \in 1 .. Len(fs) \/ i = n
    BY <1>1
  <2> QED
    BY <1>1, <2>1, <2>2, <2>3 DEF Unbroken
<1> QED
  BY <1>4, <1>6, <1>8, <1>9 DEF SameToRecovery

LEMMA LastFile ==
  ASSUME NEW d, NEW fs, InOrder(fs), CanScan(d, fs), Len(fs) # 0
  PROVE  LET n == Len(fs)
             f == fs[n]
         IN
         /\ fs \in Seq(FileInfo) /\ DOMAIN fs = 1 .. n
         /\ n \in Nat \ {0} /\ n \in 1 .. n
         /\ f \in FileInfo /\ f.file_id \in Nat
         /\ f.write_offset \in 1 .. FilePages
         /\ d[f.blob] \in [Page -> StoredCell]
         /\ FilledFiles(d, fs) => /\ FilledFile(d[f.blob], f)
                                 /\ Filled(d[f.blob], f.write_offset)
<1>1. /\ fs \in Seq(FileInfo) /\ Len(fs) \in Nat /\ DOMAIN fs = 1 .. Len(fs)
      /\ \A i \in 1 .. Len(fs) : fs[i] \in FileInfo
  BY FieldsOf DEF InOrder
<1>2. Len(fs) \in Nat \ {0} /\ Len(fs) \in 1 .. Len(fs)
  BY <1>1
<1>3. fs[Len(fs)] \in FileInfo
      /\ d[fs[Len(fs)].blob] \in [Page -> StoredCell]
  BY <1>1, <1>2 DEF CanScan
<1>4. fs[Len(fs)].file_id \in Nat /\ fs[Len(fs)].write_offset \in 1 .. FilePages
  BY <1>3 DEF FileInfo
<1>5. FilledFiles(d, fs) => FilledFile(d[fs[Len(fs)].blob], fs[Len(fs)])
  BY <1>2 DEF FilledFiles
<1> QED
  BY <1>1, <1>2, <1>3, <1>4, <1>5 DEF FilledFile

(* gs are the files fs, with one more record at the end of the last.        *)
OneRecordMore(d, fs, e, gs, r) ==
  LET f == fs[Len(fs)]
      g == gs[Len(gs)]
  IN
  /\ InOrder(fs) /\ CanScan(d, fs) /\ InOrder(gs) /\ CanScan(e, gs)
  /\ Len(fs) # 0 /\ Len(gs) = Len(fs)
  /\ \A i \in 1 .. Len(fs) - 1 : SameFile(d, fs[i], e, gs[i])
  /\ r \in StoredRecord /\ f.write_offset + r.pages <= FilePages
  /\ g.file_id = f.file_id /\ g.blob = f.blob
  /\ g.write_offset = f.write_offset + r.pages
  /\ g.size = f.write_offset + r.pages
  /\ e[g.blob] = AfterRecord(d[f.blob], f.write_offset, r)

ItemOf(fs, r) == [file |-> fs[Len(fs)].file_id,
                  offset |-> fs[Len(fs)].write_offset, rec |-> r]

LEMMA RecordIsFilled ==
  ASSUME NEW d, NEW fs, NEW e, NEW gs, NEW r, OneRecordMore(d, fs, e, gs, r),
         FilledFiles(d, fs)
  PROVE  /\ FilledFiles(e, gs)
         /\ Unbroken(e, gs) => Unbroken(d, fs)
<1> DEFINE n == Len(fs)
           f == fs[n]
           g == gs[n]
           wo == f.write_offset
           pages == d[f.blob]
<1>1. /\ Len(gs) = n /\ n \in Nat \ {0} /\ n \in 1 .. n /\ f \in FileInfo
      /\ DOMAIN fs = 1 .. n /\ DOMAIN gs = 1 .. n
      /\ pages \in [Page -> StoredCell] /\ Filled(pages, wo)
      /\ wo \in 1 .. FilePages
      /\ r \in StoredRecord /\ wo + r.pages <= FilePages
  <2>1. /\ InOrder(fs) /\ CanScan(d, fs) /\ Len(fs) # 0
        /\ InOrder(gs) /\ Len(gs) = Len(fs)
        /\ r \in StoredRecord /\ wo + r.pages <= FilePages
    BY DEF OneRecordMore
  <2>2. DOMAIN gs = 1 .. n
    BY <2>1, FieldsOf
  <2> QED
    BY <2>1, <2>2, LastFile
<1>2. /\ g.blob = f.blob /\ g.file_id = f.file_id
      /\ g.write_offset = wo + r.pages /\ g.size = wo + r.pages
      /\ e[g.blob] = AfterRecord(pages, wo, r)
      /\ \A i \in 1 .. n - 1 : SameFile(d, fs[i], e, gs[i])
  BY <1>1 DEF OneRecordMore
<1>3. r.pages \in Nat \ {0} /\ wo \in Nat \ {0}
  BY <1>1, RestartAssumption DEF StoredRecord
<1> HIDE DEF n, f, g, wo, pages
<1>4. FilledFile(e[g.blob], g)
  <2>1. Filled(e[g.blob], g.write_offset)
    BY <1>1, <1>2, FilledFurther
  <2>2. g.write_offset # 1
    BY <1>2, <1>3
  <2> QED
    BY <1>2, <2>1, <2>2 DEF FilledFile
<1>5. \A i \in 1 .. n : i \in 1 .. n - 1 \/ i = n
  BY <1>1
<1>6. FilledFiles(e, gs)
  <2>1. ASSUME NEW i \in 1 .. n - 1 PROVE FilledFile(e[gs[i].blob], gs[i])
    <3>1. SameFile(d, fs[i], e, gs[i]) /\ FilledFile(d[fs[i].blob], fs[i])
      <4>1. i \in 1 .. n
        BY <1>1
      <4> QED
        BY <1>2, <4>1 DEF FilledFiles, n
    <3> QED
      BY <3>1 DEF SameFile, FilledFile
  <2> QED
    BY <1>1, <1>4, <1>5, <2>1 DEF FilledFiles, g
<1>7. ASSUME Unbroken(e, gs) PROVE Unbroken(d, fs)
  <2>1. ASSUME NEW i \in 1 .. n - 1, NEW p \in Page, d[fs[i].blob][p].part > 1
        PROVE  ~ChunkStart(fs[i].file_id, p)
    <3>1. SameFile(d, fs[i], e, gs[i]) /\ i \in DOMAIN gs
      BY <1>1, <1>2
    <3> QED
      BY <1>7, <2>1, <3>1 DEF SameFile, Unbroken
  <2>2. ASSUME NEW p \in Page, pages[p].part > 1
        PROVE  ~ChunkStart(f.file_id, p)
    <3>1. p < wo
      <4>1. p \in Nat
        BY RestartAssumption DEF Page
      <4>2. p >= wo => pages[p] = NoData
        BY <1>1 DEF Filled
      <4> QED
        BY <1>3, <2>2, <4>1, <4>2 DEF NoData
    <3>2. e[g.blob][p] = pages[p]
      BY <1>2, <1>3, <3>1 DEF AfterRecord, Page
    <3>3. e[g.blob][p].part > 1 => ~ChunkStart(g.file_id, p)
      BY <1>1, <1>7 DEF Unbroken, g
    <3> QED
      BY <1>2, <2>2, <3>2, <3>3
  <2> QED
    BY <1>1, <1>5, <2>1, <2>2 DEF Unbroken, f, pages
<1> QED
  BY <1>6, <1>7

LEMMA RecordIsFound ==
  ASSUME NEW d, NEW fs, NEW e, NEW gs, NEW r, OneRecordMore(d, fs, e, gs, r),
         FilledFiles(d, fs), Unbroken(e, gs)
  PROVE  /\ ItemOf(fs, r) \in Found
         /\ Scan(e, gs) = Cat(Scan(d, fs), <<ItemOf(fs, r)>>)
<1> DEFINE n == Len(fs)
           f == fs[n]
           g == gs[n]
           wo == f.write_offset
           pages == d[f.blob]
           x == ItemOf(fs, r)
<1>0. FilledFiles(e, gs) /\ Unbroken(d, fs)
  BY RecordIsFilled
<1>1. /\ Len(gs) = n /\ n \in Nat \ {0} /\ n \in 1 .. n
      /\ f \in FileInfo /\ g \in FileInfo
      /\ fs \in Seq(FileInfo) /\ gs \in Seq(FileInfo)
      /\ DOMAIN fs = 1 .. n /\ DOMAIN gs = 1 .. n
      /\ pages \in [Page -> StoredCell] /\ Filled(pages, wo)
      /\ FilledFile(pages, f) /\ FilledFile(e[g.blob], g)
      /\ e[g.blob] \in [Page -> StoredCell]
      /\ wo \in 1 .. FilePages /\ f.file_id \in Nat
      /\ r \in StoredRecord /\ wo + r.pages <= FilePages
  <2>1. /\ InOrder(fs) /\ CanScan(d, fs) /\ Len(fs) # 0
        /\ InOrder(gs) /\ CanScan(e, gs) /\ Len(gs) = Len(fs)
        /\ r \in StoredRecord /\ wo + r.pages <= FilePages
    BY DEF OneRecordMore
  <2>2. /\ gs \in Seq(FileInfo) /\ DOMAIN gs = 1 .. n /\ g \in FileInfo
        /\ FilledFile(e[g.blob], g) /\ e[g.blob] \in [Page -> StoredCell]
    BY <1>0, <2>1, LastFile
  <2> QED
    BY <1>0, <2>1, <2>2, LastFile
<1>2. /\ g.blob = f.blob /\ g.file_id = f.file_id
      /\ g.write_offset = wo + r.pages /\ g.size = wo + r.pages
      /\ e[g.blob] = AfterRecord(pages, wo, r)
      /\ \A i \in 1 .. n - 1 : SameFile(d, fs[i], e, gs[i])
  BY <1>1 DEF OneRecordMore
<1>3. x \in Found
  BY <1>1, RestartAssumption DEF ItemOf, Found
<1>4. UnbrokenFile(pages, f.file_id) /\ UnbrokenFile(e[g.blob], g.file_id)
  BY <1>0, <1>1 DEF Unbroken, UnbrokenFile
<1>5. ScanFile(pages, f) = Items(f.file_id, ScanChunk(pages, 1, wo))
  BY <1>1, <1>4, ScanFileIs
<1>6. ScanFile(e[g.blob], g) =
        Items(g.file_id, ScanChunk(e[g.blob], 1, g.write_offset))
  BY <1>1, <1>4, ScanFileIs
<1> DEFINE y == [offset |-> wo, rec |-> r]
           w == ScanChunk(pages, 1, wo)
           R == [offset : Nat, rec : StoredRecord]
<1>7. ScanChunk(e[g.blob], 1, g.write_offset) = Cat(w, <<y>>)
  BY <1>1, <1>2, ScanFurther
<1>8. w \in Seq(R) /\ y \in R
  <2>1. 1 \in Nat /\ wo \in Nat /\ 1 <= wo /\ wo <= FilePages
    BY <1>1, RestartAssumption
  <2>2. w \in Seq(ChunkItem(pages))
    BY <1>1, <2>1, ScanChunkTyped
  <2>3. ChunkItem(pages) \subseteq R
    BY DEF ChunkItem
  <2>4. y \in R
    BY <1>1, <2>1
  <2> HIDE DEF w, R, y
  <2> QED
    BY <2>2, <2>3, <2>4, SeqMonotonic
<1>9. x = [file |-> f.file_id, offset |-> y.offset, rec |-> y.rec]
  BY DEF ItemOf
<1>10. Items(f.file_id, Cat(w, <<y>>)) = Cat(Items(f.file_id, w), <<x>>)
  <2> HIDE DEF w, R, y, x, f
  <2> QED
    BY <1>8, <1>9, ItemsLonger
<1>11. ScanFile(e[g.blob], g) = Cat(ScanFile(pages, f), <<x>>)
  BY <1>2, <1>5, <1>6, <1>7, <1>10
<1>12. CanScan(d, fs) /\ CanScan(e, gs) /\ n # 0
  BY DEF OneRecordMore
<1> HIDE DEF x
<1>13. Scan(e, gs) = Cat(Scan(d, fs), <<x>>)
  BY <1>1, <1>2, <1>3, <1>11, <1>12, ScanLongerFile, SMTT(40)
<1> QED
  BY <1>3, <1>13 DEF x

(* What the record changes is the value of its key.                         *)
LEMMA RecordIsEntered ==
  ASSUME NEW d, NEW fs, NEW e, NEW gs, NEW r, OneRecordMore(d, fs, e, gs, r),
         FilledFiles(d, fs), Unbroken(e, gs),
         NEW s \in Nat, SeqsUpTo(d, fs, s), r.seq = s + 1
  PROVE  /\ RecoveredIndex(e, gs) =
              EnterItem(RecoveredIndex(d, fs), ItemOf(fs, r))
         /\ SeqsUpTo(e, gs, s + 1)
         /\ \A k \in Keys : k # r.key => ValueIn(e, gs, k) = ValueIn(d, fs, k)
         /\ r.kind = "put" => ValueIn(e, gs, r.key) = r.id
         /\ r.kind = "delete" => ValueIn(e, gs, r.key) = Absent
<1> DEFINE n == Len(fs)
           f == fs[n]
           wo == f.write_offset
           pages == d[f.blob]
           x == ItemOf(fs, r)
           old == RecoveredIndex(d, fs)
           new == RecoveredIndex(e, gs)
           scan == Scan(d, fs)
           m == Len(scan)
<1>1. /\ InOrder(fs) /\ CanScan(d, fs) /\ Len(fs) # 0 /\ Len(gs) = n
      /\ r \in StoredRecord /\ wo + r.pages <= FilePages
      /\ gs[n].blob = f.blob
      /\ e[f.blob] = AfterRecord(pages, wo, r)
      /\ \A i \in 1 .. n - 1 : SameFile(d, fs[i], e, gs[i])
  BY DEF OneRecordMore
<1>2. /\ n \in Nat \ {0} /\ n \in 1 .. n /\ wo \in 1 .. FilePages
      /\ f.file_id = n - 1
      /\ pages \in [Page -> StoredCell] /\ Filled(pages, wo)
  BY <1>1, LastFile DEF InOrder
<1>3. /\ r.key \in Keys /\ r.kind \in {"put", "delete"} /\ r.seq \in Nat \ {0}
      /\ r.pages \in Nat \ {0}
  BY <1>1 DEF StoredRecord
<1>4. x \in Found /\ Scan(e, gs) = Cat(scan, <<x>>)
  BY RecordIsFound
<1>5. /\ x.rec = r /\ x.file = n - 1 /\ x.offset = wo
  BY <1>2 DEF ItemOf
<1>6. /\ scan \in Seq(Found) /\ old \in Index
      /\ \A k \in Keys : old[k] # NoEntry => EntryFound(d, fs, k, old[k])
  BY <1>1, EntriesFound
<1> HIDE DEF x, scan, old, new
<1>7. /\ m \in Nat /\ DOMAIN scan = 1 .. m
      /\ DOMAIN Cat(scan, <<x>>) = 1 .. m + 1 /\ Len(Cat(scan, <<x>>)) = m + 1
      /\ Cat(scan, <<x>>)[m + 1] = x
      /\ \A i \in 1 .. m : Cat(scan, <<x>>)[i] = scan[i]
  <2>1. <<x>> \in Seq(Found) /\ Len(<<x>>) = 1
    BY <1>4
  <2>2. /\ Len(scan \o <<x>>) = m + 1 /\ scan \o <<x>> \in Seq(Found)
        /\ \A i \in 1 .. m + 1 :
             (scan \o <<x>>)[i] = IF i <= m THEN scan[i] ELSE <<x>>[i - m]
    BY <1>6, <2>1, ConcatProperties
  <2> QED
    BY <1>6, <2>1, <2>2 DEF Cat
<1>8. IndexAfter(Cat(scan, <<x>>)) = EnterItem(IndexAfter(scan), x)
  <2> HIDE DEF m
  <2> QED
    BY <1>7, IndexAfterOneMore
<1>9. new = EnterItem(old, x)
  BY <1>4, <1>8, RecoveredIs DEF new, old, scan
<1>10. Entered(old, x, new)
  BY <1>4, <1>6, <1>9, EnterItemIs
<1>11. SeqsUpTo(e, gs, s + 1)
  <2>1. ASSUME NEW i \in 1 .. m + 1
        PROVE  Cat(scan, <<x>>)[i].rec.seq <= s + 1
    <3>1. CASE i = m + 1
      <4>1. Cat(scan, <<x>>)[i] = x
        BY <1>7, <3>1
      <4> QED
        BY <1>5, <4>1
    <3>2. CASE i # m + 1
      <4>1. i \in 1 .. m
        BY <1>7, <3>2
      <4>2. scan[i].rec.seq <= s
        BY <4>1 DEF SeqsUpTo, scan
      <4>3. scan[i].rec.seq \in Nat
        <5>1. scan[i] \in Found
          BY <1>6, <4>1
        <5> QED
          BY <5>1 DEF Found, StoredRecord
      <4>4. Cat(scan, <<x>>)[i] = scan[i]
        BY <1>7, <4>1, SMTT(40)
      <4> QED
        BY <4>2, <4>3, <4>4
    <3> QED
      BY <3>1, <3>2
  <2> HIDE DEF m
  <2> QED
    BY <1>4, <1>7, <2>1 DEF SeqsUpTo
<1>12. ASSUME NEW k \in Keys, k # r.key
       PROVE  ValueIn(e, gs, k) = ValueIn(d, fs, k)
  <2> DEFINE a == old[k]
  <2>1. new[k] = a
    BY <1>5, <1>10, <1>12 DEF Entered
  <2>2. a # NoEntry => EntryFound(d, fs, k, a)
    BY <1>6
  <2> HIDE DEF a
  <2>3. ASSUME a # NoEntry
        PROVE  e[gs[a.file + 1].blob][a.offset] = d[fs[a.file + 1].blob][a.offset]
    <3> DEFINE j == a.file + 1
    <3>1. /\ j \in 1 .. n /\ a.offset \in Page
          /\ d[fs[j].blob][a.offset].part = 1
      BY <2>2, <2>3 DEF EntryFound
    <3> HIDE DEF j
    <3>2. CASE j # n
      <4>1. j \in 1 .. n - 1
        BY <1>2, <3>1, <3>2
      <4> QED
        BY <1>1, <4>1 DEF SameFile, j
    <3>3. CASE j = n
      <4>1. pages[a.offset].part = 1
        BY <3>1, <3>3, SMTT(40)
      <4>2. ~(a.offset >= wo)
        BY <1>2, <3>1, <4>1 DEF Filled, NoData
      <4>3. a.offset \notin wo .. wo + r.pages - 1
        BY <4>2
      <4>4. AfterRecord(pages, wo, r)[a.offset] = pages[a.offset]
        BY <3>1, <4>3 DEF AfterRecord
      <4> QED
        BY <1>1, <3>3, <4>4 DEF j
    <3> QED
      BY <3>2, <3>3
  <2> QED
    BY <2>1, <2>3 DEF ValueIn, new, old, a
<1>13. ASSUME r.kind = "put" PROVE ValueIn(e, gs, r.key) = r.id
  <2> DEFINE a == old[r.key]
             b == [file |-> x.file, offset |-> x.offset, seq |-> x.rec.seq,
                   deleted |-> FALSE]
  <2>1. new[r.key] = IF a # NoEntry /\ r.seq <= a.seq THEN a ELSE b
    BY <1>5, <1>10, <1>13 DEF Entered
  <2>2. a # NoEntry => a.seq <= s /\ a.seq \in Nat
    <3>1. SUFFICES ASSUME a # NoEntry PROVE a.seq <= s /\ a.seq \in Nat
      OBVIOUS
    <3>2. EntryFound(d, fs, r.key, a)
      BY <1>3, <1>6, <3>1, SMTT(40)
    <3>3. PICK i \in 1 .. m : a.seq = scan[i].rec.seq
      BY <3>2, SMTT(40) DEF EntryFound, scan
    <3>4. a.seq \in Nat
      BY <3>2 DEF EntryFound, Entry
    <3> QED
      BY <3>3, <3>4 DEF SeqsUpTo, scan
  <2> HIDE DEF a
  <2>3. new[r.key] = b
    BY <2>1, <2>2
  <2>4. b # NoEntry /\ ~b.deleted /\ b.file = n - 1 /\ b.offset = wo
    <3>1. b.seq = s + 1 /\ NoEntry.seq = 0
      BY <1>5 DEF NoEntry
    <3> QED
      BY <1>5, <3>1
  <2>5. (n - 1) + 1 = n
    BY <1>2
  <2>6. AfterRecord(pages, wo, r)[wo].rec = r
    <3>1. wo \in Page /\ wo \in wo .. wo + r.pages - 1
      BY <1>1, <1>2, <1>3, RestartAssumption, SMTT(40) DEF Page
    <3> QED
      BY <3>1 DEF AfterRecord
  <2> HIDE DEF b
  <2>7. ValueIn(e, gs, r.key) = e[gs[b.file + 1].blob][b.offset].rec.id
    BY <2>3, <2>4 DEF ValueIn, new
  <2> QED
    BY <1>1, <2>4, <2>5, <2>6, <2>7
<1>14. ASSUME r.kind = "delete" PROVE ValueIn(e, gs, r.key) = Absent
  <2>1. IF old[r.key] = NoEntry THEN new[r.key] = NoEntry
        ELSE Erased(old[r.key], new[r.key])
    BY <1>5, <1>10, <1>14 DEF Entered
  <2> QED
    BY <2>1 DEF ValueIn, new, Erased
<1> QED
  BY <1>9, <1>11, <1>12, <1>13, <1>14 DEF new, old, x

-----------------------------------------------------------------------------
(* The file that is written is the last one *)

(* The active file is the last that the superblock maps: there and in       *)
(* memory, and so in any superblock that a close writes.                    *)
ActiveIsLast ==
  /\ \A sb \in {primary, backup} :
       sb # Torn => sb.active_file_id = Len(sb.file_mappings) - 1
  /\ state = "ready" => active_file_id = Len(superblock.file_mappings) - 1
  /\ InSession /\ state # "ready" =>
       superblock.active_file_id = Len(superblock.file_mappings) - 1

NewIsEmpty == state = "ready" /\ Allocates => files[Len(files)].write_offset = 1

AInv == ActiveIsLast /\ NewIsEmpty

LEMMA InitAInv == Init => AInv
<1> SUFFICES ASSUME Init PROVE AInv
  OBVIOUS
<1>1. /\ superblock.active_file_id = 0 /\ Len(superblock.file_mappings) = 1
      /\ primary = superblock /\ backup = superblock
      /\ state = "ready" /\ active_file_id = 0
      /\ call = NoCall
  BY DEF Init
<1>2. ~Allocates
  BY <1>1 DEF Allocates, NoCall
<1>3. ActiveIsLast
  <2>1. superblock.active_file_id = Len(superblock.file_mappings) - 1
    BY <1>1, 1 - 1 = 0
  <2> QED
    BY <1>1, <2>1 DEF ActiveIsLast
<1> QED
  BY <1>2, <1>3 DEF AInv, NewIsEmpty

(* A step of a call that leaves the superblock alone.                       *)
LEMMA ReadyKeepsActive ==
  ASSUME AInv, state = "ready", state' = "ready",
         UNCHANGED <<primary, backup, superblock, active_file_id>>,
         Allocates' => files'[Len(files')].write_offset = 1
  PROVE  AInv'
<1>1. ActiveIsLast'
  BY DEF AInv, ActiveIsLast
<1> QED
  BY <1>1 DEF AInv, NewIsEmpty

LEMMA StepsKeepActive ==
  ASSUME BInv, AInv, Calls \/ Steps
  PROVE  AInv'
<1>1. CASE Calls
  <2>1. PICK k \in Keys, kind \in {"put", "delete"}, n \in Nat \ {0} :
          Begin([id |-> writes + 1, key |-> k, kind |-> kind, pages |-> n])
    BY <1>1, RestartAssumption DEF Calls, Put, Del
  <2>2. /\ state = "ready" /\ state' = "ready" /\ call'.at \in {"blob", "write"}
        /\ UNCHANGED <<primary, backup, superblock, active_file_id>>
    BY <2>1 DEF Begin, deviceVars
  <2>3. ~Allocates'
    BY <2>2 DEF Allocates
  <2> QED
    BY <2>2, <2>3, ReadyKeepsActive
<1>2. CASE BlobAllocated
  <2>1. /\ state = "ready" /\ state' = "ready"
        /\ \E b : files' = Append(files, NewFile(next_file_id, b))
        /\ UNCHANGED <<primary, backup, superblock, active_file_id>>
    BY <1>2 DEF BlobAllocated, Waits
  <2>2. PICK f : files' = Append(files, f) /\ f.write_offset = 1
    BY <2>1 DEF NewFile
  <2>3. files \in Seq(FileInfo)
    BY <2>1, InReady DEF FilesMapped, InOrder
  <2>4. files'[Len(files')] = f
    BY <2>2, <2>3
  <2> QED
    BY <2>1, <2>2, <2>4, ReadyKeepsActive
<1>3. CASE LogWritten
  <2>1. /\ Waits("log") /\ call' = [call EXCEPT !.at = "open"]
        /\ UNCHANGED <<primary, backup, state, superblock, active_file_id, files>>
    BY <1>3 DEF LogWritten, fileVars
  <2>2. Allocates /\ state = "ready"
    BY <2>1 DEF Allocates, Waits
  <2> QED
    BY <2>1, <2>2, ReadyKeepsActive DEF AInv, NewIsEmpty
<1>4. CASE BlobNotAllocated \/ LogNotWritten \/ FileNotOpened \/ Written
           \/ NotWritten
  <2>1. /\ state = "ready" /\ state' = "ready" /\ call' = NoCall
        /\ UNCHANGED <<primary, backup, superblock, active_file_id>>
    BY <1>4 DEF BlobNotAllocated, LogNotWritten, FileNotOpened, Written,
         NotWritten, Waits, deviceVars, fileVars
  <2>2. ~Allocates'
    BY <2>1 DEF Allocates, NoCall
  <2> QED
    BY <2>1, <2>2, ReadyKeepsActive
<1>5. CASE FileOpened
  <2>1. PICK f : f = files[Len(files)]
    OBVIOUS
  <2>2. PICK m : m = superblock.file_mappings
    OBVIOUS
  <2>3. /\ Waits("open")
        /\ superblock' = [superblock EXCEPT !.file_mappings =
                            UpdateMapping(m, f)]
        /\ active_file_id' = f.file_id
        /\ call' = [call EXCEPT !.at = "write"]
        /\ UNCHANGED <<primary, backup, state>>
    BY <1>5, <2>1, <2>2 DEF FileOpened, deviceVars
  <2>4. state = "ready" /\ Allocates /\ FileTypes /\ FilesMapped
        /\ IsSound(superblock)
    BY <2>3, InReady DEF Waits, Allocates, BInv
  <2>5. ~Allocates'
    BY <2>3, <2>4, CallTypes DEF Allocates
  <2>6. /\ InOrder(m) /\ InOrder(files) /\ Len(files) = Len(m) + 1
        /\ superblock \in Superblock
    BY <2>2, <2>4 DEF FilesMapped, IsSound
  <2>7. Len(m) \in Nat /\ m \in Seq(FileInfo)
    BY <2>6 DEF InOrder
  <2>8. f.file_id = Len(m)
    <3>1. Len(files) \in 1 .. Len(files)
      BY <2>6, <2>7
    <3> QED
      BY <2>1, <2>6, <2>7, <3>1 DEF InOrder
  <2>9. UpdateMapping(m, f) = Append(m, f)
    BY <2>6, <2>8, MappingAdded
  <2>10. superblock'.file_mappings = Append(m, f)
    BY <2>3, <2>6, <2>9 DEF Superblock
  <2>11. Len(superblock'.file_mappings) = Len(m) + 1
    BY <2>7, <2>10
  <2>12. ActiveIsLast'
    BY <2>3, <2>4, <2>7, <2>8, <2>11 DEF AInv, ActiveIsLast
  <2> QED
    BY <2>5, <2>12 DEF AInv, NewIsEmpty
<1> QED
  BY <1>1, <1>2, <1>3, <1>4, <1>5 DEF Steps

LEMMA CloseKeepsActive ==
  ASSUME BInv, AInv, Close \/ Crash
  PROVE  AInv'
<1>1. CASE CloseBegin
  <2>1. PICK m : m = superblock.file_mappings
    OBVIOUS
  <2>2. /\ state = "ready" /\ call = NoCall /\ state' = "backup"
        /\ superblock' = [file_mappings |-> UpdateMappings(m, files),
                          active_file_id |-> active_file_id,
                          alloc_log_sequence |-> log.sequence]
        /\ UNCHANGED <<primary, backup>>
    BY <1>1, <2>1 DEF CloseBegin, deviceVars
  <2>3. FilesMapped /\ IsSound(superblock) /\ ~Allocates
    BY <2>2, InReady DEF Allocates, NoCall
  <2>4. InOrder(m) /\ InOrder(files) /\ Len(m) = Len(files)
    BY <2>1, <2>3 DEF FilesMapped, IsSound
  <2>5. UpdateMappings(m, files) = files
    BY <2>4, MappingsBecomeFiles
  <2>6. superblock'.active_file_id = Len(superblock'.file_mappings) - 1
    BY <2>1, <2>2, <2>4, <2>5 DEF AInv, ActiveIsLast
  <2> QED
    BY <2>2, <2>6 DEF AInv, ActiveIsLast, NewIsEmpty
<1>2. CASE state' = "closed" /\ {primary', backup'} \subseteq {primary, backup, Torn}
  BY <1>2 DEF AInv, ActiveIsLast, NewIsEmpty, InSession
<1>3. CASE /\ state \in {"backup", "primary"}
           /\ state' = "closed"
           /\ {primary', backup'} \subseteq {primary, backup, Torn, superblock}
  <2>1. superblock.active_file_id = Len(superblock.file_mappings) - 1
    BY <1>3 DEF AInv, ActiveIsLast, InSession
  <2> QED
    BY <1>3, <2>1 DEF AInv, ActiveIsLast, NewIsEmpty, InSession
<1>4. CASE WriteBackup
  <2>1. CASE Forget
    <3>1. /\ state = "backup" /\ backup' \in CutShort(backup) /\ primary' = primary
          /\ state' = "closed"
      BY <1>4, <2>1 DEF WriteBackup, CutShort, Forget
    <3> QED
      BY <1>3, <3>1 DEF CutShort
  <2>2. CASE ~Forget
    <3>1. /\ state = "backup" /\ backup' = superblock /\ state' = "primary"
          /\ UNCHANGED <<superblock, primary>>
      BY <1>4, <2>2 DEF WriteBackup
    <3>2. superblock.active_file_id = Len(superblock.file_mappings) - 1
      BY <3>1 DEF AInv, ActiveIsLast, InSession
    <3> QED
      BY <3>1, <3>2 DEF AInv, ActiveIsLast, NewIsEmpty
  <2> QED
    BY <2>1, <2>2
<1>5. CASE WritePrimary
  <2>1. /\ state = "primary" /\ primary' \in CutShort(primary) /\ backup' = backup
        /\ state' = "closed"
    BY <1>5 DEF WritePrimary, CutShort, Forget
  <2> QED
    BY <1>3, <2>1 DEF CutShort
<1>6. CASE Crash
  <2>1. /\ state' = "closed"
        /\ \/ UNCHANGED <<primary, backup>>
           \/ state = "backup" /\ backup' \in CutShort(backup) /\ UNCHANGED primary
           \/ state = "primary" /\ primary' \in CutShort(primary) /\ UNCHANGED backup
    BY <1>6 DEF Crash, CrashWith, Forget
  <2> QED
    BY <1>2, <1>3, <2>1 DEF CutShort
<1> QED
  BY <1>1, <1>4, <1>5, <1>6 DEF Close

LEMMA OpenKeepsActive ==
  ASSUME BInv, AInv, Open
  PROVE  AInv'
<1>1. CASE OpenFromPrimary \/ OpenFromBackup
  <2>1. PICK sb \in {primary, backup} : sb # Torn /\ superblock' = sb
    BY <1>1 DEF OpenFromPrimary, OpenFromBackup, Load
  <2>2. state' = "log" /\ UNCHANGED <<primary, backup>>
    BY <1>1 DEF OpenFromPrimary, OpenFromBackup, Load, deviceVars
  <2> QED
    BY <2>1, <2>2 DEF AInv, ActiveIsLast, NewIsEmpty
<1>2. CASE OpenFailed
  BY <1>2 DEF OpenFailed, deviceVars, AInv, ActiveIsLast, NewIsEmpty, InSession
<1>3. CASE DeleteLogged \/ RebuildFileInfo \/ ReleaseDangling
  <2>1. /\ state \in {"log", "dangling"} /\ state' \in {"log", "dangling", "error"}
        /\ UNCHANGED <<primary, backup, superblock>>
    BY <1>3 DEF DeleteLogged, RebuildFileInfo, ReleaseDangling, deviceVars
  <2> QED
    BY <2>1 DEF AInv, ActiveIsLast, NewIsEmpty, InSession
<1>4. CASE Recover
  <2>1. /\ state = "dangling" /\ state' = "ready" /\ call' = call
        /\ active_file_id' = superblock.active_file_id
        /\ UNCHANGED <<primary, backup, superblock>>
    BY <1>4 DEF Recover, deviceVars
  <2>2. ~Allocates'
    BY <2>1, InOpen DEF Allocates, NoCall
  <2> QED
    BY <2>1, <2>2 DEF AInv, ActiveIsLast, NewIsEmpty, InSession
<1> QED
  BY <1>1, <1>2, <1>3, <1>4 DEF Open

LEMMA NextAInv == BInv /\ AInv /\ [Next]_vars => AInv'
<1> SUFFICES ASSUME BInv, AInv, [Next]_vars PROVE AInv'
  OBVIOUS
<1>1. CASE UNCHANGED vars
  BY <1>1 DEF vars, deviceVars, fileVars, AInv, ActiveIsLast, NewIsEmpty,
              Allocates, InSession
<1> QED
  BY <1>1, StepsKeepActive, CloseKeepsActive, OpenKeepsActive DEF Next

-----------------------------------------------------------------------------
(* What is acknowledged is what a recovery would find *)

Clean == crashes = 0 /\ cuts = 0 /\ faults = 0

(* The files that the next recovery scans, as far as they are known: those  *)
(* of the session, of the superblock that it writes, or of the one there.   *)
InForce == IF state = "ready" THEN files
           ELSE IF state \in {"backup", "primary"}
           THEN superblock.file_mappings ELSE Loaded.file_mappings

(* The index in memory is the one a recovery would make, and the value that *)
(* a recovery would find for a key is one that a get may return.            *)
Kept ==
  /\ state = "ready" => /\ mem_index = RecoveredIndex(disk, files)
                        /\ SeqsUpTo(disk, files, global_sequence)
  /\ \A k \in Keys : ValueIn(disk, InForce, k) \in may[k]

KInv == Clean => /\ FilledFiles(disk, InForce)
                 /\ Unbroken(disk, InForce) => Kept

(* The other invariants, and what they say of these files.                  *)
Others == IInv /\ BInv /\ TInv /\ AInv

Scannable(d, fs) ==
  /\ InOrder(fs) /\ CanScan(d, fs)
  /\ \A i \in 1 .. Len(fs) : fs[i].blob \in DOMAIN d

LEMMA ScannableIs ==
  ASSUME TInv, NEW fs, InOrder(fs),
         \A i \in 1 .. Len(fs) : fs[i].blob \in DOMAIN disk
  PROVE  Scannable(disk, fs)
<1>1. \A i \in 1 .. Len(fs) : fs[i] \in FileInfo
  BY FieldsOf
<1> QED
  BY <1>1 DEF Scannable, CanScan, TInv, DiskTyped, FileInfo

LEMMA SoundIsScannable ==
  ASSUME TInv, NEW sb, IsSound(sb), Mapped(sb) \subseteq DOMAIN disk
  PROVE  Scannable(disk, sb.file_mappings)
<1>1. InOrder(sb.file_mappings)
  BY DEF IsSound
<1>2. \A i \in 1 .. Len(sb.file_mappings) : sb.file_mappings[i].blob \in DOMAIN disk
  BY MappedOf
<1> QED
  BY <1>1, <1>2, ScannableIs

ForceScannable == Scannable(disk, InForce)

LEMMA ForceIs == Others /\ Clean => ForceScannable
<1> SUFFICES ASSUME Others, Clean PROVE ForceScannable
  OBVIOUS
<1>1. BInv /\ TInv
  BY DEF Others
<1>2. primary # Torn /\ Loaded = primary /\ Loaded # Torn
  BY DEF Others, Clean, IInv, EachTornCopyCostACut, Loaded
<1>3. IsSound(Loaded) /\ Mapped(Loaded) \subseteq DOMAIN disk
  BY <1>1, <1>2 DEF BInv, CopiesSound, LoadedIsSafe, IsSafe
<1>4. CASE state = "ready"
  <2>1. InOrder(files) /\ \A i \in 1 .. Len(files) : files[i].blob \in DOMAIN disk
    BY <1>1, <1>4, InReady DEF FilesMapped
  <2> QED
    BY <1>1, <1>4, <2>1, ScannableIs DEF ForceScannable, InForce
<1>5. CASE state \in {"backup", "primary"}
  <2>1. IsSound(superblock) /\ Mapped(superblock) \subseteq DOMAIN disk
    BY <1>1, <1>5, InClose DEF IsSafe
  <2> QED
    BY <1>1, <1>5, <2>1, SoundIsScannable DEF ForceScannable, InForce
<1>6. CASE state \notin {"ready", "backup", "primary"}
  BY <1>1, <1>3, <1>6, SoundIsScannable DEF ForceScannable, InForce
<1> QED
  BY <1>4, <1>5, <1>6

(* A step between two states where nothing was cut, torn or lost.           *)
CleanStep ==
  /\ Others /\ Others' /\ Clean /\ Clean'
  /\ ForceScannable /\ ForceScannable'
  /\ FilledFiles(disk, InForce)
  /\ Unbroken(disk, InForce) => Kept

(* The session goes on with the same index, or is not ready after it.       *)
IndexGoesOn ==
  state' = "ready" =>
    /\ state = "ready" /\ mem_index' = mem_index
    /\ global_sequence' \in {global_sequence, global_sequence + 1}

(* A value that a get may return stays one.                                 *)
MayGrows == \A k \in Keys : may[k] \subseteq may'[k]

LEMMA SeqsHigher ==
  ASSUME NEW d, NEW fs, Scannable(d, fs), NEW s \in Nat, NEW t \in Nat, s <= t,
         SeqsUpTo(d, fs, s)
  PROVE  SeqsUpTo(d, fs, t)
<1>1. Scan(d, fs) \in Seq(Found)
  BY EntriesFound DEF Scannable
<1>2. ASSUME NEW i \in 1 .. Len(Scan(d, fs))
      PROVE  Scan(d, fs)[i].rec.seq <= t
  <2>1. Scan(d, fs)[i] \in Found
    BY <1>1
  <2>2. Scan(d, fs)[i].rec.seq \in Nat
    BY <2>1 DEF Found, StoredRecord
  <2> QED
    BY <2>2 DEF SeqsUpTo
<1> QED
  BY <1>2 DEF SeqsUpTo

LEMMA SameStep ==
  ASSUME CleanStep, SameToRecovery(disk, InForce, disk', InForce'),
         IndexGoesOn, MayGrows
  PROVE  KInv'
<1>1. /\ FilledFiles(disk', InForce')
      /\ Unbroken(disk', InForce') => Unbroken(disk, InForce)
      /\ Scan(disk', InForce') = Scan(disk, InForce)
      /\ \A k \in Keys : ValueIn(disk', InForce', k) = ValueIn(disk, InForce, k)
  BY DEF SameToRecovery
<1>2. ASSUME Unbroken(disk', InForce') PROVE Kept'
  <2>1. Kept
    BY <1>1, <1>2 DEF CleanStep
  <2>2. \A k \in Keys : ValueIn(disk', InForce', k) \in may'[k]
    BY <1>1, <2>1 DEF Kept, MayGrows
  <2>3. ASSUME state' = "ready"
        PROVE  /\ mem_index' = RecoveredIndex(disk', files')
               /\ SeqsUpTo(disk', files', global_sequence')
    <3>1. /\ state = "ready" /\ mem_index' = mem_index
          /\ global_sequence' \in {global_sequence, global_sequence + 1}
          /\ InForce = files /\ InForce' = files'
      BY <2>3 DEF IndexGoesOn, InForce
    <3>2. mem_index = RecoveredIndex(disk, files)
          /\ SeqsUpTo(disk, files, global_sequence)
      BY <2>1, <3>1 DEF Kept
    <3>3. RecoveredIndex(disk', files') = RecoveredIndex(disk, files)
      BY <1>1, <3>1, RecoveredIs
    <3>4. global_sequence \in Nat /\ global_sequence' \in Nat
          /\ global_sequence <= global_sequence'
      BY <3>1 DEF CleanStep, Others, TInv, IndexTyped
    <3>5. SeqsUpTo(disk, files, global_sequence')
      BY <3>1, <3>2, <3>4, SeqsHigher DEF CleanStep, ForceScannable
    <3>6. SeqsUpTo(disk', files', global_sequence')
      BY <1>1, <3>1, <3>5 DEF SeqsUpTo
    <3> QED
      BY <3>1, <3>2, <3>3, <3>6
  <2> QED
    BY <2>2, <2>3 DEF Kept
<1> QED
  BY <1>1, <1>2 DEF KInv

(* The files in force hold what they held.                                  *)
LEMMA SameFilesStep ==
  ASSUME CleanStep, Len(InForce') = Len(InForce),
         \A i \in 1 .. Len(InForce) :
           SameFile(disk, InForce[i], disk', InForce'[i]),
         IndexGoesOn, MayGrows
  PROVE  KInv'
<1>1. /\ InOrder(InForce) /\ CanScan(disk, InForce) /\ InOrder(InForce')
      /\ FilledFiles(disk, InForce)
  BY DEF CleanStep, ForceScannable, Scannable
<1>2. SameToRecovery(disk, InForce, disk', InForce')
  BY <1>1, SameFilesToRecovery
<1> QED
  BY <1>2, SameStep

LEMMA QuietStep ==
  ASSUME CleanStep, UNCHANGED <<disk, InForce, may>>, IndexGoesOn
  PROVE  KInv'
<1>1. \A i \in 1 .. Len(InForce) : SameFile(disk, InForce[i], disk', InForce'[i])
  BY DEF SameFile
<1>2. MayGrows
  BY DEF MayGrows
<1> QED
  BY <1>1, <1>2, SameFilesStep

(* A call seals the active file, which changes nothing that is scanned.     *)
LEMMA BeginKept ==
  ASSUME CleanStep, NEW k \in Keys, NEW kind \in {"put", "delete"},
         NEW n \in Nat \ {0},
         Begin([id |-> writes + 1, key |-> k, kind |-> kind, pages |-> n])
  PROVE  KInv'
<1> DEFINE r == [id |-> writes + 1, key |-> k, kind |-> kind, pages |-> n]
<1>1. /\ state = "ready" /\ state' = "ready" /\ call = NoCall
      /\ files' = [files EXCEPT ![Active].state = "sealed"] \/ files' = files
      /\ may' = [may EXCEPT ![k] = @ \cup {NewValue(r)}]
      /\ UNCHANGED <<disk, mem_index, global_sequence>>
  BY DEF Begin, deviceVars, indexVars
<1>2. InForce = files /\ InForce' = files'
  BY <1>1 DEF InForce
<1>3. InOrder(files) /\ files \in Seq(FileInfo)
  BY <1>2 DEF CleanStep, ForceScannable, Scannable, InOrder
<1>4. /\ Len(files') = Len(files)
      /\ \A i \in 1 .. Len(files) :
           /\ files'[i].file_id = files[i].file_id
           /\ files'[i].blob = files[i].blob
           /\ files'[i].write_offset = files[i].write_offset
           /\ files'[i].size = files[i].size
  <2>1. CASE files' = files
    BY <2>1
  <2>2. CASE files' = [files EXCEPT ![Active].state = "sealed"]
    <3>1. DOMAIN files = 1 .. Len(files) /\ Len(files) \in Nat
          /\ \A i \in 1 .. Len(files) : files[i] \in FileInfo
      BY <1>3
    <3>2. Len(files') = Len(files)
      BY <1>3, <2>2
    <3>3. ASSUME NEW i \in 1 .. Len(files)
          PROVE  files'[i] = files[i]
                 \/ files'[i] = [files[i] EXCEPT !.state = "sealed"]
      BY <2>2, <3>1
    <3> QED
      BY <3>1, <3>2, <3>3 DEF FileInfo
  <2> QED
    BY <1>1, <2>1, <2>2
<1>5. \A i \in 1 .. Len(InForce) : SameFile(disk, InForce[i], disk', InForce'[i])
  BY <1>1, <1>2, <1>4 DEF SameFile
<1>6. IndexGoesOn
  BY <1>1 DEF IndexGoesOn
<1>7. MayGrows
  <2>1. may \in [Keys -> SUBSET (0 .. MaxWrites)]
    BY DEF CleanStep, Others, TInv, HistoryTyped
  <2> HIDE DEF r
  <2> QED
    BY <1>1, <2>1 DEF MayGrows
<1> QED
  BY <1>2, <1>4, <1>5, <1>6, <1>7, SameFilesStep

(* Steps of a call, of close and of open that change no file in force.      *)
LEMMA CallGoesOnKept ==
  ASSUME CleanStep, BlobNotAllocated \/ LogWritten \/ FileOpened
  PROVE  KInv'
<1>1. state = "ready" /\ state' = "ready"
      /\ UNCHANGED <<disk, files, may, mem_index, global_sequence>>
  BY DEF BlobNotAllocated, LogWritten, FileOpened, Waits, deviceVars, fileVars,
     indexVars, historyVars
<1>2. UNCHANGED InForce /\ IndexGoesOn
  BY <1>1 DEF InForce, IndexGoesOn
<1> QED
  BY <1>1, <1>2, QuietStep

(* A failed write that leaves nothing; one that leaves something is a fault.*)
LEMMA NotWrittenKept ==
  ASSUME CleanStep, NotWritten
  PROVE  KInv'
<1>1. /\ Waits("write") /\ state' = state
      /\ \E parts : /\ disk' = Store(parts)
                    /\ faults' = IF parts = {} THEN faults ELSE faults + 1
      /\ global_sequence' = global_sequence + 1
      /\ UNCHANGED <<files, mem_index, may>>
  BY DEF NotWritten, fileVars
<1>2. disk' = Store({})
  <2>1. faults = 0 /\ faults' = 0
    BY DEF CleanStep, Clean
  <2> QED
    BY <1>1, <2>1
<1>3. BInv /\ TInv /\ state = "ready"
  BY <1>1 DEF CleanStep, Others, Waits
<1> DEFINE f == files[Active]
<1>4. f.blob \in DOMAIN disk
  BY <1>1, <1>3, WritingIs DEF TInv
<1>5. disk[f.blob] \in [Page -> StoredCell]
  BY <1>3, <1>4 DEF TInv, DiskTyped
<1>6. Store({}) = [disk EXCEPT ![f.blob] = [p \in Page |-> disk[f.blob][p]]]
  BY DEF Store
<1>7. disk' = [disk EXCEPT ![f.blob] = disk[f.blob]]
  BY <1>2, <1>5, <1>6
<1>8. \A i \in 1 .. Len(files) : disk'[files[i].blob] = disk[files[i].blob]
  <2>1. \A i \in 1 .. Len(files) : files[i].blob \in DOMAIN disk
    BY <1>3 DEF CleanStep, ForceScannable, Scannable, InForce
  <2> HIDE DEF f
  <2> QED
    BY <1>4, <1>7, <2>1
<1>9. InForce = files /\ InForce' = files
  BY <1>1, <1>3 DEF InForce
<1>10. \A i \in 1 .. Len(InForce) : SameFile(disk, InForce[i], disk', InForce'[i])
  BY <1>8, <1>9 DEF SameFile
<1>11. IndexGoesOn /\ MayGrows
  BY <1>1, <1>3 DEF IndexGoesOn, MayGrows
<1> QED
  BY <1>9, <1>10, <1>11, SameFilesStep

LEMMA CloseKept ==
  ASSUME CleanStep, Close
  PROVE  KInv'
<1>0. BInv
  BY DEF CleanStep, Others
<1>1. CASE CloseBegin
  <2>1. PICK m : m = superblock.file_mappings
    OBVIOUS
  <2>2. /\ state = "ready" /\ call = NoCall /\ state' = "backup"
        /\ superblock' = [file_mappings |-> UpdateMappings(m, files),
                          active_file_id |-> active_file_id,
                          alloc_log_sequence |-> log.sequence]
        /\ UNCHANGED <<disk, may>>
    BY <1>1, <2>1 DEF CloseBegin, deviceVars, historyVars
  <2>3. FilesMapped /\ IsSound(superblock) /\ ~Allocates
    BY <1>0, <2>2, InReady DEF Allocates, NoCall
  <2>4. InOrder(m) /\ InOrder(files) /\ Len(m) = Len(files)
    BY <2>1, <2>3 DEF FilesMapped, IsSound
  <2>5. UpdateMappings(m, files) = files
    BY <2>4, MappingsBecomeFiles
  <2>6. InForce = files /\ InForce' = files
    BY <2>2, <2>5 DEF InForce
  <2>7. IndexGoesOn
    BY <2>2 DEF IndexGoesOn
  <2> QED
    BY <2>2, <2>6, <2>7, QuietStep
<1>2. CASE WriteBackup
  <2>1. /\ state = "backup" /\ UNCHANGED <<disk, primary, may>>
        /\ \/ state' = "primary" /\ superblock' = superblock
           \/ cuts' = cuts + 1
    BY <1>2 DEF WriteBackup
  <2>2. state' = "primary" /\ superblock' = superblock
    BY <2>1 DEF CleanStep, Clean
  <2>3. UNCHANGED InForce /\ IndexGoesOn
    BY <2>1, <2>2 DEF InForce, IndexGoesOn
  <2> QED
    BY <2>1, <2>3, QuietStep
<1>3. CASE WritePrimary
  <2>1. /\ state = "primary" /\ state' = "closed" /\ UNCHANGED <<disk, may>>
        /\ \/ primary' = superblock
           \/ cuts' = cuts + 1
    BY <1>3 DEF WritePrimary, Forget
  <2>2. primary' = superblock
    BY <2>1 DEF CleanStep, Clean
  <2>3. superblock # Torn
    BY <1>0, <2>1, InClose, MappedOf
  <2>4. InForce = superblock.file_mappings /\ InForce' = superblock.file_mappings
    BY <2>1, <2>2, <2>3 DEF InForce, Loaded
  <2>5. IndexGoesOn
    BY <2>1 DEF IndexGoesOn
  <2> QED
    BY <2>1, <2>4, <2>5, QuietStep
<1> QED
  BY <1>1, <1>2, <1>3 DEF Close

(* The blobs that open deletes are not those of a file in force.            *)
LEMMA DeleteKept ==
  ASSUME CleanStep, DeleteLogged \/ ReleaseDangling
  PROVE  KInv'
<1>0. BInv
  BY DEF CleanStep, Others
<1>1. /\ state \in {"log", "dangling"}
      /\ UNCHANGED <<primary, backup, state, may>>
      /\ \E b : b \in LoggedBlobs \cup Dangling /\ DeleteBlob(b)
  BY DEF DeleteLogged, ReleaseDangling, historyVars
<1>2. superblock = Loaded /\ IsSound(Loaded)
      /\ Mapped(Loaded) \subseteq DOMAIN disk
  BY <1>0, <1>1, InOpen DEF IsSafe
<1>3. PICK b : b \in LoggedBlobs \cup Dangling /\ DeleteBlob(b)
  BY <1>1
<1>4. b \notin Mapped(Loaded)
  BY <1>0, <1>1, <1>2, <1>3, LoggedAreNotMapped DEF Dangling
<1>5. disk' = [x \in DOMAIN disk \ {b} |-> disk[x]]
  BY <1>3 DEF DeleteBlob
<1>6. Loaded' = Loaded
  BY <1>1 DEF Loaded
<1>7. InForce = Loaded.file_mappings /\ InForce' = Loaded.file_mappings
  BY <1>1, <1>6 DEF InForce
<1>8. \A i \in 1 .. Len(InForce) : InForce[i].blob \in Mapped(Loaded)
  BY <1>2, <1>7, MappedOf
<1>9. \A x \in Mapped(Loaded) : disk'[x] = disk[x]
  BY <1>2, <1>4, <1>5
<1>10. \A i \in 1 .. Len(InForce) : SameFile(disk, InForce[i], disk', InForce'[i])
  BY <1>7, <1>8, <1>9 DEF SameFile
<1>11. IndexGoesOn /\ MayGrows
  BY <1>1 DEF IndexGoesOn, MayGrows
<1> QED
  BY <1>7, <1>10, <1>11, SameFilesStep

(* The index that a recovery makes is the one of the files in force.        *)
LEMMA RecoverKept ==
  ASSUME CleanStep, Recover
  PROVE  KInv'
<1>1. /\ state = "dangling" /\ state' = "ready"
      /\ mem_index' = RecoveredIndex(disk, files)
      /\ global_sequence' = RecoveredSequence
      /\ UNCHANGED <<disk, files, may>>
  BY DEF Recover, deviceVars, historyVars
<1>2. BInv /\ TInv
  BY DEF CleanStep, Others
<1>3. superblock = Loaded /\ files = Loaded.file_mappings
  BY <1>1, <1>2, InOpen
<1>4. InForce = files /\ InForce' = files
  BY <1>1, <1>3 DEF InForce
<1>5. Scannable(disk, files) /\ FilledFiles(disk, files)
      /\ (Unbroken(disk, files) => Kept)
  BY <1>4 DEF CleanStep, ForceScannable
<1>6. SeqsUpTo(disk, files, RecoveredSequence)
  <2>1. Scan(disk, files) \in Seq(Found)
    BY <1>5, EntriesFound DEF Scannable
  <2>2. /\ RecoveredSequence \in Nat
        /\ \A i \in 1 .. Len(Scan(disk, files)) :
             Scan(disk, files)[i].rec.seq < RecoveredSequence
    BY <2>1, RecoveredSequenceIs
  <2>3. ASSUME NEW i \in 1 .. Len(Scan(disk, files))
        PROVE  Scan(disk, files)[i].rec.seq <= RecoveredSequence
    <3>1. Scan(disk, files)[i] \in Found
      BY <2>1
    <3>2. Scan(disk, files)[i].rec.seq \in Nat
      BY <3>1 DEF Found, StoredRecord
    <3> QED
      BY <2>2, <3>2
  <2> QED
    BY <2>3 DEF SeqsUpTo
<1>7. ASSUME Unbroken(disk', InForce') PROVE Kept'
  <2>1. \A k \in Keys : ValueIn(disk, files, k) \in may[k]
    BY <1>1, <1>4, <1>5, <1>7 DEF Kept
  <2> QED
    BY <1>1, <1>4, <1>6, <2>1 DEF Kept
<1>8. FilledFiles(disk', InForce')
  BY <1>1, <1>4, <1>5
<1> QED
  BY <1>7, <1>8 DEF KInv

LEMMA OpenKept ==
  ASSUME CleanStep, Open
  PROVE  KInv'
<1>0. BInv
  BY DEF CleanStep, Others
<1>1. CASE OpenFromPrimary \/ OpenFromBackup \/ OpenFailed
  <2>1. /\ state = "closed" /\ state' \in {"log", "error"}
        /\ UNCHANGED <<disk, primary, backup, may>>
    BY <1>1 DEF OpenFromPrimary, OpenFromBackup, Load, OpenFailed, deviceVars,
       historyVars
  <2>2. UNCHANGED InForce /\ IndexGoesOn
    BY <2>1 DEF InForce, Loaded, IndexGoesOn
  <2> QED
    BY <2>1, <2>2, QuietStep
<1>2. CASE RebuildFileInfo
  <2>1. /\ state = "log" /\ state' \in {"dangling", "error"}
        /\ UNCHANGED <<disk, primary, backup, may>>
    BY <1>2 DEF RebuildFileInfo, deviceVars, historyVars
  <2>2. UNCHANGED InForce /\ IndexGoesOn
    BY <2>1 DEF InForce, Loaded, IndexGoesOn
  <2> QED
    BY <2>1, <2>2, QuietStep
<1> QED
  BY <1>1, <1>2, DeleteKept, RecoverKept DEF Open

(* A new file has no record, and makes no difference to a recovery.         *)
LEMMA BlobAllocatedKept ==
  ASSUME CleanStep, BlobAllocated
  PROVE  KInv'
<1> DEFINE free == Blobs \ DOMAIN disk
<1>1. PICK b : b = CHOOSE x \in free : \A c \in free : x <= c
  OBVIOUS
<1> DEFINE f == NewFile(next_file_id, b)
           empty == [p \in Page |-> NoData]
<1>2. /\ Waits("blob") /\ free # {} /\ state' = state
      /\ disk' = [x \in DOMAIN disk \cup {b} |-> IF x = b THEN empty ELSE disk[x]]
      /\ files' = Append(files, f)
      /\ UNCHANGED <<mem_index, global_sequence, may>>
  BY <1>1 DEF BlobAllocated, indexVars, historyVars
<1>3. state = "ready" /\ state' = "ready" /\ InForce = files /\ InForce' = files'
  BY <1>2 DEF Waits, InForce
<1>4. b \notin DOMAIN disk
  <2>1. free \subseteq Nat /\ free # {}
    BY <1>2, RestartAssumption
  <2>2. b \in free
    <3> HIDE DEF free
    <3> QED
      BY <1>1, <2>1, Least
  <2> QED
    BY <2>2
<1>5. Scannable(disk, files) /\ Scannable(disk', files') /\ FilledFiles(disk, files)
  BY <1>3 DEF CleanStep, ForceScannable
<1>6. f.blob = b /\ f.write_offset = 1 /\ f.size = 0
  BY DEF NewFile
<1> HIDE DEF f, free
<1>7. /\ Len(files') = Len(files) + 1 /\ files'[Len(files')] = f
      /\ \A i \in 1 .. Len(files) : files'[i] = files[i]
  <2>1. files \in Seq(FileInfo)
    BY <1>5 DEF Scannable, InOrder
  <2> QED
    BY <1>2, <2>1
<1>8. \A i \in 1 .. Len(files) : SameFile(disk, files[i], disk', files'[i])
  <2>1. \A x \in DOMAIN disk : disk'[x] = disk[x]
    BY <1>2, <1>4
  <2> QED
    BY <1>5, <1>7, <2>1 DEF SameFile, Scannable
<1>9. disk'[b] = empty
  BY <1>2
<1>10. FilledFile(disk'[f.blob], f)
  <2>1. 1 .. 1 - 1 = {}
    OBVIOUS
  <2>2. Filled(empty, 1)
    BY <2>1 DEF Filled
  <2> HIDE DEF empty
  <2> QED
    BY <1>6, <1>9, <2>2 DEF FilledFile
<1>11. OneEmptyMore(disk, files, disk', files')
  BY <1>5, <1>6, <1>7, <1>8, <1>10 DEF OneEmptyMore, Scannable
<1>12. SameToRecovery(disk, files, disk', files')
  BY <1>5, <1>11, EmptyFileToRecovery
<1>13. IndexGoesOn /\ MayGrows
  BY <1>2, <1>3 DEF IndexGoesOn, MayGrows
<1> QED
  BY <1>3, <1>12, <1>13, SameStep

(* Nor does the file that a failed allocation drops.                        *)
LEMMA RollbackKept ==
  ASSUME CleanStep, LogNotWritten \/ FileNotOpened
  PROVE  KInv'
<1>1. /\ state = "ready" /\ state' = "ready" /\ call.at \in {"log", "open"}
      /\ files' = SubSeq(files, 1, Len(files) - 1)
      /\ UNCHANGED <<disk, mem_index, global_sequence, may>>
  BY DEF LogNotWritten, FileNotOpened, Waits, DropFile, deviceVars, indexVars,
     historyVars
<1>2. InForce = files /\ InForce' = files'
  BY <1>1 DEF InForce
<1>3. BInv /\ AInv /\ Allocates
  BY <1>1 DEF CleanStep, Others, Allocates
<1>4. /\ Scannable(disk, files) /\ Scannable(disk, files')
      /\ FilledFiles(disk, files)
  BY <1>1, <1>2 DEF CleanStep, ForceScannable
<1>5. Len(files) \in Nat \ {0}
  <2>1. FilesMapped /\ IsSound(superblock)
    BY <1>1, <1>3, InReady
  <2> QED
    BY <1>3, <2>1, MappedOf DEF FilesMapped
<1>6. files[Len(files)].write_offset = 1
  BY <1>1, <1>3 DEF AInv, NewIsEmpty
<1>7. /\ Len(files') = Len(files) - 1
      /\ \A i \in 1 .. Len(files) - 1 : files'[i] = files[i]
  <2>1. InOrder(files) /\ Len(files) >= 1
    BY <1>4, <1>5 DEF Scannable
  <2> QED
    BY <1>1, <2>1, FileDropped
<1>8. Len(files) = Len(files') + 1 /\ Len(files) \in 1 .. Len(files)
  BY <1>5, <1>7
<1>9. FilledFile(disk[files[Len(files)].blob], files[Len(files)])
  BY <1>4, <1>8 DEF FilledFiles
<1>10. \A i \in 1 .. Len(files') : SameFile(disk, files'[i], disk, files[i])
  BY <1>7 DEF SameFile
<1>11. OneEmptyMore(disk, files', disk, files)
  BY <1>4, <1>6, <1>8, <1>9, <1>10 DEF OneEmptyMore, Scannable
<1>12. SameToRecovery(disk, files, disk, files')
  BY <1>4, <1>11, EmptyFileToRecovery
<1>13. IndexGoesOn /\ MayGrows
  BY <1>1 DEF IndexGoesOn, MayGrows
<1> QED
  BY <1>1, <1>2, <1>12, <1>13, SameStep

(* The file that is written is the last one, since the active one is.       *)
LEMMA WritesLast ==
  ASSUME BInv, AInv, TInv, Waits("write")
  PROVE  /\ Active = Len(files) /\ Len(files) \in Nat \ {0}
         /\ Len(files) \in 1 .. Len(files)
<1>1. state = "ready" /\ call.at = "write"
  BY DEF Waits
<1>2. FilesMapped /\ IsSound(superblock) /\ ~Allocates
  BY <1>1, InReady DEF Allocates
<1>3. Len(files) \in Nat /\ Len(files) = Len(superblock.file_mappings)
  BY <1>2, MappedOf DEF FilesMapped
<1>4. active_file_id = Len(files) - 1
  BY <1>1, <1>3 DEF AInv, ActiveIsLast
<1>5. Active = active_file_id + 1 /\ Active \in 1 .. Len(files)
  BY WritingIs DEF TInv
<1> QED
  BY <1>3, <1>4, <1>5

(* A record that was written comes after all the others.                    *)
LEMMA WrittenIsOneMore ==
  ASSUME CleanStep, Written
  PROVE  OneRecordMore(disk, files, disk', files', Writing)
<1> DEFINE n == Len(files)
           f == files[n]
           r == Writing
           wo == f.write_offset
           pages == disk[f.blob]
<1>1. /\ Waits("write") /\ Fits
      /\ disk' = Store(1 .. r.pages)
      /\ files' = Advance(r.pages)
      /\ state' = state
  BY DEF Written
<1>2. BInv /\ AInv /\ TInv
  BY DEF CleanStep, Others
<1>3. Active = n /\ n \in Nat \ {0} /\ n \in 1 .. n
  BY <1>1, <1>2, WritesLast
<1>4. /\ r \in StoredRecord /\ r.pages \in Nat \ {0}
      /\ f \in FileInfo /\ f.blob \in DOMAIN disk
  BY <1>1, <1>2, <1>3, WritingIs DEF TInv
<1>5. /\ InForce = files /\ InForce' = files'
      /\ Scannable(disk, files) /\ Scannable(disk', files')
  <2>1. InForce = files /\ InForce' = files'
    BY <1>1 DEF Waits, InForce
  <2> QED
    BY <2>1 DEF CleanStep, ForceScannable
<1>6. wo \in 1 .. FilePages /\ wo + r.pages <= FilePages
  BY <1>1, <1>3, <1>4 DEF Fits, FileInfo
<1>7. pages \in [Page -> StoredCell]
  BY <1>2, <1>4 DEF TInv, DiskTyped
<1> DEFINE new == [p \in Page |-> LET i == p - wo + 1 IN
                     IF i \in 1 .. r.pages THEN [rec |-> r, part |-> i]
                     ELSE pages[p]]
<1>8. disk' = [disk EXCEPT ![f.blob] = new]
  BY <1>1, <1>3 DEF Store
<1>9. new = AfterRecord(pages, wo, r)
  <2>1. ASSUME NEW p \in Page
        PROVE  p - wo + 1 \in 1 .. r.pages <=> p \in wo .. wo + r.pages - 1
    <3>1. p \in Nat /\ wo \in Nat /\ r.pages \in Nat
      BY <1>4, <1>6, RestartAssumption DEF Page
    <3> HIDE DEF r, wo
    <3> QED
      BY <3>1
  <2> QED
    BY <2>1 DEF AfterRecord
<1> HIDE DEF new
<1>10. /\ Len(files') = n
       /\ \A i \in 1 .. n - 1 : files'[i] = files[i]
       /\ files'[n].file_id = f.file_id /\ files'[n].blob = f.blob
       /\ files'[n].write_offset = wo + r.pages
       /\ files'[n].size = wo + r.pages
  <2>1. files \in [1 .. n -> FileInfo] /\ files \in Seq(FileInfo)
    BY <1>5 DEF Scannable, InOrder
  <2>2. PICK q : q = r.pages
    OBVIOUS
  <2>3. files' = [files EXCEPT ![n].write_offset = @ + q,
                               ![n].size = files[n].write_offset + q]
    BY <1>1, <1>3, <2>2 DEF Advance
  <2>4. PICK g : g = [files[n] EXCEPT !.write_offset = @ + q]
    OBVIOUS
  <2>5. PICK h : h = [g EXCEPT !.size = files[n].write_offset + q]
    OBVIOUS
  <2>6. files' = [files EXCEPT ![n] = h]
    BY <1>3, <2>1, <2>3, <2>4, <2>5
  <2>7. h.file_id = f.file_id /\ h.blob = f.blob
        /\ h.write_offset = wo + q /\ h.size = wo + q
    BY <1>4, <2>4, <2>5 DEF FileInfo
  <2>8. /\ Len(files') = n /\ files'[n] = h
        /\ \A i \in 1 .. n - 1 : files'[i] = files[i]
    BY <1>3, <2>1, <2>6
  <2> QED
    BY <2>2, <2>7, <2>8
<1>11. \A i \in 1 .. n - 1 : SameFile(disk, files[i], disk', files'[i])
  <2>1. ASSUME NEW i \in 1 .. n - 1
        PROVE  disk'[files[i].blob] = disk[files[i].blob]
    <3>1. i \in 1 .. n /\ i # n
      BY <1>3
    <3>2. files[i].blob # f.blob
      BY <1>3, <1>5, <3>1 DEF Scannable, InOrder
    <3>3. files[i].blob \in DOMAIN disk
      BY <1>5, <3>1 DEF Scannable
    <3> QED
      BY <1>8, <3>2, <3>3
  <2> QED
    BY <1>10, <2>1 DEF SameFile
<1>12. disk'[files'[n].blob] = AfterRecord(pages, wo, r)
  BY <1>4, <1>8, <1>9, <1>10
<1>13. Len(files) # 0
  BY <1>3
<1>14. /\ InOrder(files) /\ CanScan(disk, files)
       /\ InOrder(files') /\ CanScan(disk', files')
  BY <1>5 DEF Scannable
<1> HIDE DEF n, r
<1> QED
  BY <1>4, <1>6, <1>10, <1>11, <1>12, <1>13, <1>14 DEF OneRecordMore, n, r

LEMMA WrittenKept ==
  ASSUME CleanStep, Written
  PROVE  KInv'
<1>1. PICK r : r = Writing
  OBVIOUS
<1>2. PICK f : f = files[Active]
  OBVIOUS
<1>3. /\ Waits("write") /\ state' = state
      /\ mem_index' = Enter(mem_index, f.file_id, f.write_offset, r)
      /\ global_sequence' = global_sequence + 1
      /\ may' = [may EXCEPT ![r.key] = {NewValue(call.request)}]
  BY <1>1, <1>2 DEF Written
<1>4. BInv /\ AInv /\ TInv /\ FilledFiles(disk, files)
      /\ state = "ready" /\ state' = "ready"
      /\ InForce = files /\ InForce' = files'
      /\ (Unbroken(disk, files) => Kept)
  BY <1>3 DEF CleanStep, Others, Waits, InForce
<1>5. OneRecordMore(disk, files, disk', files', r)
  BY <1>1, WrittenIsOneMore
<1>6. f = files[Len(files)] /\ r \in StoredRecord
  BY <1>1, <1>2, <1>3, <1>4, WritesLast, WritingIs DEF TInv
<1>7. /\ FilledFiles(disk', files')
      /\ Unbroken(disk', files') => Unbroken(disk, files)
  BY <1>4, <1>5, RecordIsFilled
<1>8. ASSUME Unbroken(disk', files') PROVE Kept'
  <2>1. /\ mem_index = RecoveredIndex(disk, files)
        /\ SeqsUpTo(disk, files, global_sequence)
        /\ \A k \in Keys : ValueIn(disk, files, k) \in may[k]
    BY <1>4, <1>7, <1>8 DEF Kept
  <2>2. global_sequence \in Nat
        /\ may \in [Keys -> SUBSET (0 .. MaxWrites)]
    BY <1>4 DEF TInv, IndexTyped, HistoryTyped
  <2>3. r.seq = global_sequence + 1 /\ r.id = call.request.id
        /\ r.kind = call.request.kind
    BY <1>1 DEF Writing
  <2>4. /\ RecoveredIndex(disk', files') =
              EnterItem(RecoveredIndex(disk, files), ItemOf(files, r))
        /\ SeqsUpTo(disk', files', global_sequence + 1)
        /\ \A k \in Keys : k # r.key =>
              ValueIn(disk', files', k) = ValueIn(disk, files, k)
        /\ r.kind = "put" => ValueIn(disk', files', r.key) = r.id
        /\ r.kind = "delete" => ValueIn(disk', files', r.key) = Absent
    BY <1>4, <1>5, <1>8, <2>1, <2>2, <2>3, RecordIsEntered
  <2>5. EnterItem(mem_index, ItemOf(files, r)) =
          Enter(mem_index, f.file_id, f.write_offset, r)
    BY <1>6 DEF EnterItem, ItemOf
  <2>6. mem_index' = RecoveredIndex(disk', files')
    BY <1>3, <2>1, <2>4, <2>5
  <2>7. r.key \in Keys /\ r.kind \in {"put", "delete"}
    BY <1>6 DEF StoredRecord
  <2>8. ValueIn(disk', files', r.key) = NewValue(call.request)
    BY <2>3, <2>4, <2>7 DEF NewValue
  <2>9. ASSUME NEW k \in Keys PROVE ValueIn(disk', files', k) \in may'[k]
    <3>1. CASE k = r.key
      <4>1. may'[k] = {NewValue(call.request)}
        BY <1>3, <2>2, <2>7, <3>1
      <4> QED
        BY <2>8, <3>1, <4>1
    <3>2. CASE k # r.key
      <4>1. may'[k] = may[k]
        BY <1>3, <2>2, <3>2
      <4> QED
        BY <2>1, <2>4, <3>2, <4>1
    <3> QED
      BY <3>1, <3>2
  <2> QED
    BY <1>3, <1>4, <2>4, <2>6, <2>9 DEF Kept
<1> QED
  BY <1>4, <1>7, <1>8 DEF KInv

LEMMA InitKInv == Init => KInv
<1> SUFFICES ASSUME Init PROVE KInv
  OBVIOUS
<1>1. PICK b : b = CHOOSE x \in Blobs : \A c \in Blobs : x <= c
  OBVIOUS
<1> DEFINE f == NewFile(0, b)
           empty == [p \in Page |-> NoData]
<1>2. /\ disk = [x \in {b} |-> empty]
      /\ state = "ready" /\ files = <<f>>
      /\ mem_index = [k \in Keys |-> NoEntry] /\ global_sequence = 0
      /\ may = [k \in Keys |-> {Absent}]
  BY <1>1 DEF Init
<1>3. BInv /\ TInv
  BY InitBInv, InitTInv
<1>4. InForce = files
  BY <1>2 DEF InForce
<1>5. InOrder(files) /\ \A i \in 1 .. Len(files) : files[i].blob \in DOMAIN disk
  BY <1>2, <1>3, InReady DEF FilesMapped
<1>6. Scannable(disk, files)
  BY <1>3, <1>5, ScannableIs
<1>7. f.blob = b /\ f.write_offset = 1 /\ f.size = 0 /\ f.file_id = 0
  BY DEF NewFile
<1> HIDE DEF f
<1>8. Len(files) = 1 /\ files[1] = f /\ disk[b] = empty
  BY <1>2
<1>9. FilledFile(disk[f.blob], f)
  <2>1. 1 .. 1 - 1 = {}
    OBVIOUS
  <2>2. Filled(empty, 1)
    BY <2>1 DEF Filled
  <2> HIDE DEF empty
  <2> QED
    BY <1>7, <1>8, <2>2 DEF FilledFile
<1>10. FilledFiles(disk, files)
  <2>1. \A i \in 1 .. 1 : i = 1
    OBVIOUS
  <2> QED
    BY <1>8, <1>9, <2>1 DEF FilledFiles
<1>11. Scan(disk, files) = <<>>
  <2>1. f \in FileInfo /\ files \in Seq(FileInfo)
    <3>1. 1 \in 1 .. 1
      OBVIOUS
    <3>2. files[1] \in FileInfo
      BY <1>5, <1>8, <3>1, FieldsOf
    <3> QED
      BY <1>5, <1>8, <3>2 DEF InOrder
  <2>2. disk[f.blob] \in [Page -> StoredCell]
    BY <1>6, <1>8 DEF Scannable, CanScan
  <2>3. ScanFile(disk[f.blob], f) = <<>>
    BY <1>7, <1>9, <2>1, <2>2, EmptyFileScan
  <2>4. PICK none : none = <<>>
    OBVIOUS
  <2>5. Len(none) = 0 /\ CanScan(disk, none) /\ none \in Seq(FileInfo)
    BY <2>4 DEF CanScan
  <2>6. Scan(disk, none) = <<>>
    BY <2>5, ScansOfIs, FlattenNone
  <2>7. Scan(disk, files) = Scan(disk, none)
    <3>1. \A i \in 1 .. Len(none) : SameFile(disk, none[i], disk, files[i])
      BY <2>5
    <3>2. Len(files) = Len(none) + 1 /\ CanScan(disk, files)
          /\ ScanFile(disk[files[Len(files)].blob], files[Len(files)]) = <<>>
      BY <1>6, <1>8, <2>3, <2>5 DEF Scannable
    <3> QED
      BY <2>1, <2>5, <3>1, <3>2, ScanEmptyFile
  <2> QED
    BY <2>6, <2>7
<1>12. RecoveredIndex(disk, files) = [k \in Keys |-> NoEntry]
  BY <1>11, RecoveredIs, IndexAfterNone DEF EmptyIndex
<1>13. \A k \in Keys : ValueIn(disk, files, k) = Absent
  BY <1>12 DEF ValueIn
<1>14. SeqsUpTo(disk, files, global_sequence)
  <2>1. Len(Scan(disk, files)) = 0
    BY <1>11
  <2>2. 1 .. 0 = {}
    OBVIOUS
  <2> QED
    BY <2>1, <2>2 DEF SeqsUpTo
<1>15. Kept
  BY <1>2, <1>4, <1>12, <1>13, <1>14 DEF Kept
<1> QED
  BY <1>4, <1>10, <1>15 DEF KInv

LEMMA StepKInv ==
  ASSUME Others, Others', KInv, Next
  PROVE  KInv'
<1>0. BInv /\ TInv
  BY DEF Others
<1> SUFFICES ASSUME Clean' PROVE KInv'
  BY DEF KInv
<1>1. ~Crash
  <2>1. Crash => crashes' = crashes + 1
    BY DEF Crash, CrashWith
  <2>2. crashes \in Nat
    BY <1>0, RestartAssumption DEF TInv, HistoryTyped
  <2> QED
    BY <2>1, <2>2 DEF Clean
<1>2. Clean
  <2>1. crashes \in Nat /\ cuts \in Nat /\ faults \in Nat
    BY <1>0, RestartAssumption DEF TInv, HistoryTyped
  <2>2. crashes' \in {crashes, crashes + 1}
    BY DEF Next, Calls, Steps, Close, Open, Crash, Put, Del, Begin,
       BlobAllocated, BlobNotAllocated, LogWritten, LogNotWritten, FileOpened,
       FileNotOpened, Written, NotWritten, CloseBegin, WriteBackup,
       WritePrimary, OpenFromPrimary, OpenFromBackup, Load, OpenFailed,
       DeleteLogged, RebuildFileInfo, ReleaseDangling, Recover, CrashWith,
       historyVars
  <2>3. cuts' \in {cuts, cuts + 1}
    BY DEF Next, Calls, Steps, Close, Open, Crash, Put, Del, Begin,
       BlobAllocated, BlobNotAllocated, LogWritten, LogNotWritten, FileOpened,
       FileNotOpened, Written, NotWritten, CloseBegin, WriteBackup,
       WritePrimary, OpenFromPrimary, OpenFromBackup, Load, OpenFailed,
       DeleteLogged, RebuildFileInfo, ReleaseDangling, Recover, CrashWith,
       historyVars
  <2>4. faults' \in {faults, faults + 1}
    BY DEF Next, Calls, Steps, Close, Open, Crash, Put, Del, Begin,
       BlobAllocated, BlobNotAllocated, LogWritten, LogNotWritten, FileOpened,
       FileNotOpened, Written, NotWritten, CloseBegin, WriteBackup,
       WritePrimary, OpenFromPrimary, OpenFromBackup, Load, OpenFailed,
       DeleteLogged, RebuildFileInfo, ReleaseDangling, Recover, CrashWith,
       historyVars
  <2> QED
    BY <2>1, <2>2, <2>3, <2>4 DEF Clean
<1>3. ForceScannable /\ ForceScannable'
  BY <1>2, ForceIs, PTL
<1>4. CleanStep
  BY <1>2, <1>3 DEF CleanStep, KInv
<1>5. CASE Calls
  <2>1. PICK k \in Keys, kind \in {"put", "delete"}, n \in Nat \ {0} :
          Begin([id |-> writes + 1, key |-> k, kind |-> kind, pages |-> n])
    BY <1>5, RestartAssumption DEF Calls, Put, Del
  <2> QED
    BY <1>4, <2>1, BeginKept
<1>6. CASE Steps
  BY <1>4, <1>6, BlobAllocatedKept, CallGoesOnKept, RollbackKept, WrittenKept,
     NotWrittenKept DEF Steps
<1> QED
  BY <1>1, <1>4, <1>5, <1>6, CloseKept, OpenKept DEF Next

LEMMA NextKInv == Others /\ Others' /\ KInv /\ [Next]_vars => KInv'
<1> SUFFICES ASSUME Others, Others', KInv, [Next]_vars PROVE KInv'
  OBVIOUS
<1>1. CASE UNCHANGED vars
  <2>1. UNCHANGED <<disk, primary, backup, state, superblock, files, mem_index,
                    global_sequence, may, crashes, cuts, faults>>
    BY <1>1 DEF vars, deviceVars, fileVars, indexVars, historyVars
  <2>2. InForce' = InForce /\ Clean' = Clean
    BY <2>1 DEF InForce, Loaded, Clean
  <2> QED
    BY <2>1, <2>2 DEF KInv, Kept
<1> QED
  BY <1>1, StepKInv

(* What get parses is what the entry says.                                  *)
LEMMA ValueIsKept ==
  ASSUME BInv, TInv, state = "ready", mem_index = RecoveredIndex(disk, files),
         NEW k \in Keys
  PROVE  Value(k) = ValueIn(disk, files, k)
<1>1. Scannable(disk, files)
  <2>1. InOrder(files) /\ \A i \in 1 .. Len(files) : files[i].blob \in DOMAIN disk
    BY InReady DEF FilesMapped
  <2> QED
    BY <2>1, ScannableIs
<1> DEFINE e == RecoveredIndex(disk, files)[k]
<1>2. mem_index[k] = e
  OBVIOUS
<1>3. e # NoEntry => EntryFound(disk, files, k, e)
  BY <1>1, EntriesFound DEF Scannable
<1>4. ValueIn(disk, files, k) =
        IF e = NoEntry \/ e.deleted THEN Absent
        ELSE disk[files[e.file + 1].blob][e.offset].rec.id
  BY DEF ValueIn
<1> HIDE DEF e
<1>5. CASE ~Find(k)
  BY <1>2, <1>4, <1>5 DEF Find, Value
<1>6. CASE Find(k)
  <2>1. e # NoEntry /\ ~e.deleted
    BY <1>2, <1>6 DEF Find
  <2> DEFINE pages == disk[files[e.file + 1].blob]
  <2>2. /\ e.file \in Nat /\ e.file + 1 \in 1 .. Len(files)
        /\ pages[e.offset].part = 1 /\ Whole(pages, e.offset)
    BY <1>3, <2>1 DEF EntryFound, Entry
  <2>3. e.file < Len(files) /\ InOrder(files)
    BY <1>1, <2>2 DEF Scannable
  <2>4. HasFile(e.file) /\ IndexOfFile(e.file) = e.file + 1
    BY <2>2, <2>3, ActivePlace
  <2>5. Value(k) = pages[e.offset].rec.id
    BY <1>2, <1>6, <2>2, <2>4 DEF Value
  <2> QED
    BY <1>4, <2>1, <2>5
<1> QED
  BY <1>5, <1>6

(* After sessions that were all closed, gets return what was acknowledged,  *)
(* as long as no record continues where recovery starts to read a chunk:    *)
(* what close writes (close, write_superblock) is all that open and         *)
(* parse_and_rebuild_entries need to find the same index again.             *)
THEOREM AcksAlwaysSurviveClose == Spec => []AcksSurviveClose
<1>1. Others /\ KInv => AcksSurviveClose
  <2> SUFFICES ASSUME Others, KInv, Clean, Unbroken(disk, files),
                      state = "ready", NEW k \in Keys
               PROVE  Value(k) \in may[k]
    BY DEF AcksSurviveClose, AcksSurvive, Clean
  <2>1. BInv /\ TInv /\ InForce = files
    BY DEF Others, InForce
  <2>2. mem_index = RecoveredIndex(disk, files)
        /\ ValueIn(disk, files, k) \in may[k]
    BY <2>1 DEF KInv, Kept
  <2> QED
    BY <2>1, <2>2, ValueIsKept
<1>2. Init => Others /\ KInv
  BY InitIInv, InitBInv, InitTInv, InitAInv, InitKInv DEF Others
<1>3. Others /\ [Next]_vars => Others'
  BY NextPreservesIInv, NextBInv, NextTInv, NextAInv DEF Others
<1> QED
  BY <1>1, <1>2, <1>3, NextKInv, PTL DEF Spec

-----------------------------------------------------------------------------
(* Records of one page *)

OnePageCells(d) == \A b \in DOMAIN d : \A p \in Page : d[b][p].part \in {0, 1}

OnePageInv ==
  PutPages \subseteq {1} =>
    /\ call = NoCall \/ call.request.pages = 1
    /\ OnePageCells(disk)

LEMMA StoreOnePage ==
  ASSUME BInv, TInv, Waits("write"), call.request.pages = 1,
         OnePageCells(disk), NEW parts \in SUBSET (1 .. Writing.pages)
  PROVE  OnePageCells(Store(parts))
<1> DEFINE f == files[Active]
           w == Writing
           new == [p \in Page |-> LET i == p - f.write_offset + 1 IN
                     IF i \in parts THEN [rec |-> w, part |-> i]
                     ELSE disk[f.blob][p]]
<1>1. f.blob \in DOMAIN disk
  BY WritingIs DEF TInv
<1>2. Store(parts) = [disk EXCEPT ![f.blob] = new]
  BY DEF Store
<1>3. parts \subseteq {1}
  BY DEF Writing
<1> HIDE DEF w, f
<1>4. \A p \in Page : new[p].part \in {0, 1}
  BY <1>1, <1>3 DEF OnePageCells
<1> HIDE DEF new
<1> QED
  BY <1>1, <1>2, <1>4 DEF OnePageCells

LEMMA OnePageStep ==
  ASSUME BInv, TInv, OnePageInv, Next
  PROVE  OnePageInv'
<1> SUFFICES ASSUME PutPages \subseteq {1}
             PROVE  /\ call' = NoCall \/ call'.request.pages = 1
                    /\ OnePageCells(disk')
  BY DEF OnePageInv
<1>1. (call = NoCall \/ call.request.pages = 1) /\ OnePageCells(disk)
  BY DEF OnePageInv
<1>2. call' = NoCall \/ call'.request.pages = 1
  <2>1. CASE Calls
    <3>1. PICK k \in Keys, kind \in {"put", "delete"} :
            Begin([id |-> writes + 1, key |-> k, kind |-> kind, pages |-> 1])
      BY <2>1 DEF Calls, Put, Del
    <3>2. \E at : call' = [at |-> at,
                          request |-> [id |-> writes + 1, key |-> k,
                                       kind |-> kind, pages |-> 1]]
      BY <3>1 DEF Begin
    <3> QED
      BY <3>2
  <2>2. CASE BlobAllocated \/ LogWritten \/ FileOpened
    <3>1. \E io \in {"blob", "log", "open"}, at \in {"log", "open", "write"} :
             Waits(io) /\ call' = [call EXCEPT !.at = at]
      BY <2>2 DEF BlobAllocated, LogWritten, FileOpened
    <3>2. call.at \in {"blob", "log", "open"} /\ FileTypes
      BY <3>1 DEF Waits, BInv
    <3>3. call # NoCall
      BY <3>2 DEF NoCall
    <3>4. call \in [at : {"blob", "log", "open", "write"}, request : Request]
      BY <3>2, <3>3 DEF FileTypes
    <3>5. call'.request = call.request
      BY <3>1, <3>4
    <3> QED
      BY <1>1, <3>3, <3>5
  <2>3. CASE call' = NoCall
    BY <2>3
  <2>4. CASE call' = call
    BY <1>1, <2>4
  <2>5. CASE BlobNotAllocated \/ LogNotWritten \/ FileNotOpened \/ Written
             \/ NotWritten \/ Crash
    BY <2>3, <2>5 DEF BlobNotAllocated, LogNotWritten, FileNotOpened, Written,
       NotWritten, Crash, CrashWith, Forget
  <2>6. CASE Close \/ Open
    BY <2>3, <2>4, <2>6 DEF Close, CloseBegin, WriteBackup, WritePrimary, Forget,
       Open, OpenFromPrimary, OpenFromBackup, Load, OpenFailed, DeleteLogged,
       RebuildFileInfo, ReleaseDangling, Recover
  <2> QED
    BY <2>1, <2>2, <2>5, <2>6 DEF Next, Steps
<1>3. CASE disk' = disk
  BY <1>1, <1>2, <1>3
<1>4. CASE BlobAllocated
  <2>1. \E b : disk' = [x \in DOMAIN disk \cup {b} |->
                IF x = b THEN [p \in Page |-> NoData] ELSE disk[x]]
    BY <1>4 DEF BlobAllocated
  <2>2. OnePageCells(disk')
    BY <1>1, <2>1 DEF OnePageCells, NoData
  <2> QED
    BY <1>2, <2>2
<1>5. CASE \E parts \in SUBSET (1 .. Writing.pages) :
             Waits("write") /\ disk' = Store(parts)
  <2>1. Waits("write") => call.request.pages = 1
    BY <1>1 DEF Waits, NoCall
  <2>2. OnePageCells(disk')
    BY <1>1, <1>5, <2>1, StoreOnePage
  <2> QED
    BY <1>2, <2>2
<1>6. CASE \E b : DeleteBlob(b)
  <2>1. OnePageCells(disk')
    BY <1>1, <1>6 DEF DeleteBlob, OnePageCells
  <2> QED
    BY <1>2, <2>1
<1> QED
  BY <1>3, <1>4, <1>5, <1>6, DiskSteps DEF DiskChanges

LEMMA InitOnePage == Init => OnePageInv
<1> SUFFICES ASSUME Init PROVE OnePageInv
  OBVIOUS
<1>1. call = NoCall /\ \E b : disk = [x \in {b} |-> [p \in Page |-> NoData]]
  BY DEF Init
<1>2. OnePageCells(disk)
  BY <1>1 DEF OnePageCells, NoData
<1> QED
  BY <1>1, <1>2 DEF OnePageInv

LEMMA NextOnePage == BInv /\ TInv /\ OnePageInv /\ [Next]_vars => OnePageInv'
<1> SUFFICES ASSUME BInv, TInv, OnePageInv, [Next]_vars PROVE OnePageInv'
  OBVIOUS
<1>1. CASE UNCHANGED vars
  BY <1>1 DEF vars, deviceVars, OnePageInv, OnePageCells
<1> QED
  BY <1>1, OnePageStep

(* When every record fits a page, the condition on chunks holds by itself.  *)
OnePageAcksSurvive ==
  PutPages \subseteq {1} /\ crashes = 0 /\ cuts = 0 /\ faults = 0
    => AcksSurvive

(* With records of one page, gets return what was acknowledged after        *)
(* sessions that were all closed (close, load_existing, parse_and_rebuild_  *)
(* entries), whatever the size of the chunks.                               *)
THEOREM OnePageAcksAlwaysSurvive == Spec => []OnePageAcksSurvive
<1>1. BInv /\ OnePageInv /\ AcksSurviveClose => OnePageAcksSurvive
  <2> SUFFICES ASSUME BInv, OnePageInv, AcksSurviveClose,
                      PutPages \subseteq {1}, state = "ready",
                      crashes = 0, cuts = 0, faults = 0
               PROVE  AcksSurvive
    BY DEF OnePageAcksSurvive, AcksSurvive
  <2>1. InOrder(files) /\ \A i \in 1 .. Len(files) : files[i].blob \in DOMAIN disk
    BY InReady DEF FilesMapped
  <2>2. DOMAIN files = 1 .. Len(files)
    BY <2>1, FieldsOf
  <2>3. ASSUME NEW i \in DOMAIN files, NEW p \in Page
        PROVE  ~(disk[files[i].blob][p].part > 1)
    <3>1. disk[files[i].blob][p].part \in {0, 1}
      BY <2>1, <2>2 DEF OnePageInv, OnePageCells
    <3> QED
      BY <3>1
  <2>4. Unbroken(disk, files)
    BY <2>3 DEF Unbroken
  <2> QED
    BY <2>4 DEF AcksSurviveClose
<1> QED
  BY <1>1, AcksAlwaysSurviveClose, InitBInv, NextBInv, InitTInv, NextTInv,
     InitOnePage, NextOnePage, PTL DEF Spec

-----------------------------------------------------------------------------
(* What the superblock recorded is written once *)

(* Records follow the data of a file: write_offset is never below size.     *)
OffsetsCover(fs) == \A i \in 1 .. Len(fs) : fs[i].size <= fs[i].write_offset

(* The files of a session begin with those of the copy that it was opened   *)
(* from, and are written behind what that copy recorded.                    *)
BehindRecorded ==
  /\ Len(Loaded.file_mappings) <= Len(superblock.file_mappings)
  /\ \A i \in 1 .. Len(Loaded.file_mappings) :
       /\ files[i].blob = Loaded.file_mappings[i].blob
       /\ Loaded.file_mappings[i].size <= files[i].write_offset

WInv ==
  /\ primary # Torn => OffsetsCover(primary.file_mappings)
  /\ backup # Torn => OffsetsCover(backup.file_mappings)
  /\ state \in {"backup", "primary"} => OffsetsCover(superblock.file_mappings)
  /\ state = "ready" => OffsetsCover(files) /\ BehindRecorded

LEMMA InitWInv == Init => WInv
<1> SUFFICES ASSUME Init PROVE WInv
  OBVIOUS
<1>1. PICK f : /\ f.size = 0 /\ f.write_offset = 1
               /\ primary = superblock /\ backup = superblock
               /\ superblock.file_mappings = <<f>> /\ files = <<f>>
               /\ state = "ready"
  <2> DEFINE b == CHOOSE b \in Blobs : \A c \in Blobs : b <= c
             g == NewFile(0, b)
  <2>1. g.size = 0 /\ g.write_offset = 1
    BY DEF NewFile
  <2>2. /\ superblock = [file_mappings |-> <<g>>, active_file_id |-> 0,
                         alloc_log_sequence |-> 1]
        /\ files = <<g>>
        /\ primary = superblock /\ backup = superblock /\ state = "ready"
    BY DEF Init, b, g
  <2> HIDE DEF g, b
  <2>3. superblock.file_mappings = <<g>>
    BY <2>2
  <2> QED
    BY <2>1, <2>2, <2>3
<1>2. OffsetsCover(<<f>>)
  BY <1>1 DEF OffsetsCover
<1>3. BehindRecorded
  <2>1. Loaded.file_mappings = <<f>> /\ files = <<f>>
    BY <1>1 DEF Loaded
  <2>2. Len(<<f>>) = 1 /\ <<f>>[1] = f /\ f.size <= f.write_offset
    BY <1>1
  <2>3. \A i \in 1 .. 1 : i = 1
    OBVIOUS
  <2> QED
    BY <1>1, <2>1, <2>2, <2>3 DEF BehindRecorded
<1> QED
  BY <1>1, <1>2, <1>3 DEF WInv

(* A step of a call: files are neither taken away from under the superblock *)
(* nor written further in front.                                            *)
LEMMA CallStepWInv ==
  ASSUME WInv, BInv, state = "ready", state' = "ready",
         UNCHANGED <<primary, backup>>,
         Len(superblock.file_mappings) <= Len(superblock'.file_mappings),
         Len(superblock'.file_mappings) \in Nat,
         \A i \in 1 .. Len(superblock.file_mappings) :
           /\ files'[i].blob = files[i].blob
           /\ files[i].write_offset <= files'[i].write_offset
           /\ files'[i].write_offset \in Nat,
         OffsetsCover(files')
  PROVE  WInv'
<1>1. Loaded' = Loaded /\ BehindRecorded
  BY DEF Loaded, WInv
<1>2. IsSound(Loaded) /\ IsSound(superblock) /\ FilesMapped
  BY InReady
<1>3. Len(Loaded.file_mappings) \in Nat /\ Len(superblock.file_mappings) \in Nat
  BY <1>2, MappedOf
<1>4. Len(Loaded.file_mappings) <= Len(superblock'.file_mappings)
  BY <1>1, <1>3 DEF BehindRecorded
<1>5. InOrder(files) /\ Len(superblock.file_mappings) <= Len(files)
  BY <1>2, <1>3 DEF FilesMapped
<1>6. ASSUME NEW i \in 1 .. Len(Loaded.file_mappings)
      PROVE  /\ files'[i].blob = Loaded.file_mappings[i].blob
             /\ Loaded.file_mappings[i].size <= files'[i].write_offset
  <2>1. i \in 1 .. Len(superblock.file_mappings) /\ i \in 1 .. Len(files)
    BY <1>1, <1>3, <1>5, FieldsOf DEF BehindRecorded
  <2>2. files[i].write_offset \in Nat
    BY <1>5, <2>1, FieldsOf, RestartAssumption
  <2>3. Loaded.file_mappings[i].size \in Nat
    <3>1. Loaded.file_mappings[i] \in FileInfo
      BY <1>2, FieldsOf DEF IsSound
    <3> QED
      BY <3>1, RestartAssumption DEF FileInfo
  <2>4. /\ files[i].blob = Loaded.file_mappings[i].blob
        /\ Loaded.file_mappings[i].size <= files[i].write_offset
    BY <1>1 DEF BehindRecorded
  <2>5. /\ files'[i].blob = files[i].blob
        /\ files[i].write_offset <= files'[i].write_offset
        /\ files'[i].write_offset \in Nat
    BY <2>1
  <2>6. PICK size, offset, next :
          /\ size = Loaded.file_mappings[i].size
          /\ offset = files[i].write_offset
          /\ next = files'[i].write_offset
    OBVIOUS
  <2>7. size \in Nat /\ offset \in Nat /\ next \in Nat
    BY <2>2, <2>3, <2>5, <2>6
  <2>8. size <= offset /\ offset <= next
    BY <2>4, <2>5, <2>6
  <2>9. size <= next
    BY <2>7, <2>8
  <2> QED
    BY <2>4, <2>5, <2>6, <2>9
<1>7. BehindRecorded'
  BY <1>1, <1>4, <1>6 DEF BehindRecorded
<1> QED
  BY <1>7 DEF WInv

(* The same, when files_ and the superblock stay.                           *)
LEMMA SameFilesWInv ==
  ASSUME WInv, state = "ready", state' = "ready",
         UNCHANGED <<primary, backup, superblock, files>>
  PROVE  WInv'
BY DEF WInv, BehindRecorded, Loaded

(* The files of a session, as numbers.                                      *)
LEMMA FilesOf ==
  ASSUME WInv, BInv, state = "ready"
  PROVE  /\ InOrder(files) /\ Len(files) \in Nat
         /\ Len(superblock.file_mappings) \in Nat
         /\ Len(superblock.file_mappings) <= Len(files)
         /\ OffsetsCover(files)
         /\ \A i \in 1 .. Len(files) :
              files[i].write_offset \in Nat /\ files[i] \in FileInfo
<1>1. IsSound(superblock) /\ FilesMapped /\ InOrder(files)
  BY InReady DEF FilesMapped
<1>2. Len(superblock.file_mappings) \in Nat /\ Len(files) \in Nat
  BY <1>1, MappedOf, FieldsOf
<1>3. Len(superblock.file_mappings) <= Len(files)
  BY <1>1, <1>2 DEF FilesMapped
<1> QED
  BY <1>1, <1>2, <1>3, FieldsOf, RestartAssumption DEF WInv

LEMMA BeginWInv ==
  ASSUME WInv, BInv, NEW r, Begin(r)
  PROVE  WInv'
<1>1. /\ state = "ready" /\ state' = "ready"
      /\ UNCHANGED <<primary, backup, superblock>>
      /\ \/ files' = [files EXCEPT ![Active].state = "sealed"]
         \/ files' = files
  BY DEF Begin, deviceVars
<1>2. CASE files' = files
  BY <1>1, <1>2, SameFilesWInv
<1>3. CASE files' = [files EXCEPT ![Active].state = "sealed"]
  <2>1. DOMAIN files = 1 .. Len(files)
    BY <1>1, FilesOf, FieldsOf
  <2>2. Len(files') = Len(files)
        /\ \A i \in 1 .. Len(files) :
             /\ files'[i].blob = files[i].blob
             /\ files'[i].write_offset = files[i].write_offset
             /\ files'[i].size = files[i].size
    <3>1. \A i \in 1 .. Len(files) :
            files[i] = [file_id |-> files[i].file_id, blob |-> files[i].blob,
                        state |-> files[i].state,
                        write_offset |-> files[i].write_offset,
                        size |-> files[i].size]
      BY <1>1, FilesOf DEF FileInfo
    <3>2. DOMAIN files' = 1 .. Len(files)
          /\ \A i \in 1 .. Len(files) :
               files'[i] = IF i = Active THEN [files[i] EXCEPT !.state = "sealed"]
                                         ELSE files[i]
      BY <1>3, <2>1
    <3>3. Len(files') = Len(files)
      <4>1. files \in Seq(FileInfo)
        BY <1>1, FilesOf DEF InOrder
      <4> QED
        BY <1>1, <1>3, <3>2, <4>1, FilesOf
    <3> QED
      BY <3>1, <3>2, <3>3
  <2>3. OffsetsCover(files')
    BY <1>1, <2>2, FilesOf DEF OffsetsCover
  <2>4. \A i \in 1 .. Len(superblock.file_mappings) : i \in 1 .. Len(files)
    BY <1>1, FilesOf
  <2> QED
    BY <1>1, <2>2, <2>3, <2>4, FilesOf, CallStepWInv
<1> QED
  BY <1>1, <1>2, <1>3

LEMMA BlobAllocatedWInv ==
  ASSUME WInv, BInv, BlobAllocated
  PROVE  WInv'
<1>1. PICK f : /\ f.size = 0 /\ f.write_offset = 1
               /\ files' = Append(files, f)
  BY DEF BlobAllocated, NewFile
<1>2. state = "ready" /\ state' = "ready"
      /\ UNCHANGED <<primary, backup, superblock>>
  BY DEF BlobAllocated, Waits
<1>3. files \in Seq(FileInfo) /\ Len(files) \in Nat
  BY <1>2, FilesOf DEF InOrder
<1>4. Len(files') = Len(files) + 1 /\ files'[Len(files) + 1] = f
      /\ \A i \in 1 .. Len(files) : files'[i] = files[i]
  BY <1>1, <1>3
<1>5. OffsetsCover(files')
  <2>1. \A i \in 1 .. Len(files') : i \in 1 .. Len(files) \/ i = Len(files) + 1
    BY <1>3, <1>4
  <2> QED
    BY <1>1, <1>2, <1>4, <2>1, FilesOf DEF OffsetsCover
<1>6. \A i \in 1 .. Len(superblock.file_mappings) : i \in 1 .. Len(files)
  BY <1>2, FilesOf
<1> QED
  BY <1>2, <1>4, <1>5, <1>6, FilesOf, CallStepWInv

(* A rollback drops a file that no superblock has.                          *)
LEMMA RollbackWInv ==
  ASSUME WInv, BInv, state = "ready", state' = "ready", Allocates, DropFile,
         UNCHANGED <<primary, backup, superblock>>
  PROVE  WInv'
<1>1. Len(files) = Len(superblock.file_mappings) + 1
  BY InReady DEF FilesMapped
<1>2. Len(files) >= 1
  BY <1>1, FilesOf
<1>3. Len(files') = Len(files) - 1
      /\ \A i \in 1 .. Len(files) - 1 : files'[i] = files[i]
  BY <1>2, FileDropped, FilesOf DEF DropFile
<1>4. \A i \in 1 .. Len(files) - 1 : i \in 1 .. Len(files)
  BY FilesOf
<1>5. OffsetsCover(files')
  BY <1>3, <1>4, FilesOf DEF OffsetsCover
<1>6. Len(superblock.file_mappings) = Len(files) - 1
  BY <1>1, FilesOf
<1>7. \A i \in 1 .. Len(superblock.file_mappings) :
        /\ files'[i].blob = files[i].blob
        /\ files[i].write_offset <= files'[i].write_offset
        /\ files'[i].write_offset \in Nat
  <2> SUFFICES ASSUME NEW i \in 1 .. Len(superblock.file_mappings)
               PROVE  /\ files'[i].blob = files[i].blob
                      /\ files[i].write_offset <= files'[i].write_offset
                      /\ files'[i].write_offset \in Nat
    OBVIOUS
  <2>1. i \in 1 .. Len(files) - 1 /\ i \in 1 .. Len(files)
    BY <1>4, <1>6
  <2>2. files'[i] = files[i]
    BY <1>3, <2>1
  <2>3. files[i].write_offset \in Nat
    BY <2>1, FilesOf
  <2> QED
    BY <2>2, <2>3
<1> QED
  BY <1>5, <1>7, FilesOf, CallStepWInv

LEMMA FileOpenedWInv ==
  ASSUME WInv, BInv, FileOpened
  PROVE  WInv'
<1>1. PICK m : m = superblock.file_mappings
  OBVIOUS
<1>2. state = "ready" /\ state' = "ready" /\ Allocates
      /\ UNCHANGED <<primary, backup, files>>
      /\ superblock' = [superblock EXCEPT !.file_mappings =
                          UpdateMapping(m, files[Len(files)])]
  BY <1>1 DEF FileOpened, Waits, deviceVars, Allocates
<1>3. IsSound(superblock) /\ FilesMapped /\ InOrder(m)
  BY <1>1, <1>2, InReady DEF IsSound
<1>4. Len(files) = Len(m) + 1 /\ Len(m) \in Nat /\ InOrder(files)
  BY <1>1, <1>2, <1>3, FieldsOf DEF FilesMapped
<1>5. files[Len(files)].file_id = Len(m)
  BY <1>4, FieldsOf
<1>6. UpdateMapping(m, files[Len(files)]) = Append(m, files[Len(files)])
  BY <1>3, <1>5, MappingAdded
<1>7. superblock'.file_mappings = Append(m, files[Len(files)])
  BY <1>2, <1>3, <1>6 DEF IsSound, Superblock
<1>8. Len(superblock'.file_mappings) = Len(m) + 1
  <2>1. m \in Seq(FileInfo)
    BY <1>3 DEF InOrder
  <2> QED
    BY <1>7, <2>1
<1>9. \A i \in 1 .. Len(m) : i \in 1 .. Len(files)
  BY <1>4
<1> QED
  BY <1>1, <1>2, <1>4, <1>8, <1>9, FilesOf, CallStepWInv

LEMMA WrittenWInv ==
  ASSUME WInv, BInv, TInv, Written
  PROVE  WInv'
<1>1. /\ Waits("write") /\ Fits /\ state' = "ready" /\ state = "ready"
      /\ files' = Advance(Writing.pages)
      /\ UNCHANGED <<primary, backup, superblock>>
  BY DEF Written, Waits
<1>2. /\ Writing.pages \in Nat \ {0}
      /\ Active \in 1 .. Len(files) /\ files[Active] \in FileInfo
      /\ InOrder(files)
  BY <1>1, WritingIs DEF TInv
<1>3. PICK n : n = Writing.pages
  OBVIOUS
<1>4. PICK a : a = Active
  OBVIOUS
<1>5. DOMAIN files = 1 .. Len(files) /\ files \in Seq(FileInfo)
  BY <1>2, FieldsOf DEF InOrder
<1>6. /\ Len(files') = Len(files)
      /\ \A i \in 1 .. Len(files) : i # a => files'[i] = files[i]
      /\ files'[a].blob = files[a].blob
      /\ files'[a].write_offset = files[a].write_offset + n
      /\ files'[a].size = files[a].write_offset + n
  <2>1. files' = [files EXCEPT ![a] =
                    [files[a] EXCEPT !.write_offset = files[a].write_offset + n,
                                     !.size = files[a].write_offset + n]]
    BY <1>1, <1>2, <1>3, <1>4, <1>5 DEF Advance
  <2>2. files[a] = [file_id |-> files[a].file_id, blob |-> files[a].blob,
                    state |-> files[a].state,
                    write_offset |-> files[a].write_offset,
                    size |-> files[a].size]
    BY <1>2, <1>4 DEF FileInfo
  <2> QED
    BY <1>2, <1>4, <1>5, <2>1, <2>2
<1>7. \A i \in 1 .. Len(files) :
        /\ files'[i].blob = files[i].blob
        /\ files[i].write_offset <= files'[i].write_offset
        /\ files'[i].write_offset \in Nat
  BY <1>1, <1>2, <1>3, <1>4, <1>6, FilesOf
<1>8. OffsetsCover(files')
  BY <1>1, <1>2, <1>3, <1>4, <1>6, FilesOf DEF OffsetsCover
<1>9. \A i \in 1 .. Len(superblock.file_mappings) : i \in 1 .. Len(files)
  BY <1>1, FilesOf
<1> QED
  BY <1>1, <1>7, <1>8, <1>9, FilesOf, CallStepWInv

(* close: the superblock takes over the files.                              *)
LEMMA CloseBeginWInv ==
  ASSUME WInv, BInv, CloseBegin
  PROVE  WInv'
<1>1. PICK m : m = superblock.file_mappings
  OBVIOUS
<1>2. /\ state = "ready" /\ state' = "backup" /\ call = NoCall
      /\ superblock'.file_mappings = UpdateMappings(m, files)
      /\ UNCHANGED <<primary, backup>>
  BY <1>1 DEF CloseBegin, deviceVars
<1>3. InOrder(m) /\ InOrder(files) /\ Len(m) = Len(files)
  <2>1. IsSound(superblock) /\ FilesMapped /\ ~Allocates
    BY <1>2, InReady DEF Allocates, NoCall
  <2> QED
    BY <1>1, <2>1 DEF IsSound, FilesMapped
<1>4. superblock'.file_mappings = files
  BY <1>2, <1>3, MappingsBecomeFiles
<1> QED
  BY <1>2, <1>4 DEF WInv, OffsetsCover

(* The memory is gone: only the copies count.                               *)
LEMMA ForgottenWInv ==
  ASSUME WInv, Forget,
         \/ UNCHANGED <<primary, backup>>
         \/ /\ state = "backup" /\ backup' \in CutShort(backup)
            /\ primary' = primary
         \/ /\ state = "primary" /\ primary' \in CutShort(primary)
            /\ backup' = backup
  PROVE  WInv'
<1>1. state' = "closed"
  BY DEF Forget
<1>2. primary' \in {primary, Torn} \/ OffsetsCover(primary'.file_mappings)
  BY DEF CutShort, WInv
<1>3. backup' \in {backup, Torn} \/ OffsetsCover(backup'.file_mappings)
  BY DEF CutShort, WInv
<1>4. primary' # Torn => OffsetsCover(primary'.file_mappings)
  BY <1>2 DEF WInv
<1>5. backup' # Torn => OffsetsCover(backup'.file_mappings)
  BY <1>3 DEF WInv
<1> QED
  BY <1>1, <1>4, <1>5 DEF WInv, OffsetsCover, Torn

LEMMA CloseWInv ==
  ASSUME WInv, BInv, Close
  PROVE  WInv'
<1>1. CASE CloseBegin
  BY <1>1, CloseBeginWInv
<1>2. CASE WriteBackup
  <2>1. /\ state = "backup" /\ backup' \in CutShort(backup)
        /\ primary' = primary
    BY <1>2 DEF WriteBackup, CutShort
  <2>2. CASE Forget
    BY <2>1, <2>2, ForgottenWInv
  <2>3. CASE ~Forget
    <3>1. backup' = superblock /\ superblock' = superblock /\ state' = "primary"
      BY <1>2, <2>3 DEF WriteBackup
    <3> QED
      BY <2>1, <3>1 DEF WInv, OffsetsCover, Torn
  <2> QED
    BY <2>2, <2>3
<1>3. CASE WritePrimary
  <2>1. /\ state = "primary" /\ primary' \in CutShort(primary) /\ Forget
        /\ backup' = backup
    BY <1>3 DEF WritePrimary, CutShort
  <2> QED
    BY <2>1, ForgottenWInv
<1> QED
  BY <1>1, <1>2, <1>3 DEF Close

LEMMA CrashWInv ==
  ASSUME WInv, Crash
  PROVE  WInv'
<1>1. Forget
  BY DEF Crash, CrashWith
<1>2. \/ UNCHANGED <<primary, backup>>
      \/ state = "backup" /\ backup' \in CutShort(backup) /\ primary' = primary
      \/ state = "primary" /\ primary' \in CutShort(primary) /\ backup' = backup
  BY DEF Crash, CrashWith
<1> QED
  BY <1>1, <1>2, ForgottenWInv

(* open: the files are those of the copy that was loaded.                   *)
LEMMA OpenWInv ==
  ASSUME WInv, BInv, Open
  PROVE  WInv'
<1>1. UNCHANGED <<primary, backup>>
  BY DEF Open, OpenFromPrimary, OpenFromBackup, Load, OpenFailed,
         DeleteLogged, RebuildFileInfo, ReleaseDangling, Recover, deviceVars
<1>2. CASE Recover
  <2>1. /\ state = "dangling" /\ state' = "ready"
        /\ UNCHANGED <<superblock, files>>
    BY <1>2 DEF Recover, deviceVars
  <2>2. /\ superblock = Loaded /\ Loaded # Torn /\ IsSound(Loaded)
        /\ files = superblock.file_mappings
    BY <2>1, InOpen
  <2>3. OffsetsCover(Loaded.file_mappings)
    BY <2>2 DEF WInv, Loaded
  <2>4. Len(files) \in Nat
    BY <2>2, MappedOf
  <2>5. BehindRecorded'
    BY <1>1, <2>1, <2>2, <2>3, <2>4 DEF BehindRecorded, OffsetsCover, Loaded
  <2> QED
    BY <1>1, <2>1, <2>2, <2>3, <2>5 DEF WInv, OffsetsCover
<1>3. CASE ~Recover
  <2>1. state' \in {"log", "dangling", "error"}
    BY <1>3 DEF Open, OpenFromPrimary, OpenFromBackup, Load, OpenFailed,
         DeleteLogged, RebuildFileInfo, ReleaseDangling
  <2> QED
    BY <1>1, <2>1 DEF WInv
<1> QED
  BY <1>2, <1>3

LEMMA NextWInv == WInv /\ BInv /\ TInv /\ [Next]_vars => WInv'
<1> SUFFICES ASSUME WInv, BInv, TInv, [Next]_vars PROVE WInv'
  OBVIOUS
<1>1. CASE Calls
  BY <1>1, BeginWInv DEF Calls, Put, Del
<1>2. CASE BlobAllocated
  BY <1>2, BlobAllocatedWInv
<1>3. CASE BlobNotAllocated
  BY <1>3, SameFilesWInv DEF BlobNotAllocated, Waits, deviceVars, fileVars
<1>4. CASE LogWritten
  BY <1>4, SameFilesWInv DEF LogWritten, Waits, fileVars
<1>5. CASE LogNotWritten
  BY <1>5, RollbackWInv DEF LogNotWritten, Waits, Allocates, deviceVars
<1>6. CASE FileOpened
  BY <1>6, FileOpenedWInv
<1>7. CASE FileNotOpened
  BY <1>7, RollbackWInv DEF FileNotOpened, Waits, Allocates, deviceVars
<1>8. CASE Written
  BY <1>8, WrittenWInv
<1>9. CASE NotWritten
  BY <1>9, SameFilesWInv DEF NotWritten, Waits, fileVars
<1>10. CASE Close
  BY <1>10, CloseWInv
<1>11. CASE Open
  BY <1>11, OpenWInv
<1>12. CASE Crash
  BY <1>12, CrashWInv
<1>13. CASE UNCHANGED vars
  BY <1>13 DEF vars, deviceVars, fileVars, WInv, BehindRecorded, Loaded,
              OffsetsCover
<1> QED
  BY <1>1, <1>2, <1>3, <1>4, <1>5, <1>6, <1>7, <1>8, <1>9, <1>10, <1>11,
     <1>12, <1>13 DEF Next, Steps

(* No step but the write of a record, the loss of one, a new blob and the   *)
(* two deletions of a recovery touches the blobs.                           *)
DataStays ==
  \A i \in DOMAIN Loaded.file_mappings :
    LET f == Loaded.file_mappings[i] IN
    \A p \in 0 .. f.size - 1 :
      f.blob \in DOMAIN disk' /\ disk'[f.blob][p] = disk[f.blob][p]

(* A copy is torn, or its mappings are files whose blobs exist.             *)
LEMMA RecordedFiles ==
  ASSUME BInv, NEW i \in DOMAIN Loaded.file_mappings
  PROVE  /\ Loaded # Torn /\ IsSound(Loaded)
         /\ i \in 1 .. Len(Loaded.file_mappings)
         /\ Loaded.file_mappings[i].blob \in DOMAIN disk
         /\ Loaded.file_mappings[i].blob \in Mapped(Loaded)
         /\ Loaded.file_mappings[i].size \in 0 .. FilePages
<1>1. Loaded # Torn
  BY DEF Torn
<1>2. IsSound(Loaded) /\ Mapped(Loaded) \subseteq DOMAIN disk
  BY <1>1 DEF BInv, CopiesSound, LoadedIsSafe, IsSafe, Loaded
<1>3. /\ i \in 1 .. Len(Loaded.file_mappings)
      /\ Loaded.file_mappings[i] \in FileInfo
  BY <1>2, FieldsOf DEF IsSound
<1>4. Loaded.file_mappings[i].blob \in Mapped(Loaded)
  BY DEF Mapped
<1> QED
  BY <1>1, <1>2, <1>3, <1>4, RestartAssumption DEF FileInfo

(* A record, or a part of one, comes behind what is recorded.               *)
LEMMA StoreStays ==
  ASSUME WInv, BInv, TInv, Waits("write"),
         NEW parts \in SUBSET (1 .. Writing.pages), disk' = Store(parts)
  PROVE  DataStays
<1> SUFFICES ASSUME NEW i \in DOMAIN Loaded.file_mappings,
                    NEW p \in 0 .. Loaded.file_mappings[i].size - 1
             PROVE  /\ Loaded.file_mappings[i].blob \in DOMAIN disk'
                    /\ disk'[Loaded.file_mappings[i].blob][p] =
                         disk[Loaded.file_mappings[i].blob][p]
  BY DEF DataStays
<1>1. PICK b : b = Loaded.file_mappings[i].blob
  OBVIOUS
<1>2. PICK f : f = files[Active]
  OBVIOUS
<1>3. /\ Active \in 1 .. Len(files) /\ f.blob \in DOMAIN disk /\ f \in FileInfo
      /\ InOrder(files) /\ Writing.pages \in Nat \ {0}
  BY <1>2, WritingIs DEF TInv
<1>4. /\ i \in 1 .. Len(Loaded.file_mappings) /\ b \in DOMAIN disk
      /\ Loaded.file_mappings[i].size \in 0 .. FilePages
  BY <1>1, RecordedFiles
<1>5. state = "ready"
  BY DEF Waits
<1>6. i \in 1 .. Len(files) /\ files[i].blob = b
      /\ Loaded.file_mappings[i].size <= files[i].write_offset
  <2>1. BehindRecorded /\ Len(Loaded.file_mappings) \in Nat
    BY <1>5, InReady, MappedOf DEF WInv
  <2> QED
    BY <1>1, <1>4, <1>5, <2>1, FilesOf DEF BehindRecorded
<1>7. p \in Page /\ DOMAIN disk[b] = Page
  <2>1. disk[b] \in [Page -> StoredCell]
    BY <1>4 DEF TInv, DiskTyped
  <2> QED
    BY <1>4, <2>1, RestartAssumption DEF Page
<1>8. disk' = [disk EXCEPT ![f.blob] =
                 [q \in Page |-> LET j == q - f.write_offset + 1 IN
                                 IF j \in parts
                                 THEN [rec |-> Writing, part |-> j]
                                 ELSE disk[f.blob][q]]]
  BY <1>2, <1>3 DEF Store
<1>9. CASE b # f.blob
  BY <1>1, <1>4, <1>8, <1>9
<1>10. CASE b = f.blob
  <2>1. Active = i
    BY <1>2, <1>3, <1>6, <1>10 DEF InOrder
  <2>2. p < f.write_offset
    BY <1>2, <1>3, <1>4, <1>6, <2>1, RestartAssumption DEF FileInfo
  <2>3. p - f.write_offset + 1 \notin parts
    BY <1>3, <1>7, <2>2, RestartAssumption DEF FileInfo, Page
  <2>4. disk'[b][p] = disk[b][p]
    BY <1>3, <1>7, <1>8, <1>10, <2>3
  <2> QED
    BY <1>1, <1>4, <1>8, <2>4
<1> QED
  BY <1>9, <1>10

(* A deletion of a recovery takes blobs that Loaded does not map.           *)
LEMMA DeletionStays ==
  ASSUME BInv, DeleteLogged \/ ReleaseDangling
  PROVE  DataStays
<1>1. PICK d : disk' = [x \in DOMAIN disk \ {d} |-> disk[x]]
  BY DEF DeleteLogged, ReleaseDangling, DeleteBlob
<1>2. BInv' /\ Loaded' = Loaded
  BY DeleteBInv DEF DeleteLogged, ReleaseDangling, Loaded
<1>3. Loaded # Torn => Mapped(Loaded) \subseteq DOMAIN disk'
  BY <1>2 DEF BInv, LoadedIsSafe, IsSafe
<1>4. ASSUME NEW i \in DOMAIN Loaded.file_mappings
      PROVE  Loaded.file_mappings[i].blob \in DOMAIN disk'
  BY <1>3, RecordedFiles
<1> QED
  BY <1>1, <1>4 DEF DataStays

LEMMA NextDataStays ==
  ASSUME WInv, BInv, TInv, [Next]_vars
  PROVE  DataStays
<1>1. CASE disk' = disk
  BY <1>1, RecordedFiles DEF DataStays
<1>2. CASE BlobAllocated
  <2>1. PICK b : /\ b \notin DOMAIN disk
                 /\ disk' = [x \in DOMAIN disk \cup {b} |->
                               IF x = b THEN [p \in Page |-> NoData]
                                        ELSE disk[x]]
    <3> DEFINE free == Blobs \ DOMAIN disk
               c == CHOOSE c \in free : \A e \in free : c <= e
    <3>1. free # {} /\ free \subseteq Nat
      BY <1>2, RestartAssumption DEF BlobAllocated
    <3>2. c \in free
      <4> HIDE DEF free
      <4> QED
        BY <3>1, Least
    <3>3. disk' = [x \in DOMAIN disk \cup {c} |->
                     IF x = c THEN [p \in Page |-> NoData] ELSE disk[x]]
      BY <1>2 DEF BlobAllocated
    <3> HIDE DEF c
    <3> QED
      BY <3>2, <3>3
  <2> QED
    BY <2>1, RecordedFiles DEF DataStays
<1>3. CASE Written
  BY <1>3, StoreStays DEF Written
<1>4. CASE NotWritten
  BY <1>4, StoreStays DEF NotWritten
<1>5. CASE DeleteLogged \/ ReleaseDangling
  BY <1>5, DeletionStays
<1>6. CASE Crash /\ disk' # disk
  <2>1. /\ state \notin {"closed", "error"} /\ call.at = "write"
        /\ \E parts \in SUBSET (1 .. Writing.pages) : disk' = Store(parts)
    BY <1>6 DEF Crash, CrashWith
  <2>2. Waits("write")
    BY <2>1 DEF BInv, FileTypes, Waits, NoCall
  <2> QED
    BY <2>1, <2>2, StoreStays
<1>7. CASE UNCHANGED vars
  BY <1>1, <1>7 DEF vars, deviceVars
<1>8. CASE Calls \/ Close \/ OpenFromPrimary \/ OpenFromBackup \/ OpenFailed
           \/ RebuildFileInfo \/ Recover \/ BlobNotAllocated \/ LogWritten
           \/ LogNotWritten \/ FileOpened \/ FileNotOpened
  <2>1. disk' = disk
    BY <1>8 DEF Calls, Put, Del, Begin, Close, CloseBegin, WriteBackup,
       WritePrimary, OpenFromPrimary, OpenFromBackup, Load, OpenFailed,
       RebuildFileInfo, Recover, BlobNotAllocated, LogWritten, LogNotWritten,
       FileOpened, FileNotOpened, deviceVars
  <2> QED
    BY <1>1, <2>1
<1> QED
  BY <1>1, <1>2, <1>3, <1>4, <1>5, <1>6, <1>7, <1>8 DEF Next, Steps, Open

(* What the superblock recorded as written is never overwritten nor         *)
(* deleted, whatever crashes, cut writes and failed writes there were       *)
(* (load_existing, the put path, write_superblock).                         *)
THEOREM RecordedDataAlwaysStays == Spec => RecordedDataStays
<1>1. WInv /\ BInv /\ TInv /\ [Next]_vars => [DataStays]_vars
  BY NextDataStays
<1>2. WInv /\ BInv /\ TInv /\ [Next]_vars => (WInv /\ BInv /\ TInv)'
  BY NextWInv, NextBInv, NextTInv
<1>3. Init => WInv /\ BInv /\ TInv
  BY InitWInv, InitBInv, InitTInv
<1>4. Spec => [][DataStays]_vars
  BY <1>1, <1>2, <1>3, PTL DEF Spec
<1> QED
  BY <1>4 DEF RecordedDataStays, DataStays
=============================================================================
