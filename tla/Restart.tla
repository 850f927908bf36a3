------------------------------- MODULE Restart -------------------------------
(***************************************************************************)
(* What a restart finds: sessions of the engine, made of the synchronous   *)
(* put and del, close, open and a crash between any two steps of them.     *)
(*                                                                         *)
(* The module has the device (the blobs with their pages, the two copies   *)
(* of the superblock, the page of the AllocLog) and the memory of the      *)
(* engine, which a crash empties. put, del, close and open poll until each *)
(* of their IOs is done, so an action is what happens between two IOs, and *)
(* nothing but a crash comes between. get is Value.                        *)
(*                                                                         *)
(* Sizes and offsets are counted in pages; page 0 of a blob holds its      *)
(* DataFileHeader. The device writes a page whole or not at all.           *)
(***************************************************************************)
EXTENDS Integers, Sequences, FiniteSets
Seqs == INSTANCE SequencesExt

CONSTANTS
  Keys,         (* user keys                                                *)
  PutPages,     (* possible sizes of a put record, in pages                 *)
  FilePages,    (* config_.data_file_size, in pages: the size of a blob     *)
  ChunkPages,   (* the 1 MB that recovery reads at a time, in pages         *)
  Blobs,        (* ids of the blobs the blobstore has room for              *)
  LogCapacity,  (* kAllocLogCapacity                                        *)
  MaxWrites,    (* bound on the calls of put and del                        *)
  MaxCrashes,   (* bound on crashes                                         *)
  MaxCuts,      (* bound on superblock writes that are cut short            *)
  MaxFaults     (* bound on failed writes of a record that leave some of it *)

ASSUME RestartAssumption ==
  /\ PutPages \subseteq Nat \ {0}
  /\ FilePages \in Nat \ {0, 1}
  /\ ChunkPages \in Nat \ {0, 1}
  /\ Blobs \subseteq Nat /\ Blobs # {}
  /\ LogCapacity \in Nat \ {0}
  /\ MaxWrites \in Nat /\ MaxCrashes \in Nat /\ MaxCuts \in Nat
  /\ MaxFaults \in Nat

VARIABLES
  disk,            (* the existing data blobs and what their pages hold     *)
  primary, backup, (* the copies of the superblock on the device            *)
  log_page,        (* the AllocLog page on the device                       *)
  state,           (* state_, with the IO that close or open waits for      *)
  call,            (* the put or del in progress and what it waits for      *)
  superblock,      (* superblock_                                           *)
  files,           (* files_                                                *)
  active_file_id,  (* active_file_id_                                       *)
  next_file_id,    (* next_file_id_                                         *)
  log,             (* alloc_log_manager_: tail_, sequence_ and page_buf_    *)
  mem_index,       (* mem_index_, as a map                                  *)
  global_sequence, (* MemIndex::global_sequence_                            *)
  writes,          (* number of calls of put and del                        *)
  may,             (* per key, the values a get may return                  *)
  crashes,         (* number of crashes                                     *)
  cuts,            (* number of superblock writes cut short                 *)
  faults           (* number of failed writes that left part of a record    *)

deviceVars  == <<disk, primary, backup, log_page>>
fileVars    == <<files, active_file_id, next_file_id>>
indexVars   == <<mem_index, global_sequence>>
historyVars == <<writes, may, crashes, cuts, faults>>

vars == <<deviceVars, state, call, superblock, fileVars, log, indexVars,
          historyVars>>

-----------------------------------------------------------------------------
(* Types *)

Page == 0 .. FilePages - 1

(* No record starts or continues in this page.                              *)
NoData == [part |-> 0]

(* A put is identified by its number, which stands for its value.           *)
Request == [id : 1 .. MaxWrites, key : Keys, kind : {"put", "delete"},
            pages : Nat \ {0}]
Record  == [id : 1 .. MaxWrites, key : Keys, kind : {"put", "delete"},
            pages : Nat \ {0}, seq : Nat]
Cell    == {NoData} \cup [rec : Record, part : Nat \ {0}]

(* The value of a key that is not there.                                    *)
Absent == 0

(* FileInfo, and FileMapping, which has the same fields.                    *)
FileInfo == [file_id : Nat, blob : Blobs, state : {"active", "sealed"},
             write_offset : 1 .. FilePages, size : 0 .. FilePages]

(* A copy of the superblock whose checksum does not match.                  *)
Torn == [file_mappings |-> <<>>]

Superblock == [file_mappings : Seq(FileInfo), active_file_id : Nat,
               alloc_log_sequence : Nat]

NoLogEntry == [sequence |-> 0]
LogEntry   == [sequence : Nat \ {0}, blob : Blobs, file_id : Nat]
LogPage    == [0 .. LogCapacity - 1 -> LogEntry \cup {NoLogEntry}]

NoCall  == [at |-> "none"]
NoEntry == [seq |-> 0]
Entry   == [file : Nat, offset : Nat, seq : Nat \ {0}, deleted : BOOLEAN]

-----------------------------------------------------------------------------
(* Files *)

IndexOfFile(id) == CHOOSE i \in DOMAIN files : files[i].file_id = id
HasFile(id)     == \E i \in DOMAIN files : files[i].file_id = id
Active          == IndexOfFile(active_file_id)

NewFile(id, b) == [file_id |-> id, blob |-> b, state |-> "active",
                   write_offset |-> 1, size |-> 0]

NeedNewFile(n) == files[Active].write_offset + n > FilePages

Advance(n) ==
  [files EXCEPT ![Active].write_offset = @ + n,
                ![Active].size = files[Active].write_offset + n]

(* update_superblock_file_mapping without the write offset.                 *)
UpdateMappingButOffset(mappings, f) ==
  IF \E i \in DOMAIN mappings : mappings[i].file_id = f.file_id
  THEN [i \in DOMAIN mappings |->
          IF mappings[i].file_id = f.file_id
          THEN [f EXCEPT !.write_offset = mappings[i].write_offset]
          ELSE mappings[i]]
  ELSE Append(mappings, f)

(* update_superblock_file_mapping                                           *)
UpdateMapping(mappings, f) ==
  IF \E i \in DOMAIN mappings : mappings[i].file_id = f.file_id
  THEN [i \in DOMAIN mappings |->
          IF mappings[i].file_id = f.file_id THEN f ELSE mappings[i]]
  ELSE Append(mappings, f)

(* The mappings after update_superblock_file_mapping of each of the files.  *)
UpdateMappings(mappings, fs) ==
  LET upto[i \in 0 .. Len(fs)] ==
        IF i = 0 THEN mappings ELSE UpdateMapping(upto[i - 1], fs[i])
  IN  upto[Len(fs)]

Mapped(sb) == { sb.file_mappings[i].blob : i \in DOMAIN sb.file_mappings }

-----------------------------------------------------------------------------
(* Index *)

Find(k) == mem_index[k] # NoEntry /\ ~mem_index[k].deleted

Upsert(index, k, e) ==
  IF index[k] # NoEntry /\ e.seq <= index[k].seq
  THEN index ELSE [index EXCEPT ![k] = e]

MarkDeleted(index, k) ==
  IF index[k] # NoEntry THEN [index EXCEPT ![k].deleted = TRUE] ELSE index

(* The index after a record was found, or written, at this place.           *)
Enter(index, file, offset, rec) ==
  IF rec.kind = "delete"
  THEN MarkDeleted(index, rec.key)
  ELSE Upsert(index, rec.key, [file |-> file, offset |-> offset,
                               seq |-> rec.seq, deleted |-> FALSE])

Unreadable == -1

(* All pages of the record that starts in page p are there.                 *)
Whole(pages, p) ==
  LET r == pages[p].rec IN
  \A i \in 1 .. r.pages : pages[p + i - 1] = [rec |-> r, part |-> i]

(* get: what it parses at the place the index gives. It compares neither    *)
(* the key nor the checksum, and takes a tombstone for a value.             *)
Value(k) ==
  IF ~Find(k) THEN Absent
  ELSE IF ~HasFile(mem_index[k].file) THEN Unreadable
  ELSE LET pages == disk[files[IndexOfFile(mem_index[k].file)].blob]
           p     == mem_index[k].offset
       IN  IF pages[p].part = 1 /\ Whole(pages, p)
           THEN pages[p].rec.id ELSE Unreadable

-----------------------------------------------------------------------------
(* Recovery *)

(* ScanChunk, when a record may not reach the end of the chunk.             *)
ScanChunkShort(pages, first, end) ==
  LET parse[p \in first .. end] ==
        IF p = end THEN <<>>
        ELSE IF pages[p].part # 1 THEN parse[p + 1]
        ELSE IF p + pages[p].rec.pages >= end \/ ~Whole(pages, p) THEN <<>>
        ELSE <<[offset |-> p, rec |-> pages[p].rec]>>
               \o parse[p + pages[p].rec.pages]
  IN  parse[first]

(* The records parse_and_rebuild_entries finds in the chunk [first, end) of *)
(* a blob with these pages. A page without a record is passed over; a       *)
(* record that ends outside the chunk, or is not whole, ends the chunk.     *)
ScanChunk(pages, first, end) ==
  LET parse[p \in first .. end] ==
        IF p = end THEN <<>>
        ELSE IF pages[p].part # 1 THEN parse[p + 1]
        ELSE IF p + pages[p].rec.pages > end \/ ~Whole(pages, p) THEN <<>>
        ELSE <<[offset |-> p, rec |-> pages[p].rec]>>
               \o parse[p + pages[p].rec.pages]
  IN  parse[first]

(* The records of a file: chunk after chunk from its start to its end, up   *)
(* to the first chunk without a record. The start is the checkpoint's, page *)
(* 0 of file 0, since no checkpoint ever moves it.                          *)
ScanFile(pages, f) ==
  LET start == IF f.file_id = 0 THEN 0 ELSE 1
      end   == IF f.size > 0 THEN f.size ELSE FilePages
      scan[c \in 0 .. end + ChunkPages] ==
        IF c >= end THEN <<>>
        ELSE LET last  == IF c + ChunkPages < end THEN c + ChunkPages ELSE end
                 found == ScanChunk(pages, c, last)
             IN  IF found = <<>> THEN <<>> ELSE found \o scan[c + ChunkPages]
      found == scan[start]
  IN  [i \in DOMAIN found |->
         [file |-> f.file_id, offset |-> found[i].offset, rec |-> found[i].rec]]

(* The records of these files, when the blobs hold d.                       *)
Scan(d, fs) ==
  Seqs!FlattenSeq([i \in DOMAIN fs |-> ScanFile(d[fs[i].blob], fs[i])])

RecoveredIndex(d, fs) ==
  Seqs!FoldLeft(LAMBDA index, x : Enter(index, x.file, x.offset, x.rec),
                [k \in Keys |-> NoEntry], Scan(d, fs))

(* The sequence of the checkpoint in the superblock, which stays 0.         *)
CheckpointSequence == 1

(* max(checkpoint_seq, recovered_max_seq) + 1                               *)
RecoveredSequence ==
  LET scan == Scan(disk, files)
      seqs == {0} \cup { scan[i].rec.seq : i \in DOMAIN scan }
  IN  1 + CHOOSE s \in seqs : \A t \in seqs : t <= s

(* The entries load_entries returns: from the head, slot 0 since nothing    *)
(* reclaims, as long as their sequences rise from the superblock's.         *)
LoadedEntries(sb) ==
  LET last(i) == IF i = 0 THEN sb.alloc_log_sequence
                 ELSE log_page[i - 1].sequence
      n == CHOOSE m \in 0 .. LogCapacity :
             /\ \A i \in 0 .. m - 1 : log_page[i].sequence > last(i)
             /\ m = LogCapacity \/ log_page[m].sequence <= last(m)
  IN  [i \in 1 .. n |-> log_page[i - 1]]

-----------------------------------------------------------------------------
(* Memory that a close or a crash leaves.                                   *)
Forget ==
  /\ state' = "closed"
  /\ call' = NoCall
  /\ superblock' = Torn
  /\ files' = <<>> /\ active_file_id' = 0 /\ next_file_id' = 0
  /\ log' = [tail |-> 0, sequence |-> 0, page |-> log_page]
  /\ mem_index' = [k \in Keys |-> NoEntry] /\ global_sequence' = 0

(* The state that create leaves: file 0 in the first blob.                  *)
Init ==
  LET b  == CHOOSE b \in Blobs : \A c \in Blobs : b <= c
      f  == NewFile(0, b)
      sb == [file_mappings |-> <<f>>, active_file_id |-> 0,
             alloc_log_sequence |-> 1]
      page == [i \in 0 .. LogCapacity - 1 |->
                 IF i = 0 THEN [sequence |-> 1, blob |-> b, file_id |-> 0]
                 ELSE NoLogEntry]
  IN
  /\ disk = [x \in {b} |-> [p \in Page |-> NoData]]
  /\ primary = sb /\ backup = sb
  /\ log_page = page
  /\ state = "ready" /\ call = NoCall
  /\ superblock = sb
  /\ files = <<f>> /\ active_file_id = 0 /\ next_file_id = 1
  /\ log = [tail |-> 1, sequence |-> 1, page |-> page]
  /\ mem_index = [k \in Keys |-> NoEntry] /\ global_sequence = 0
  /\ writes = 0 /\ may = [k \in Keys |-> {Absent}]
  /\ crashes = 0 /\ cuts = 0 /\ faults = 0

-----------------------------------------------------------------------------
(* put and del *)

NewValue(r) == IF r.kind = "put" THEN r.id ELSE Absent

(* From the call to its first IO.                                           *)
Begin(r) ==
  /\ state = "ready" /\ call = NoCall
  /\ writes < MaxWrites
  /\ writes' = r.id
  /\ may' = [may EXCEPT ![r.key] = @ \cup {NewValue(r)}]
  /\ \/ /\ NeedNewFile(r.pages)
        /\ files' = [files EXCEPT ![Active].state = "sealed"]
        /\ call' = [at |-> "blob", request |-> r]
     \/ /\ ~NeedNewFile(r.pages)
        /\ call' = [at |-> "write", request |-> r]
        /\ UNCHANGED files
  /\ UNCHANGED <<deviceVars, state, superblock, active_file_id, next_file_id,
                 log, indexVars, crashes, cuts, faults>>

Put(k, n) == Begin([id |-> writes + 1, key |-> k, kind |-> "put", pages |-> n])

Del(k) ==
  /\ Find(k)
  /\ Begin([id |-> writes + 1, key |-> k, kind |-> "delete", pages |-> 1])

Waits(io) == state = "ready" /\ call.at = io

(* The rollback of a failed allocation, without next_file_id_--.            *)
DropFileKeepId == files' = SubSeq(files, 1, Len(files) - 1)
                  /\ UNCHANGED next_file_id

DropFile == files' = SubSeq(files, 1, Len(files) - 1)
            /\ next_file_id' = next_file_id - 1

(* The blobstore makes the blob with the lowest free id.                    *)
BlobAllocated ==
  LET free == Blobs \ DOMAIN disk
      b    == CHOOSE b \in free : \A c \in free : b <= c
  IN
  /\ Waits("blob")
  /\ free # {}
  /\ disk' = [x \in DOMAIN disk \cup {b} |->
                IF x = b THEN [p \in Page |-> NoData] ELSE disk[x]]
  /\ files' = Append(files, NewFile(next_file_id, b))
  /\ next_file_id' = next_file_id + 1
  /\ call' = [call EXCEPT !.at = "log"]
  /\ UNCHANGED <<primary, backup, log_page, state, superblock, active_file_id,
                 log, indexVars, historyVars>>

(* The blobstore gives none: the FileInfo pushed for it is dropped again.   *)
BlobNotAllocated ==
  /\ Waits("blob")
  /\ call' = NoCall
  /\ UNCHANGED <<deviceVars, state, superblock, fileVars, log, indexVars,
                 historyVars>>

(* write_entry, up to its IO: what is in the buffer stays there if that     *)
(* fails.                                                                   *)
LogFullLate == log.tail > LogCapacity

LogFull == log.tail >= LogCapacity

WriteEntry ==
  LET f == files[Len(files)] IN
  log' = [tail |-> log.tail + 1, sequence |-> log.sequence + 1,
          page |-> [log.page EXCEPT ![log.tail % LogCapacity] =
                      [sequence |-> log.sequence + 1, blob |-> f.blob,
                       file_id |-> f.file_id]]]

LogWritten ==
  /\ Waits("log")
  /\ ~LogFull
  /\ WriteEntry
  /\ log_page' = log'.page
  /\ call' = [call EXCEPT !.at = "open"]
  /\ UNCHANGED <<disk, primary, backup, state, superblock, fileVars, indexVars,
                 historyVars>>

LogNotWritten ==
  /\ Waits("log")
  /\ IF LogFull THEN UNCHANGED log ELSE WriteEntry
  /\ DropFile
  /\ call' = NoCall
  /\ UNCHANGED <<deviceVars, state, superblock, active_file_id, indexVars,
                 historyVars>>

(* The blob is open and has its header.                                     *)
FileOpened ==
  /\ Waits("open")
  /\ superblock' = [superblock EXCEPT !.file_mappings =
                      UpdateMapping(@, files[Len(files)])]
  /\ active_file_id' = files[Len(files)].file_id
  /\ call' = [call EXCEPT !.at = "write"]
  /\ UNCHANGED <<deviceVars, state, files, next_file_id, log, indexVars,
                 historyVars>>

FileNotOpened ==
  /\ Waits("open")
  /\ DropFile
  /\ call' = NoCall
  /\ UNCHANGED <<deviceVars, state, superblock, active_file_id, log, indexVars,
                 historyVars>>

(* The record that a call that waits for its write is writing.              *)
Writing ==
  LET r == call.request IN
  [id |-> r.id, key |-> r.key, kind |-> r.kind, pages |-> r.pages,
   seq |-> global_sequence + 1]

Fits == files[Active].write_offset + Writing.pages <= FilePages

(* disk after these parts of the record have been written.                  *)
Store(parts) ==
  LET f == files[Active] IN
  [disk EXCEPT ![f.blob] =
     [p \in Page |-> LET i == p - f.write_offset + 1 IN
                     IF i \in parts THEN [rec |-> Writing, part |-> i] ELSE @[p]]]

Written ==
  LET f == files[Active] IN
  /\ Waits("write")
  /\ Fits
  /\ disk' = Store(1 .. Writing.pages)
  /\ mem_index' = Enter(mem_index, f.file_id, f.write_offset, Writing)
  /\ global_sequence' = global_sequence + 1
  /\ files' = Advance(Writing.pages)
  /\ may' = [may EXCEPT ![Writing.key] = {NewValue(call.request)}]
  /\ call' = NoCall
  /\ UNCHANGED <<primary, backup, log_page, state, superblock, active_file_id,
                 next_file_id, log, writes, crashes, cuts, faults>>

(* An error, after any part of the record; a record larger than a file is   *)
(* refused whole. The next record takes the same place.                     *)
NotWritten ==
  /\ Waits("write")
  /\ \E parts \in SUBSET (1 .. Writing.pages) :
       /\ Fits \/ parts = {}
       /\ disk' = Store(parts)
       /\ faults' = IF parts = {} THEN faults ELSE faults + 1
  /\ faults' <= MaxFaults
  /\ global_sequence' = global_sequence + 1
  /\ call' = NoCall
  /\ UNCHANGED <<primary, backup, log_page, state, superblock, fileVars, log,
                 mem_index, writes, may, crashes, cuts>>

-----------------------------------------------------------------------------
(* close *)

CloseBegin ==
  /\ state = "ready" /\ call = NoCall
  /\ superblock' =
       [file_mappings |-> UpdateMappings(superblock.file_mappings, files),
        active_file_id |-> active_file_id,
        alloc_log_sequence |-> log.sequence]
  /\ state' = "backup"
  /\ UNCHANGED <<deviceVars, call, fileVars, log, indexVars, historyVars>>

(* What a copy may hold after a write of the superblock that did not end.   *)
CutShort(copy) == {copy, Torn, superblock}

(* Both copies are written at once.                                         *)
WriteBothCopies ==
  /\ state = "backup"
  /\ \/ /\ primary' = superblock /\ backup' = superblock
        /\ UNCHANGED cuts
     \/ /\ cuts < MaxCuts
        /\ cuts' = cuts + 1
        /\ primary' \in CutShort(primary) /\ backup' \in CutShort(backup)
  /\ Forget
  /\ UNCHANGED <<disk, log_page, writes, may, crashes, faults>>

(* write_superblock: the backup, and the primary after it.                  *)
WriteBackup ==
  /\ state = "backup"
  /\ \/ /\ backup' = superblock
        /\ state' = "primary"
        /\ UNCHANGED <<call, superblock, fileVars, log, indexVars, cuts>>
     \/ /\ cuts < MaxCuts
        /\ cuts' = cuts + 1
        /\ backup' \in CutShort(backup)
        /\ Forget
  /\ UNCHANGED <<disk, primary, log_page, writes, may, crashes, faults>>

WritePrimary ==
  /\ state = "primary"
  /\ \/ /\ primary' = superblock
        /\ UNCHANGED cuts
     \/ /\ cuts < MaxCuts
        /\ cuts' = cuts + 1
        /\ primary' \in CutShort(primary)
  /\ Forget
  /\ UNCHANGED <<disk, backup, log_page, writes, may, crashes, faults>>

-----------------------------------------------------------------------------
(* open *)

(* load_superblock and load_entries.                                        *)
Load(sb) ==
  /\ state = "closed"
  /\ superblock' = sb
  /\ log' = LET loaded == LoadedEntries(sb) IN
            [tail |-> Len(loaded),
             sequence |-> IF loaded = <<>> THEN sb.alloc_log_sequence
                          ELSE loaded[Len(loaded)].sequence,
             page |-> log_page]
  /\ state' = "log"
  /\ UNCHANGED <<deviceVars, call, fileVars, indexVars, historyVars>>

OpenFromPrimary == primary # Torn /\ Load(primary)
OpenFromBackup  == primary = Torn /\ backup # Torn /\ Load(backup)

(* kCorruption                                                              *)
OpenFailed ==
  /\ state = "closed"
  /\ primary = Torn /\ backup = Torn
  /\ state' = "error"
  /\ UNCHANGED <<deviceVars, call, superblock, fileVars, log, indexVars,
                 historyVars>>

DeleteBlob(b) == disk' = [x \in DOMAIN disk \ {b} |-> disk[x]]

LoggedBlobs ==
  LET loaded == LoadedEntries(superblock) IN
  { loaded[i].blob : i \in DOMAIN loaded }

(* process_alloc_log_recovery. The checksum of a DataFileHeader is computed *)
(* with a zero in its own field and compared with one computed over the     *)
(* stored value: no header is valid, and every blob of the log is deleted.  *)
DeleteLogged ==
  /\ state = "log"
  /\ \E b \in LoggedBlobs \cap DOMAIN disk : DeleteBlob(b)
  /\ UNCHANGED <<primary, backup, log_page, state, call, superblock, fileVars,
                 log, indexVars, historyVars>>

(* rebuild_file_info: every mapped blob is opened, or open fails with       *)
(* kIoError.                                                                *)
RebuildFileInfo ==
  /\ state = "log"
  /\ LoggedBlobs \cap DOMAIN disk = {}
  /\ \/ /\ Mapped(superblock) \subseteq DOMAIN disk
        /\ files' = superblock.file_mappings
        /\ state' = "dangling"
     \/ /\ ~ Mapped(superblock) \subseteq DOMAIN disk
        /\ state' = "error"
        /\ UNCHANGED files
  /\ UNCHANGED <<deviceVars, call, superblock, active_file_id, next_file_id,
                 log, indexVars, historyVars>>

Dangling == DOMAIN disk \ Mapped(superblock)

(* release_dangling_blobs                                                   *)
ReleaseDangling ==
  /\ state = "dangling"
  /\ \E b \in Dangling : DeleteBlob(b)
  /\ UNCHANGED <<primary, backup, log_page, state, call, superblock, fileVars,
                 log, indexVars, historyVars>>

(* Steps 8 to 13 of load_existing, with the whole of IndexLoader's scan.    *)
Recover ==
  /\ state = "dangling"
  /\ Dangling = {}
  /\ active_file_id' = superblock.active_file_id
  /\ next_file_id' = Len(superblock.file_mappings)
  /\ mem_index' = RecoveredIndex(disk, files)
  /\ global_sequence' = RecoveredSequence
  /\ state' = "ready"
  /\ UNCHANGED <<deviceVars, call, superblock, files, log, historyVars>>

-----------------------------------------------------------------------------
(* A crash: memory is gone, and the IO in progress may have done any part   *)
(* of its work.                                                             *)
CrashWith(device) ==
  /\ state \notin {"closed", "error"}
  /\ crashes < MaxCrashes
  /\ crashes' = crashes + 1
  /\ device
  /\ Forget
  /\ UNCHANGED <<log_page, writes, may, faults>>

Crash ==
  \/ CrashWith(state \notin {"backup", "primary"} /\ call.at # "write"
               /\ UNCHANGED <<disk, primary, backup, cuts>>)
  \/ CrashWith(/\ call.at = "write"
               /\ \E parts \in SUBSET (1 .. Writing.pages) :
                    (Fits \/ parts = {}) /\ disk' = Store(parts)
               /\ UNCHANGED <<primary, backup, cuts>>)
  \/ CrashWith(/\ state = "backup" /\ cuts < MaxCuts /\ cuts' = cuts + 1
               /\ backup' \in CutShort(backup)
               /\ UNCHANGED <<disk, primary>>)
  \/ CrashWith(/\ state = "primary" /\ cuts < MaxCuts /\ cuts' = cuts + 1
               /\ primary' \in CutShort(primary)
               /\ UNCHANGED <<disk, backup>>)

-----------------------------------------------------------------------------
Calls == \E k \in Keys : Del(k) \/ \E n \in PutPages : Put(k, n)

Steps == \/ BlobAllocated \/ BlobNotAllocated
         \/ LogWritten \/ LogNotWritten
         \/ FileOpened \/ FileNotOpened
         \/ Written \/ NotWritten

Close == CloseBegin \/ WriteBackup \/ WritePrimary

Open == \/ OpenFromPrimary \/ OpenFromBackup \/ OpenFailed
        \/ DeleteLogged \/ RebuildFileInfo \/ ReleaseDangling \/ Recover

Next == Calls \/ Steps \/ Close \/ Open \/ Crash

Spec == Init /\ [][Next]_vars

-----------------------------------------------------------------------------
(* Properties *)

TypeOK ==
  /\ DOMAIN disk \subseteq Blobs
  /\ \A b \in DOMAIN disk : disk[b] \in [Page -> Cell]
  /\ {primary, backup, superblock} \subseteq Superblock \cup {Torn}
  /\ log_page \in LogPage
  /\ state \in {"ready", "closed", "backup", "primary", "log", "dangling",
                "error"}
  /\ call \in {NoCall} \cup
              [at : {"blob", "log", "open", "write"}, request : Request]
  /\ files \in Seq(FileInfo)
  /\ active_file_id \in Nat /\ next_file_id \in Nat
  /\ log \in [tail : 0 .. LogCapacity, sequence : Nat, page : LogPage]
  /\ mem_index \in [Keys -> Entry \cup {NoEntry}]
  /\ global_sequence \in Nat
  /\ writes \in 0 .. MaxWrites
  /\ may \in [Keys -> SUBSET (0 .. MaxWrites)]
  /\ crashes \in 0 .. MaxCrashes /\ cuts \in 0 .. MaxCuts
  /\ faults \in 0 .. MaxFaults

(* A get returns the value of the last put or del of its key that was       *)
(* answered with success, or of one after it that was not: in the session   *)
(* and in every later one.                                                  *)
AcksSurvive ==
  state = "ready" /\ call = NoCall => \A k \in Keys : Value(k) \in may[k]

(* A key whose last call was a put answered with success is in the index:   *)
(* recovery misses no record that was complete.                             *)
AckedPutsFound ==
  state = "ready" /\ call = NoCall =>
    \A k \in Keys : Absent \notin may[k] => Find(k)

(* No record continues at the start of a chunk that recovery reads.         *)
ChunkStart(id, p) ==
  \E n \in 0 .. FilePages : p = (IF id = 0 THEN 0 ELSE 1) + n * ChunkPages

Unbroken(d, fs) ==
  \A i \in DOMAIN fs : \A p \in Page :
    d[fs[i].blob][p].part > 1 => ~ChunkStart(fs[i].file_id, p)

(* AcksSurvive, as long as every session was closed, its superblock written *)
(* and no failed write left a record behind: what close writes is all that  *)
(* open needs, for records that lie within a chunk.                         *)
AcksSurviveClose ==
  crashes = 0 /\ cuts = 0 /\ faults = 0 /\ Unbroken(disk, files) => AcksSurvive

(* One write of the superblock that is cut short, by a crash or an error,   *)
(* leaves a valid copy: open does not fail with kCorruption. A second one   *)
(* need not: open does not repair the copy it finds torn, and close writes  *)
(* the backup first, even when it is the one that open came from.           *)
OneCutIsSurvived == cuts <= 1 => primary # Torn \/ backup # Torn

(* Every blob that the copy open would load maps exists: no recovery, after *)
(* whatever crashes, deletes the blob of a file that a later open needs.    *)
MappedBlobsExist ==
  /\ primary # Torn => Mapped(primary) \subseteq DOMAIN disk
  /\ primary = Torn /\ backup # Torn => Mapped(backup) \subseteq DOMAIN disk

(* No two files share an id or a blob, and the active file exists: ids that *)
(* failed allocations give back, and the count of mappings that open takes  *)
(* for the next id, do not collide.                                         *)
FilesDistinct ==
  state = "ready" =>
    /\ HasFile(active_file_id)
    /\ ~HasFile(next_file_id)
    /\ \A i, j \in DOMAIN files :
         files[i].file_id = files[j].file_id \/ files[i].blob = files[j].blob
           => i = j

(* The copy of the superblock that open loads.                              *)
Loaded == IF primary # Torn THEN primary ELSE backup

(* What the superblock recorded as written stays as it is, through crashes, *)
(* cut writes and later sessions: no record is placed over it and its blob  *)
(* is not deleted, although a session begins at the write offsets of a      *)
(* superblock that may be older than the data, and deletes every blob of    *)
(* the log. What is lost in a crash lies behind the recorded sizes.         *)
RecordedDataStays ==
  [][\A i \in DOMAIN Loaded.file_mappings :
       LET f == Loaded.file_mappings[i] IN
       \A p \in 0 .. f.size - 1 :
         f.blob \in DOMAIN disk' /\ disk'[f.blob][p] = disk[f.blob][p]]_vars

(* A put whose record the superblock recorded is in the index of every      *)
(* session, or a newer put of its key is, deleted or not: after a crash the *)
(* scan ends at the recorded sizes, or comes to what a lost session left,   *)
(* and the sequences of that session are given out again.                   *)
RecordedPutsFound ==
  state = "ready" /\ Unbroken(disk, files) =>
    \A i \in DOMAIN Loaded.file_mappings :
      LET f == Loaded.file_mappings[i] IN
      \A p \in 0 .. f.size - 1 :
        LET c == disk[f.blob][p] IN
        c.part = 1 /\ c.rec.kind = "put" =>
          /\ mem_index[c.rec.key] # NoEntry
          /\ mem_index[c.rec.key].seq >= c.rec.seq

=============================================================================
