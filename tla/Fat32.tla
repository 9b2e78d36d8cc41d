------------------------------- MODULE Fat32 -------------------------------
(***************************************************************************)
(* The FAT32 reader of labs/15-fat32/code: mounting, listing a directory,  *)
(* finding a name and reading a file, from an SD card into blocks of the   *)
(* kernel heap (module Kmalloc).  Every call that writes to the card is    *)
(* unimplemented() and stops the program.                                  *)
(*                                                                         *)
(* A disk is its FAT and the entries of its directories.  Memory is the    *)
(* history `wrote` of what was put where: a byte holds what the last write *)
(* over it put there, so blocks that overlap show.  Sizes are in bytes.    *)
(***************************************************************************)
EXTENDS Integers, Sequences, FiniteSets

CONSTANTS
  NBYTES_PER_SECTOR, DirentSize, PiDirentSize, PiFileSize, WordSize,
  ClusterSpace,          \* 2^28, what is left of a FAT entry without its top bits
  HeapStart, HeapMax, MemEnd, \* as in Kmalloc
  Disks,                 \* the cards that may be mounted
  Names,                 \* file names asked for, upper and lower case being one
  MaxCalls               \* bound on the calls after mounting

VARIABLES
  disk, alloc_top, blocks, wrote,
  fs,                    \* fat32_fs_t
  pc, op, start, name,   \* the call in progress: where, which, its arguments
  cl, cnt, buf, index, n, arr, \* locals: start_cluster, cnt or i, the two arrays
  listings, found, files, \* what calls returned so far
  calls, fault           \* how many, and whether an assertion stopped the program

heap   == <<alloc_top, blocks>>
locals == <<cl, cnt, buf, index, n, arr>>
call   == <<op, start, name>>
given  == <<listings, found, files>>
vars   == <<disk, alloc_top, blocks, wrote, fs, pc, op, start, name, cl, cnt, buf,
            index, n, arr, listings, found, files, calls, fault>>

\* The heap, which the program has initialised; its contents are `wrote`.
K == INSTANCE Kmalloc WITH
       Starts <- {}, Maxima <- {}, Sizes <- {}, Alignments <- {},
       init_p <- TRUE, alloc_start <- HeapStart, max_bytes <- HeapMax

-----------------------------------------------------------------------------
(* The card.  Each entry of a directory is [name, attr, cluster, nbytes];  *)
(* End and Deleted are those whose name starts with 0 and 0xE5.            *)

End     == [name |-> "0",  attr |-> "none", cluster |-> 0, nbytes |-> 0]
Deleted == [name |-> "E5", attr |-> "archive", cluster |-> 0, nbytes |-> 0]

EntriesPerSector == NBYTES_PER_SECTOR \div DirentSize

\* The clusters that the table of a card leads to from c, one after the other,
\* and where the chain of c has its end.
Walk(d, c) ==
  LET at[k \in Nat] == IF k = 0 THEN c ELSE d.fat[at[k - 1]] % ClusterSpace IN at
Ends(d, c) == d.fat[c] % ClusterSpace \in ClusterSpace - 8 .. ClusterSpace - 1
EndsAfter(d, c, k) ==
  (\A j \in 0 .. k - 1 : ~Ends(d, Walk(d, c)[j])) /\ Ends(d, Walk(d, c)[k])

\* A chain comes to an end inside the table, and the links on its way have no top bits.
SoundChain(d, c) ==
  \E k \in 0 .. ClusterSpace :
    /\ \A j \in 0 .. k : Walk(d, c)[j] \in DOMAIN d.fat
    /\ EndsAfter(d, c, k) /\ \A j \in 0 .. k - 1 : d.fat[Walk(d, c)[j]] < ClusterSpace

\* The clusters of a directory hold entries, the last of which was never used.
EntriesIn(d) == d.boot.sec_per_cluster * EntriesPerSector
SoundDirectory(d, c) ==
  /\ SoundChain(d, c)
  /\ \E k \in 0 .. ClusterSpace :
       /\ EndsAfter(d, c, k) /\ \A j \in 0 .. k : Walk(d, c)[j] \in DOMAIN d.dir
       /\ d.dir[Walk(d, c)[k]][EntriesIn(d)] = End

\* An entry has a chain: that of a directory, or 0 for the root, if it is one,
\* and if not, one apart from the directories.  Files are what is asked for by name.
SoundEntry(d, e) ==
  /\ e.cluster \in Nat
  /\ e.attr = "dir" => e.name \notin Names /\ (e.cluster = 0 \/ SoundDirectory(d, e.cluster))
  /\ e.attr # "dir" => e.cluster \notin DOMAIN d.dir /\ SoundChain(d, e.cluster)

\* what mounting checks, and the cards that the driver is made for
Passes(d) == d.boot.ok /\ d.boot.nfats = 2 /\ d.info_ok
SoundCard(d) ==
  /\ d.lba_start \in Nat /\ d.boot.reserved_area_nsec \in Nat
  /\ d.boot.nsec_per_fat \in Nat \ {0} /\ d.boot.sec_per_cluster \in Nat \ {0}
  /\ \A c \in DOMAIN d.fat :
       /\ c \in 0 .. ClusterSpace - 1 /\ d.fat[c] \in Nat
       /\ WordSize * c < d.boot.nsec_per_fat * NBYTES_PER_SECTOR
  /\ \A c \in DOMAIN d.dir :
       /\ c \in Nat /\ c >= 2 /\ \A i \in 1 .. EntriesIn(d) : SoundEntry(d, d.dir[c][i])
  /\ SoundChain(d, 0) /\ SoundDirectory(d, 2)

ASSUME Fat32Assumption ==
  /\ {NBYTES_PER_SECTOR, DirentSize, PiDirentSize, PiFileSize, WordSize} \subseteq Nat \ {0}
  /\ NBYTES_PER_SECTOR % DirentSize = 0 /\ NBYTES_PER_SECTOR % WordSize = 0
  /\ ClusterSpace \in Nat /\ ClusterSpace > 8
  /\ {HeapStart, HeapMax, MemEnd, MaxCalls} \subseteq Nat /\ HeapStart <= MemEnd
  /\ \A d \in Disks : Passes(d) => SoundCard(d)

-----------------------------------------------------------------------------
FatLba  == disk.lba_start + disk.boot.reserved_area_nsec
DataLba == FatLba + disk.boot.nfats * disk.boot.nsec_per_fat

\* The FAT entry and the directory entry that a sector of the card holds at
\* an offset; the sectors of files hold no entry.
FatOnDisk(lba, off) ==
  disk.fat[((lba - FatLba) % disk.boot.nsec_per_fat) * (NBYTES_PER_SECTOR \div WordSize)
             + off \div WordSize]
ClusterOf(lba) == 2 + (lba - DataLba) \div disk.boot.sec_per_cluster
EntryOnDisk(lba, off) ==
  disk.dir[ClusterOf(lba)]
    [1 + ((lba - DataLba) % disk.boot.sec_per_cluster) * EntriesPerSector + off \div DirentSize]

-----------------------------------------------------------------------------
(* Memory.                                                                 *)

Writing(addr, size, what) == Append(wrote, [addr |-> addr, size |-> size, what |-> what])
\* pi_sd_read(data, lba, nsec)
SdRead(data, lba, nsec) == Writing(data, nsec * NBYTES_PER_SECTOR, <<"sd", lba>>)

Covers(i, p) == wrote[i].addr <= p /\ p < wrote[i].addr + wrote[i].size
\* the write that last touched byte p; 0 for none
LastWrite(p) ==
  LET ws == {i \in 1 .. Len(wrote) : Covers(i, p)}
  IN  IF ws = {} THEN 0 ELSE CHOOSE i \in ws : \A j \in ws : j <= i
FromCard(p)  == LastWrite(p) # 0 /\ wrote[LastWrite(p)].what[1] = "sd"
Offset(p)    == p - wrote[LastWrite(p)].addr
\* the sector, and the offset in it, that byte p was read from
LbaAt(p)     == wrote[LastWrite(p)].what[2] + Offset(p) \div NBYTES_PER_SECTOR
LbaOffset(p) == Offset(p) % NBYTES_PER_SECTOR

\* fs->fat[c]
FatAt(c) == FatOnDisk(LbaAt(fs.fat + WordSize * c), LbaOffset(fs.fat + WordSize * c))
\* *(fat32_dirent_t *)p, and *(pi_dirent_t *)p
DirentAt(p) == EntryOnDisk(LbaAt(p), LbaOffset(p))
IsDirentAt(p) == FromCard(p) /\ LbaAt(p) >= DataLba /\ ClusterOf(LbaAt(p)) \in DOMAIN disk.dir
PiDirentAt(p) == wrote[LastWrite(p)].what[2]
\* nothing was written over what the write at p put into size bytes
Whole(p, size) ==
  \A i \in LastWrite(p) + 1 .. Len(wrote) :
    wrote[i].addr + wrote[i].size <= p \/ p + size <= wrote[i].addr
IsPiDirentAt(p) ==
  /\ LastWrite(p) # 0 /\ wrote[LastWrite(p)].what[1] = "dirent" /\ Offset(p) = 0
  /\ Whole(p, PiDirentSize)

-----------------------------------------------------------------------------
(* Helpers of the driver.                                                  *)

\* (x << 4) >> 4
Masked(x) == x % ClusterSpace
\* fat32_fat_entry_type, whose panics the disks do not reach
IsLast(x) == Masked(x) >= ClusterSpace - 8

\* the cluster that data sectors start with
FirstCluster == 2
BugClusterToLba(c) == fs.cluster_begin_lba + (c - FirstCluster)
\* cluster_to_lba, below its assertion
ClusterToLba(c) == fs.cluster_begin_lba + (c - FirstCluster) * fs.sectors_per_cluster
ClusterBytes == fs.sectors_per_cluster * NBYTES_PER_SECTOR

\* dirent_convert
DirentConvert(d) ==
  [name |-> d.name, is_dir_p |-> d.attr = "dir", cluster_id |-> d.cluster, nbytes |-> d.nbytes]

\* fat32_get_root
Root == [name |-> "", is_dir_p |-> TRUE, cluster_id |-> 2, nbytes |-> 0]

Init ==
  /\ disk \in Disks
  /\ alloc_top = HeapStart /\ blocks = {} /\ wrote = <<>>
  /\ fs = [fat_begin_lba |-> 0, cluster_begin_lba |-> 0, sectors_per_cluster |-> 1, fat |-> 0]
  /\ pc = "mbr" /\ op = "mk" /\ start = 0 /\ name = ""
  /\ cl = 0 /\ cnt = 0 /\ buf = 0 /\ index = 0 /\ n = 0 /\ arr = 0
  /\ listings = {} /\ found = {} /\ files = {} /\ calls = 0 /\ fault = "none"

Running == fault = "none"
\* an assertion, demand or panic fails
Panic == fault' = "panic" /\ UNCHANGED <<heap, wrote, fs, pc, locals, given>>

-----------------------------------------------------------------------------
(* Mounting: mbr_read, then fat32_mk.                                      *)

MbrRead ==
  /\ Running /\ pc = "mbr"
  /\ K!Bump(alloc_top, NBYTES_PER_SECTOR, 4)
  /\ wrote' = SdRead(alloc_top, 0, 1)
  /\ pc' = "info"
  /\ UNCHANGED <<disk, fs, call, locals, given, calls, fault>>

\* the boot sector and the FS information sector, each checked
MkInfo ==
  /\ Running /\ pc = "info"
  /\ IF Passes(disk)
       THEN /\ K!Bump(alloc_top, NBYTES_PER_SECTOR, 4)
            /\ wrote' = SdRead(alloc_top, disk.lba_start + 1, 1)
            /\ pc' = "fat" /\ UNCHANGED <<fs, locals, given, fault>>
       ELSE Panic
  /\ UNCHANGED <<disk, call, calls>>

\* what fat32_mk allocates for the FATs, of which it reads both copies
FatBytes == disk.boot.nfats * disk.boot.nsec_per_fat * NBYTES_PER_SECTOR

\* the FATs and the fat32_fs_t
MkFat ==
  /\ Running /\ pc = "fat"
  /\ K!Bump(alloc_top, FatBytes, 4)
  /\ fs' = LET b == disk.lba_start + disk.boot.reserved_area_nsec IN
             [fat_begin_lba       |-> b,
              cluster_begin_lba   |-> b + disk.boot.nfats * disk.boot.nsec_per_fat,
              sectors_per_cluster |-> disk.boot.sec_per_cluster,
              fat                 |-> alloc_top]
  /\ wrote' = SdRead(alloc_top, fs'.fat_begin_lba, disk.boot.nfats * disk.boot.nsec_per_fat)
  /\ pc' = "idle"
  /\ UNCHANGED <<disk, call, locals, given, calls, fault>>

-----------------------------------------------------------------------------
(* The calls.                                                              *)

BugChainCount == 0
\* what get_cluster_chain_length starts to count from
ChainCount == 1

\* A directory argument is the root or an entry of a listing; a demand
\* refuses one that is not a directory.
Directories ==
  {d \in {Root} \cup UNION {{PiDirentAt(l.arr + i * PiDirentSize) : i \in 0 .. l.n - 1} :
                            l \in listings} : d.is_dir_p}

\* fat32_readdir, fat32_stat and fat32_read all begin with get_dirents
Call(o, d, f) ==
  /\ Running /\ pc = "idle" /\ calls < MaxCalls
  /\ op' = o /\ start' = d.cluster_id /\ name' = f
  /\ cl' = d.cluster_id /\ cnt' = ChainCount
  /\ pc' = "length" /\ calls' = calls + 1
  /\ UNCHANGED <<disk, heap, wrote, fs, buf, index, n, arr, given, fault>>

\* get_cluster_chain_length, one cluster a step
ChainLength(from, to) ==
  /\ Running /\ pc = from
  /\ IF IsLast(FatAt(cl))
       THEN pc' = to /\ UNCHANGED <<cl, cnt>>
       ELSE cl' = FatAt(cl) /\ cnt' = cnt + 1 /\ pc' = from
  /\ UNCHANGED <<disk, heap, wrote, fs, call, buf, index, n, arr, given, calls, fault>>

\* get_dirents allocates the whole directory ...
AllocDirents ==
  /\ Running /\ pc = "alloc"
  /\ K!Bump(alloc_top, ClusterBytes * cnt, 4)
  /\ buf' = alloc_top /\ cl' = start /\ cnt' = 0 /\ pc' = "read"
  /\ UNCHANGED <<disk, wrote, fs, call, index, n, arr, given, calls, fault>>

\* ... reads it, a cluster a step (read_cluster_chain) ...
ReadChain ==
  /\ Running /\ pc = "read"
  /\ IF Masked(cl) < 2 THEN Panic
     ELSE /\ wrote' = SdRead(buf + ((ClusterBytes * cnt) \div DirentSize) * DirentSize,
                             ClusterToLba(Masked(cl)), fs.sectors_per_cluster)
          /\ IF IsLast(FatAt(Masked(cl)))
               THEN pc' = "scan" /\ index' = 0 /\ n' = 0 /\ UNCHANGED <<cl, cnt>>
               ELSE pc' = pc /\ cl' = FatAt(Masked(cl)) /\ cnt' = cnt + 1 /\ UNCHANGED <<index, n>>
          /\ UNCHANGED <<heap, fs, buf, arr, given, fault>>
  /\ UNCHANGED <<disk, call, calls>>

Raw(i) == DirentAt(buf + DirentSize * i)
\* The two scans of the raw entries read inside the directory.
InDirectory(i) == IsDirentAt(buf + DirentSize * i)

\* the entries that get into the result, long names and volume labels too
Listed(d) == d # End /\ d # Deleted
BugAdvance(d) == IF Listed(d) THEN index + 1 ELSE index
\* the scans step over every entry
Advance(d) == index + 1

\* ... and counts the entries in use before the first that was never used.
Scan ==
  /\ Running /\ pc = "scan"
  /\ IF ~InDirectory(index)
       THEN fault' = "outside" /\ UNCHANGED <<pc, index, n>>
       ELSE IF Raw(index) = End
         THEN pc' = "array" /\ UNCHANGED <<index, n, fault>>
         ELSE /\ n' = IF Listed(Raw(index)) THEN n + 1 ELSE n
              /\ index' = Advance(Raw(index)) /\ UNCHANGED <<pc, fault>>
  /\ UNCHANGED <<disk, heap, wrote, fs, call, cl, cnt, buf, arr, given, calls>>

BugArrayBytes == n * DirentSize
\* what fat32_readdir allocates for its result
ArrayBytes == n * PiDirentSize

\* fat32_readdir; kmalloc refuses to allocate nothing
AllocArray ==
  /\ Running /\ pc = "array"
  /\ IF n = 0 THEN Panic
     ELSE /\ K!Bump(alloc_top, ArrayBytes, 4)
          /\ arr' = alloc_top /\ index' = 0 /\ cnt' = 0 /\ pc' = "convert"
          /\ UNCHANGED <<wrote, fs, cl, buf, n, given, fault>>
  /\ UNCHANGED <<disk, call, calls>>

\* its second scan, converting an entry a step; cnt is dirent_index
Convert ==
  /\ Running /\ pc = "convert"
  /\ IF Raw(index) = End
       THEN /\ pc' = IF op = "readdir" THEN "idle" ELSE "lookup"
            /\ listings' = IF op = "readdir"
                             THEN listings \cup {[dir |-> start, arr |-> arr, n |-> n]}
                             ELSE listings
            /\ UNCHANGED <<wrote, index, cnt>>
       ELSE /\ wrote' = IF Listed(Raw(index))
                          THEN Writing(arr + PiDirentSize * cnt, PiDirentSize,
                                       <<"dirent", DirentConvert(Raw(index))>>)
                          ELSE wrote
            /\ cnt' = IF Listed(Raw(index)) THEN cnt + 1 ELSE cnt
            /\ index' = Advance(Raw(index)) /\ UNCHANGED <<pc, listings>>
  /\ UNCHANGED <<disk, heap, fs, call, cl, buf, n, arr, found, files, calls, fault>>

\* find_dirent_with_name
Named == {i \in 0 .. n - 1 : PiDirentAt(arr + PiDirentSize * i).name = name}
FindDirent    == IF Named = {} THEN -1 ELSE CHOOSE i \in Named : \A j \in Named : i <= j

\* The fields of dirents[-1], what fat32_stat points to when the name is not
\* found: they lie in the last entry of the raw directory, which ends where the
\* array begins, was never used (SoundDirectory) and is taken to hold zeros.
NotFound == [cluster_id |-> 0, nbytes |-> 0]
Dirent(i) == IF i = -1 THEN NotFound ELSE PiDirentAt(arr + PiDirentSize * i)

\* fat32_stat, which returns dirents + index even if index is -1; fat32_read
\* goes on with the chain of the file.
Lookup ==
  /\ Running /\ pc = "lookup"
  /\ index' = FindDirent
  /\ IF op = "stat"
       THEN /\ found' = found \cup {[dir |-> start, name |-> name, dirent |-> arr + PiDirentSize * index']}
            /\ pc' = "idle" /\ UNCHANGED <<cl, cnt>>
       ELSE cl' = Dirent(index').cluster_id /\ cnt' = ChainCount /\ pc' = "filelength" /\ found' = found
  /\ UNCHANGED <<disk, heap, wrote, fs, call, buf, n, arr, listings, files, calls, fault>>

\* what fat32_read allocates for the contents: the number of clusters
FileBytes == cnt

\* fat32_read: cnt bytes, into which it reads cnt sectors from the first cluster on
ReadFile ==
  /\ Running /\ pc = "file"
  /\ IF Dirent(index).cluster_id < 2 THEN Panic
     ELSE /\ K!Bump(alloc_top, FileBytes, 4)
          /\ buf' = alloc_top
          /\ wrote' = SdRead(alloc_top, ClusterToLba(Dirent(index).cluster_id), cnt)
          /\ pc' = "struct"
          /\ UNCHANGED <<fs, cl, cnt, index, n, arr, given, fault>>
  /\ UNCHANGED <<disk, call, calls>>

\* ... and the pi_file_t
FileStruct ==
  /\ Running /\ pc = "struct"
  /\ K!Bump(alloc_top, PiFileSize, 4)
  /\ wrote' = Writing(alloc_top, PiFileSize, <<"file", cnt>>)
  /\ files' = files \cup {[cluster |-> Dirent(index).cluster_id, data |-> buf, n_data |-> Dirent(index).nbytes]}
  /\ pc' = "idle"
  /\ UNCHANGED <<disk, fs, call, locals, listings, found, calls, fault>>

Step == \/ MbrRead \/ MkInfo \/ MkFat
        \/ ChainLength("length", "alloc") \/ AllocDirents \/ ReadChain
        \/ Scan \/ AllocArray \/ Convert \/ Lookup
        \/ ChainLength("filelength", "file") \/ ReadFile \/ FileStruct

Next ==
  \/ Step
  \/ \E d \in Directories : Call("readdir", d, "")
  \/ \E o \in {"stat", "read"}, d \in Directories, f \in Names : Call(o, d, f)

Spec     == Init /\ [][Next]_vars
FairSpec == Spec /\ WF_vars(Step)

-----------------------------------------------------------------------------
(* What the card holds, by the layout of FAT32 and without the driver.     *)

\* the clusters of the chain from c, in order
Chain(c) ==
  LET last == CHOOSE k \in 0 .. ClusterSpace : EndsAfter(disk, c, k)
  IN  [i \in 1 .. last + 1 |-> Walk(disk, c)[i - 1]]

\* the entries in use of the directory that begins at cluster c: those before
\* the first that was never used, but for the deleted ones
Entries(c) ==
  LET all == [i \in 1 .. Len(Chain(c)) * EntriesIn(disk) |->
                disk.dir[Chain(c)[1 + ((i - 1) \div EntriesIn(disk))]][1 + ((i - 1) % EntriesIn(disk))]]
      end == CHOOSE i \in DOMAIN all : all[i] = End /\ \A j \in 1 .. i - 1 : all[j] # End
      kept[k \in Nat] ==
        IF k = 0 THEN <<>> ELSE IF all[k] = Deleted THEN kept[k - 1] ELSE Append(kept[k - 1], all[k])
  IN  kept[end - 1]

\* what the comment wants listed: no "LFNs, or Volume IDs"
Valid(d) == d.attr \notin {"lfn", "volume"}

\* the first of the entries with that name, if there is one
FirstNamed(es, nm) ==
  {es[i] : i \in {k \in DOMAIN es : es[k].name = nm /\ \A j \in 1 .. k - 1 : es[j].name # nm}}

TypeOK ==
  /\ alloc_top \in HeapStart .. MemEnd /\ blocks \subseteq K!A!Block
  /\ pc \in {"mbr", "info", "fat", "idle", "length", "alloc", "read", "scan", "array",
             "convert", "lookup", "filelength", "file", "struct"}
  /\ op \in {"mk", "readdir", "stat", "read"}
  /\ cl \in Nat /\ cnt \in Nat /\ buf \in Nat /\ index \in Int /\ n \in Nat /\ arr \in Nat
  /\ calls \in 0 .. MaxCalls /\ fault \in {"none", "panic", "outside"}

\* The FAT kept in memory is the card's, entry by entry, whatever the blocks
\* around it are used for, or overflow with.
FatIntact ==
  pc \notin {"mbr", "info", "fat"} =>
    \A c \in DOMAIN disk.fat :
      /\ FromCard(fs.fat + WordSize * c)
      /\ LbaAt(fs.fat + WordSize * c) \in FatLba .. DataLba - 1 /\ FatAt(c) = disk.fat[c]

\* A listing has the valid entries of its directory, each once and in their
\* order, however its clusters are scattered; the long names and labels between
\* them, which the comment wants left out, take a place of their own each (see
\* ListsOnlyValid), and nothing else does.  It still has them after later calls,
\* although fat32_read writes past its block.
ListingsExact ==
  \A l \in listings :
    /\ l.n = Len(Entries(l.dir))
    /\ \A i \in 1 .. l.n : Valid(Entries(l.dir)[i]) =>
         /\ IsPiDirentAt(l.arr + PiDirentSize * (i - 1))
         /\ PiDirentAt(l.arr + PiDirentSize * (i - 1)) = DirentConvert(Entries(l.dir)[i])

\* fat32_stat finds the first entry with a name, if that is a valid one, and what
\* it points to stays that entry.  Of a name that the directory does not have it
\* says nothing: the code points in front of its array then, where the comment
\* wants NULL.
StatFindsFirst ==
  \A s \in found : \A d \in FirstNamed(Entries(s.dir), s.name) :
    Valid(d) => IsPiDirentAt(s.dirent) /\ PiDirentAt(s.dirent) = DirentConvert(d)

Contained(w) == \E b \in blocks : b.addr <= w.addr /\ w.addr + w.size <= b.addr + b.size
IsFileData(w) ==
  w.what[1] = "sd" /\ w.what[2] >= DataLba /\ ClusterOf(w.what[2]) \notin DOMAIN disk.dir

\* Whatever is read from the card or written to a result, but for the contents
\* of files, stays inside the block allocated for it: the two walks along a
\* chain, and the two scans of a directory, agree on how long it is.
StaysInBlock == \A i \in 1 .. Len(wrote) : IsFileData(wrote[i]) \/ Contained(wrote[i])

\* What fat32_mk, the results of earlier calls and the heap's other blocks hold
\* stays what it was, whatever a call writes.
MemoryIntact == TypeOK /\ FatIntact /\ StaysInBlock
\* What fat32_readdir and fat32_stat return of files and directories is right,
\* and stays so.
ResultsExact == ListingsExact /\ StatFindsFirst

\* On a card whose directories have an end, a scan never leaves the directory,
\* and nothing stops the program but a card that fails the checks, a
\* directory without entries, the ".." that stands for the root, and a name
\* that is not there or is first that of an entry without contents.
StopsOnlyWhen ==
  /\ fault # "outside"
  /\ fault = "panic" =>
       \/ op = "mk" /\ ~Passes(disk)
       \/ op # "mk" /\ start < 2
       \/ op # "mk" /\ start >= 2 /\ Entries(start) = <<>>
       \/ op = "read" /\ start >= 2
            /\ \A d \in FirstNamed(Entries(start), name) : d.cluster < 2

\* Every call returns, or stops the program.
CallsReturn == pc # "idle" ~> (pc = "idle" \/ fault # "none")

\* "Don't include empty dirents, LFNs, or Volume IDs": a listing has as many
\* entries as its directory has valid ones.
ListsOnlyValid ==
  \A l \in listings : l.n = Cardinality({i \in DOMAIN Entries(l.dir) : Valid(Entries(l.dir)[i])})

\* "read in the whole file": what fat32_read returns is the file, its bytes in
\* the order of its clusters.
FilesWhole ==
  \A f \in files : \A o \in 0 .. f.n_data - 1 :
    LET sector == o \div NBYTES_PER_SECTOR
        c == Chain(f.cluster)[1 + sector \div disk.boot.sec_per_cluster]
    IN  /\ FromCard(f.data + o)
        /\ LbaAt(f.data + o) = DataLba + (c - 2) * disk.boot.sec_per_cluster
                                 + (sector % disk.boot.sec_per_cluster)
        /\ LbaOffset(f.data + o) = o % NBYTES_PER_SECTOR
=============================================================================
