------------------------------- MODULE FatDir -------------------------------
(***************************************************************************)
(* The directory core of the FAT library (src/src/dir.rs): directories as *)
(* streams of 32-byte slots, the iterator with its long-name assembler    *)
(* (DirIter, LongNameBuilder), and the public operations of Dir that walk *)
(* a path from the root and then open, create or remove its last          *)
(* component.  Every operation is one atomic step: the library is         *)
(* single-threaded and each call runs to completion before the next one.  *)
(*                                                                         *)
(* Data is abstracted: a name is a value of Names (names that differ only *)
(* in ASCII case are the same value, as eq_ignore_ascii_case compares     *)
(* them), a long-name fragment carries the pair <<name, index>> instead   *)
(* of its 13 UCS-2 code units, and an 11-byte short name is a value of    *)
(* ShortNames.  The control of every operation is kept.                   *)
(***************************************************************************)
EXTENDS Integers, Sequences, FiniteSets

CONSTANTS
    Names,        \* file names as compared by find_entry (ASCII case folded)
    NameLen,      \* NameLen[n]: name.len() of a name, in bytes
    ShortNames,   \* 11-byte short names
    GenShort,     \* GenShort[n]: Dir::gen_short_name(n)
    Display,      \* Display[s]: DirEntry::short_file_name() of short name s
    NulLead,      \* short names whose first byte is 0x00
    Checksum,     \* Checksum[s]: lfn_checksum(s)
    Checksums,    \* the checksum values that occur
    Clusters,     \* cluster numbers of the volume
    DirIds,       \* directories: Root and the first cluster of each subdirectory
    Root,         \* the root directory
    RootFixed,    \* TRUE: FAT12/16 root, a fixed region; FALSE: FAT32 root, a cluster chain
    ClusterSlots, \* slots per cluster
    MaxDirSlots,  \* the most slots a directory stream can reach (volume full)
    Paths,        \* the paths the operations are called with
    InitDirs,     \* the directory slot streams of the image
    InitChain,    \* the clusters of each directory's chain in the image
    InitAlloc     \* the clusters allocated in the FAT of the image

(* A long-name fragment holds 13 UCS-2 code units (LFN_PART_LEN). *)
LFN_PART_LEN == 13

(* The most fragments a name of at most 255 bytes needs. *)
MaxLfn == (255 + LFN_PART_LEN - 1) \div LFN_PART_LEN

(* The value file_name() takes for an assembled long name that is not the *)
(* encoding of any single name (fragments of different names).            *)
Garbled == "<garbled>"

FileNames == Names \cup {Garbled}

(* A name part: fragment i of name n; "pad" is a code unit never written. *)
Parts == (Names \X (1..MaxLfn)) \cup {"pad"}

(***************************************************************************)
(* Slots.  An all-zero slot is the terminator; a free slot is one whose   *)
(* first byte (name[0] or order) is 0xE5, of either shape; a short slot   *)
(* is a file, directory or volume-label entry; an lfn slot is a long-name *)
(* fragment (attribute 0x0F).                                              *)
(***************************************************************************)
EndSlot == [kind |-> "end"]
FreeSlot == [kind |-> "free"]

ShortSlots == [kind : {"short"}, sname : ShortNames, dir : BOOLEAN,
               vol : BOOLEAN, clus : Clusters \cup {0}]
LfnSlots == [kind : {"lfn"}, ord : 0..31, last : BOOLEAN, chk : Checksums,
             part : Parts]
Slot == {EndSlot, FreeSlot} \cup ShortSlots \cup LfnSlots

ASSUME ConstantsAssumption ==
    /\ Names \cap {Garbled} = {}
    /\ NameLen \in [Names -> Nat]
    /\ GenShort \in [Names -> ShortNames]
    /\ Display \in [ShortNames -> Names]
    /\ NulLead \subseteq ShortNames
    /\ Checksums \subseteq 0..255 /\ 0 \in Checksums
    /\ Checksum \in [ShortNames -> Checksums]
    /\ Clusters \subseteq Nat \ {0} /\ IsFiniteSet(Clusters)
    /\ Root = 0 /\ DirIds \subseteq Clusters \cup {Root} /\ Root \in DirIds
    /\ RootFixed \in BOOLEAN
    /\ ClusterSlots \in Nat \ {0}
    /\ MaxDirSlots \in Nat
    /\ Paths \subseteq Seq(Names) \ {<<>>}
    /\ InitDirs \in [DirIds -> Seq(Slot)]
    /\ InitChain \in [DirIds -> SUBSET Clusters]
    /\ InitAlloc \subseteq Clusters
    /\ \A d \in DirIds : \A i \in 1..Len(InitDirs[d]) :
         InitDirs[d][i].kind = "short" /\ InitDirs[d][i].dir
           => InitDirs[d][i].clus \in DirIds \cup {0}
    /\ \A d \in DirIds : \A a, b \in 1..Len(InitDirs[d]) :
         a < b /\ InitDirs[d][a].kind = "end" => InitDirs[d][b].kind = "end"

Least(S) == CHOOSE x \in S : \A y \in S : x <= y
MinOf(a, b) == IF a <= b THEN a ELSE b

(***************************************************************************)
(* Slot predicates of DirFileEntryData / DirLfnEntryData.                 *)
(***************************************************************************)
(* is_free() of either shape: first byte 0xE5. *)
IsFreeSlot(sl) == sl.kind = "free"

(* is_end() of either shape: name[0] = 0 for a short slot, order = 0 for *)
(* a fragment.                                                            *)
IsEndSlot(sl) ==
    \/ sl.kind = "end"
    \/ sl.kind = "short" /\ sl.sname \in NulLead
    \/ sl.kind = "lfn" /\ sl.ord = 0 /\ ~sl.last

(* The end test of DirIter::read_dir_entry, made on short slots only. *)
IterEnd(sl) ==
    \/ sl.kind = "end"
    \/ sl.kind = "short" /\ sl.sname \in NulLead

(***************************************************************************)
(* LongNameBuilder: buf holds one part per fragment, chk the checksum of  *)
(* the sequence, idx the index of the fragment expected last.  The        *)
(* iterator also keeps begin, the slot where the current entry began.     *)
(***************************************************************************)
Fresh(b) == [buf |-> <<>>, chk |-> 0, idx |-> 0, begin |-> b]

(* LongNameBuilder::clear keeps the stored checksum. *)
Clear(a) == [a EXCEPT !.buf = <<>>, !.idx = 0]

(* Vec::resize(n * 13, 0): keeps the first parts, pads with zero units. *)
Resize(buf, n) == [j \in 1..n |-> IF j <= Len(buf) THEN buf[j] ELSE "pad"]

(* LongNameBuilder::process of one fragment that is not free. *)
Process(a, sl) ==
    CASE sl.ord = 0 -> Clear(a)
      [] sl.last ->
           [a EXCEPT !.idx = sl.ord, !.chk = sl.chk,
                     !.buf = [Resize(a.buf, sl.ord) EXCEPT ![sl.ord] = sl.part]]
      [] a.idx = 0 \/ sl.ord # a.idx - 1 \/ sl.chk # a.chk -> Clear(a)
      [] OTHER -> [a EXCEPT !.idx = a.idx - 1,
                            !.buf = [a.buf EXCEPT ![sl.ord] = sl.part]]

(* One slot read by read_dir_entry at position i.  A live short slot ends *)
(* the call: the next call starts a new builder at the next slot.         *)
Step(a, sl, i) ==
    CASE sl.kind = "free" -> [Clear(a) EXCEPT !.begin = i + 1]
      [] sl.kind = "short" /\ sl.vol -> [Clear(a) EXCEPT !.begin = i + 1]
      [] sl.kind = "short" -> Fresh(i + 1)
      [] sl.kind = "lfn" -> Process(a, sl)
      [] OTHER -> a

(* The state of a read_dir_entry call started at slot p, after each     *)
(* slot it reads: ScanFrom(s, p)[i] is the state after the slots p..i.    *)
ScanFrom(s, p) ==
    LET f[i \in (p - 1)..Len(s)] ==
          IF i = p - 1 THEN Fresh(p) ELSE Step(f[i - 1], s[i], i)
    IN  f

(* Iteration from the start of the stream: Scan(s)[i] is the state after *)
(* the slots 1..i.                                                        *)
Scan(s) == ScanFrom(s, 1)

(* The first slot at which iteration ends, or Len(s) + 1 if it reads to   *)
(* the end of the stream.                                                 *)
EndPos(s) ==
    IF \E i \in 1..Len(s) : IterEnd(s[i])
    THEN Least({i \in 1..Len(s) : IterEnd(s[i])})
    ELSE Len(s) + 1

(* Iteration ends at a terminator rather than with the I/O error of a    *)
(* read past the end of the stream.                                       *)
Terminated(s) == EndPos(s) <= Len(s)

(* The slots at which the iterator yields an entry. *)
Entries(s) == {i \in 1..(EndPos(s) - 1) : s[i].kind = "short" /\ ~s[i].vol}

(* Builder a after validate_chksum against the short name of slot sl. *)
Validated(a, sl) == IF Checksum[sl.sname] # a.chk THEN Clear(a) ELSE a

(* LongNameBuilder::to_vec: the parts if the sequence is complete. *)
LongName(a, sl) ==
    LET v == Validated(a, sl) IN IF v.idx = 1 THEN v.buf ELSE <<>>

NumLfn(n) == (NameLen[n] + LFN_PART_LEN - 1) \div LFN_PART_LEN

(* The parts written for name n by create_file_entry. *)
Enc(n) == [j \in 1..NumLfn(n) |-> <<n, j>>]

(* DirEntry::file_name() of the entry that short slot sl ends, read with *)
(* builder a: the long name, else the short name.                          *)
EntryName(a, sl) ==
    LET lfn == LongName(a, sl)
    IN  IF lfn = <<>> THEN Display[sl.sname]
        ELSE IF lfn[1] # "pad" /\ Enc(lfn[1][1]) = lfn THEN lfn[1][1]
        ELSE Garbled

(* The file name of the entry at slot i when iterating from the start. *)
FileName(s, i) == EntryName(Scan(s)[i - 1], s[i])

(* The slot at which the entry ending at short slot i begins: read_dir_entry *)
(* sets begin_offset past every free slot and volume label it reads, and a  *)
(* call starts after the short slot the previous call returned, so the      *)
(* entry begins after the last free or short slot before i.                 *)
RangeBegin(s, i) ==
    Least({b \in 1..i : \A j \in b..(i - 1) : s[j].kind \notin {"free", "short"}})

(* The entry's offset_range, as first and last slot. *)
(* Mutant: the range stops before the short slot (end taken exclusive). *)
RangeOfShort(s, i) == RangeBegin(s, i) .. (i - 1)
RangeOf(s, i) == RangeBegin(s, i) .. i

(***************************************************************************)
(* Dir::find_entry: the first entry whose file name matches.  Not found   *)
(* is an error, NotFound after a terminator and an I/O error after a read *)
(* past the end of the stream.                                             *)
(***************************************************************************)
Matches(s, n) == {i \in Entries(s) : FileName(s, i) = n}
Found(s, n) == Matches(s, n) # {}
FindEntry(s, n) == Least(Matches(s, n))

(* DirEntry::to_dir: cluster 0 stands for the root directory. *)
DirOf(sl) == IF sl.clus = 0 THEN Root ELSE sl.clus

(***************************************************************************)
(* Dir::find_free_entries(k): the first slot at which a run of k free     *)
(* slots completes or an end slot is read; the run then starts at         *)
(* RunStart, the first slot of the free run before it (or the end slot    *)
(* itself).  No such slot: the read past the end of the stream fails.     *)
(***************************************************************************)
RunDone(s, k, i) == i >= k /\ \A j \in (i - k + 1)..i : IsFreeSlot(s[j])
FreeStops(s, k) == {i \in 1..Len(s) : RunDone(s, k, i) \/ IsEndSlot(s[i])}
RunStart(s, i) == Least({j \in 1..i : \A m \in j..(i - 1) : IsFreeSlot(s[m])})
(* Mutant: a run of k free slots is taken to start one slot early. *)
FreePosRunEarly(s, k) ==
    LET i == Least(FreeStops(s, k))
    IN  IF RunDone(s, k, i) THEN i - k ELSE RunStart(s, i)
(* Mutant: the run found at a terminator starts one slot after it. *)
FreePosPastEnd(s, k) ==
    LET i == Least(FreeStops(s, k))
    IN  IF RunDone(s, k, i) THEN i - k + 1 ELSE i + 1
FreePos(s, k) ==
    LET i == Least(FreeStops(s, k))
    IN  IF RunDone(s, k, i) THEN i - k + 1 ELSE RunStart(s, i)

(***************************************************************************)
(* The slots create_file_entry writes for name n: fragment NumLfn(n)      *)
(* (marked LAST) first, down to fragment 1, then the short entry with     *)
(* every other field zero.                                                *)
(***************************************************************************)
LfnSlot(n, idx, isLast) ==
    [kind |-> "lfn", ord |-> idx, last |-> isLast,
     chk |-> Checksum[GenShort[n]], part |-> <<n, idx>>]
NewShortSlot(n) ==
    [kind |-> "short", sname |-> GenShort[n], dir |-> FALSE, vol |-> FALSE, clus |-> 0]
(* Mutant: the LAST flag on the fragment written last. *)
GroupLastOnFirst(n) ==
    [j \in 1..(NumLfn(n) + 1) |->
        IF j <= NumLfn(n) THEN LfnSlot(n, NumLfn(n) - j + 1, j = NumLfn(n))
        ELSE NewShortSlot(n)]
(* Mutant: the fragments numbered from 0 instead of 1. *)
GroupOrdFromZero(n) ==
    [j \in 1..(NumLfn(n) + 1) |->
        IF j <= NumLfn(n) THEN LfnSlot(n, NumLfn(n) - j, j = 1)
        ELSE NewShortSlot(n)]
Group(n) ==
    [j \in 1..(NumLfn(n) + 1) |->
        IF j <= NumLfn(n) THEN LfnSlot(n, NumLfn(n) - j + 1, j = 1)
        ELSE NewShortSlot(n)]
-----------------------------------------------------------------------------
VARIABLES
    dirs,   \* dirs[d]: the slot stream of directory d
    chain,  \* chain[d]: the clusters of d's chain in the FAT
    alloc,  \* the clusters allocated in the FAT
    last    \* the last operation called, its path and its outcome

vars == <<dirs, chain, alloc, last>>

Ops == {"none", "open_dir", "open_file", "create_file", "remove"}
Results == {"none", "ok", "err", "panic"}

TypeOK ==
    /\ dirs \in [DirIds -> Seq(Slot)]
    /\ chain \in [DirIds -> SUBSET Clusters]
    /\ alloc \subseteq Clusters
    /\ last \in [op : Ops, path : Paths \cup {<<>>}, res : Results]

Init ==
    /\ dirs = InitDirs
    /\ chain = InitChain
    /\ alloc = InitAlloc
    /\ last = [op |-> "none", path |-> <<>>, res |-> "none"]

(***************************************************************************)
(* Walking a path: every component but the last is looked up with         *)
(* find_entry and opened with to_dir, which asserts that the entry is a   *)
(* directory.  Walk(p)[j] is the handle after j components.               *)
(***************************************************************************)
Walk(p) ==
    LET w[j \in 0..(Len(p) - 1)] ==
          IF j = 0 THEN [res |-> "ok", dir |-> Root]
          ELSE LET prev == w[j - 1]
                   s == dirs[prev.dir]
               IN  CASE prev.res # "ok" -> prev
                     [] ~Found(s, p[j]) -> [res |-> "err", dir |-> prev.dir]
                     [] ~s[FindEntry(s, p[j])].dir -> [res |-> "panic", dir |-> prev.dir]
                     [] OTHER -> [res |-> "ok", dir |-> DirOf(s[FindEntry(s, p[j])])]
    IN  w[Len(p) - 1]

(* The parent of p's last component is directory d. *)
WalksTo(p, d) == Walk(p) = [res |-> "ok", dir |-> d]

Final(p) == p[Len(p)]

Done(op, p, r) == last' = [op |-> op, path |-> p, res |-> r]

(* A component before the last is missing (error) or a file (panic). *)
WalkFails(op, p) ==
    /\ Walk(p).res # "ok"
    /\ Done(op, p, IF Walk(p).res = "panic" THEN "panic" ELSE "err")
    /\ UNCHANGED <<dirs, chain, alloc>>

(***************************************************************************)
(* Dir::open_dir and Dir::open_file change no state; their last step is  *)
(* to_dir or to_file, which panics on an entry of the other kind.          *)
(***************************************************************************)
OpenDir(p) ==
    \/ WalkFails("open_dir", p)
    \/ \E d \in DirIds :
         /\ WalksTo(p, d)
         /\ LET s == dirs[d] IN
            Done("open_dir", p,
                 IF ~Found(s, Final(p)) THEN "err"
                 ELSE IF s[FindEntry(s, Final(p))].dir THEN "ok" ELSE "panic")
         /\ UNCHANGED <<dirs, chain, alloc>>

OpenFile(p) ==
    \/ WalkFails("open_file", p)
    \/ \E d \in DirIds :
         /\ WalksTo(p, d)
         /\ LET s == dirs[d] IN
            Done("open_file", p,
                 IF ~Found(s, Final(p)) THEN "err"
                 ELSE IF s[FindEntry(s, Final(p))].dir THEN "panic" ELSE "ok")
         /\ UNCHANGED <<dirs, chain, alloc>>

(***************************************************************************)
(* Writing k slots from slot p of directory d.  The FAT12/16 root region  *)
(* cannot grow: a write past its end writes nothing and write_all fails.  *)
(* Any other directory grows by one newly allocated cluster per write     *)
(* past its end, while free clusters remain and MaxDirSlots is not        *)
(* passed.  The write stops at the first slot that cannot be written; the *)
(* slots before it stay written.  New clusters are taken zero-filled.     *)
(***************************************************************************)
Fixed(d) == d = Root /\ RootFixed

Room(d) ==
    IF Fixed(d) THEN 0
    ELSE MinOf(Cardinality(Clusters \ alloc),
               (MaxDirSlots - Len(dirs[d])) \div ClusterSlots)

Written(d, p, k) == MinOf(k, Len(dirs[d]) + Room(d) * ClusterSlots - p + 1)

Grown(d, p, w) ==
    IF p + w - 1 > Len(dirs[d])
    THEN (p + w - 1 - Len(dirs[d]) + ClusterSlots - 1) \div ClusterSlots
    ELSE 0

WriteSlots(d, p, g, w, g2) ==
    [j \in 1..(Len(dirs[d]) + g2 * ClusterSlots) |->
        IF p <= j /\ j <= p + w - 1 THEN g[j - p + 1]
        ELSE IF j <= Len(dirs[d]) THEN dirs[d][j]
        ELSE EndSlot]

(* Mutant: a cluster allocated for growth is not linked into the chain. *)
WriteRunUnlinked(d, pos, g, path) ==
    LET w == Written(d, pos, Len(g))
        g2 == Grown(d, pos, w)
    IN  \E new \in SUBSET (Clusters \ alloc) :
          /\ Cardinality(new) = g2
          /\ dirs' = [dirs EXCEPT ![d] = WriteSlots(d, pos, g, w, g2)]
          /\ chain' = chain
          /\ alloc' = alloc \cup new
          /\ Done("create_file", path, IF w = Len(g) THEN "ok" ELSE "err")
WriteRun(d, pos, g, path) ==
    LET w == Written(d, pos, Len(g))
        g2 == Grown(d, pos, w)
    IN  \E new \in SUBSET (Clusters \ alloc) :
          /\ Cardinality(new) = g2
          /\ dirs' = [dirs EXCEPT ![d] = WriteSlots(d, pos, g, w, g2)]
          /\ chain' = [chain EXCEPT ![d] = @ \cup new]
          /\ alloc' = alloc \cup new
          /\ Done("create_file", path, IF w = Len(g) THEN "ok" ELSE "err")

(***************************************************************************)
(* Dir::create_file_entry for the last component of path p, in directory *)
(* d: reject names over 255 bytes, find a run of NumLfn + 1 slots, write  *)
(* the group there.                                                        *)
(***************************************************************************)
(* Mutant: no check of the 255-byte limit. *)
CreateFileEntryNoLimit(d, p) ==
    LET s == dirs[d]
        k == NumLfn(Final(p)) + 1
    IN  \/ /\ FreeStops(s, k) = {}
           /\ UNCHANGED <<dirs, chain, alloc>>
           /\ Done("create_file", p, "err")
        \/ /\ FreeStops(s, k) # {}
           /\ WriteRun(d, FreePos(s, k), Group(Final(p)), p)
CreateFileEntry(d, p) ==
    LET n == Final(p)
        s == dirs[d]
        k == NumLfn(n) + 1
    IN  \/ /\ NameLen[n] > 255
           /\ UNCHANGED <<dirs, chain, alloc>>
           /\ Done("create_file", p, "err")
        \/ /\ NameLen[n] <= 255
           /\ FreeStops(s, k) = {}
           /\ UNCHANGED <<dirs, chain, alloc>>
           /\ Done("create_file", p, "err")
        \/ /\ NameLen[n] <= 255
           /\ FreeStops(s, k) # {}
           /\ WriteRun(d, FreePos(s, k), Group(n), p)

(***************************************************************************)
(* Dir::create_file(p): if the last component exists it is opened with    *)
(* to_file (a panic for a directory); if find_entry fails in any way, a   *)
(* new entry is created.                                                   *)
(***************************************************************************)
(* Mutant: a new entry even when the name is found. *)
CreateFileAlwaysNew(p) ==
    \/ WalkFails("create_file", p)
    \/ \E d \in DirIds : WalksTo(p, d) /\ CreateFileEntry(d, p)
CreateFile(p) ==
    \/ WalkFails("create_file", p)
    \/ \E d \in DirIds :
         /\ WalksTo(p, d)
         /\ LET s == dirs[d] IN
            \/ /\ Found(s, Final(p))
               /\ Done("create_file", p,
                       IF s[FindEntry(s, Final(p))].dir THEN "panic" ELSE "ok")
               /\ UNCHANGED <<dirs, chain, alloc>>
            \/ /\ ~Found(s, Final(p))
               /\ CreateFileEntry(d, p)

(***************************************************************************)
(* Dir::is_empty: Ok(false) at the first entry not named "." or "..";     *)
(* an I/O error if the stream ends without a terminator; else Ok(true).   *)
(***************************************************************************)
IsEmpty(s) ==
    IF \E i \in Entries(s) : FileName(s, i) \notin {".", ".."} THEN "false"
    ELSE IF Terminated(s) THEN "true" ELSE "err"

(* cluster_iter(n).free(): the chain that starts at cluster n. *)
(* Mutant: only the first cluster of a directory is freed. *)
ChainFromFirstOnly(e) == IF e.clus = 0 THEN {} ELSE {e.clus}
ChainFrom(e) ==
    IF e.clus = 0 THEN {}
    ELSE IF e.dir /\ e.clus \in DirIds THEN chain[e.clus] ELSE {e.clus}

(* Every slot of the entry's range rewritten with the free marker. *)
(* Mutant: the slot after the entry's range is freed too. *)
MarkFreeOneMore(s, i) ==
    [j \in 1..Len(s) |-> IF j \in RangeOf(s, i) \cup {i + 1} THEN FreeSlot ELSE s[j]]
(* Mutant: the range is overwritten with end slots (zeroed) instead of   *)
(* the free marker.                                                        *)
MarkFreeAsEnd(s, i) ==
    [j \in 1..Len(s) |-> IF j \in RangeOf(s, i) THEN EndSlot ELSE s[j]]
MarkFree(s, i) ==
    LET r == RangeOf(s, i) IN [j \in 1..Len(s) |-> IF j \in r THEN FreeSlot ELSE s[j]]

(***************************************************************************)
(* Dir::remove(p): find the entry; a directory must be empty (else       *)
(* NotFound); free its cluster chain, then mark its slots free.           *)
(***************************************************************************)
Remove(p) ==
    \/ WalkFails("remove", p)
    \/ \E d \in DirIds :
         /\ WalksTo(p, d)
         /\ LET s == dirs[d]
                i == FindEntry(s, Final(p))
                e == s[i]
            IN  \/ /\ ~Found(s, Final(p))
                   /\ UNCHANGED <<dirs, chain, alloc>>
                   /\ Done("remove", p, "err")
                \/ /\ Found(s, Final(p))
                   /\ e.dir /\ IsEmpty(dirs[DirOf(e)]) # "true"
                   /\ UNCHANGED <<dirs, chain, alloc>>
                   /\ Done("remove", p, "err")
                \/ /\ Found(s, Final(p))
                   /\ IF e.dir THEN IsEmpty(dirs[DirOf(e)]) = "true" ELSE TRUE
                   /\ alloc' = alloc \ ChainFrom(e)
                   /\ chain' = IF e.dir /\ e.clus \in DirIds
                                THEN [chain EXCEPT ![e.clus] = {}] ELSE chain
                   /\ dirs' = [dirs EXCEPT ![d] = MarkFree(s, i)]
                   /\ Done("remove", p, "ok")

Next ==
    \E p \in Paths :
        \/ OpenDir(p)
        \/ OpenFile(p)
        \/ CreateFile(p)
        \/ Remove(p)

Spec == Init /\ [][Next]_vars
-----------------------------------------------------------------------------
(***************************************************************************)
(* Derived views used by the properties.                                   *)
(***************************************************************************)
(* The directories reachable from the root through directory entries     *)
(* that iteration yields (find_entry then to_dir).                        *)
Reach ==
    LET R[k \in 0..Cardinality(DirIds)] ==
          IF k = 0 THEN {Root}
          ELSE R[k - 1] \cup
               UNION {{DirOf(dirs[d][i]) : i \in {j \in Entries(dirs[d]) : dirs[d][j].dir}} :
                      d \in R[k - 1]}
    IN  R[Cardinality(DirIds)]

(* The clusters the reachable tree holds: the chains of reachable        *)
(* directories and the first cluster of every entry they list.            *)
TreeClusters ==
    UNION {chain[d] : d \in Reach} \cup
    UNION {{dirs[d][i].clus : i \in {j \in Entries(dirs[d]) : dirs[d][j].clus # 0}} :
           d \in Reach}

(* The names iteration of directory d yields. *)
Listing(d) == {FileName(dirs[d], i) : i \in Entries(dirs[d])}

(***************************************************************************)
(* Properties.                                                             *)
(***************************************************************************)
(* After the first terminator slot every slot is a terminator (spec 3.6   *)
(* invariant 2): find_free_entries places a new group at or before the    *)
(* terminator and growth appends zeroed clusters, and remove frees only   *)
(* slots before the terminator.                                            *)
TailFree ==
    \A d \in DirIds : \A i, j \in 1..Len(dirs[d]) :
        i < j /\ dirs[d][i].kind = "end" => dirs[d][j].kind = "end"

(* No directory lists two entries under the same name: create_file opens *)
(* an existing entry instead of creating a second one, and the long name  *)
(* that iteration assembles for every entry is the one written for it.    *)
UniqueNames ==
    \A d \in Reach : \A i, j \in Entries(dirs[d]) :
        i # j => FileName(dirs[d], i) # FileName(dirs[d], j)

(* The FAT allocates exactly the clusters the reachable tree holds: remove *)
(* never frees a cluster still referenced (no dangling entry) and never    *)
(* leaves clusters of a removed entry allocated (no leak); growth of a      *)
(* directory records its new cluster in the chain.                         *)
AllocMatchesTree == alloc = TreeClusters

(* A short slot that owns the single cluster it names: ChainFrom frees   *)
(* exactly that cluster when the entry is removed.                        *)
OwnsCluster(sl) ==
    sl.kind = "short" /\ sl.clus # 0 /\ ~(sl.dir /\ sl.clus \in DirIds)

(* The slots, as <<directory, position>>, that own a cluster. *)
FileRefs ==
    UNION {{<<d, i>> : i \in {j \in 1..Len(dirs[d]) : OwnsCluster(dirs[d][j])}} :
           d \in DirIds}

ClusOf(r) == dirs[r[1]][r[2]].clus

(* No cluster is cross-linked: a cluster of a FAT volume has one owner. *)
(* the chains of the directories are allocated and pairwise disjoint, and *)
(* every cluster a slot owns is allocated, lies in no directory's chain   *)
(* and is owned by no other slot.  Growth must take only free clusters,   *)
(* and remove must free a directory's chain together with forgetting it,  *)
(* or a later create hands one cluster to two owners.                     *)
NoCrossLink ==
    /\ \A d \in DirIds : chain[d] \subseteq alloc
    /\ \A d1, d2 \in DirIds : d1 # d2 => chain[d1] \cap chain[d2] = {}
    /\ \A r \in FileRefs : ClusOf(r) \in alloc \ UNION {chain[d] : d \in DirIds}
    /\ \A r1, r2 \in FileRefs : r1 # r2 => ClusOf(r1) # ClusOf(r2)

(* find_free_entries and read_dir_entry agree on where a directory ends: *)
(* every slot DirEntryData::is_end takes for the end, an LFN slot with     *)
(* order 0 included, is one read_dir_entry stops at too.                  *)
EndsAgree ==
    \A d \in DirIds : \A j \in 1..Len(dirs[d]) :
        IsEndSlot(dirs[d][j]) => IterEnd(dirs[d][j])

(* No step overwrites a slot the iterator reads that holds an entry or a  *)
(* long-name fragment, except a remove that succeeds and frees it:        *)
(* create_file writes only into the free run or the tail from the slot    *)
(* find_free_entries took for the end,                                     *)
(* and remove frees only the slots of offset_range of the entry that      *)
(* find_entry returned for the path's last component.                     *)
LiveSlotsKept ==
    [][\A d \in DirIds : \A j \in 1..(EndPos(dirs[d]) - 1) :
         dirs[d][j].kind \in {"short", "lfn"} =>
            \/ dirs'[d][j] = dirs[d][j]
            \/ /\ last' = [op |-> "remove", path |-> last'.path, res |-> "ok"]
               /\ j \in RangeOf(dirs[d], FindEntry(dirs[d], Final(last'.path)))
               /\ dirs'[d][j] = FreeSlot]_vars

(* Listing every reachable directory ends at a terminator, never with the *)
(* I/O error of reading past the end of the stream (spec 3.6 invariant 2   *)
(* and 4.6: the writer must leave a terminator after its last slot).       *)
ListingTerminates == \A d \in Reach : Terminated(dirs[d])

(* A path that runs through a file is an error (spec 4.5: NotADirectory, *)
(* surfacing as NotFound), never the assertion of DirEntry::to_dir that    *)
(* open_dir, open_file, create_file and remove reach when they recurse     *)
(* into a component that is not a directory.  A panicking call writes      *)
(* nothing, so its walk is evaluated on the state it left.                 *)
PathThroughFileIsError ==
    last.res = "panic" => Walk(last.path).res # "panic"

(* After create_file(name) succeeds the directory it walked to lists an   *)
(* entry of that name (spec 8.1 property 3): the slots written by         *)
(* create_file_entry are read back by DirIter as the same name.           *)
CreateThenFind ==
    last.op = "create_file" /\ last.res = "ok" =>
        Final(last.path) \in Listing(Walk(last.path).dir)

(***************************************************************************)
(* The name-level behaviour of the directories: each step adds the name   *)
(* it creates to one directory, removes the name it removes from one      *)
(* directory, or leaves every listing as it was.                            *)
(***************************************************************************)
Abstract == INSTANCE DirNames WITH
    NameVals <- FileNames,
    names <- [d \in DirIds |-> Listing(d)],
    op <- [kind |-> last.op,
           name |-> IF last.path = <<>> THEN "" ELSE Final(last.path)]

(* Every step of the directory code implements a step of DirNames or    *)
(* leaves its names and last call unchanged: Abstract!Spec, with the      *)
(* steps that change no variable of FatDir (a repeated lookup) tested     *)
(* first.                                                                  *)
RefinesDirNames ==
    /\ Abstract!Init
    /\ [][UNCHANGED vars \/ Abstract!Next]_Abstract!vars
=============================================================================
