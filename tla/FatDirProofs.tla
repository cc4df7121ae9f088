---------------------------- MODULE FatDirProofs ----------------------------
(***************************************************************************)
(* Proofs about FatDir for every value of its constants.                   *)
(***************************************************************************)
EXTENDS FatDir, FiniteSetTheorems, WellFoundedInduction, TLAPS

(* Least(S), which find_entry and find_free_entries use to take the first *)
(* matching slot, is the least element of any nonempty set of naturals.   *)
LEMMA LeastIsMin ==
    ASSUME NEW S \in SUBSET Nat, S # {}
    PROVE  /\ Least(S) \in S
           /\ \A y \in S : Least(S) <= y
<1>1. \E x \in S : \A y \in S : ~(<<y, x>> \in OpToRel(<, Nat))
  BY NatLessThanWellFounded, WFMin
<1>2. \E x \in S : \A y \in S : x <= y
  <2>1. PICK x \in S : \A y \in S : ~(<<y, x>> \in OpToRel(<, Nat))
    BY <1>1
  <2>2. \A y \in S : ~(y < x)
    BY <2>1 DEF OpToRel
  <2>. QED
    BY <2>2
<1>. QED
  BY <1>2 DEF Least

(* Integer division by a positive number, as the slot and cluster counts *)
(* of dir.rs use it, stays in Nat (in Int).                              *)
LEMMA DivType ==
    ASSUME NEW x \in Int, NEW c \in Nat \ {0}
    PROVE  /\ x \div c \in Int
           /\ x \in Nat => x \div c \in Nat
  BY SMT

(* The typing facts of the constants, one by one. *)
LEMMA ConstTypes ==
    /\ NameLen \in [Names -> Nat]
    /\ GenShort \in [Names -> ShortNames]
    /\ Checksum \in [ShortNames -> Checksums]
    /\ Clusters \subseteq Nat /\ IsFiniteSet(Clusters)
    /\ DirIds \subseteq Clusters \cup {Root}
    /\ ClusterSlots \in Nat \ {0}
    /\ MaxDirSlots \in Nat
  BY ConstantsAssumption, Zenon

(* The paths and the image the model starts from. *)
LEMMA InitTypes ==
    /\ Paths \subseteq Seq(Names) \ {<<>>}
    /\ InitDirs \in [DirIds -> Seq(Slot)]
    /\ InitChain \in [DirIds -> SUBSET Clusters]
    /\ InitAlloc \subseteq Clusters
    /\ \A d \in DirIds : \A a, b \in 1..Len(InitDirs[d]) :
         a < b /\ InitDirs[d][a].kind = "end" => InitDirs[d][b].kind = "end"
  BY ConstantsAssumption, Zenon

(* The slots create_file_entry writes for a name of at most 255 bytes are *)
(* slots: at most 20 fragments, so every order index fits in 5 bits.     *)
LEMMA GroupType ==
    ASSUME NEW n \in Names, NameLen[n] <= 255
    PROVE  /\ Group(n) \in Seq(Slot)
           /\ \A j \in 1..Len(Group(n)) : Group(n)[j].kind # "end"
<1>a. NameLen[n] \in 0..255
  BY ConstTypes
<1>b. MaxLfn = 20
  BY DEF MaxLfn, LFN_PART_LEN
<1>c. NumLfn(n) = (NameLen[n] + 12) \div 13
  BY DEF NumLfn, LFN_PART_LEN
<1>1. NumLfn(n) \in 0..MaxLfn /\ MaxLfn = 20
  BY <1>a, <1>b, <1>c
<1>2. \A idx \in 1..NumLfn(n), isLast \in BOOLEAN : LfnSlot(n, idx, isLast) \in LfnSlots
  BY <1>1, ConstTypes DEF LfnSlot, LfnSlots, Parts
<1>3. NewShortSlot(n) \in ShortSlots
  BY ConstTypes DEF NewShortSlot, ShortSlots
<1>4. \A j \in 1..(NumLfn(n) + 1) :
        j <= NumLfn(n) => NumLfn(n) - j + 1 \in 1..NumLfn(n)
  BY <1>1
<1>5. Group(n) \in [1..(NumLfn(n) + 1) -> LfnSlots \cup ShortSlots]
  BY <1>2, <1>3, <1>4 DEF Group
<1>6. LfnSlots \cup ShortSlots \subseteq Slot
  BY DEF Slot
<1>7. Group(n) \in Seq(Slot)
  <2>1. NumLfn(n) + 1 \in Nat
    BY <1>1
  <2>. QED
    BY <1>5, <1>6, <2>1
<1>8. \A j \in 1..Len(Group(n)) : Group(n)[j].kind # "end"
  <2>1. Len(Group(n)) = NumLfn(n) + 1
    BY <1>1, <1>5
  <2>. QED
    BY <1>5, <2>1 DEF LfnSlots, ShortSlots
<1>. QED
  BY <1>7, <1>8

(* find_free_entries returns a slot number no later than the first stop  *)
(* of its scan: the start of a completed free run, or the start of the    *)
(* free run before the end slot it read.  Every stop is at or after the   *)
(* first one.                                                              *)
LEMMA FreePosBound ==
    ASSUME NEW s \in Seq(Slot), NEW k \in Nat \ {0}, FreeStops(s, k) # {}
    PROVE  /\ Least(FreeStops(s, k)) \in 1..Len(s)
           /\ \A a \in FreeStops(s, k) : Least(FreeStops(s, k)) <= a
           /\ FreePos(s, k) \in 1..Least(FreeStops(s, k))
<1> DEFINE i == Least(FreeStops(s, k))
<1>1. FreeStops(s, k) \subseteq 1..Len(s)
  BY DEF FreeStops
<1>2. i \in 1..Len(s) /\ \A a \in FreeStops(s, k) : i <= a
  BY <1>1, LeastIsMin
<1>3. CASE RunDone(s, k, i)
  BY <1>2, <1>3 DEF RunDone, FreePos
<1>4. CASE ~RunDone(s, k, i)
  <2> DEFINE T == {j \in 1..i : \A m \in j..(i - 1) : IsFreeSlot(s[m])}
  <2>1. i \in T
    BY <1>2
  <2>2. T \in SUBSET Nat /\ T # {}
    BY <1>2, <2>1
  <2>3. Least(T) \in T
    BY <2>2, LeastIsMin
  <2>4. RunStart(s, i) \in 1..i
    BY <2>3 DEF RunStart
  <2>. QED
    BY <1>2, <1>4, <2>4 DEF FreePos
<1>. QED
  BY <1>2, <1>3, <1>4

(* The room a directory has to grow is a whole number of clusters. *)
LEMMA RoomType ==
    ASSUME alloc \subseteq Clusters, NEW d \in DirIds, dirs[d] \in Seq(Slot)
    PROVE  Room(d) \in Int
<1>1. IsFiniteSet(Clusters \ alloc)
  BY ConstTypes, FS_Subset
<1>2. Cardinality(Clusters \ alloc) \in Nat
  BY <1>1, FS_CardinalityType
<1>3. (MaxDirSlots - Len(dirs[d])) \div ClusterSlots \in Int
  BY ConstTypes, DivType
<1>. QED
  BY <1>2, <1>3 DEF Room, MinOf, Fixed

(* The number of slots written and of clusters grown are whole numbers, *)
(* and no more slots are written than the group holds.                    *)
LEMMA WriteSizes ==
    ASSUME TypeOK, NEW d \in DirIds, NEW pos \in Int, NEW g \in Seq(Slot)
    PROVE  LET w == Written(d, pos, Len(g))
           IN  /\ w \in Int /\ w <= Len(g)
               /\ Grown(d, pos, w) \in Nat
<1> DEFINE s == dirs[d]
           w == Written(d, pos, Len(g))
<1>1. s \in Seq(Slot)
  BY DEF TypeOK
<1>2. Room(d) \in Int
  BY <1>1, RoomType DEF TypeOK
<1>3. w \in Int /\ w <= Len(g)
  BY <1>1, <1>2, ConstTypes DEF Written, MinOf
<1>4. Grown(d, pos, w) \in Nat
  <2>1. CASE pos + w - 1 > Len(s)
    <3>1. pos + w - 1 - Len(s) + ClusterSlots - 1 \in Nat
      BY <1>1, <1>3, <2>1, ConstTypes
    <3>2. (pos + w - 1 - Len(s) + ClusterSlots - 1) \div ClusterSlots \in Nat
      BY <3>1, ConstTypes, DivType
    <3>. QED
      BY <2>1, <3>2 DEF Grown
  <2>2. CASE ~(pos + w - 1 > Len(s))
    BY <2>2 DEF Grown
  <2>. QED
    BY <2>1, <2>2
<1>. QED
  BY <1>3, <1>4

(* WriteSlots rewrites the slots pos .. pos + w - 1 of directory d with   *)
(* the group, keeps the other old slots and appends zero-filled slots.    *)
LEMMA WriteSlotsShape ==
    ASSUME TypeOK, NEW d \in DirIds, NEW pos \in Int, NEW g \in Seq(Slot)
    PROVE  LET w == Written(d, pos, Len(g))
               g2 == Grown(d, pos, w)
               t == WriteSlots(d, pos, g, w, g2)
           IN  /\ t \in Seq(Slot)
               /\ Len(t) = Len(dirs[d]) + g2 * ClusterSlots
               /\ \A j \in 1..Len(t) :
                    t[j] = IF pos <= j /\ j <= pos + w - 1 THEN g[j - pos + 1]
                           ELSE IF j <= Len(dirs[d]) THEN dirs[d][j]
                           ELSE EndSlot
<1> DEFINE s == dirs[d]
           w == Written(d, pos, Len(g))
           g2 == Grown(d, pos, w)
<1>1. s \in Seq(Slot)
  BY DEF TypeOK
<1>3. w \in Int /\ w <= Len(g) /\ g2 \in Nat
  BY WriteSizes
<1>5. WriteSlots(d, pos, g, w, g2) \in Seq(Slot) /\ Len(WriteSlots(d, pos, g, w, g2)) = Len(s) + g2 * ClusterSlots
  <2>0. g2 \in Nat /\ ClusterSlots \in Nat
    BY <1>3, ConstTypes
  <2>1. Len(s) + g2 * ClusterSlots \in Nat
    BY <1>1, <2>0
  <2>2. \A j \in 1..(Len(s) + g2 * ClusterSlots) : WriteSlots(d, pos, g, w, g2)[j] \in Slot
    BY <1>1, <1>3 DEF WriteSlots, EndSlot, Slot
  <2>. QED
    BY <2>1, <2>2 DEF WriteSlots
<1>. QED
  BY <1>5 DEF WriteSlots

(* Writing a group of slots into a directory, growing it by zero-filled   *)
(* clusters where it runs past the end, keeps every variable typed.       *)
LEMMA WriteRunType ==
    ASSUME TypeOK, NEW d \in DirIds, NEW pos \in Int, NEW g \in Seq(Slot),
           NEW p \in Paths, WriteRun(d, pos, g, p)
    PROVE  TypeOK'
<1> DEFINE s == dirs[d]
           w == Written(d, pos, Len(g))
           g2 == Grown(d, pos, w)
<1>5. WriteSlots(d, pos, g, w, g2) \in Seq(Slot)
  BY WriteSlotsShape
<1>6. PICK new \in SUBSET (Clusters \ alloc) :
        /\ dirs' = [dirs EXCEPT ![d] = WriteSlots(d, pos, g, w, g2)]
        /\ chain' = [chain EXCEPT ![d] = @ \cup new]
        /\ alloc' = alloc \cup new
        /\ Done("create_file", p, IF w = Len(g) THEN "ok" ELSE "err")
  BY DEF WriteRun
<1>. QED
  BY <1>5, <1>6 DEF TypeOK, Done, Ops, Results

(* The last component of a path the operations are called with is a name. *)
LEMMA FinalType ==
    ASSUME NEW p \in Paths
    PROVE  Final(p) \in Names
<1>1. p \in Seq(Names) /\ p # <<>>
  BY InitTypes
<1>2. Len(p) \in 1..Len(p)
  BY <1>1
<1>. QED
  BY <1>1, <1>2 DEF Final

(* open_dir and open_file only record their outcome. *)
LEMMA OpenType ==
    ASSUME TypeOK, NEW p \in Paths, OpenDir(p) \/ OpenFile(p)
    PROVE  TypeOK'
  BY DEF OpenDir, OpenFile, WalkFails, Done, TypeOK, Ops, Results

(* create_file_entry: the two early errors write nothing; otherwise the   *)
(* group of a name of at most 255 bytes is written at a slot number.      *)
LEMMA CreateEntryType ==
    ASSUME TypeOK, NEW p \in Paths, NEW d \in DirIds, CreateFileEntry(d, p)
    PROVE  TypeOK'
<1> DEFINE n == Final(p)
           s == dirs[d]
           k == NumLfn(n) + 1
<1>1. n \in Names /\ NameLen[n] \in Nat /\ s \in Seq(Slot)
  BY FinalType, ConstTypes DEF TypeOK
<1>2. k \in Nat \ {0}
  BY <1>1, DivType DEF NumLfn, LFN_PART_LEN
<1>3. CASE NameLen[n] <= 255 /\ FreeStops(s, k) # {}
            /\ WriteRun(d, FreePos(s, k), Group(n), p)
  <2>1. FreePos(s, k) \in Nat
    BY <1>1, <1>2, <1>3, FreePosBound
  <2>2. Group(n) \in Seq(Slot)
    BY <1>1, <1>3, GroupType
  <2>. QED
    BY <1>3, <2>1, <2>2, WriteRunType
<1>4. CASE UNCHANGED <<dirs, chain, alloc>> /\ Done("create_file", p, "err")
  BY <1>4 DEF TypeOK, Done, Ops, Results
<1>. QED
  BY <1>3, <1>4 DEF CreateFileEntry

(* create_file either records the outcome of opening an existing entry or *)
(* creates a new one.                                                      *)
LEMMA CreateType ==
    ASSUME TypeOK, NEW p \in Paths, CreateFile(p)
    PROVE  TypeOK'
<1>1. CASE WalkFails("create_file", p)
  BY <1>1 DEF WalkFails, Done, TypeOK, Ops, Results
<1>2. CASE \E d \in DirIds : WalksTo(p, d) /\ CreateFileEntry(d, p)
  BY <1>2, CreateEntryType
<1>3. CASE \E d \in DirIds :
             /\ UNCHANGED <<dirs, chain, alloc>>
             /\ Done("create_file", p,
                     IF dirs[d][FindEntry(dirs[d], Final(p))].dir THEN "panic" ELSE "ok")
  BY <1>3 DEF TypeOK, Done, Ops, Results
<1>. QED
  BY <1>1, <1>2, <1>3 DEF CreateFile

(* remove frees the entry's clusters and marks its slots free. *)
LEMMA RemoveType ==
    ASSUME TypeOK, NEW p \in Paths, Remove(p)
    PROVE  TypeOK'
<1>1. CASE WalkFails("remove", p)
  BY <1>1 DEF WalkFails, Done, TypeOK, Ops, Results
<1>2. CASE \E d \in DirIds : UNCHANGED <<dirs, chain, alloc>> /\ Done("remove", p, "err")
  BY <1>2 DEF TypeOK, Done, Ops, Results
<1>3. CASE \E d \in DirIds :
             LET s == dirs[d]
                 i == FindEntry(s, Final(p))
                 e == s[i]
             IN  /\ alloc' = alloc \ ChainFrom(e)
                 /\ chain' = IF e.dir /\ e.clus \in DirIds
                              THEN [chain EXCEPT ![e.clus] = {}] ELSE chain
                 /\ dirs' = [dirs EXCEPT ![d] = MarkFree(s, i)]
                 /\ Done("remove", p, "ok")
  <2>1. PICK d \in DirIds :
             LET s == dirs[d]
                 i == FindEntry(s, Final(p))
                 e == s[i]
             IN  /\ alloc' = alloc \ ChainFrom(e)
                 /\ chain' = IF e.dir /\ e.clus \in DirIds
                              THEN [chain EXCEPT ![e.clus] = {}] ELSE chain
                 /\ dirs' = [dirs EXCEPT ![d] = MarkFree(s, i)]
                 /\ Done("remove", p, "ok")
    BY <1>3
  <2>2. MarkFree(dirs[d], FindEntry(dirs[d], Final(p))) \in Seq(Slot)
    BY DEF TypeOK, MarkFree, Slot, FreeSlot
  <2>. QED
    BY <2>1, <2>2 DEF TypeOK, Done, Ops, Results
<1>. QED
  BY <1>1, <1>2, <1>3 DEF Remove

(* One step of any operation keeps the variables typed. *)
LEMMA TypeNext ==
    ASSUME TypeOK, [Next]_vars
    PROVE  TypeOK'
<1>1. CASE Next
  <2>1. PICK p \in Paths : OpenDir(p) \/ OpenFile(p) \/ CreateFile(p) \/ Remove(p)
    BY <1>1 DEF Next
  <2>. QED
    BY <2>1, OpenType, CreateType, RemoveType
<1>2. CASE UNCHANGED vars
  BY <1>2 DEF TypeOK, vars
<1>. QED
  BY <1>1, <1>2

(* Type correctness: every state the directory operations reach gives     *)
(* each directory a stream of well-formed slots, each chain and the FAT    *)
(* sets of volume clusters, and records the last call with its outcome.   *)
THEOREM TypeCorrect == Spec => []TypeOK
<1>1. Init => TypeOK
  BY InitTypes DEF Init, TypeOK, Ops, Results
<1>2. TypeOK /\ [Next]_vars => TypeOK'
  BY TypeNext
<1>. QED
  BY <1>1, <1>2, PTL DEF Spec
-----------------------------------------------------------------------------
(***************************************************************************)
(* TailFree: after the first terminator slot of a directory every slot is *)
(* a terminator.                                                           *)
(***************************************************************************)
TailOK(s) ==
    \A a, b \in 1..Len(s) : a < b /\ s[a].kind = "end" => s[b].kind = "end"

(* The iterator yields no entry after a terminator slot: every slot up to *)
(* a yielded entry is not a terminator.                                    *)
LEMMA EntriesBeforeEnd ==
    ASSUME NEW s \in Seq(Slot), NEW i \in Entries(s), NEW j \in 1..i
    PROVE  s[j].kind # "end"
<1>1. i \in 1..(EndPos(s) - 1)
  BY DEF Entries
<1>2. CASE \E m \in 1..Len(s) : IterEnd(s[m])
  <2> DEFINE E == {m \in 1..Len(s) : IterEnd(s[m])}
  <2>1. EndPos(s) = Least(E)
    BY <1>2 DEF EndPos
  <2>0. E \in SUBSET Nat /\ E # {}
    BY <1>2
  <2>2. Least(E) \in E /\ \A m \in E : Least(E) <= m
    BY <2>0, LeastIsMin
  <2>3. j \in 1..Len(s) /\ j < Least(E)
    BY <1>1, <2>1, <2>2
  <2>. QED
    BY <2>2, <2>3 DEF IterEnd
<1>3. CASE ~\E m \in 1..Len(s) : IterEnd(s[m])
  <2>1. j \in 1..Len(s)
    BY <1>1, <1>3 DEF EndPos
  <2>. QED
    BY <1>3, <2>1 DEF IterEnd
<1>. QED
  BY <1>2, <1>3

(* Marking the slots of a yielded entry free keeps the tail of terminators:*)
(* the entry's range ends at the entry, before the first terminator.       *)
LEMMA MarkFreeTail ==
    ASSUME NEW s \in Seq(Slot), TailOK(s), NEW i \in Entries(s)
    PROVE  TailOK(MarkFree(s, i))
<1>1. \A j \in 1..i : s[j].kind # "end"
  BY EntriesBeforeEnd
<1>2. i \in Nat
  BY DEF Entries
<1>4. SUFFICES ASSUME NEW a \in 1..Len(s), NEW b \in 1..Len(s), a < b,
                     MarkFree(s, i)[a].kind = "end"
              PROVE  MarkFree(s, i)[b].kind = "end"
  BY DEF TailOK, MarkFree
<1>5. a \notin RangeOf(s, i) /\ s[a].kind = "end"
  BY <1>4 DEF MarkFree, FreeSlot
<1>6. a > i
  BY <1>1, <1>2, <1>5
<1>7. b > i
  BY <1>2, <1>4, <1>6
<1>8. b \notin RangeOf(s, i)
  BY <1>2, <1>7 DEF RangeOf
<1>. QED
  BY <1>4, <1>5, <1>8 DEF TailOK, MarkFree

(* Writing a group that holds no terminator at the slot find_free_entries *)
(* returns keeps the tail of terminators: the group starts at or before   *)
(* the first stop of the scan, so every terminator it overwrites is       *)
(* followed by written slots, old terminators or zero-filled slots.       *)
LEMMA WriteTail ==
    ASSUME TypeOK, NEW d \in DirIds, TailOK(dirs[d]),
           NEW k \in Nat \ {0}, FreeStops(dirs[d], k) # {},
           NEW g \in Seq(Slot), \A j \in 1..Len(g) : g[j].kind # "end"
    PROVE  LET pos == FreePos(dirs[d], k)
               w == Written(d, pos, Len(g))
           IN  TailOK(WriteSlots(d, pos, g, w, Grown(d, pos, w)))
<1> DEFINE s == dirs[d]
           i == Least(FreeStops(s, k))
           pos == FreePos(s, k)
           w == Written(d, pos, Len(g))
           g2 == Grown(d, pos, w)
           t == WriteSlots(d, pos, g, w, g2)
<1>1. s \in Seq(Slot)
  BY DEF TypeOK
<1>2. /\ i \in 1..Len(s)
      /\ \A a \in FreeStops(s, k) : i <= a
      /\ pos \in 1..i
  BY <1>1, FreePosBound
<1>3. w \in Int /\ w <= Len(g)
  BY <1>2, WriteSizes
<1>4. /\ Len(t) = Len(s) + g2 * ClusterSlots
      /\ \A j \in 1..Len(t) :
           t[j] = IF pos <= j /\ j <= pos + w - 1 THEN g[j - pos + 1]
                  ELSE IF j <= Len(s) THEN s[j]
                  ELSE EndSlot
  BY <1>2, WriteSlotsShape
<1>5. SUFFICES ASSUME NEW a \in 1..Len(t), NEW b \in 1..Len(t), a < b,
                     t[a].kind = "end"
              PROVE  t[b].kind = "end"
  BY DEF TailOK
<1>6. ~(pos <= a /\ a <= pos + w - 1)
  <2>1. SUFFICES ASSUME pos <= a, a <= pos + w - 1 PROVE FALSE
    OBVIOUS
  <2>2. a - pos + 1 \in 1..Len(g)
    BY <1>2, <1>3, <2>1
  <2>. QED
    BY <1>4, <1>5, <2>1, <2>2
<1>7. a > pos + w - 1
  <2>1. CASE a <= Len(s)
    <3>1. s[a].kind = "end"
      BY <1>4, <1>5, <1>6, <2>1
    <3>2. a \in FreeStops(s, k)
      BY <2>1, <3>1 DEF FreeStops, IsEndSlot
    <3>. QED
      BY <1>2, <1>3, <1>6, <3>2
  <2>2. CASE a > Len(s)
    BY <1>2, <1>3, <1>6, <2>2
  <2>. QED
    BY <2>1, <2>2
<1>8. CASE b <= Len(s)
  <2>0. /\ a <= Len(s) /\ ~(pos <= a /\ a <= pos + w - 1)
        /\ ~(pos <= b /\ b <= pos + w - 1)
    BY <1>2, <1>3, <1>5, <1>7, <1>8
  <2>1. t[a] = s[a] /\ t[b] = s[b]
    BY <1>4, <1>5, <1>8, <2>0
  <2>2. TailOK(s)
    OBVIOUS
  <2>. QED
    BY <1>5, <1>8, <2>1, <2>2 DEF TailOK
<1>9. CASE b > Len(s)
  BY <1>2, <1>3, <1>4, <1>5, <1>7, <1>9 DEF EndSlot
<1>. QED
  BY <1>8, <1>9

(* Replacing one directory's slots by slots with a tail of terminators    *)
(* keeps TailFree.                                                          *)
LEMMA TailFreeExcept ==
    ASSUME TailFree, NEW d \in DirIds, NEW x, TailOK(x),
           dirs' = [dirs EXCEPT ![d] = x], dirs \in [DirIds -> Seq(Slot)]
    PROVE  TailFree'
  BY DEF TailFree, TailOK

(* create_file_entry keeps the tail of terminators of every directory. *)
LEMMA CreateEntryTail ==
    ASSUME TypeOK, TailFree, NEW p \in Paths, NEW d \in DirIds, CreateFileEntry(d, p)
    PROVE  TailFree'
<1> DEFINE n == Final(p)
           s == dirs[d]
           k == NumLfn(n) + 1
<1>1. n \in Names /\ NameLen[n] \in Nat /\ s \in Seq(Slot)
  BY FinalType, ConstTypes DEF TypeOK
<1>2. k \in Nat \ {0}
  BY <1>1, DivType DEF NumLfn, LFN_PART_LEN
<1>3. CASE NameLen[n] <= 255 /\ FreeStops(s, k) # {}
            /\ WriteRun(d, FreePos(s, k), Group(n), p)
  <2> DEFINE pos == FreePos(s, k)
             w == Written(d, pos, Len(Group(n)))
  <2>1. Group(n) \in Seq(Slot) /\ \A j \in 1..Len(Group(n)) : Group(n)[j].kind # "end"
    BY <1>1, <1>3, GroupType
  <2>2. TailOK(s)
    BY DEF TailFree, TailOK
  <2>3. TailOK(WriteSlots(d, pos, Group(n), w, Grown(d, pos, w)))
    BY <1>2, <1>3, <2>1, <2>2, WriteTail
  <2>4. dirs' = [dirs EXCEPT ![d] = WriteSlots(d, pos, Group(n), w, Grown(d, pos, w))]
    BY <1>3 DEF WriteRun
  <2>. QED
    BY <2>3, <2>4, TailFreeExcept DEF TypeOK
<1>4. CASE UNCHANGED <<dirs, chain, alloc>>
  BY <1>4 DEF TailFree
<1>. QED
  BY <1>3, <1>4 DEF CreateFileEntry

(* create_file keeps the tail of terminators of every directory. *)
LEMMA CreateTail ==
    ASSUME TypeOK, TailFree, NEW p \in Paths, CreateFile(p)
    PROVE  TailFree'
<1>1. CASE \E d \in DirIds : CreateFileEntry(d, p)
  BY <1>1, CreateEntryTail
<1>2. CASE UNCHANGED dirs
  BY <1>2 DEF TailFree
<1>. QED
  BY <1>1, <1>2 DEF CreateFile, WalkFails

(* The index of the entry remove found is an entry of its directory. *)
LEMMA FoundIsEntry ==
    ASSUME NEW s, NEW n, Found(s, n)
    PROVE  FindEntry(s, n) \in Entries(s)
<1>1. Matches(s, n) \in SUBSET Nat /\ Matches(s, n) # {}
  BY DEF Found, Matches, Entries
<1>. QED
  BY <1>1, LeastIsMin DEF FindEntry, Matches

(* remove keeps the tail of terminators: it frees the slots of an entry  *)
(* the iterator yielded.                                                   *)
LEMMA RemoveTail ==
    ASSUME TypeOK, TailFree, NEW p \in Paths, Remove(p)
    PROVE  TailFree'
<1>1. CASE \E d \in DirIds :
             LET s == dirs[d]
                 i == FindEntry(s, Final(p))
             IN  /\ Found(s, Final(p))
                 /\ dirs' = [dirs EXCEPT ![d] = MarkFree(s, i)]
  <2>1. PICK d \in DirIds :
             LET s == dirs[d]
                 i == FindEntry(s, Final(p))
             IN  /\ Found(s, Final(p))
                 /\ dirs' = [dirs EXCEPT ![d] = MarkFree(s, i)]
    BY <1>1
  <2> DEFINE s == dirs[d]
             i == FindEntry(s, Final(p))
  <2>2. s \in Seq(Slot) /\ TailOK(s)
    BY DEF TypeOK, TailFree, TailOK
  <2>4. i \in Entries(s)
    BY <2>1, FoundIsEntry
  <2>5. TailOK(MarkFree(s, i))
    BY <2>2, <2>4, MarkFreeTail
  <2>. QED
    BY <2>1, <2>5, TailFreeExcept DEF TypeOK
<1>2. CASE UNCHANGED dirs
  BY <1>2 DEF TailFree
<1>. QED
  BY <1>1, <1>2 DEF Remove, WalkFails

(* The inductive invariant: TailFree needs the types of the slots. *)
TailInv == TypeOK /\ TailFree

(* One step of any operation keeps TailInv. *)
LEMMA TailStep ==
    ASSUME TailInv, [Next]_vars
    PROVE  TailInv'
<1> SUFFICES ASSUME TypeOK, TailFree, [Next]_vars PROVE TypeOK' /\ TailFree'
  BY DEF TailInv
<1>1. TypeOK'
  BY TypeNext
<1>2. CASE Next
  <2>1. PICK p \in Paths : OpenDir(p) \/ OpenFile(p) \/ CreateFile(p) \/ Remove(p)
    BY <1>2 DEF Next
  <2>2. CASE OpenDir(p) \/ OpenFile(p)
    BY <1>1, <2>2 DEF OpenDir, OpenFile, WalkFails, TailFree
  <2>3. CASE CreateFile(p)
    BY <1>1, <2>3, CreateTail
  <2>4. CASE Remove(p)
    BY <1>1, <2>4, RemoveTail
  <2>. QED
    BY <1>1, <2>1, <2>2, <2>3, <2>4
<1>3. CASE UNCHANGED vars
  BY <1>1, <1>3 DEF TailFree, vars
<1>. QED
  BY <1>2, <1>3

(* The terminator tail of spec 3.6 (invariant 2) holds in every state the *)
(* directory operations reach from an image that has it: create_file      *)
(* writes at or before the first terminator and grows directories by      *)
(* zero-filled clusters, and remove frees only slots of yielded entries.  *)
THEOREM TailFreeInvariant == Spec => []TailFree
<1>1. Init => TailInv
  BY InitTypes DEF Init, TypeOK, Ops, Results, TailFree, TailInv
<1>2. TailInv /\ [Next]_vars => TailInv'
  BY TailStep
<1>3. TailInv => TailFree
  BY DEF TailInv
<1>. QED
  BY <1>1, <1>2, <1>3, PTL DEF Spec
=============================================================================
