-------------------------- MODULE FatDirSlotsProofs --------------------------
(***************************************************************************)
(* Proofs that the directory operations never overwrite a slot the         *)
(* iterator reads: find_free_entries and read_dir_entry agree on where a   *)
(* directory ends (EndsAgree), so the run create_file_entry writes holds   *)
(* only free slots and slots at or after that end, and remove frees only   *)
(* the offset_range of the entry find_entry returned.                      *)
(***************************************************************************)
EXTENDS FatDirProofs, TLAPS

(* The first slot the iterator stops at is a position of the stream or   *)
(* one past its end.                                                       *)
LEMMA EndPosBound ==
    ASSUME NEW s \in Seq(Slot)
    PROVE  /\ EndPos(s) \in 1..(Len(s) + 1)
           /\ \A m \in 1..Len(s) : IterEnd(s[m]) => EndPos(s) <= m
<1> DEFINE E == {m \in 1..Len(s) : IterEnd(s[m])}
<1>1. CASE E # {}
  <2>1. E \in SUBSET Nat
    OBVIOUS
  <2>2. Least(E) \in E /\ \A y \in E : Least(E) <= y
    BY <1>1, <2>1, LeastIsMin
  <2>. QED
    BY <1>1, <2>2 DEF EndPos
<1>2. CASE E = {}
  BY <1>2 DEF EndPos
<1>. QED
  BY <1>1, <1>2

(* Every slot of the run find_free_entries returns for k slots that lies  *)
(* before the iterator's end is free, when the two agree on the end.      *)
LEMMA WrittenSlotsFree ==
    ASSUME NEW s \in Seq(Slot), NEW k \in Nat \ {0}, FreeStops(s, k) # {},
           \A m \in 1..Len(s) : IsEndSlot(s[m]) => IterEnd(s[m]),
           NEW j \in 1..(EndPos(s) - 1),
           FreePos(s, k) <= j, j <= FreePos(s, k) + k - 1
    PROVE  IsFreeSlot(s[j])
<1> DEFINE i == Least(FreeStops(s, k))
<1>1. /\ i \in 1..Len(s)
      /\ FreePos(s, k) \in 1..i
  BY FreePosBound
<1>2. i \in FreeStops(s, k)
  <2>1. FreeStops(s, k) \in SUBSET Nat
    BY DEF FreeStops
  <2>. QED
    BY <2>1, LeastIsMin
<1>3. CASE RunDone(s, k, i)
  <2>1. FreePos(s, k) = i - k + 1
    BY <1>3 DEF FreePos
  <2>2. j \in (i - k + 1)..i
    BY <1>1, <2>1
  <2>. QED
    BY <1>3, <2>2 DEF RunDone
<1>4. CASE ~RunDone(s, k, i)
  <2> DEFINE T == {b \in 1..i : \A m \in b..(i - 1) : IsFreeSlot(s[m])}
  <2>1. IsEndSlot(s[i])
    BY <1>2, <1>4 DEF FreeStops
  <2>2. EndPos(s) <= i
    BY <1>1, <2>1, EndPosBound
  <2>3. FreePos(s, k) = Least(T)
    BY <1>4 DEF FreePos, RunStart
  <2>4. Least(T) \in T
    <3>1. i \in T /\ T \in SUBSET Nat
      BY <1>1
    <3>. QED
      BY <3>1, LeastIsMin
  <2>5. j \in Least(T)..(i - 1)
    BY <1>1, <2>2, <2>3, <2>4, EndPosBound
  <2>. QED
    BY <2>4, <2>5
<1>. QED
  BY <1>3, <1>4

(* Writing a group of k slots at the run find_free_entries returned       *)
(* leaves every slot the iterator reads that holds an entry or a          *)
(* fragment as it was.                                                     *)
LEMMA WriteRunKeeps ==
    ASSUME TypeOK, EndsAgree, NEW d \in DirIds, NEW k \in Nat \ {0},
           FreeStops(dirs[d], k) # {},
           NEW g \in Seq(Slot), Len(g) = k,
           NEW p \in Paths, WriteRun(d, FreePos(dirs[d], k), g, p)
    PROVE  \A x \in DirIds : \A j \in 1..(EndPos(dirs[x]) - 1) :
             dirs[x][j].kind \in {"short", "lfn"} => dirs'[x][j] = dirs[x][j]
<1> DEFINE s == dirs[d]
           pos == FreePos(s, k)
           w == Written(d, pos, Len(g))
           g2 == Grown(d, pos, w)
           t == WriteSlots(d, pos, g, w, g2)
<1>1. s \in Seq(Slot) /\ pos \in Int
  BY FreePosBound DEF TypeOK
<1>2. dirs' = [dirs EXCEPT ![d] = t]
  BY DEF WriteRun
<1>3. /\ Len(t) = Len(s) + g2 * ClusterSlots
      /\ \A j \in 1..Len(t) :
           t[j] = IF pos <= j /\ j <= pos + w - 1 THEN g[j - pos + 1]
                  ELSE IF j <= Len(s) THEN s[j]
                  ELSE EndSlot
  BY <1>1, WriteSlotsShape
<1>4. w \in Int /\ w <= Len(g) /\ g2 \in Nat
  BY <1>1, WriteSizes
<1>5. SUFFICES ASSUME NEW x \in DirIds, NEW j \in 1..(EndPos(dirs[x]) - 1),
                     dirs[x][j].kind \in {"short", "lfn"}
              PROVE  dirs'[x][j] = dirs[x][j]
  OBVIOUS
<1>6. CASE x # d
  BY <1>2, <1>6 DEF TypeOK
<1>7. CASE x = d
  <2>1. j \in 1..Len(s)
    BY <1>1, <1>7, EndPosBound
  <2>2. j \in 1..Len(t)
    BY <1>3, <1>4, <2>1, ConstTypes
  <2>3. ~(pos <= j /\ j <= pos + w - 1)
    <3>1. SUFFICES ASSUME pos <= j, j <= pos + w - 1 PROVE FALSE
      OBVIOUS
    <3>2. \A m \in 1..Len(s) : IsEndSlot(s[m]) => IterEnd(s[m])
      BY DEF EndsAgree
    <3>3. j \in 1..(EndPos(s) - 1) /\ pos <= j /\ j <= pos + k - 1
      BY <1>1, <1>4, <1>7, <3>1, EndPosBound
    <3>4. IsFreeSlot(s[j])
      BY <1>1, <3>2, <3>3, WrittenSlotsFree
    <3>. QED
      BY <1>5, <1>7, <3>4 DEF IsFreeSlot
  <2>. QED
    BY <1>2, <1>3, <1>7, <2>1, <2>2, <2>3 DEF TypeOK
<1>. QED
  BY <1>6, <1>7

(* The group create_file_entry writes has one slot per LFN fragment and  *)
(* the short slot.                                                         *)
LEMMA GroupLen ==
    ASSUME NEW n \in Names
    PROVE  Len(Group(n)) = NumLfn(n) + 1 /\ NumLfn(n) + 1 \in Nat \ {0}
<1>1. NumLfn(n) \in Nat
  BY ConstTypes, DivType DEF NumLfn, LFN_PART_LEN
<1>. QED
  BY <1>1 DEF Group

(* create_file leaves every slot the iterator reads that holds an entry  *)
(* or a fragment as it was.                                                *)
LEMMA CreateKeeps ==
    ASSUME TypeOK, EndsAgree, NEW p \in Paths, CreateFile(p)
    PROVE  \A x \in DirIds : \A j \in 1..(EndPos(dirs[x]) - 1) :
             dirs[x][j].kind \in {"short", "lfn"} => dirs'[x][j] = dirs[x][j]
<1>1. CASE \E d \in DirIds : CreateFileEntry(d, p)
  <2>1. PICK d \in DirIds : CreateFileEntry(d, p)
    BY <1>1
  <2> DEFINE n == Final(p)
             k == NumLfn(n) + 1
  <2>2. n \in Names
    BY FinalType
  <2>3. CASE NameLen[n] <= 255 /\ FreeStops(dirs[d], k) # {}
              /\ WriteRun(d, FreePos(dirs[d], k), Group(n), p)
    BY <2>2, <2>3, GroupLen, GroupType, WriteRunKeeps
  <2>4. CASE UNCHANGED <<dirs, chain, alloc>>
    BY <2>4
  <2>. QED
    BY <2>1, <2>3, <2>4 DEF CreateFileEntry
<1>2. CASE UNCHANGED <<dirs, chain, alloc>>
  BY <1>2
<1>. QED
  BY <1>1, <1>2 DEF CreateFile, WalkFails

(* What LiveSlotsKept allows one step to do to the slots the iterator    *)
(* reads that hold an entry or a fragment.                                *)
KeptStep ==
    \A d \in DirIds : \A j \in 1..(EndPos(dirs[d]) - 1) :
         dirs[d][j].kind \in {"short", "lfn"} =>
            \/ dirs'[d][j] = dirs[d][j]
            \/ /\ last' = [op |-> "remove", path |-> last'.path, res |-> "ok"]
               /\ j \in RangeOf(dirs[d], FindEntry(dirs[d], Final(last'.path)))
               /\ dirs'[d][j] = FreeSlot

(* remove changes a slot only by freeing it, and only when it succeeds    *)
(* and the slot is in the range of the entry find_entry returned.         *)
LEMMA RemoveKeeps ==
    ASSUME TypeOK, NEW p \in Paths, Remove(p)
    PROVE  KeptStep
<1>1. CASE UNCHANGED <<dirs, chain, alloc>>
  BY <1>1 DEF KeptStep
<1>2. CASE \E d \in DirIds :
             LET s == dirs[d]
                 i == FindEntry(s, Final(p))
             IN  /\ dirs' = [dirs EXCEPT ![d] = MarkFree(s, i)]
                 /\ Done("remove", p, "ok")
  <2>1. PICK d \in DirIds :
             LET s == dirs[d]
                 i == FindEntry(s, Final(p))
             IN  /\ dirs' = [dirs EXCEPT ![d] = MarkFree(s, i)]
                 /\ Done("remove", p, "ok")
    BY <1>2
  <2> DEFINE s == dirs[d]
             i == FindEntry(s, Final(p))
  <2>2. SUFFICES ASSUME NEW x \in DirIds, NEW j \in 1..(EndPos(dirs[x]) - 1)
                 PROVE  \/ dirs'[x][j] = dirs[x][j]
                        \/ /\ last' = [op |-> "remove", path |-> last'.path, res |-> "ok"]
                           /\ j \in RangeOf(dirs[x], FindEntry(dirs[x], Final(last'.path)))
                           /\ dirs'[x][j] = FreeSlot
    BY DEF KeptStep
  <2>3. CASE x # d
    BY <2>1, <2>3 DEF TypeOK
  <2>4. CASE x = d
    <3>1. s \in Seq(Slot) /\ j \in 1..Len(s)
      BY <2>4, EndPosBound DEF TypeOK
    <3>2. dirs'[x][j] = IF j \in RangeOf(s, i) THEN FreeSlot ELSE s[j]
      BY <2>1, <2>4, <3>1 DEF TypeOK, MarkFree
    <3>3. last' = [op |-> "remove", path |-> p, res |-> "ok"]
      BY <2>1 DEF Done
    <3>. QED
      BY <2>4, <3>2, <3>3
  <2>. QED
    BY <2>3, <2>4
<1>. QED
  BY <1>1, <1>2 DEF Remove, WalkFails

(* The slots create_file_entry writes agree on the end: its fragments    *)
(* have orders 1 .. NumLfn, and its short slot is the end for both        *)
(* readers exactly when its name starts with byte 0.                      *)
LEMMA GroupEndsAgree ==
    ASSUME NEW n \in Names
    PROVE  \A j \in 1..Len(Group(n)) : IsEndSlot(Group(n)[j]) => IterEnd(Group(n)[j])
<1>1. NumLfn(n) \in Nat /\ Len(Group(n)) = NumLfn(n) + 1
  BY GroupLen, ConstTypes, DivType DEF NumLfn, LFN_PART_LEN
<1>. QED
  BY <1>1 DEF Group, LfnSlot, NewShortSlot, IsEndSlot, IterEnd

(* Writing slots that agree on the end, growing by terminators, keeps    *)
(* EndsAgree.                                                              *)
LEMMA WriteRunEnds ==
    ASSUME TypeOK, EndsAgree, NEW d \in DirIds, NEW pos \in Int,
           NEW g \in Seq(Slot), \A j \in 1..Len(g) : IsEndSlot(g[j]) => IterEnd(g[j]),
           NEW p \in Paths, WriteRun(d, pos, g, p)
    PROVE  EndsAgree'
<1> DEFINE s == dirs[d]
           w == Written(d, pos, Len(g))
           g2 == Grown(d, pos, w)
           t == WriteSlots(d, pos, g, w, g2)
<1>1. dirs' = [dirs EXCEPT ![d] = t]
  BY DEF WriteRun
<1>2. /\ t \in Seq(Slot)
      /\ \A j \in 1..Len(t) :
           t[j] = IF pos <= j /\ j <= pos + w - 1 THEN g[j - pos + 1]
                  ELSE IF j <= Len(s) THEN s[j]
                  ELSE EndSlot
  BY WriteSlotsShape
<1>3. w \in Int /\ w <= Len(g)
  BY WriteSizes
<1>4. \A j \in 1..Len(t) : IsEndSlot(t[j]) => IterEnd(t[j])
  <2> SUFFICES ASSUME NEW j \in 1..Len(t), IsEndSlot(t[j]) PROVE IterEnd(t[j])
    OBVIOUS
  <2>1. CASE pos <= j /\ j <= pos + w - 1
    <3>1. j - pos + 1 \in 1..Len(g)
      BY <1>3, <2>1
    <3>. QED
      BY <1>2, <2>1, <3>1
  <2>2. CASE ~(pos <= j /\ j <= pos + w - 1) /\ j <= Len(s)
    BY <1>2, <2>2 DEF EndsAgree
  <2>3. CASE ~(pos <= j /\ j <= pos + w - 1) /\ ~(j <= Len(s))
    BY <1>2, <2>3 DEF EndSlot, IterEnd
  <2>. QED
    BY <2>1, <2>2, <2>3
<1>. QED
  BY <1>1, <1>2, <1>4 DEF EndsAgree, TypeOK

(* create_file keeps EndsAgree. *)
LEMMA CreateEnds ==
    ASSUME TypeOK, EndsAgree, NEW p \in Paths, CreateFile(p)
    PROVE  EndsAgree'
<1>1. CASE \E d \in DirIds : CreateFileEntry(d, p)
  <2>1. PICK d \in DirIds : CreateFileEntry(d, p)
    BY <1>1
  <2> DEFINE n == Final(p)
             k == NumLfn(n) + 1
  <2>2. n \in Names
    BY FinalType
  <2>3. CASE NameLen[n] <= 255 /\ FreeStops(dirs[d], k) # {}
              /\ WriteRun(d, FreePos(dirs[d], k), Group(n), p)
    <3>1. FreePos(dirs[d], k) \in Int
      BY <2>2, <2>3, GroupLen, FreePosBound DEF TypeOK
    <3>. QED
      BY <2>2, <2>3, <3>1, GroupType, GroupEndsAgree, WriteRunEnds
  <2>4. CASE UNCHANGED <<dirs, chain, alloc>>
    BY <2>4 DEF EndsAgree
  <2>. QED
    BY <2>1, <2>3, <2>4 DEF CreateFileEntry
<1>2. CASE UNCHANGED <<dirs, chain, alloc>>
  BY <1>2 DEF EndsAgree
<1>. QED
  BY <1>1, <1>2 DEF CreateFile, WalkFails

(* Every step keeps EndsAgree: create writes slots that agree on the end *)
(* and remove writes free slots.                                          *)
LEMMA EndsAgreeStep ==
    ASSUME TypeOK, EndsAgree, [Next]_vars
    PROVE  EndsAgree'
<1>1. CASE UNCHANGED <<dirs, chain, alloc>>
  BY <1>1 DEF EndsAgree
<1>2. ASSUME NEW p \in Paths, CreateFile(p)
      PROVE  EndsAgree'
  BY <1>2, CreateEnds
<1>3. ASSUME NEW p \in Paths, Remove(p)
      PROVE  EndsAgree'
  <2>1. TypeOK'
    BY <1>3, RemoveType
  <2>2. KeptStep
    BY <1>3, RemoveKeeps
  <2>3. SUFFICES ASSUME NEW x \in DirIds, NEW j \in 1..Len(dirs'[x]),
                        IsEndSlot(dirs'[x][j])
                 PROVE  IterEnd(dirs'[x][j])
    BY DEF EndsAgree
  <2>4. CASE UNCHANGED <<dirs, chain, alloc>>
    BY <2>3, <2>4 DEF EndsAgree
  <2>5. CASE \E d \in DirIds :
               /\ dirs' = [dirs EXCEPT ![d] = MarkFree(dirs[d], FindEntry(dirs[d], Final(p)))]
    <3>1. PICK d \in DirIds :
               dirs' = [dirs EXCEPT ![d] = MarkFree(dirs[d], FindEntry(dirs[d], Final(p)))]
      BY <2>5
    <3>2. CASE x # d
      BY <2>3, <3>1, <3>2 DEF TypeOK, EndsAgree
    <3>3. CASE x = d
      <4> DEFINE s == dirs[d]
                 i == FindEntry(s, Final(p))
      <4>1. s \in Seq(Slot) /\ dirs'[x] = MarkFree(s, i)
        BY <3>1, <3>3 DEF TypeOK
      <4>2. j \in 1..Len(s) /\ dirs'[x][j] = IF j \in RangeOf(s, i) THEN FreeSlot ELSE s[j]
        BY <4>1 DEF MarkFree
      <4>. QED
        BY <2>3, <3>3, <4>2 DEF EndsAgree, IsEndSlot, FreeSlot
    <3>. QED
      BY <3>2, <3>3
  <2>. QED
    BY <1>3, <2>4, <2>5 DEF Remove, WalkFails
<1>. QED
  BY <1>1, <1>2, <1>3 DEF Next, vars, OpenDir, OpenFile, WalkFails

(* The inductive invariant of both theorems below. *)
EAInv == TypeOK /\ EndsAgree

(* From an image in which find_free_entries and read_dir_entry agree on  *)
(* where each directory ends (no LFN slot of order 0 that is not the      *)
(* last, dir.rs is_end), no sequence of open_dir, open_file, create_file  *)
(* and remove calls makes them disagree.                                   *)
THEOREM EndsAgreeInvariant == Spec /\ EndsAgree => []EndsAgree
<1>1. Init /\ EndsAgree => EAInv
  BY InitTypes DEF Init, TypeOK, Ops, Results, EAInv
<1>2. EAInv /\ [Next]_vars => EAInv'
  BY TypeNext, EndsAgreeStep DEF EAInv
<1>3. EAInv => EndsAgree
  BY DEF EAInv
<1>. QED
  BY <1>1, <1>2, <1>3, PTL DEF Spec

(* On such an image, no call overwrites a slot the iterator reads that   *)
(* holds an entry or an LFN fragment (dir.rs create_file_entry writing at *)
(* the position find_free_entries returns, remove freeing offset_range):  *)
(* only a remove that succeeds changes one, by freeing it, and only in    *)
(* the range of the entry it found.                                        *)
THEOREM LiveSlotsKeptHolds == Spec /\ EndsAgree => LiveSlotsKept
<1>1. Init /\ EndsAgree => EAInv
  BY InitTypes DEF Init, TypeOK, Ops, Results, EAInv
<1>2. EAInv /\ [Next]_vars => EAInv'
  BY TypeNext, EndsAgreeStep DEF EAInv
<1>3. EAInv /\ [Next]_vars => [KeptStep]_vars
  <2> SUFFICES ASSUME TypeOK, EndsAgree, [Next]_vars PROVE KeptStep
    BY DEF EAInv
  <2>1. CASE UNCHANGED vars
    BY <2>1 DEF vars, KeptStep
  <2>2. CASE Next
    <3>1. PICK p \in Paths : OpenDir(p) \/ OpenFile(p) \/ CreateFile(p) \/ Remove(p)
      BY <2>2 DEF Next
    <3>2. CASE OpenDir(p) \/ OpenFile(p)
      BY <3>2 DEF OpenDir, OpenFile, WalkFails, KeptStep
    <3>3. CASE CreateFile(p)
      BY <3>3, CreateKeeps DEF KeptStep
    <3>4. CASE Remove(p)
      BY <3>4, RemoveKeeps
    <3>. QED
      BY <3>1, <3>2, <3>3, <3>4
  <2>. QED
    BY <2>1, <2>2
<1>. QED
  BY <1>1, <1>2, <1>3, PTL DEF Spec, LiveSlotsKept, KeptStep
=============================================================================
