------------------------- MODULE FatDirFaultsProofs -------------------------
(***************************************************************************)
(* Proofs about FatDirFaults for every value of the constants: a remove   *)
(* that fails part-way through its slot loop keeps the slots typed and     *)
(* the tail of terminators, as a remove that completes does.               *)
(***************************************************************************)
EXTENDS FatDirFaults, FatDirProofs, TLAPS

(* Freeing a prefix of the range of an entry keeps the tail of            *)
(* terminators: every slot of the range lies before the first terminator. *)
LEMMA MarkFreeBeforeTail ==
    ASSUME NEW s \in Seq(Slot), TailOK(s), NEW i \in Entries(s), NEW k
    PROVE  TailOK(MarkFreeBefore(s, i, k))
<1>1. \A j \in 1..i : s[j].kind # "end"
  BY EntriesBeforeEnd
<1>2. i \in Nat
  BY DEF Entries
<1>3. SUFFICES ASSUME NEW a \in 1..Len(s), NEW b \in 1..Len(s), a < b,
                     MarkFreeBefore(s, i, k)[a].kind = "end"
              PROVE  MarkFreeBefore(s, i, k)[b].kind = "end"
  BY DEF TailOK, MarkFreeBefore
<1>4. ~(a \in RangeOf(s, i) /\ a < k) /\ s[a].kind = "end"
  BY <1>3 DEF MarkFreeBefore, FreeSlot
<1>5. a \notin RangeOf(s, i)
  BY <1>1, <1>2, <1>4 DEF RangeOf
<1>6. a > i
  BY <1>1, <1>2, <1>4
<1>7. b \notin RangeOf(s, i)
  BY <1>2, <1>3, <1>6 DEF RangeOf
<1>. QED
  BY <1>3, <1>4, <1>7 DEF TailOK, MarkFreeBefore

(* A failing remove keeps the variables typed. *)
LEMMA RemoveFailsType ==
    ASSUME TypeOK, NEW p \in Paths, RemoveFails(p)
    PROVE  TypeOK'
<1>1. PICK d \in DirIds :
         LET s == dirs[d]
             i == FindEntry(s, Final(p))
             e == s[i]
         IN  /\ alloc' = alloc \ ChainFrom(e)
             /\ chain' = IF e.dir /\ e.clus \in DirIds
                          THEN [chain EXCEPT ![e.clus] = {}] ELSE chain
             /\ \E k \in RangeOf(s, i) :
                  dirs' = [dirs EXCEPT ![d] = MarkFreeBefore(s, i, k)]
             /\ Done("remove", p, "err")
  BY DEF RemoveFails
<1> DEFINE s == dirs[d]
           i == FindEntry(s, Final(p))
<1>2. PICK k \in RangeOf(s, i) : dirs' = [dirs EXCEPT ![d] = MarkFreeBefore(s, i, k)]
  BY <1>1
<1>3. MarkFreeBefore(s, i, k) \in Seq(Slot)
  BY DEF TypeOK, MarkFreeBefore, Slot, FreeSlot
<1>. QED
  BY <1>1, <1>2, <1>3 DEF TypeOK, Done, Ops, Results

(* A failing remove keeps the tail of terminators of every directory. *)
LEMMA RemoveFailsTail ==
    ASSUME TypeOK, TailFree, NEW p \in Paths, RemoveFails(p)
    PROVE  TailFree'
<1>1. PICK d \in DirIds :
         LET s == dirs[d]
             i == FindEntry(s, Final(p))
         IN  /\ Found(s, Final(p))
             /\ \E k \in RangeOf(s, i) :
                  dirs' = [dirs EXCEPT ![d] = MarkFreeBefore(s, i, k)]
  BY DEF RemoveFails
<1> DEFINE s == dirs[d]
           i == FindEntry(s, Final(p))
<1>2. PICK k \in RangeOf(s, i) : dirs' = [dirs EXCEPT ![d] = MarkFreeBefore(s, i, k)]
  BY <1>1
<1>3. s \in Seq(Slot) /\ TailOK(s)
  BY DEF TypeOK, TailFree, TailOK
<1>4. i \in Entries(s)
  BY <1>1, FoundIsEntry
<1>5. TailOK(MarkFreeBefore(s, i, k))
  BY <1>3, <1>4, MarkFreeBeforeTail
<1>. QED
  BY <1>2, <1>5, TailFreeExcept DEF TypeOK

(* The terminator tail of spec 3.6 survives a remove whose slot loop      *)
(* fails part-way (dir.rs remove, the `?` on each read and write of the    *)
(* slot loop): the slots freed before the failure all lie before the       *)
(* first terminator, like those of a remove that completes.               *)
THEOREM FaultTailFree == FSpec => []TailFree
<1>1. Init => TailInv
  BY InitTypes DEF Init, TypeOK, Ops, Results, TailFree, TailInv
<1>2. TailInv /\ [FNext]_vars => TailInv'
  <2> SUFFICES ASSUME TypeOK, TailFree, [FNext]_vars PROVE TypeOK' /\ TailFree'
    BY DEF TailInv
  <2>1. CASE [Next]_vars
    BY <2>1, TailStep DEF TailInv
  <2>2. CASE \E p \in Paths : RemoveFails(p)
    <3>1. PICK p \in Paths : RemoveFails(p)
      BY <2>2
    <3>. QED
      BY <3>1, RemoveFailsType, RemoveFailsTail
  <2>. QED
    BY <2>1, <2>2 DEF FNext
<1>3. TailInv => TailFree
  BY DEF TailInv
<1>. QED
  BY <1>1, <1>2, <1>3, PTL DEF FSpec
=============================================================================
