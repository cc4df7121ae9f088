-------------------------- MODULE FatDirAllocProofs --------------------------
(***************************************************************************)
(* Proof that the directory operations never cross-link a cluster: from  *)
(* an image in which every cluster has one owner, create_file takes only  *)
(* free clusters to grow a directory and writes no slot that owns one,    *)
(* and remove frees exactly the clusters of the entry whose slots it      *)
(* frees.                                                                  *)
(***************************************************************************)
EXTENDS FatDirProofs, TLAPS

(* No step makes a slot own a cluster: every slot that owns one after the *)
(* step is a slot of the same directory at the same position before it.  *)
RefsKept ==
    \A d \in DirIds : \A j \in 1..Len(dirs'[d]) :
        OwnsCluster(dirs'[d][j]) => j \in 1..Len(dirs[d]) /\ dirs'[d][j] = dirs[d][j]

(* The entry an iteration yields lies in the stream and in its own range. *)
LEMMA EntryInRange ==
    ASSUME NEW s \in Seq(Slot), NEW i \in Entries(s)
    PROVE  /\ i \in 1..Len(s)
           /\ i \in RangeOf(s, i)
<1>1. i \in 1..(EndPos(s) - 1)
  BY DEF Entries
<1>2. EndPos(s) \in Nat /\ EndPos(s) <= Len(s) + 1
  <2>1. CASE \E m \in 1..Len(s) : IterEnd(s[m])
    <3> DEFINE E == {m \in 1..Len(s) : IterEnd(s[m])}
    <3>1. E \in SUBSET Nat /\ E # {}
      BY <2>1
    <3>2. Least(E) \in E
      BY <3>1, LeastIsMin
    <3>. QED
      BY <2>1, <3>2 DEF EndPos
  <2>2. CASE ~\E m \in 1..Len(s) : IterEnd(s[m])
    BY <2>2 DEF EndPos
  <2>. QED
    BY <2>1, <2>2
<1>3. i \in 1..Len(s)
  BY <1>1, <1>2
<1>4. RangeBegin(s, i) \in 1..i
  <2> DEFINE B == {b \in 1..i : \A j \in b..(i - 1) : s[j].kind \notin {"free", "short"}}
  <2>1. i \in B /\ B \in SUBSET Nat
    BY <1>3
  <2>2. Least(B) \in B
    BY <2>1, LeastIsMin
  <2>. QED
    BY <2>2 DEF RangeBegin
<1>. QED
  BY <1>3, <1>4 DEF RangeOf

(* The slots that own a cluster after a step that keeps RefsKept are     *)
(* slots that owned the same cluster before it.                           *)
LEMMA RefsShrink ==
    ASSUME TypeOK, TypeOK', RefsKept
    PROVE  /\ FileRefs' \subseteq FileRefs
           /\ \A r \in FileRefs' : ClusOf(r)' = ClusOf(r)
<1>1. ASSUME NEW r \in FileRefs'
      PROVE  r \in FileRefs /\ ClusOf(r)' = ClusOf(r)
  <2>1. PICK d \in DirIds : r \in {<<d, i>> : i \in {j \in 1..Len(dirs'[d]) :
                                                    OwnsCluster(dirs'[d][j])}}
    BY <1>1 DEF FileRefs
  <2>2. PICK j \in 1..Len(dirs'[d]) : r = <<d, j>> /\ OwnsCluster(dirs'[d][j])
    BY <2>1
  <2>3. j \in 1..Len(dirs[d]) /\ dirs'[d][j] = dirs[d][j]
    BY <2>2 DEF RefsKept
  <2>. QED
    BY <2>2, <2>3 DEF FileRefs, ClusOf
<1>. QED
  BY <1>1

(* A step that shrinks every chain, frees a set F of clusters that no    *)
(* remaining chain or owning slot holds, and makes no slot own a cluster  *)
(* keeps NoCrossLink.                                                     *)
LEMMA NoCrossLinkShrink ==
    ASSUME TypeOK, NoCrossLink, TypeOK', RefsKept,
           \A x \in DirIds : chain'[x] \subseteq chain[x],
           NEW F, alloc' = alloc \ F,
           \A x \in DirIds : chain'[x] \cap F = {},
           \A r \in FileRefs' : ClusOf(r) \notin F
    PROVE  NoCrossLink'
<1>1. FileRefs' \subseteq FileRefs /\ \A r \in FileRefs' : ClusOf(r)' = ClusOf(r)
  BY RefsShrink
<1>2. \A x \in DirIds : chain'[x] \subseteq alloc'
  BY DEF NoCrossLink
<1>3. \A d1, d2 \in DirIds : d1 # d2 => chain'[d1] \cap chain'[d2] = {}
  BY DEF NoCrossLink
<1>4. \A r \in FileRefs' : ClusOf(r)' \in alloc' \ UNION {chain'[x] : x \in DirIds}
  BY <1>1 DEF NoCrossLink
<1>5. \A r1, r2 \in FileRefs' : r1 # r2 => ClusOf(r1)' # ClusOf(r2)'
  BY <1>1 DEF NoCrossLink
<1>. QED
  BY <1>2, <1>3, <1>4, <1>5 DEF NoCrossLink

(* The group create_file_entry writes owns no cluster: its fragments are *)
(* LFN slots and its short slot has first cluster 0.                      *)
LEMMA GroupOwnsNone ==
    ASSUME NEW n \in Names, NameLen[n] <= 255
    PROVE  \A j \in 1..Len(Group(n)) : ~OwnsCluster(Group(n)[j])
<1>1. NumLfn(n) \in Nat
  BY ConstTypes, DivType DEF NumLfn, LFN_PART_LEN
<1>2. Len(Group(n)) = NumLfn(n) + 1
  BY <1>1 DEF Group
<1>. QED
  BY <1>1, <1>2 DEF Group, LfnSlot, NewShortSlot, OwnsCluster

(* Writing a group that owns no cluster, growing the directory by free   *)
(* clusters linked into its chain, keeps NoCrossLink.                      *)
LEMMA WriteRunNoCrossLink ==
    ASSUME TypeOK, NoCrossLink, NEW d \in DirIds, NEW pos \in Int,
           NEW g \in Seq(Slot), \A j \in 1..Len(g) : ~OwnsCluster(g[j]),
           NEW p \in Paths, WriteRun(d, pos, g, p)
    PROVE  NoCrossLink'
<1> DEFINE s == dirs[d]
           w == Written(d, pos, Len(g))
           g2 == Grown(d, pos, w)
           t == WriteSlots(d, pos, g, w, g2)
<1>1. PICK new \in SUBSET (Clusters \ alloc) :
        /\ dirs' = [dirs EXCEPT ![d] = t]
        /\ chain' = [chain EXCEPT ![d] = @ \cup new]
        /\ alloc' = alloc \cup new
  BY DEF WriteRun
<1>2. TypeOK'
  BY WriteRunType
<1>3. /\ t \in Seq(Slot)
      /\ \A j \in 1..Len(t) :
           t[j] = IF pos <= j /\ j <= pos + w - 1 THEN g[j - pos + 1]
                  ELSE IF j <= Len(s) THEN s[j]
                  ELSE EndSlot
  BY WriteSlotsShape
<1>4. w \in Int /\ w <= Len(g)
  BY WriteSizes
<1>5. RefsKept
  <2> SUFFICES ASSUME NEW x \in DirIds, NEW j \in 1..Len(dirs'[x]),
                      OwnsCluster(dirs'[x][j])
               PROVE  j \in 1..Len(dirs[x]) /\ dirs'[x][j] = dirs[x][j]
    BY DEF RefsKept
  <2>1. CASE x # d
    BY <1>1, <2>1 DEF TypeOK
  <2>2. CASE x = d
    <3>1. j \in 1..Len(t) /\ OwnsCluster(t[j])
      BY <1>1, <2>2 DEF TypeOK
    <3>2. ~(pos <= j /\ j <= pos + w - 1)
      <4>1. SUFFICES ASSUME pos <= j, j <= pos + w - 1 PROVE FALSE
        OBVIOUS
      <4>2. j - pos + 1 \in 1..Len(g)
        BY <1>4, <4>1
      <4>. QED
        BY <1>3, <3>1, <4>1, <4>2
    <3>3. j <= Len(s)
      BY <1>3, <3>1, <3>2 DEF OwnsCluster, EndSlot
    <3>. QED
      BY <1>1, <1>3, <2>2, <3>1, <3>2, <3>3 DEF TypeOK
  <2>. QED
    BY <2>1, <2>2
<1>6. FileRefs' \subseteq FileRefs /\ \A r \in FileRefs' : ClusOf(r)' = ClusOf(r)
  BY <1>2, <1>5, RefsShrink
<1>7. \A x \in DirIds : chain'[x] = IF x = d THEN chain[x] \cup new ELSE chain[x]
  BY <1>1 DEF TypeOK
<1>8. \A x \in DirIds : chain[x] \cap new = {}
  BY DEF NoCrossLink
<1>9. \A r \in FileRefs : ClusOf(r) \notin new
  BY DEF NoCrossLink
<1>. QED
  BY <1>1, <1>6, <1>7, <1>8, <1>9 DEF NoCrossLink

(* create_file keeps NoCrossLink: it writes nothing, or the group of a   *)
(* name of at most 255 bytes.                                             *)
LEMMA CreateNoCrossLink ==
    ASSUME TypeOK, NoCrossLink, NEW p \in Paths, CreateFile(p)
    PROVE  NoCrossLink'
<1>1. CASE \E d \in DirIds : CreateFileEntry(d, p)
  <2>1. PICK d \in DirIds : CreateFileEntry(d, p)
    BY <1>1
  <2> DEFINE n == Final(p)
             s == dirs[d]
             k == NumLfn(n) + 1
  <2>2. n \in Names /\ NameLen[n] \in Nat /\ s \in Seq(Slot)
    BY FinalType, ConstTypes DEF TypeOK
  <2>3. k \in Nat \ {0}
    BY <2>2, DivType DEF NumLfn, LFN_PART_LEN
  <2>4. CASE NameLen[n] <= 255 /\ FreeStops(s, k) # {}
              /\ WriteRun(d, FreePos(s, k), Group(n), p)
    <3>1. FreePos(s, k) \in Nat
      BY <2>2, <2>3, <2>4, FreePosBound
    <3>2. Group(n) \in Seq(Slot) /\ \A j \in 1..Len(Group(n)) : ~OwnsCluster(Group(n)[j])
      BY <2>2, <2>4, GroupType, GroupOwnsNone
    <3>. QED
      BY <2>4, <3>1, <3>2, WriteRunNoCrossLink
  <2>5. CASE UNCHANGED <<dirs, chain, alloc>>
    BY <2>5 DEF NoCrossLink, FileRefs, ClusOf
  <2>. QED
    BY <2>1, <2>4, <2>5 DEF CreateFileEntry
<1>2. CASE UNCHANGED <<dirs, chain, alloc>>
  BY <1>2 DEF NoCrossLink, FileRefs, ClusOf
<1>. QED
  BY <1>1, <1>2 DEF CreateFile, WalkFails

(* Freeing the range of an entry makes no slot own a cluster, and the     *)
(* entry's own short slot owns none afterwards.                           *)
LEMMA MarkFreeRefs ==
    ASSUME TypeOK, NEW d \in DirIds, NEW i \in Entries(dirs[d]),
           dirs' = [dirs EXCEPT ![d] = MarkFree(dirs[d], i)]
    PROVE  /\ RefsKept
           /\ \A j \in 1..Len(dirs'[d]) : j = i => ~OwnsCluster(dirs'[d][j])
<1> DEFINE s == dirs[d]
<1>1. s \in Seq(Slot) /\ i \in 1..Len(s) /\ i \in RangeOf(s, i)
  BY EntryInRange DEF TypeOK
<1>2. dirs'[d] = MarkFree(s, i) /\ Len(MarkFree(s, i)) = Len(s)
  BY <1>1 DEF TypeOK, MarkFree
<1>3. \A j \in 1..Len(s) : MarkFree(s, i)[j] = IF j \in RangeOf(s, i) THEN FreeSlot ELSE s[j]
  BY DEF MarkFree
<1>4. RefsKept
  <2> SUFFICES ASSUME NEW x \in DirIds, NEW j \in 1..Len(dirs'[x]),
                      OwnsCluster(dirs'[x][j])
               PROVE  j \in 1..Len(dirs[x]) /\ dirs'[x][j] = dirs[x][j]
    BY DEF RefsKept
  <2>1. CASE x # d
    BY <2>1 DEF TypeOK
  <2>2. CASE x = d
    BY <1>2, <1>3, <2>2 DEF OwnsCluster, FreeSlot
  <2>. QED
    BY <2>1, <2>2
<1>. QED
  BY <1>1, <1>2, <1>3, <1>4 DEF OwnsCluster, FreeSlot

(* remove keeps NoCrossLink: it frees the slots of the entry and the      *)
(* clusters of that entry alone, the chain of a subdirectory or the first *)
(* cluster of a file, which nothing else holds.                           *)
LEMMA RemoveNoCrossLink ==
    ASSUME TypeOK, NoCrossLink, NEW p \in Paths, Remove(p)
    PROVE  NoCrossLink'
<1>0. TypeOK'
  BY RemoveType
<1>1. CASE UNCHANGED <<dirs, chain, alloc>>
  BY <1>1 DEF NoCrossLink, FileRefs, ClusOf
<1>2. CASE \E d \in DirIds :
             LET s == dirs[d]
                 i == FindEntry(s, Final(p))
                 e == s[i]
             IN  /\ Found(s, Final(p))
                 /\ alloc' = alloc \ ChainFrom(e)
                 /\ chain' = IF e.dir /\ e.clus \in DirIds
                              THEN [chain EXCEPT ![e.clus] = {}] ELSE chain
                 /\ dirs' = [dirs EXCEPT ![d] = MarkFree(s, i)]
  <2>1. PICK d \in DirIds :
             LET s == dirs[d]
                 i == FindEntry(s, Final(p))
                 e == s[i]
             IN  /\ Found(s, Final(p))
                 /\ alloc' = alloc \ ChainFrom(e)
                 /\ chain' = IF e.dir /\ e.clus \in DirIds
                              THEN [chain EXCEPT ![e.clus] = {}] ELSE chain
                 /\ dirs' = [dirs EXCEPT ![d] = MarkFree(s, i)]
    BY <1>2
  <2> DEFINE s == dirs[d]
             i == FindEntry(s, Final(p))
             e == s[i]
             c == e.clus
  <2>2. i \in Entries(s)
    BY <2>1, FoundIsEntry
  <2>3. i \in 1..Len(s) /\ s \in Seq(Slot) /\ e \in Slot /\ e.kind = "short"
    BY <2>2, EntryInRange DEF TypeOK, Entries
  <2>4. RefsKept /\ \A j \in 1..Len(dirs'[d]) : j = i => ~OwnsCluster(dirs'[d][j])
    BY <2>1, <2>2, MarkFreeRefs
  <2>5. FileRefs' \subseteq FileRefs
    BY <1>0, <2>4, RefsShrink
  <2>6. <<d, i>> \notin FileRefs'
    BY <2>4 DEF FileRefs
  <2>7. CASE e.dir /\ c \in DirIds /\ c # 0
    <3>1. chain' = [chain EXCEPT ![c] = {}] /\ alloc' = alloc \ chain[c]
      BY <2>1, <2>7 DEF ChainFrom
    <3>2. \A x \in DirIds : chain'[x] \subseteq chain[x] /\ chain'[x] \cap chain[c] = {}
      BY <2>7, <3>1 DEF TypeOK, NoCrossLink
    <3>3. \A r \in FileRefs' : ClusOf(r) \notin chain[c]
      BY <2>5, <2>7 DEF NoCrossLink
    <3>. QED
      BY <1>0, <2>4, <3>1, <3>2, <3>3, NoCrossLinkShrink
  <2>8. CASE c = 0
    <3>1. alloc' = alloc \ {}
      BY <2>1, <2>8 DEF ChainFrom
    <3>2. \A x \in DirIds : chain'[x] \subseteq chain[x]
      BY <2>1 DEF TypeOK
    <3>3. /\ \A x \in DirIds : chain'[x] \cap {} = {}
          /\ \A r \in FileRefs' : ClusOf(r) \notin {}
      OBVIOUS
    <3>. QED
      BY <1>0, <2>4, <3>1, <3>2, <3>3, NoCrossLinkShrink
  <2>9. CASE ~(e.dir /\ c \in DirIds) /\ c # 0
    <3>1. chain' = chain /\ alloc' = alloc \ {c}
      BY <2>1, <2>9 DEF ChainFrom
    <3>2. <<d, i>> \in FileRefs /\ ClusOf(<<d, i>>) = c
      BY <2>3, <2>9 DEF FileRefs, OwnsCluster, ClusOf
    <3>3. \A x \in DirIds : chain[x] \cap {c} = {}
      BY <3>2 DEF NoCrossLink
    <3>4. \A r \in FileRefs' : ClusOf(r) \notin {c}
      BY <2>5, <2>6, <3>2 DEF NoCrossLink
    <3>. QED
      BY <1>0, <2>4, <3>1, <3>3, <3>4, NoCrossLinkShrink
  <2>. QED
    BY <2>7, <2>8, <2>9
<1>. QED
  <2>1. CASE WalkFails("remove", p)
    BY <2>1, <1>1 DEF WalkFails
  <2>2. CASE ~WalkFails("remove", p)
    BY <2>2, <1>1, <1>2 DEF Remove
  <2>. QED
    BY <2>1, <2>2

(* Every step of the directory operations keeps NoCrossLink. *)
LEMMA NoCrossLinkStep ==
    ASSUME TypeOK, NoCrossLink, [Next]_vars
    PROVE  NoCrossLink'
<1>1. CASE UNCHANGED vars
  BY <1>1 DEF vars, NoCrossLink, FileRefs, ClusOf
<1>2. CASE Next
  <2>1. PICK p \in Paths : OpenDir(p) \/ OpenFile(p) \/ CreateFile(p) \/ Remove(p)
    BY <1>2 DEF Next
  <2>2. CASE OpenDir(p) \/ OpenFile(p)
    <3>1. UNCHANGED <<dirs, chain, alloc>>
      BY <2>2 DEF OpenDir, OpenFile, WalkFails
    <3>. QED
      BY <3>1 DEF NoCrossLink, FileRefs, ClusOf
  <2>3. CASE CreateFile(p)
    BY <2>3, CreateNoCrossLink
  <2>4. CASE Remove(p)
    BY <2>4, RemoveNoCrossLink
  <2>. QED
    BY <2>1, <2>2, <2>3, <2>4
<1>. QED
  BY <1>1, <1>2

(* The inductive invariant: NoCrossLink needs the types of the slots and *)
(* of the chains to be carried through a step.                            *)
NCInv == TypeOK /\ NoCrossLink

(* From a volume image in which no cluster is cross-linked, no sequence  *)
(* of open_dir, open_file, create_file and remove calls (dir.rs           *)
(* create_file_entry with its directory growth, and remove with its       *)
(* free_chain) cross-links one: a cluster stays in at most one directory   *)
(* chain or file entry, and every one of them is allocated.               *)
THEOREM NoCrossLinkInvariant == Spec /\ NoCrossLink => []NoCrossLink
<1>1. Init /\ NoCrossLink => NCInv
  BY InitTypes DEF Init, TypeOK, Ops, Results, NCInv
<1>2. NCInv /\ [Next]_vars => NCInv'
  BY TypeNext, NoCrossLinkStep DEF NCInv
<1>3. NCInv => NoCrossLink
  BY DEF NCInv
<1>. QED
  BY <1>1, <1>2, <1>3, PTL DEF Spec
=============================================================================
