---------------------------- MODULE FatDirFaults ----------------------------
(***************************************************************************)
(* Dir::remove when the device fails part-way.  remove frees the entry's *)
(* cluster chain first and then rewrites the slots of the entry's range   *)
(* one by one (read, set the free marker, write); each of those reads and *)
(* writes can return an I/O error, which `?` passes to the caller with    *)
(* the slots before the failing one already freed and the rest as they    *)
(* were.  The other operations are those of FatDir.                        *)
(***************************************************************************)
EXTENDS FatDir

(* The slots of the range of entry i before slot k rewritten free. *)
(* Mutant: the slots are rewritten zeroed (end slots), not free. *)
MarkFreeBeforeAsEnd(s, i, k) ==
    [j \in 1..Len(s) |-> IF j \in RangeOf(s, i) /\ j < k THEN EndSlot ELSE s[j]]
MarkFreeBefore(s, i, k) ==
    [j \in 1..Len(s) |-> IF j \in RangeOf(s, i) /\ j < k THEN FreeSlot ELSE s[j]]

(* remove(p) passes its checks, frees the chain, and the slot loop fails *)
(* at slot k of the entry's range.                                         *)
RemoveFails(p) ==
    \E d \in DirIds :
      /\ WalksTo(p, d)
      /\ LET s == dirs[d]
             i == FindEntry(s, Final(p))
             e == s[i]
         IN  /\ Found(s, Final(p))
             /\ IF e.dir THEN IsEmpty(dirs[DirOf(e)]) = "true" ELSE TRUE
             /\ alloc' = alloc \ ChainFrom(e)
             /\ chain' = IF e.dir /\ e.clus \in DirIds
                          THEN [chain EXCEPT ![e.clus] = {}] ELSE chain
             /\ \E k \in RangeOf(s, i) :
                  dirs' = [dirs EXCEPT ![d] = MarkFreeBefore(s, i, k)]
             /\ Done("remove", p, "err")

FNext == Next \/ \E p \in Paths : RemoveFails(p)

FSpec == Init /\ [][FNext]_vars
=============================================================================
