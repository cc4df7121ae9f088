------------------------------ MODULE MCFatDir ------------------------------
(***************************************************************************)
(* A small volume for model checking FatDir: a root directory of six      *)
(* slots holding a file with a long name and a subdirectory SUB at        *)
(* cluster 1 that holds only "." and "..".  Three slots per cluster.  On  *)
(* FAT12/16 the root is fixed, clusters are 1..4 and 1 (SUB) and 2 (the   *)
(* file) are allocated; on FAT32 the root is clusters 3 and 4 and one     *)
(* cluster, 5, is free.                                                    *)
(***************************************************************************)
EXTENDS FatDir

(* Short names as written on disk (8 + 3 bytes). *)
SLong == "LONG    TXT"
SSub == "SUB        "
SDot == ".          "
SDotDot == "..         "
SNew == "NEW     .TX"       \* gen_short_name("new.txt")
SBig == "A-MUCH-L.TX"       \* gen_short_name("a-much-longer-name.txt")
STooLong == "TOOLONG    "
SNul == "\\0UL        "     \* a short name whose first byte is 0x00

MCNulLead == {SNul}

MCShortNames == {SLong, SSub, SDot, SDotDot, SNew, SBig, STooLong, SNul}

MCNames ==
    {"long.txt", "sub", ".", "..", "new.txt", "a-much-longer-name.txt",
     "toolong", "new..tx", "a-much-l..tx", "nul"}

MCNameLen ==
    [n \in MCNames |->
        CASE n = "a-much-longer-name.txt" -> 22
          [] n = "toolong" -> 300
          [] OTHER -> 7]

MCGenShort ==
    [n \in MCNames |->
        CASE n = "long.txt" -> SLong
          [] n = "sub" -> SSub
          [] n = "." -> SDot
          [] n = ".." -> SDotDot
          [] n = "new.txt" -> SNew
          [] n = "a-much-longer-name.txt" -> SBig
          [] n = "nul" -> SNul
          [] OTHER -> STooLong]

(* short_file_name() of each short name, ASCII case folded. *)
MCDisplay ==
    [s \in MCShortNames |->
        CASE s = SLong -> "long.txt"
          [] s = SSub -> "sub"
          [] s = SDot -> "."
          [] s = SDotDot -> ".."
          [] s = SNew -> "new..tx"
          [] s = SBig -> "a-much-l..tx"
          [] s = SNul -> "nul"
          [] OTHER -> "toolong"]

(* lfn_checksum values; SNew and SLong collide. *)
MCChecksum ==
    [s \in MCShortNames |-> IF s \in {SLong, SNew} THEN 1 ELSE 2]

MCShort(sn, isDir, c) ==
    [kind |-> "short", sname |-> sn, dir |-> isDir, vol |-> FALSE, clus |-> c]

MCInitDirs ==
    [d \in {0, 1} |->
        IF d = 0
        THEN << [kind |-> "lfn", ord |-> 1, last |-> TRUE, chk |-> 1,
                 part |-> <<"long.txt", 1>>],
                MCShort(SLong, FALSE, 2),
                MCShort(SSub, TRUE, 1),
                FreeSlot, EndSlot, EndSlot >>
        ELSE << MCShort(SDot, TRUE, 1), MCShort(SDotDot, TRUE, 0), EndSlot >>]

(* FAT12/16: the root is a fixed region outside the clusters. *)
MCInitChain == [d \in {0, 1} |-> IF d = 0 THEN {} ELSE {1}]

(* FAT32: the root's six slots are clusters 3 and 4. *)
MCInitChain32 == [d \in {0, 1} |-> IF d = 0 THEN {3, 4} ELSE {1}]

(* Paths whose components are all of the kind the call expects. *)
SafePaths ==
    {<<"new.txt">>, <<"a-much-longer-name.txt">>, <<"long.txt">>,
     <<"sub">>, <<"sub", "new.txt">>, <<"toolong">>}

(* The paths of the refinement run: one and two fragments, growth of SUB, *)
(* removal of a long-named file and of a directory.                        *)
RefinePaths ==
    {<<"new.txt">>, <<"a-much-longer-name.txt">>, <<"long.txt">>,
     <<"sub">>, <<"sub", "new.txt">>}

(* The paths of the FAT32 run: growth of the root and of SUB competing   *)
(* for the last free cluster.                                              *)
Paths32 ==
    {<<"new.txt">>, <<"a-much-longer-name.txt">>, <<"long.txt">>,
     <<"sub", "new.txt">>}

(* Paths that name a file where a directory is expected and back. *)
KindPaths == SafePaths \cup {<<"long.txt", "new.txt">>}

(* Removing "." of a subdirectory. *)
DotPaths == SafePaths \cup {<<"sub", ".">>}

(* A name whose short name starts with a zero byte. *)
NulPaths == SafePaths \cup {<<"nul">>}

(* Root names for a caller listing the root while it changes: removing *)
(* entries before and after the iterator, and a create that fills the     *)
(* root to its last slot.                                                 *)
IterPaths == {<<"a-much-longer-name.txt">>, <<"long.txt">>, <<"sub">>}

(* Removing sub and creating new.txt in the free run it leaves. *)
StraddlePaths == {<<"new.txt">>, <<"sub">>}
=============================================================================
