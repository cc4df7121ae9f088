----------------------------- MODULE FatDirIter -----------------------------
(***************************************************************************)
(* A caller iterating directory IterDir with DirIter while the operations *)
(* of Dir run between its calls of next().  Dir::iter clones the stream   *)
(* and returns an iterator that does not borrow the Dir, so a program may *)
(* remove or create entries of the directory it is listing.  The iterator *)
(* keeps only its stream position and its error flag between calls; each  *)
(* read_dir_entry starts a new LongNameBuilder at that position.          *)
(***************************************************************************)
EXTENDS FatDir

CONSTANT IterDir   \* the directory the caller iterates

ASSUME IterDir \in DirIds

VARIABLES
    itr,     \* the DirIter: stream position (a slot), err flag, and whether
             \* next() has returned None
    seen,    \* history: the <<slot, name>> pairs next() has yielded
    touched  \* history: the slots of IterDir an operation has written since
             \* iter() was called

ivars == <<itr, seen, touched>>
allvars == <<vars, ivars>>

(* The <<slot, name>> pairs a listing of s from the start yields. *)
Listed(s) == {<<i, FileName(s, i)>> : i \in Entries(s)}

(* The slots of stream t that differ from stream s (or are new in t). *)
Rewritten(s, t) == {j \in 1..Len(t) : j > Len(s) \/ t[j] # s[j]}

(***************************************************************************)
(* Dir::iter: a new iterator at the first slot of the directory's stream. *)
(***************************************************************************)
IterStart == [pos |-> 1, err |-> FALSE, done |-> FALSE]

(* The slots at which a read_dir_entry call started at slot p stops: an  *)
(* end slot, or a short slot that is neither free nor a volume label.     *)
Stops(s, p) ==
    {i \in p..Len(s) : IterEnd(s[i]) \/ (s[i].kind = "short" /\ ~s[i].vol)}

(***************************************************************************)
(* DirIter::next: None once an error was returned; otherwise one call of  *)
(* read_dir_entry from the stream position, which ends in an I/O error if *)
(* the stream ends first, in None at an end slot, and otherwise yields     *)
(* the entry whose short slot it stops at, named by the builder it        *)
(* started at the position.  The stream is left after the slot read last. *)
(***************************************************************************)
(* Mutant: next() does not set the error flag after an error. *)
IterNextNoErrFlag ==
    LET s == dirs[IterDir]
        p == itr.pos
    IN  /\ ~itr.done
        /\ IF Stops(s, p) = {}
           THEN UNCHANGED <<itr, seen>>
           ELSE LET i == Least(Stops(s, p)) IN
                IF IterEnd(s[i])
                THEN /\ itr' = [itr EXCEPT !.done = TRUE, !.pos = i + 1]
                     /\ UNCHANGED seen
                ELSE LET e == <<i, EntryName(ScanFrom(s, p)[i - 1], s[i])>> IN
                     /\ itr' = [itr EXCEPT !.pos = i + 1]
                     /\ seen' = seen \cup {e}
        /\ UNCHANGED <<vars, touched>>
IterNext ==
    LET s == dirs[IterDir]
        p == itr.pos
    IN  /\ ~itr.done
        /\ IF itr.err
           THEN /\ itr' = [itr EXCEPT !.done = TRUE]
                /\ UNCHANGED seen
           ELSE IF Stops(s, p) = {}
           THEN /\ itr' = [itr EXCEPT !.err = TRUE]
                /\ UNCHANGED seen
           ELSE LET i == Least(Stops(s, p)) IN
                IF IterEnd(s[i])
                THEN /\ itr' = [itr EXCEPT !.done = TRUE, !.pos = i + 1]
                     /\ UNCHANGED seen
                ELSE LET e == <<i, EntryName(ScanFrom(s, p)[i - 1], s[i])>> IN
                     /\ itr' = [itr EXCEPT !.pos = i + 1]
                     /\ seen' = seen \cup {e}
        /\ UNCHANGED <<vars, touched>>

(* A call of a Dir operation between two calls of next(); the session   *)
(* modelled is the caller's listing loop, which ends when next() returns  *)
(* None.                                                                   *)
DirStep ==
    /\ ~itr.done
    /\ Next
    /\ touched' = touched \cup Rewritten(dirs[IterDir], dirs'[IterDir])
    /\ UNCHANGED <<itr, seen>>

IInit ==
    /\ Init
    /\ itr = IterStart
    /\ seen = {}
    /\ touched = {}

INext == DirStep \/ IterNext

(* The caller keeps calling next() until it returns None, as a for loop   *)
(* does; the Dir operations it makes in between need not happen.          *)
ISpec == IInit /\ [][INext]_allvars /\ WF_allvars(IterNext)
-----------------------------------------------------------------------------
(* An iteration that ends with None has yielded, under its name, every    *)
(* entry that was in the directory when iter() was called and that no    *)
(* remove or create changed while it ran: removes mark slots free in      *)
(* place and creates only fill free runs or the end, so no surviving      *)
(* entry is skipped by the stream position the iterator keeps.            *)
StableEntriesListed ==
    LET s0 == InitDirs[IterDir]
    IN  itr.done /\ ~itr.err =>
          \A e \in Listed(s0) : RangeOf(s0, e[1]) \cap touched = {} => e \in seen

(* Every entry next() yields is a logical entry of the directory as it is *)
(* at that call: the short slot with the name a listing from the start    *)
(* gives it (spec 3.4 and 4.2), even when a create between two calls     *)
(* wrote a group whose fragments lie before the iterator's position.      *)
YieldIsLogicalEntry ==
    [][IterNext => seen' \ seen \subseteq Listed(dirs[IterDir])]_allvars

(* The state TLC tells states apart by: no action reads last. *)
IView == <<dirs, chain, alloc, itr, seen, touched>>

(* A caller that keeps calling next() sees it return None: every call    *)
(* reads forward from its position in a bounded stream, and after an      *)
(* error the err flag makes the next call return None.                     *)
IterationEnds == <>itr.done
=============================================================================
