---------------------------- MODULE EntryFields ----------------------------
(***************************************************************************)
(* The numeric fields of one short directory entry (DirFileEntryData) and *)
(* their conversions: the modification date and time that set_modified    *)
(* packs with Date::to_u16 / Time::to_u16 and FileEntryInfo::modified     *)
(* unpacks with DateTime::from_u16, and the first cluster that            *)
(* set_first_cluster splits into two 16-bit halves and first_cluster      *)
(* joins again.  Every field is a u16 and keeps that width: a shift left  *)
(* drops the bits above bit 15, and year - 1980 on a u16 either panics    *)
(* (debug build) or wraps (release build).                                *)
(***************************************************************************)
EXTENDS Naturals, Bitwise

CONSTANTS
    DateTimes,    \* the DateTime values set_modified is called with
    ClusterArgs,  \* the Option<u32> values set_first_cluster is called with
    None          \* Option::None

ASSUME EntryFieldsAssumption ==
    /\ DateTimes \subseteq
         [date : [year : Nat, month : Nat, day : Nat],
          time : [hour : Nat, min : Nat, sec : Nat]]
    /\ ClusterArgs \subseteq Nat \cup {None}
    /\ None \notin Nat

U16 == 2^16

(* a << k and a >> k on a u16. *)
Shl16(a, k) == (a * 2^k) % U16
Shr(a, k) == a \div 2^k

(* Date::to_u16: ((year - 1980) << 9) | (month << 5) | day, for a year at *)
(* or after 1980 (the subtraction of an earlier year is handled by the    *)
(* caller of DateBits).                                                   *)
DateBits(d, yoff) == Shl16(yoff, 9) | Shl16(d.month, 5) | d.day

(* Time::to_u16: (hour << 11) | (min << 5) | (sec / 2). *)
TimeBits(t) == Shl16(t.hour, 11) | Shl16(t.min, 5) | (t.sec \div 2)

(* Date::from_u16 and Time::from_u16. *)
DateOf(w) == [year |-> Shr(w, 9) + 1980, month |-> Shr(w, 5) & 15, day |-> w & 31]
TimeOf(w) == [hour |-> Shr(w, 11), min |-> Shr(w, 5) & 63, sec |-> (w & 31) * 2]

(* FileEntryInfo::modified: DateTime::from_u16(modify_date, modify_time). *)
Modified(e) == [date |-> DateOf(e.modify_date), time |-> TimeOf(e.modify_time)]

(* first_cluster: (hi as u32) << 16 | lo as u32, None for 0. *)
FirstCluster(e) ==
    LET n == (e.first_cluster_hi * U16) | e.first_cluster_lo
    IN  IF n = 0 THEN None ELSE n
-----------------------------------------------------------------------------
VARIABLES
    entry,     \* the entry's fields
    status,    \* "ok", or "panic" once a call has panicked
    lastTime,  \* history: the DateTime last passed to set_modified
    lastClus   \* history: the value last passed to set_first_cluster

fvars == <<entry, status, lastTime, lastClus>>

(* The entry create_file_entry writes: every field but the name zero. *)
Init ==
    /\ entry = [modify_date |-> 0, modify_time |-> 0,
                first_cluster_hi |-> 0, first_cluster_lo |-> 0]
    /\ status = "ok"
    /\ lastTime = None
    /\ lastClus = None

(***************************************************************************)
(* DirFileEntryData::set_modified(dt): both words are recomputed.  For a  *)
(* year before 1980 the u16 subtraction panics in a debug build and wraps *)
(* modulo 2^16 in a release build; either build may run.                  *)
(***************************************************************************)
(* Mutant: the minutes shifted by 6 bits. *)
SetModifiedMinShift6(dt) ==
    /\ status = "ok"
    /\ dt.date.year >= 1980
    /\ entry' = [entry EXCEPT
                   !.modify_date = DateBits(dt.date, dt.date.year - 1980),
                   !.modify_time = Shl16(dt.time.hour, 11) | Shl16(dt.time.min, 6)
                                     | (dt.time.sec \div 2)]
    /\ lastTime' = dt
    /\ UNCHANGED <<status, lastClus>>
SetModified(dt) ==
    /\ status = "ok"
    /\ \/ /\ dt.date.year >= 1980
          /\ entry' = [entry EXCEPT
                         !.modify_date = DateBits(dt.date, dt.date.year - 1980),
                         !.modify_time = TimeBits(dt.time)]
          /\ lastTime' = dt
          /\ UNCHANGED <<status, lastClus>>
       \/ /\ dt.date.year < 1980
          /\ \/ /\ status' = "panic"
                /\ UNCHANGED <<entry, lastTime, lastClus>>
             \/ /\ entry' = [entry EXCEPT
                               !.modify_date = DateBits(dt.date, (dt.date.year - 1980) % U16),
                               !.modify_time = TimeBits(dt.time)]
                /\ lastTime' = dt
                /\ UNCHANGED <<status, lastClus>>

(***************************************************************************)
(* DirFileEntryData::set_first_cluster(c): n = c or 0, hi = n >> 16 and   *)
(* lo = n & 0xFFFF, each truncated to u16.                                 *)
(***************************************************************************)
(* Mutant: the high half taken from bit 15. *)
SetFirstClusterShift15(c) ==
    LET n == IF c = None THEN 0 ELSE c
    IN  /\ status = "ok"
        /\ entry' = [entry EXCEPT !.first_cluster_hi = Shr(n, 15) % U16,
                                  !.first_cluster_lo = n & 65535]
        /\ lastClus' = c
        /\ UNCHANGED <<status, lastTime>>
SetFirstCluster(c) ==
    LET n == IF c = None THEN 0 ELSE c
    IN  /\ status = "ok"
        /\ entry' = [entry EXCEPT !.first_cluster_hi = Shr(n, 16) % U16,
                                  !.first_cluster_lo = n & 65535]
        /\ lastClus' = c
        /\ UNCHANGED <<status, lastTime>>

Next ==
    \/ \E dt \in DateTimes : SetModified(dt)
    \/ \E c \in ClusterArgs : SetFirstCluster(c)

Spec == Init /\ [][Next]_fvars
-----------------------------------------------------------------------------
(* For a DateTime in the range the spec gives the encoding (years       *)
(* 1980-2107), what modified() reads back from the words set_modified     *)
(* packed is that DateTime with its seconds rounded down to even: no      *)
(* field overflows into its neighbour.                                     *)
ModifiedRoundTrip ==
    status = "ok" /\ lastTime # None /\ lastTime.date.year \in 1980..2107 =>
        Modified(entry) =
            [date |-> lastTime.date,
             time |-> [lastTime.time EXCEPT !.sec = (@ \div 2) * 2]]

(* first_cluster() returns the cluster set_first_cluster was last given  *)
(* (None for None): the two 16-bit halves join without loss for every     *)
(* FAT32 cluster number.                                                   *)
FirstClusterRoundTrip ==
    status = "ok" => FirstCluster(entry) = lastClus
=============================================================================
