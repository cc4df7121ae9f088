--------------------------- MODULE MCEntryFields ---------------------------
(* Inputs for the short-entry fields: every field at both ends of its     *)
(* range and one value inside it, and cluster numbers on both sides of    *)
(* the 16-bit split up to the largest FAT32 cluster.                      *)
EXTENDS EntryFields

DT(y, mo, d, h, mi, s) ==
    [date |-> [year |-> y, month |-> mo, day |-> d],
     time |-> [hour |-> h, min |-> mi, sec |-> s]]

(* Dates and times in the range the spec gives the encoding. *)
ValidDateTimes ==
    {DT(y, mo, d, h, mi, s) : y \in {1980, 2024, 2107}, mo \in {1, 12},
                              d \in {1, 31}, h \in {0, 23}, mi \in {0, 59},
                              s \in {0, 1, 59}}

(* A clock that was never set (1970, the Unix epoch, and 1979) and the   *)
(* first year the encoding cannot hold.                                   *)
OutOfRangeDateTimes ==
    {DT(y, 6, 15, 12, 30, 10) : y \in {1970, 1979, 2024, 2108}}

(* Every input: a caller may pass any of them. *)
AllDateTimes == ValidDateTimes \cup OutOfRangeDateTimes

MCClusterArgs == {None, 2, 65535, 65536, 268435447}
=============================================================================
