------------------------------ MODULE DirNames ------------------------------
(***************************************************************************)
(* What the directory operations promise at the level of names: a         *)
(* directory is the set of names its iteration yields.  create_file adds  *)
(* its name to one directory or fails, remove takes its name out of one   *)
(* directory or fails, open_dir and open_file change nothing.  Every      *)
(* other directory keeps its names.                                        *)
(***************************************************************************)
CONSTANTS DirIds, NameVals

VARIABLES
    names,  \* names[d]: the names directory d lists
    op      \* the last call: its kind and the name it was given

Init == names \in [DirIds -> SUBSET NameVals]

Create(n) ==
    /\ op' = [kind |-> "create_file", name |-> n]
    /\ \/ names' = names
       \/ \E d \in DirIds :
            /\ n \notin names[d]
            /\ names' = [names EXCEPT ![d] = @ \cup {n}]

Delete(n) ==
    /\ op' = [kind |-> "remove", name |-> n]
    /\ \/ names' = names
       \/ \E d \in DirIds :
            /\ n \in names[d]
            /\ names' = [names EXCEPT ![d] = @ \ {n}]

Open(n) ==
    /\ op' \in {[kind |-> k, name |-> n] : k \in {"open_dir", "open_file"}}
    /\ names' = names

Next == \E n \in NameVals : Create(n) \/ Delete(n) \/ Open(n)

vars == <<names, op>>

Spec == Init /\ [][Next]_vars
=============================================================================
