---------------------------- MODULE SnapshotStore ----------------------------
(***************************************************************************)
(* What an embedding snapshot promises its readers, db/models.py and the   *)
(* repository protocol: a table from chunks to vectors that only grows,    *)
(* that is sealed once every chunk has its vector, and that nobody changes *)
(* after that.                                                             *)
(***************************************************************************)
CONSTANTS Chunks, Vectors, None

VARIABLES table, sealed

Tables == [Chunks -> Vectors \cup {None}]
Whole(t) == \A c \in Chunks : t[c] # None

Init == table = [c \in Chunks |-> None] /\ sealed = FALSE

Grow ==
    /\ ~sealed
    /\ table' \in Tables
    /\ \A c \in Chunks : table[c] # None => table'[c] = table[c]
    /\ UNCHANGED sealed

Seal == ~sealed /\ Whole(table) /\ sealed' = TRUE /\ UNCHANGED table

Spec == Init /\ [][Grow \/ Seal]_<<table, sealed>>
==============================================================================
