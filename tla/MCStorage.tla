----------------------------- MODULE MCStorage ------------------------------
(***************************************************************************)
(* Small instances of the storage engine for TLC.                          *)
(***************************************************************************)
EXTENDS Storage

Put(k) == [key |-> k, del |-> FALSE]
Del(k) == [key |-> k, del |-> TRUE]

\* Deletions meet older versions of their key in the tables below.
PutsAndDeletes == {<<Put(1), Put(2)>>, <<Del(1)>>}
=============================================================================
