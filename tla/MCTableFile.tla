----------------------------- MODULE MCTableFile -----------------------------
(* Small instances of TableFile: a table of one rowgroup and one of two. *)
EXTENDS TableFile, TLC

CONSTANTS r1, r2

MCTables == {<<r1>>, <<r2, r1>>}

\* Each path has a directory of its own ...
OwnDirs == [f \in Files |-> f]

\* ... or all paths are in one.
OneDir == [f \in Files |-> CHOOSE d \in Dirs : TRUE]
=============================================================================
