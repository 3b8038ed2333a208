---------------------------- MODULE MCWriteCache ----------------------------
(***************************************************************************)
(* WriteCache for TLC: two threads, one inode, its chunks c1 and c2.       *)
(***************************************************************************)
EXTENDS WriteCache

CONSTANT i1

MCParent == [c \in Chunk |-> i1]
=============================================================================
