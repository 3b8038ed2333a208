---------------------------- MODULE MCFileLocks -----------------------------
(* Instance of FileLocks for TLC. *)
EXTENDS FileLocks

MCSession == [o \in Owner |-> IF o = 1 THEN 1 ELSE 2]

\* The whole file, a part of it and a part of the part.
MCRanges == {<<0, 3>>, <<0, 2>>, <<1, 2>>}

\* Two parts of a file and the whole of it: two requests may wait for one part.
MCQueueRanges == {<<0, 3>>, <<1, 2>>, <<2, 3>>}
=============================================================================
