--------------------------- MODULE MCStage2Boot ---------------------------
(* The instance of Stage2Boot: one island above the tables, and a file     *)
(* whose sections may be out of order, touch, overlap, and reach into the  *)
(* loader, the tables, the island or beyond memory.                        *)
EXTENDS Stage2Boot

MCIslands == {<<7, 9>>}
\* four words, whose three bytes differ: n * $010203
MCFileWords == [n \in 1 .. 4 |-> n * 66051]
=============================================================================
