--------------------------- MODULE MCDreamScheduler ---------------------------
(* DreamScheduler with run ids and commands as interchangeable model values. *)
EXTENDS DreamScheduler, TLC

Symmetric == Permutations(RunIds) \cup Permutations(Clis)
===============================================================================
