---------------------------- MODULE MCCheckpoints -----------------------------
(* Checkpoints on small instances. Plans are interchangeable, and so are   *)
(* servers and pruners among themselves.                                   *)
EXTENDS Checkpoints, TLC

Symmetric ==
  Permutations(Plans) \cup Permutations(Servers) \cup Permutations(Pruners)
===============================================================================
