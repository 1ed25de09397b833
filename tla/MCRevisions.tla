----------------------------- MODULE MCRevisions ------------------------------
(* Revisions on small instances. Contents are interchangeable. *)
EXTENDS Revisions, TLC

Symmetric == Permutations(Contents)
SymmetricShared == Permutations(Contents) \cup Permutations(Servers)
===============================================================================
