----------------------------- MODULE MCPromotions -----------------------------
(* Promotions on small instances. Authors are interchangeable, and so are  *)
(* servers.                                                                *)
EXTENDS Promotions, TLC

Symmetric == Permutations(Authors) \cup Permutations(Servers)
===============================================================================
