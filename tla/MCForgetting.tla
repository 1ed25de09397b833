----------------------------- MODULE MCForgetting -----------------------------
(* Forgetting on a small instance: a trusted prior and two crystals less   *)
(* trusted, all similar. With the drift check on, one of the two is        *)
(* semantic like the prior and may drift from it, or from what it is       *)
(* revised to; otherwise the two are of a layer that a prune visits before *)
(* that of the prior. A caller may patch either column of a crystal.       *)
EXTENDS Forgetting, TLC

CONSTANTS prior, c1, c2

MCTierOf == [i \in Ids |-> IF i = prior THEN 0 ELSE 1]
MCSimilar == {<<i, j>> \in Ids \X Ids : i # j}

Within(S) == [i \in Ids |-> IF i \in S THEN "semantic" ELSE "episodic"]

MCConfigs ==
  {[fsrs |-> FALSE, evb |-> FALSE, drift |-> TRUE, protected |-> {}, layer |-> Within({prior, c})] :
     c \in {c1, c2}}
  \cup
  {[fsrs |-> TRUE, evb |-> TRUE, drift |-> FALSE, protected |-> {}, layer |-> Within({prior})],
   [fsrs |-> TRUE, evb |-> FALSE, drift |-> FALSE, protected |-> {}, layer |-> Within({prior})],
   [fsrs |-> FALSE, evb |-> FALSE, drift |-> FALSE, protected |-> {prior}, layer |-> Within({prior})]}

MCPruneLayers == <<"episodic", "semantic">>
MCPruneThreshold == [layer \in {"episodic", "semantic"} |-> 20]
MCDynamicsPatches == {[stability |-> 5, evb |-> 1, flagged |-> TRUE]}
MCUtilityPatches == {[age |-> 1, hits |-> 0, outcome |-> 50]}
MCOutcomes == {50}

Symmetric == Permutations(Dreamers) \cup Permutations({c1, c2})
===============================================================================
