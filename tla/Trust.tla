-------------------------------- MODULE Trust ---------------------------------
(***************************************************************************)
(* Trust tiers and what they may write (trust.py and the write rows of the *)
(* matrix of enforcement.py). A tier is its number: 0 is the operator, the *)
(* most trusted, 3 is ingested text, the least.                            *)
(***************************************************************************)
EXTENDS Naturals

Tiers == 0..3

(* LAYER_CEILING *)
Ceiling == [episodic |-> 3, semantic |-> 1, procedural |-> 2, execution |-> 1]

WithinCeiling(tier, layer) == tier <= Ceiling[layer]

(* A min_tier() that reads the scale upside down. *)
MostTrusted(tiers) == CHOOSE t \in tiers : \A u \in tiers : t <= u

(* min_tier(): the least trusted of a set of tiers that is not empty. *)
MinTier(tiers) == CHOOSE t \in tiers : \A u \in tiers : u <= t

(* The tiers that _MATRIX lets commit to a layer, and update there. *)
Writers == [episodic |-> 0..3, semantic |-> 0..1, procedural |-> 0..2,
            execution |-> 0..1]

(* "allow_quarantine": the commit goes in marked. *)
Quarantines(tier, layer) == layer = "episodic" /\ tier = 3
===============================================================================
