------------------------------- MODULE Composer -------------------------------
(***************************************************************************)
(* The working set of a recall (composer.py): candidates are routed to the *)
(* slots, each slot is trimmed to its own cap, and what is left to the cap *)
(* of the whole. A candidate is a record                                   *)
(*   [id, slot, tokens, score, importance, lastAccess]                     *)
(* and "primary" is recall_relevance_primary.                              *)
(***************************************************************************)
EXTENDS RankFusion, SequencesExt

CONSTANTS SlotOrder,  \* the slots, in the order of the configuration
          SlotCap,    \* tokens each slot may hold
          TotalCap    \* tokens the working set may hold

Slots == ItemsOf(SlotOrder)

ASSUME ComposerAssumption ==
  /\ SlotOrder \in Seq(Slots) /\ {"executive", "buffer"} \subseteq Slots
  /\ SlotCap \in [Slots -> Nat]
  /\ TotalCap \in Nat

Route(executive, layer) ==
  IF executive THEN "executive" ELSE IF layer \in Slots THEN layer ELSE "buffer"

TokensOf(S) == MapThenSumSet(LAMBDA c : c.tokens, S)

InSlot(S, slot) == {c \in S : c.slot = slot}

(* _eviction_key: the lowest key is evicted first. *)
EvictionKey(primary, c) ==
  IF primary THEN <<c.score, c.importance, c.lastAccess, c.id>>
             ELSE <<c.importance, c.lastAccess, c.id>>

EvictedFirst(primary, c, d) ==
  KeyBelow(EvictionKey(primary, c), EvictionKey(primary, d))

(* Evicting the lowest of S until the rest fits: a candidate stays if it   *)
(* fits together with every candidate that is evicted after it.            *)
Trim(primary, S, cap) ==
  IF TokensOf(S) <= cap THEN S
  ELSE {c \in S : TokensOf({d \in S : ~EvictedFirst(primary, d, c)}) <= cap}

SlotsTrimmed(primary, S) ==
  UNION {Trim(primary, InSlot(S, slot), SlotCap[slot]) : slot \in Slots}

(* compose() as it was when it asserted the total cap and did not enforce  *)
(* it.                                                                     *)
ComposeSlotsOnly(primary, S) == SlotsTrimmed(primary, S)

Compose(primary, S) == Trim(primary, SlotsTrimmed(primary, S), TotalCap)

(* The order in which compose() returns what it kept of the sequence of    *)
(* candidates: by relevance, or in the order its passes left them in.      *)
PassOrder(primary, candidates) ==
  LET all == ItemsOf(candidates)
      sorted(S) == InOrder(S, LAMBDA c : EvictionKey(primary, c))
      slotRun(slot) ==
        IF TokensOf(InSlot(all, slot)) <= SlotCap[slot]
        THEN Where(candidates, InSlot(all, slot))
        ELSE sorted(Trim(primary, InSlot(all, slot), SlotCap[slot]))
  IN  IF TokensOf(SlotsTrimmed(primary, all)) > TotalCap
      THEN sorted(Compose(primary, all))
      ELSE FlattenSeq([n \in DOMAIN SlotOrder |-> slotRun(SlotOrder[n])])

WorkingSet(primary, candidates) ==
  IF primary
  THEN InOrder(Compose(primary, ItemsOf(candidates)), LAMBDA c : <<-c.score, c.id>>)
  ELSE PassOrder(primary, candidates)
===============================================================================
