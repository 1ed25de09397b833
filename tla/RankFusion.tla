------------------------------ MODULE RankFusion ------------------------------
(***************************************************************************)
(* How a recall merges the rankings of its arms (aetheryte/retrieve.py):   *)
(* reciprocal rank fusion, plain and weighted, the merge of the two arms   *)
(* derived from the graph, and the weight of the full-text arm. A ranking  *)
(* is a sequence of ids, best first. Scores and weights are fixed-point    *)
(* numbers: a weight counts sixtieths, a score millionths.                 *)
(***************************************************************************)
EXTENDS Integers, Sequences, FiniteSets, FiniteSetsExt

CONSTANT KRrf   \* the smoothing constant k_rrf

ASSUME KRrfAssumption == KRrf \in Nat

One == 60

ItemsOf(s) == {s[n] : n \in DOMAIN s}

(* Python's order of tuples, and sorted() by a key that no two share. *)
KeyBelow(s, t) ==
  \E n \in DOMAIN s : s[n] < t[n] /\ \A m \in 1..(n - 1) : s[m] = t[m]

Ranked(keyed) ==
  [n \in 1..Cardinality(keyed) |->
     (CHOOSE p \in keyed :
        Cardinality({q \in keyed : KeyBelow(q[1], p[1])}) = n - 1)[2]]

InOrder(S, Key(_)) == Ranked({<<Key(x), x>> : x \in S})

(* The items of s that are in T, in their order.                           *)
Where(s, T) ==
  LET picked[n \in 0..Len(s)] ==
        IF n = 0 THEN <<>>
        ELSE IF s[n] \in T THEN Append(picked[n - 1], s[n]) ELSE picked[n - 1]
  IN  picked[Len(s)]

FirstOf(n, s) == SubSeq(s, 1, IF n < Len(s) THEN n ELSE Len(s))

(* An arm is a ranking and its weight. *)
Arm(ranking, weight) == [ids |-> ranking, weight |-> weight]

Voters(arms) == UNION {ItemsOf(arms[a].ids) : a \in DOMAIN arms}

Share(weight, rank) == (weight * 1000000) \div (One * (KRrf + rank))

(* A crystal scores the sum of its shares, one for each place it has.      *)
Shares(arms) ==
  UNION {{<<a, n, arms[a].ids[n], Share(arms[a].weight, n)>> :
            n \in DOMAIN arms[a].ids} : a \in DOMAIN arms}

Scores(arms) ==
  LET shares == Shares(arms)
  IN  [id \in Voters(arms) |->
         MapThenSumSet(LAMBDA s : s[4], {s \in shares : s[3] = id})]

(* weighted_rrf_merge_scored: ties are broken by id. *)
WeightedMerge(score) == InOrder(DOMAIN score, LAMBDA id : <<-score[id], id>>)

(* rrf_merge_scored: every arm weighs one, and the sort is stable over the *)
(* order in which the ids were first met, arm by arm.                      *)
FirstArm(arms, id) == Min({a \in DOMAIN arms : id \in ItemsOf(arms[a].ids)})

FirstPlace(ranking, id) == Min({n \in DOMAIN ranking : ranking[n] = id})

PlainMerge(score, arms) ==
  InOrder(DOMAIN score, LAMBDA id :
    <<-score[id], FirstArm(arms, id), FirstPlace(arms[FirstArm(arms, id)].ids, id)>>)

(* derived_family_merge: each id once, at its best rank in either arm. *)
BestRank(arms, id) ==
  Min({FirstPlace(s, id) : s \in {t \in arms : id \in ItemsOf(t)}})

DerivedFamily(graph, completion) ==
  InOrder(ItemsOf(graph) \cup ItemsOf(completion),
          LAMBDA id : <<BestRank({graph, completion}, id), id>>)

(* resolve_sparse_weight: full-text hits weigh up to (1 + alpha) as much   *)
(* when they are few among the crystals of the scope; a fetch that met its *)
(* limit tells nothing.                                                    *)
Censored(raw, cap) == raw >= cap

Selectivity(raw, resolved, cap, scoped) ==
  LET population == IF scoped = 0 THEN 1 ELSE scoped
  IN  IF raw = 0 \/ Censored(raw, cap) \/ resolved > population THEN 0
      ELSE One - (resolved * One) \div population

SparseWeight(raw, resolved, cap, scoped, alpha) ==
  One + alpha * Selectivity(raw, resolved, cap, scoped)
===============================================================================
