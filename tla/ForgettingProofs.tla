--------------------------- MODULE ForgettingProofs ---------------------------
(***************************************************************************)
(* Theorems about Forgetting. No assumption but those of that module.      *)
(*                                                                         *)
(* The inductive invariant says of everything a recall or a run carries    *)
(* from one transaction to the next what it still is worth when it is      *)
(* written: the stability a recall is about to write leaves its crystal as *)
(* faded, or as fresh, as it is now; the crystals that a run is about to   *)
(* re-surface have not faded since they were listed; those that a prune    *)
(* has still to judge are few if they are of low value.                    *)
(***************************************************************************)
EXTENDS Forgetting, FiniteSetTheorems, SequenceTheorems, WellFoundedInduction, TLAPS

-----------------------------------------------------------------------------
(* Arithmetic *)

(* The lesser and the greater of two numbers. *)
LEMMA MinOfTwo ==
  ASSUME NEW a \in Nat, NEW b \in Nat
  PROVE  Min({a, b}) = IF a <= b THEN a ELSE b
<1> DEFINE m == IF a <= b THEN a ELSE b
<1>1. m \in {a, b} /\ \A y \in {a, b} : m =< y
  OBVIOUS
<1>2. \A x \in {a, b} : (\A y \in {a, b} : x =< y) => x = m
  OBVIOUS
<1> QED BY <1>1, <1>2 DEF Min

LEMMA MaxOfTwo ==
  ASSUME NEW a \in Nat, NEW b \in Nat
  PROVE  Max({a, b}) = IF a >= b THEN a ELSE b
<1> DEFINE m == IF a >= b THEN a ELSE b
<1>1. m \in {a, b} /\ \A y \in {a, b} : m >= y
  OBVIOUS
<1>2. \A x \in {a, b} : (\A y \in {a, b} : x >= y) => x = m
  OBVIOUS
<1> QED BY <1>1, <1>2 DEF Max

LEMMA ProductType ==
  ASSUME NEW a \in Nat, NEW b \in Nat
  PROVE  a * b \in Nat
OBVIOUS

LEMMA ProductMonotone ==
  ASSUME NEW a \in Nat, NEW b \in Nat, NEW c \in Nat, b <= c
  PROVE  a * b <= a * c
OBVIOUS

LEMMA ElapsedType ==
  ASSUME NEW age \in Nat
  PROVE  Elapsed(age) \in Nat
BY ForgettingAssumption, ProductType DEF Elapsed

(* The younger and the stabler a crystal, the less it has faded; a crystal *)
(* that was just touched has not faded at all.                             *)
LEMMA BelowMonotone ==
  ASSUME NEW ratio \in Nat, NEW weak \in Nat, NEW strong \in Nat, NEW age \in Nat,
         weak <= strong, Below(ratio, strong, age)
  PROVE  Below(ratio, weak, age)
<1>1. ratio * weak <= ratio * strong
  BY ProductMonotone
<1>2. ratio * weak \in Nat /\ ratio * strong \in Nat /\ 1000 * Elapsed(age) \in Nat
  BY ElapsedType, ProductType
<1> QED BY <1>1, <1>2 DEF Below

LEMMA TouchedNotBelow ==
  ASSUME NEW ratio \in Nat, NEW stability \in Nat
  PROVE  ~Below(ratio, stability, 0)
<1>1. Elapsed(0) = 0
  BY ForgettingAssumption DEF Elapsed
<1>2. ratio * stability \in Nat
  BY ProductType
<1> QED BY <1>1, <1>2 DEF Below

(* A boost lowers no stability, and stays within the limit. *)
LEMMA BoostRaises ==
  ASSUME NEW stability \in 1..MaxStability
  PROVE  BoostStability(stability) \in stability..MaxStability
<1> DEFINE factor == Max({1, BoostFactor})
<1>1. factor \in Nat /\ factor >= 1
  BY ForgettingAssumption, MaxOfTwo
<1> HIDE DEF factor
<1>2. stability * factor \in Nat /\ stability * factor >= stability
  <2>1. stability * 1 <= stability * factor
    BY <1>1, ProductMonotone
  <2> QED BY <1>1, <2>1, ProductType
<1>3. MaxStability \in Nat /\ stability \in Nat /\ stability <= MaxStability
  BY ForgettingAssumption
<1>4. BoostStability(stability) = IF stability * factor <= MaxStability
                                  THEN stability * factor ELSE MaxStability
  BY <1>2, <1>3, MinOfTwo DEF BoostStability, factor
<1> QED BY <1>2, <1>3, <1>4

(* A boost of whatever is there is a stability. *)
LEMMA BoostPositive ==
  ASSUME NEW stability \in Nat \ {0}
  PROVE  BoostStability(stability) \in Nat \ {0}
<1> DEFINE factor == Max({1, BoostFactor})
<1>1. factor \in Nat /\ factor >= 1
  BY ForgettingAssumption, MaxOfTwo
<1> HIDE DEF factor
<1>2. stability * factor \in Nat /\ stability * factor >= stability
  <2>1. stability * 1 <= stability * factor
    BY <1>1, ProductMonotone
  <2> QED BY <1>1, <2>1, ProductType
<1>3. MaxStability \in Nat /\ MaxStability >= 1
  BY ForgettingAssumption
<1>4. BoostStability(stability) = IF stability * factor <= MaxStability
                                  THEN stability * factor ELSE MaxStability
  BY <1>2, <1>3, MinOfTwo DEF BoostStability, factor
<1> QED BY <1>2, <1>3, <1>4

LEMMA OnRecallPositive ==
  ASSUME NEW stability \in Nat, NEW age
  PROVE  OnRecall(stability, age) \in Nat \ {0}
<1>1. stability # Unset => stability \in Nat \ {0}
  BY DEF Unset
<1> QED BY <1>1, BoostPositive, ForgettingAssumption DEF OnRecall, LapseReset

(* Every value is positive. *)
LEMMA ValueType ==
  ASSUME NEW u, u.age \in Nat, u.hits \in Nat, u.outcome \in Nat
  PROVE  EvbScore(u) \in Nat \ {0}
<1>1. Gain(u.hits, u.outcome) \in Nat /\ Gain(u.hits, u.outcome) >= 1
  <2>1. u.outcome \div 10 \in Nat
    OBVIOUS
  <2> QED BY <2>1 DEF Gain
<1>2. Need(u.age, u.hits) \in Nat /\ Need(u.age, u.hits) >= 1
  BY DEF Need
<1>3. \A a, b \in Nat : a >= 1 /\ b >= 1 => a * b \in Nat /\ a * b >= 1
  OBVIOUS
<1> QED BY <1>1, <1>2, <1>3 DEF EvbScore

-----------------------------------------------------------------------------
(* Counting *)

(* A set of numbers has a least one. *)
LEMMA NatLeast ==
  ASSUME NEW T \in SUBSET Nat, T # {}
  PROVE  \E x \in T : \A y \in T : x <= y
<1>1. OpToRel(<, Nat) = {p \in Nat \X Nat : p[1] < p[2]}
  BY DEF OpToRel
<1>2. PICK x \in T : \A y \in T : <<y, x>> \notin OpToRel(<, Nat)
  BY NatLessThanWellFounded, WFMin
<1>3. ASSUME NEW y \in T, y < x PROVE FALSE
  <2>1. <<y, x>> \in {p \in Nat \X Nat : p[1] < p[2]}
    BY <1>3
  <2> QED BY <1>1, <1>2, <2>1
<1> QED BY <1>3

(* Finitely many numbers have a bound. *)
LEMMA FiniteBound ==
  ASSUME NEW S, IsFiniteSet(S), NEW f \in [S -> Nat]
  PROVE  \E m \in Nat : \A i \in S : f[i] <= m
<1> DEFINE Bounded(U) == \E m \in Nat : \A i \in U : f[i] <= m
           T == {n \in Nat : \E U \in SUBSET S : Cardinality(U) = n /\ ~Bounded(U)}
<1> SUFFICES ASSUME ~Bounded(S) PROVE FALSE
  OBVIOUS
<1>1. Cardinality(S) \in T
  BY FS_CardinalityType
<1>2. PICK n \in T : \A k \in T : n <= k
  BY <1>1, NatLeast
<1>3. PICK U \in SUBSET S : Cardinality(U) = n /\ ~Bounded(U)
  BY <1>2
<1>4. U # {}
  BY <1>3
<1>5. PICK x \in U : TRUE
  BY <1>4
<1>6. IsFiniteSet(U) /\ U \ {x} \in SUBSET S /\ Cardinality(U \ {x}) = n - 1 /\ n - 1 \in Nat
  <2>1. IsFiniteSet(U)
    BY FS_Subset
  <2>2. IsFiniteSet(U \ {x}) /\ Cardinality(U \ {x}) = Cardinality(U) - 1
    BY <1>5, <2>1, FS_RemoveElement
  <2>3. Cardinality(U \ {x}) \in Nat
    BY <2>2, FS_CardinalityType
  <2> QED BY <1>3, <2>1, <2>2, <2>3
<1>7. Bounded(U \ {x})
  <2>1. n - 1 \notin T
    BY <1>2, <1>6
  <2> QED BY <1>6, <2>1
<1>8. PICK m \in Nat : \A i \in U \ {x} : f[i] <= m
  BY <1>7
<1>9. \A i \in U : f[i] <= m + f[x]
  BY <1>5, <1>8
<1> QED BY <1>3, <1>5, <1>9

(* The value at a position of a finite set in the order of its values. *)
LEMMA OrderStatistic ==
  ASSUME NEW S, IsFiniteSet(S), NEW f \in [S -> Nat], NEW n \in Nat, n < Cardinality(S)
  PROVE  \E v \in {f[i] : i \in S} :
           /\ Cardinality({i \in S : f[i] < v}) <= n
           /\ n < Cardinality({i \in S : f[i] <= v})
<1> DEFINE Under(v) == {i \in S : f[i] < v}
           UpTo(v) == {i \in S : f[i] <= v}
           T == {v \in Nat : n < Cardinality(UpTo(v))}
<1>1. \A v \in Nat : /\ IsFiniteSet(Under(v)) /\ Cardinality(Under(v)) \in Nat
                     /\ IsFiniteSet(UpTo(v)) /\ Cardinality(UpTo(v)) \in Nat
  BY FS_Subset, FS_CardinalityType
<1>2. T # {}
  <2>3. PICK m \in Nat : \A i \in S : f[i] <= m
    BY FiniteBound
  <2>4. UpTo(m) = S
    BY <2>3
  <2> QED BY <2>3, <2>4
<1>3. PICK v \in T : \A u \in T : v <= u
  BY <1>2, NatLeast
<1>4. \A u \in Nat : u < v => Cardinality(UpTo(u)) <= n
  <2> SUFFICES ASSUME NEW u \in Nat, u < v, ~(Cardinality(UpTo(u)) <= n) PROVE FALSE
    OBVIOUS
  <2>0. Cardinality(UpTo(u)) \in Nat
    BY <1>1
  <2> HIDE DEF UpTo
  <2>1. u \in T
    BY <2>0
  <2> QED BY <1>3, <2>1
<1>5. Cardinality(Under(v)) <= n
  <2>1. CASE v = 0
    <3>1. Under(v) = {}
      BY <2>1
    <3> QED BY <3>1, FS_EmptySet
  <2>2. CASE v > 0
    <3>1. v - 1 \in Nat /\ v - 1 < v
      BY <2>2
    <3>2. Under(v) = UpTo(v - 1)
      BY <2>2
    <3> QED BY <1>4, <3>1, <3>2
  <2> QED BY <2>1, <2>2
<1>6. v \in {f[i] : i \in S}
  <2> SUFFICES ASSUME \A i \in S : f[i] # v PROVE FALSE
    OBVIOUS
  <2>1. UpTo(v) = Under(v)
    OBVIOUS
  <2> QED BY <1>1, <1>3, <1>5, <2>1
<1> QED BY <1>3, <1>5, <1>6

-----------------------------------------------------------------------------
(* The invariant *)

(* What fades a row, as Faded(i) says of the row of i. *)
Below0(r) == Below(FloorRatio, Effective(r.dynamics.stability), r.age)
There(r)  == r.status \in {"active", "deprecated"}

(* Unless a caller wrote it, no stability is less than that of a lapse or  *)
(* more than the limit.                                                    *)
RowSound(r) ==
  r.dynamics.stability = Unset \/ r.dynamics.stability \in LapseStability..MaxStability

RowsSound ==
  \A i \in Ids : /\ rows[i].status = "new" => rows[i].age = 0
                 /\ i \notin handmade => RowSound(rows[i])

(* An access event beside the table t, with the crystals h written by      *)
(* callers. The age it has read is that of its crystal, unless that was    *)
(* touched meanwhile; the stability it will write leaves the crystal on    *)
(* the side of the floor it is on; the value it writes is that of a        *)
(* crystal that was just touched.                                          *)
EventSound(e, t, h) ==
  /\ t[e.id].status # "new"
  /\ e.pc = "dynamics" => (There(t[e.id]) => t[e.id].age \in {0, e.age})
  /\ e.pc = "boost" => e.new # 0
  /\ e.pc = "boost" /\ e.id \notin h =>
       /\ e.new \in LapseStability..MaxStability
       /\ There(t[e.id]) =>
            (Below(FloorRatio, e.new, t[e.id].age) <=> Below0(t[e.id]))
  /\ e.pc \in {"value", "persist"} => (There(t[e.id]) => t[e.id].age = 0)
  /\ e.pc = "persist" => e.new # 0

EventsSound == \A s \in Servers : recall[s].pc # "idle" => EventSound(recall[s], rows, handmade)

(* The candidate of an entry of the ledger is among S. *)
Recorded(log, S) == \E n \in DOMAIN log : log[n][1] \in S

(* The copy that an update has read of a crystal whose stability and mark  *)
(* no caller wrote: a sound one, whose mark has its entry.                 *)
CopySound(u, h, log, anc) ==
  u.id \notin h => /\ RowSound(u.row)
                   /\ u.row.dynamics.flagged => Recorded(log, anc[u.id])

UpdatesSound ==
  \A s \in Servers : update[s].pc # "idle" => CopySound(update[s], handmade, ledger, lineage)

(* What a run will boost was not faded, and is not, as its list has it and *)
(* as the table has it.                                                    *)
ListingSound(item, r) ==
  /\ item.stability \in LapseStability..MaxStability
  /\ ~Below(FloorRatio, item.stability, item.age)
  /\ There(r) => r.age \in {0, item.age} /\ ~Below0(r)

RunSound(run, t, h) ==
  /\ run.pc = "resurface" =>
       \A i \in run.todo : /\ i \in DOMAIN run.list /\ t[i].status # "new"
                           /\ i \notin h => ListingSound(run.list[i], t[i])
  /\ run.pc = "judge" => run.todo \subseteq DOMAIN run.list
  /\ run.pc \in {"judge", "give up"} => run.layers # <<>>

RunsSound == \A d \in Dreamers : RunSound(dream[d], rows, handmade)

(* The ledger during the check of a process: what that process has entered *)
(* was seen by the check, or its candidate has been dealt with; the        *)
(* candidate to be marked next is in it.                                   *)
DriftSound(d, run, log) ==
  /\ run.pc \in {"drift", "flag"} => \A n \in DOMAIN log : log[n][3] = d =>
       \/ <<log[n][1], log[n][2]>> \in run.seen
       \/ log[n][1] \notin run.todo
       \/ run.pc = "flag" /\ log[n][1] \in run.doomed
  /\ run.pc = "flag" =>
       /\ \A c \in run.doomed : \E n \in DOMAIN log : log[n][1] = c
       /\ \A c, e \in run.doomed : c = e

DriftsSound == \A d \in Dreamers : DriftSound(d, dream[d], ledger)

Descended == \A i \in Ids : i \in lineage[i]

IInv ==
  /\ TypeOK /\ RowsSound /\ EventsSound /\ UpdatesSound /\ RunsSound /\ DriftsSound
  /\ Descended /\ DriftAccounted

-----------------------------------------------------------------------------
(* What a step does to a row *)

(* A crystal that is there goes on being as old and as faded as it is,     *)
(* unless it is touched.                                                   *)
Gentle(r, q) ==
  There(r) /\ There(q) => q.age = 0 \/ (q.age = r.age /\ (Below0(q) <=> Below0(r)))

(* The row q that replaces r: it is no new crystal in the place of an old  *)
(* one, it is touched or as old, and the keys that were there still are.   *)
Follows(r, q) ==
  /\ r.status # "new" => q.status # "new" /\ (There(q) => There(r))
  /\ There(r) /\ There(q) => q.age \in {0, r.age}
  /\ There(r) /\ There(q) => \A k \in DOMAIN NoDynamics :
       r.dynamics[k] # NoDynamics[k] => q.dynamics[k] # NoDynamics[k]

LEMMA RowFields ==
  ASSUME NEW r \in Row
  PROVE  /\ r.status \in {"new", "active", "deprecated", "absent"}
         /\ r.age \in 0..MaxAge /\ r.age \in Nat /\ r.hits \in 0..MaxHits /\ r.hits \in Nat
         /\ r.outcome \in Outcomes /\ r.outcome \in Nat
         /\ r.dynamics \in Dynamics
         /\ r.dynamics.stability \in Nat /\ r.dynamics.evb \in Nat
         /\ r.dynamics.flagged \in BOOLEAN
         /\ Effective(r.dynamics.stability) \in Nat \ {0}
<1>1. /\ r.status \in {"new", "active", "deprecated", "absent"}
      /\ r.age \in 0..MaxAge /\ r.hits \in 0..MaxHits
      /\ r.outcome \in Outcomes /\ r.dynamics \in Dynamics
  BY DEF Row
<1>2. r.age \in Nat /\ r.hits \in Nat /\ r.outcome \in Nat
  <2>1. MaxAge \in Nat /\ MaxHits \in Nat /\ Outcomes \subseteq 0..100
    BY ForgettingAssumption
  <2>2. r.outcome \in 0..100
    BY <1>1, <2>1
  <2> QED BY <1>1, <2>1, <2>2
<1>3. /\ r.dynamics.stability \in Nat /\ r.dynamics.evb \in Nat
      /\ r.dynamics.flagged \in BOOLEAN
  BY <1>1 DEF Dynamics
<1>4. Effective(r.dynamics.stability) \in Nat \ {0}
  BY <1>3, ForgettingAssumption DEF Effective, Unset
<1> QED BY <1>1, <1>2, <1>3, <1>4

LEMMA Below0Touched ==
  ASSUME NEW r \in Row, r.age = 0
  PROVE  ~Below0(r)
BY RowFields, TouchedNotBelow, ForgettingAssumption DEF Below0

(* What an event or a list holds of a row goes on holding for a row that   *)
(* replaces it.                                                            *)
LEMMA EventStays ==
  ASSUME NEW e \in Event, NEW t \in [Ids -> Row], NEW u \in [Ids -> Row], NEW h, NEW k,
         EventSound(e, t, h), Follows(t[e.id], u[e.id]), h \subseteq k,
         e.id \notin k => Gentle(t[e.id], u[e.id])
  PROVE  EventSound(e, u, k)
<1> DEFINE r == t[e.id]
           q == u[e.id]
<1>0. e.id \in Ids /\ r \in Row /\ q \in Row /\ r.status # "new" /\ q.status # "new"
      /\ (There(q) => There(r)) /\ (There(q) => q.age \in {0, r.age})
  BY DEF Event, EventSound, Follows
<1>1. CASE ~There(q)
  BY <1>0, <1>1 DEF EventSound
<1>2. CASE There(q) /\ q.age = 0
  <2>1. ~Below0(q)
    BY <1>0, <1>2, Below0Touched
  <2>2. e.pc = "boost" /\ e.id \notin k => ~Below(FloorRatio, e.new, q.age)
    BY <1>2, TouchedNotBelow, ForgettingAssumption DEF EventSound
  <2> QED BY <1>0, <1>2, <2>1, <2>2 DEF EventSound
<1>3. CASE There(q) /\ q.age # 0
  <2>1. There(r) /\ q.age = r.age
    BY <1>0, <1>3
  <2>2. e.id \notin k => (Below0(q) <=> Below0(r))
    BY <1>3, <2>1 DEF Gentle
  <2> QED BY <1>0, <1>3, <2>1, <2>2 DEF EventSound
<1> QED BY <1>1, <1>2, <1>3

LEMMA ListingStays ==
  ASSUME NEW item \in Listing, NEW r \in Row, NEW q \in Row, r.status # "new",
         ListingSound(item, r), Follows(r, q), Gentle(r, q)
  PROVE  ListingSound(item, q)
BY Below0Touched DEF ListingSound, Gentle, Follows

LEMMA FollowsRefl ==
  ASSUME NEW r
  PROVE  Follows(r, r) /\ Gentle(r, r)
BY DEF Gentle, Follows

(* What each transaction makes of the table: one row changes, in one part. *)
LEMMA MergedStability ==
  ASSUME NEW d \in Dynamics, NEW v
  PROVE  Merged(d, [stability |-> v]) = [stability |-> v, evb |-> d.evb, flagged |-> d.flagged]
BY DEF Merged, Dynamics

LEMMA MergedEvb ==
  ASSUME NEW d \in Dynamics, NEW v
  PROVE  Merged(d, [evb |-> v]) = [stability |-> d.stability, evb |-> v, flagged |-> d.flagged]
BY DEF Merged, Dynamics

LEMMA MergedFlag ==
  ASSUME NEW d \in Dynamics, NEW v
  PROVE  Merged(d, [flagged |-> v]) = [stability |-> d.stability, evb |-> d.evb, flagged |-> v]
BY DEF Merged, Dynamics

(* The row r with its dynamics d. *)
WithDynamics(r, d) ==
  [status |-> r.status, age |-> r.age, hits |-> r.hits, outcome |-> r.outcome, dynamics |-> d]

LEMMA StabilityWritten ==
  ASSUME NEW r \in Row, NEW v \in Nat \ {0},
         NEW q, q = WithDynamics(r, Merged(r.dynamics, [stability |-> v]))
  PROVE  /\ q \in Row /\ Follows(r, q)
         /\ q.status = r.status /\ q.age = r.age /\ q.dynamics.stability = v
         /\ q.dynamics.evb = r.dynamics.evb /\ q.dynamics.flagged = r.dynamics.flagged
<1>1. r.dynamics \in Dynamics /\ v # Unset
  BY RowFields DEF Unset
<1>2. Merged(r.dynamics, [stability |-> v])
        = [stability |-> v, evb |-> r.dynamics.evb, flagged |-> r.dynamics.flagged]
  BY <1>1, MergedStability
<1>3. Merged(r.dynamics, [stability |-> v]) \in Dynamics
  BY <1>1, <1>2 DEF Dynamics
<1>4. q \in Row /\ q.status = r.status /\ q.age = r.age
      /\ q.dynamics.evb = r.dynamics.evb /\ q.dynamics.flagged = r.dynamics.flagged
      /\ q.dynamics.stability = v
  BY <1>2, <1>3 DEF WithDynamics, Row
<1>5. Follows(r, q)
  <2>1. \A k \in DOMAIN NoDynamics :
          r.dynamics[k] # NoDynamics[k] => q.dynamics[k] # NoDynamics[k]
    BY <1>1, <1>4 DEF NoDynamics
  <2> QED BY <1>4, <2>1 DEF Follows, There
<1> QED BY <1>4, <1>5

(* A new stability in place of the old: what it takes to be gentle. *)
LEMMA StabilityGentle ==
  ASSUME NEW r, NEW q, NEW v \in LapseStability..MaxStability,
         q.status = r.status, q.age = r.age, q.dynamics.stability = v,
         There(r) => (Below(FloorRatio, v, r.age) <=> Below0(r))
  PROVE  RowSound(q) /\ Gentle(r, q)
<1>1. v # Unset
  BY ForgettingAssumption DEF Unset
<1> QED BY <1>1 DEF RowSound, Gentle, Below0, Effective, There

(* The writes of a value or of a mark do not touch what makes a row fade. *)
LEMMA OtherKeyWritten ==
  ASSUME NEW r \in Row, NEW q \in Row,
         q.status = r.status, q.age = r.age,
         q.dynamics.stability = r.dynamics.stability,
         r.dynamics.evb # Unset => q.dynamics.evb # Unset,
         r.dynamics.flagged => q.dynamics.flagged
  PROVE  Follows(r, q) /\ Gentle(r, q) /\ (RowSound(r) => RowSound(q))
<1>1. Follows(r, q)
  BY RowFields DEF Follows, NoDynamics, Unset, There
<1>2. Gentle(r, q)
  BY DEF Gentle, Below0, Effective, There
<1> QED BY <1>1, <1>2 DEF RowSound

LEMMA ValueWritten ==
  ASSUME NEW r \in Row, NEW v \in Nat \ {0},
         NEW q, q = WithDynamics(r, Merged(r.dynamics, [evb |-> v]))
  PROVE  /\ q \in Row /\ Follows(r, q) /\ Gentle(r, q) /\ (RowSound(r) => RowSound(q))
         /\ q.status = r.status /\ q.age = r.age
         /\ q.dynamics.flagged = r.dynamics.flagged
<1>1. r.dynamics \in Dynamics
  BY RowFields
<1>2. Merged(r.dynamics, [evb |-> v])
        = [stability |-> r.dynamics.stability, evb |-> v, flagged |-> r.dynamics.flagged]
  BY <1>1, MergedEvb
<1>3. Merged(r.dynamics, [evb |-> v]) \in Dynamics
  BY <1>1, <1>2 DEF Dynamics
<1>4. q \in Row /\ q.status = r.status /\ q.age = r.age
      /\ q.dynamics.evb = v /\ q.dynamics.flagged = r.dynamics.flagged
      /\ q.dynamics.stability = r.dynamics.stability
  BY <1>2, <1>3 DEF WithDynamics, Row
<1>5. v # Unset
  BY DEF Unset
<1> QED BY <1>4, <1>5, OtherKeyWritten

LEMMA MarkWritten ==
  ASSUME NEW r \in Row,
         NEW q, q = WithDynamics(r, Merged(r.dynamics, [flagged |-> TRUE]))
  PROVE  /\ q \in Row /\ Follows(r, q) /\ Gentle(r, q) /\ (RowSound(r) => RowSound(q))
         /\ q.status = r.status /\ q.age = r.age
         /\ q.dynamics.evb = r.dynamics.evb
<1>1. r.dynamics \in Dynamics
  BY RowFields
<1>2. Merged(r.dynamics, [flagged |-> TRUE])
        = [stability |-> r.dynamics.stability, evb |-> r.dynamics.evb, flagged |-> TRUE]
  BY <1>1, MergedFlag
<1>3. Merged(r.dynamics, [flagged |-> TRUE]) \in Dynamics
  <2>1. r.dynamics.stability \in Nat /\ r.dynamics.evb \in Nat
    BY RowFields
  <2>2. \A x, y \in Nat, b \in BOOLEAN :
          [stability |-> x, evb |-> y, flagged |-> b] \in Dynamics
    BY DEF Dynamics
  <2> QED BY <1>2, <2>1, <2>2, Zenon
<1>4. q \in Row /\ q.status = r.status /\ q.age = r.age
      /\ q.dynamics.evb = r.dynamics.evb /\ q.dynamics.flagged
      /\ q.dynamics.stability = r.dynamics.stability
  BY <1>2, <1>3 DEF WithDynamics, Row
<1> QED BY <1>4, OtherKeyWritten

-----------------------------------------------------------------------------
(* What a step does to the table and what is under way beside it *)

(* Every step but that of the clock. *)
RowsStep ==
  /\ rows' \in [Ids -> Row] /\ handmade \subseteq handmade'
  /\ \A i \in Ids : /\ Follows(rows[i], rows'[i])
                    /\ rows'[i].status = "new" => rows'[i].age = 0
                    /\ i \notin handmade' => RowSound(rows'[i]) /\ Gentle(rows[i], rows'[i])

LEMMA RowsUnchanged ==
  ASSUME IInv, rows' = rows, UNCHANGED history
  PROVE  RowsStep
BY FollowsRefl DEF RowsStep, IInv, TypeOK, RowsSound, history

(* One row is replaced. *)
LEMMA OneRowReplaced ==
  ASSUME IInv, UNCHANGED history, NEW i \in Ids, NEW q \in Row,
         rows' = [rows EXCEPT ![i] = q],
         Follows(rows[i], q), q.status = "new" => q.age = 0,
         i \notin handmade => RowSound(q) /\ Gentle(rows[i], q)
  PROVE  RowsStep
<1>1. rows \in [Ids -> Row] /\ handmade' = handmade
  BY DEF IInv, TypeOK, history
<1>2. rows' \in [Ids -> Row] /\ rows'[i] = q /\ \A j \in Ids \ {i} : rows'[j] = rows[j]
  BY <1>1
<1> QED BY <1>1, <1>2, FollowsRefl DEF RowsStep, IInv, RowsSound

LEMMA RowAt ==
  ASSUME IInv, NEW i \in Ids
  PROVE  /\ rows \in [Ids -> Row] /\ rows[i] \in Row
         /\ rows[i].status = "new" => rows[i].age = 0
         /\ i \notin handmade => RowSound(rows[i])
         /\ Present(i) <=> There(rows[i])
BY DEF IInv, TypeOK, RowsSound, Present, There

LEMMA DynamicsUpdated ==
  ASSUME IInv, NEW i \in Ids, NEW keys, UpdateDynamics(i, keys)
  PROVE  /\ Present(i) => rows' = [rows EXCEPT ![i] =
                                     WithDynamics(rows[i], Merged(rows[i].dynamics, keys))]
         /\ ~Present(i) => rows' = rows
<1> DEFINE m == Merged(rows[i].dynamics, keys)
<1>1. rows[i] \in Row
  BY RowAt
<1>2. [rows[i] EXCEPT !.dynamics = m] = WithDynamics(rows[i], m)
  BY <1>1 DEF WithDynamics, Row
<1>3. [rows EXCEPT ![i].dynamics = m] = [rows EXCEPT ![i] = WithDynamics(rows[i], m)]
  BY <1>2
<1> QED BY <1>3 DEF UpdateDynamics

(* A stability, a value or a mark is written. *)
LEMMA StabilityStep ==
  ASSUME IInv, UNCHANGED history, NEW i \in Ids, NEW v \in Nat \ {0},
         UpdateDynamics(i, [stability |-> v]),
         i \notin handmade => v \in LapseStability..MaxStability,
         i \notin handmade /\ Present(i) =>
           (Below(FloorRatio, v, rows[i].age) <=> Below0(rows[i]))
  PROVE  /\ RowsStep
         /\ \A j \in Ids : /\ rows'[j].dynamics.flagged = rows[j].dynamics.flagged
                           /\ rows'[j].dynamics.evb = rows[j].dynamics.evb
                           /\ rows'[j].age = rows[j].age /\ rows'[j].status = rows[j].status
<1>1. PICK r : r = rows[i]
  OBVIOUS
<1>2. /\ rows \in [Ids -> Row] /\ r \in Row /\ (i \notin handmade => RowSound(r))
      /\ Present(i) <=> There(r)
      /\ r.status = "new" => r.age = 0
  BY <1>1, RowAt
<1>3. CASE Present(i)
  <2>1. PICK q : q = WithDynamics(r, Merged(r.dynamics, [stability |-> v]))
    OBVIOUS
  <2>2. rows' = [rows EXCEPT ![i] = q]
    BY <1>1, <1>3, <2>1, DynamicsUpdated
  <2>3. /\ q \in Row /\ Follows(r, q)
        /\ q.status = r.status /\ q.age = r.age /\ q.dynamics.stability = v
        /\ q.dynamics.evb = r.dynamics.evb /\ q.dynamics.flagged = r.dynamics.flagged
    BY <1>2, <2>1, StabilityWritten
  <2>4. i \notin handmade => RowSound(q) /\ Gentle(r, q)
    BY <1>1, <1>3, <2>3, StabilityGentle
  <2>5. RowsStep
    BY <1>1, <1>2, <2>2, <2>3, <2>4, OneRowReplaced
  <2>6. rows'[i] = q /\ \A j \in Ids \ {i} : rows'[j] = rows[j]
    BY <1>2, <2>2
  <2> QED BY <1>1, <2>3, <2>5, <2>6
<1>4. CASE ~Present(i)
  <2>1. rows' = rows
    BY <1>4, DynamicsUpdated
  <2> QED BY <2>1, RowsUnchanged
<1> QED BY <1>3, <1>4

LEMMA ValueStep ==
  ASSUME IInv, UNCHANGED history, NEW i \in Ids, NEW v \in Nat \ {0},
         UpdateDynamics(i, [evb |-> v])
  PROVE  /\ RowsStep
         /\ \A j \in Ids : /\ rows'[j].dynamics.flagged = rows[j].dynamics.flagged
                           /\ rows'[j].age = rows[j].age /\ rows'[j].status = rows[j].status
         /\ \A j \in Ids \ {i} : rows'[j] = rows[j]
<1>1. PICK r : r = rows[i]
  OBVIOUS
<1>2. /\ rows \in [Ids -> Row] /\ r \in Row /\ (i \notin handmade => RowSound(r))
      /\ r.status = "new" => r.age = 0
  BY <1>1, RowAt
<1>3. CASE Present(i)
  <2>1. PICK q : q = WithDynamics(r, Merged(r.dynamics, [evb |-> v]))
    OBVIOUS
  <2>2. rows' = [rows EXCEPT ![i] = q]
    BY <1>1, <1>3, <2>1, DynamicsUpdated
  <2>3. /\ q \in Row /\ Follows(r, q) /\ Gentle(r, q) /\ (RowSound(r) => RowSound(q))
        /\ q.status = r.status /\ q.age = r.age
        /\ q.dynamics.flagged = r.dynamics.flagged
    BY <1>2, <2>1, ValueWritten
  <2>4. RowsStep
    BY <1>1, <1>2, <2>2, <2>3, OneRowReplaced
  <2>5. rows'[i] = q /\ \A j \in Ids \ {i} : rows'[j] = rows[j]
    BY <1>2, <2>2
  <2> QED BY <1>1, <2>3, <2>4, <2>5
<1>4. CASE ~Present(i)
  <2>1. rows' = rows
    BY <1>4, DynamicsUpdated
  <2> QED BY <2>1, RowsUnchanged
<1> QED BY <1>3, <1>4

LEMMA MarkStep ==
  ASSUME IInv, UNCHANGED history, NEW i \in Ids, UpdateDynamics(i, [flagged |-> TRUE])
  PROVE  /\ RowsStep
         /\ \A j \in Ids \ {i} : rows'[j] = rows[j]
         /\ rows'[i].status = rows[i].status /\ rows'[i].age = rows[i].age
         /\ rows'[i].dynamics.evb = rows[i].dynamics.evb
<1>1. PICK r : r = rows[i]
  OBVIOUS
<1>2. /\ rows \in [Ids -> Row] /\ r \in Row /\ (i \notin handmade => RowSound(r))
      /\ r.status = "new" => r.age = 0
  BY <1>1, RowAt
<1>3. CASE Present(i)
  <2>1. PICK q : q = WithDynamics(r, Merged(r.dynamics, [flagged |-> TRUE]))
    OBVIOUS
  <2>2. rows' = [rows EXCEPT ![i] = q]
    BY <1>1, <1>3, <2>1, DynamicsUpdated
  <2>3. /\ q \in Row /\ Follows(r, q) /\ Gentle(r, q) /\ (RowSound(r) => RowSound(q))
        /\ q.status = r.status /\ q.age = r.age
        /\ q.dynamics.evb = r.dynamics.evb
    BY <1>2, <2>1, MarkWritten
  <2>4. RowsStep
    BY <1>1, <1>2, <2>2, <2>3, OneRowReplaced
  <2>5. rows'[i] = q /\ \A j \in Ids \ {i} : rows'[j] = rows[j]
    BY <1>2, <2>2
  <2> QED BY <1>1, <2>3, <2>4, <2>5
<1>4. CASE ~Present(i)
  <2>1. rows' = rows
    BY <1>4, DynamicsUpdated
  <2> QED BY <2>1, RowsUnchanged
<1> QED BY <1>3, <1>4

-----------------------------------------------------------------------------
(* What is under way and is not moved by a step stays sound *)

LEMMA EventStaysAt ==
  ASSUME IInv, RowsStep, NEW s \in Servers, recall[s].pc # "idle"
  PROVE  EventSound(recall[s], rows', handmade')
<1>1. recall[s] \in Event
  BY DEF IInv, TypeOK
<1>2. recall[s].id \in Ids
  BY <1>1 DEF Event
<1>3. EventSound(recall[s], rows, handmade)
  BY DEF IInv, EventsSound
<1>4. rows \in [Ids -> Row]
  BY DEF IInv, TypeOK
<1> QED BY <1>1, <1>2, <1>3, <1>4, EventStays DEF RowsStep

LEMMA EventsStay ==
  ASSUME IInv, RowsStep, recall' = recall
  PROVE  EventsSound'
BY EventStaysAt DEF EventsSound

(* One server's event moves on to e. *)
LEMMA EventMoves ==
  ASSUME IInv, RowsStep, NEW s \in Servers, NEW e \in Event \cup {[pc |-> "idle"]},
         recall' = [recall EXCEPT ![s] = e],
         e.pc # "idle" => EventSound(e, rows', handmade')
  PROVE  recall' \in [Servers -> Event \cup {[pc |-> "idle"]}] /\ EventsSound'
<1>1. recall \in [Servers -> Event \cup {[pc |-> "idle"]}]
  BY DEF IInv, TypeOK
<1>2. \A z \in Servers \ {s} : recall'[z] = recall[z]
  BY <1>1
<1>3. recall'[s] = e
  BY <1>1
<1> QED BY <1>1, <1>2, <1>3, EventStaysAt DEF EventsSound

(* The entries of the ledger and the ancestors of a crystal are only added *)
(* to.                                                                     *)
LedgerGrows ==
  \A n \in DOMAIN ledger : n \in DOMAIN ledger' /\ ledger'[n] = ledger[n]

LineageGrows == \A i \in Ids : lineage[i] \subseteq lineage'[i]

LEMMA RecordedStays ==
  ASSUME LedgerGrows, NEW S, NEW T, S \subseteq T, Recorded(ledger, S)
  PROVE  Recorded(ledger', T)
BY DEF LedgerGrows, Recorded

LEMMA HistoryStays ==
  ASSUME UNCHANGED history
  PROVE  LineageGrows /\ lineage' = lineage /\ handmade' = handmade
BY DEF LineageGrows, history

LEMMA UpdateFields ==
  ASSUME IInv, NEW s \in Servers, update[s].pc # "idle"
  PROVE  /\ update[s] \in Update /\ CopySound(update[s], handmade, ledger, lineage)
         /\ update[s].pc = "insert" /\ update[s].id \in Ids /\ update[s].row \in Row
<1>1. update[s] \in Update
  BY DEF IInv, TypeOK
<1>2. update[s].pc = "insert" /\ update[s].id \in Ids /\ update[s].row \in Row
  BY <1>1 DEF Update
<1> QED BY <1>1, <1>2 DEF IInv, UpdatesSound

LEMMA CopyStays ==
  ASSUME IInv, handmade \subseteq handmade', LedgerGrows, LineageGrows,
         NEW s \in Servers, update[s].pc # "idle"
  PROVE  CopySound(update[s], handmade', ledger', lineage')
<1>1. update[s].id \in Ids /\ CopySound(update[s], handmade, ledger, lineage)
  BY UpdateFields
<1>2. lineage[update[s].id] \subseteq lineage'[update[s].id]
  BY <1>1 DEF LineageGrows
<1> QED BY <1>1, <1>2, RecordedStays DEF CopySound

LEMMA UpdatesStay ==
  ASSUME IInv, handmade \subseteq handmade', LedgerGrows, LineageGrows, update' = update
  PROVE  UpdatesSound'
BY CopyStays DEF UpdatesSound

LEMMA ListFields ==
  ASSUME NEW f \in Lists
  PROVE  /\ DOMAIN f \in SUBSET Ids
         /\ \A i \in DOMAIN f : f[i] \in Listing
         /\ \A S \in SUBSET DOMAIN f : [i \in S |-> f[i]] \in Lists
<1>1. PICK S \in SUBSET Ids : f \in [S -> Listing]
  BY DEF Lists
<1>2. \A T \in SUBSET Ids : [T -> Listing] \subseteq Lists
  BY DEF Lists
<1>3. ASSUME NEW T \in SUBSET DOMAIN f
      PROVE  [i \in T |-> f[i]] \in Lists
  <2>1. [i \in T |-> f[i]] \in [T -> Listing] /\ T \in SUBSET Ids
    BY <1>1
  <2> QED BY <1>2, <2>1
<1> QED BY <1>1, <1>3

LEMMA RunFields ==
  ASSUME IInv, NEW d \in Dreamers
  PROVE  /\ dream[d] \in Run
         /\ dream[d].cutoff \in Nat /\ dream[d].valued \in Nat /\ dream[d].list \in Lists
         /\ dream[d].seen \in SUBSET (Ids \X Ids) /\ dream[d].todo \in SUBSET Ids
         /\ dream[d].doomed \in SUBSET Ids /\ dream[d].layers \in Seq(Layers)
         /\ dream[d].evicted \in SUBSET Ids
         /\ DOMAIN dream[d].list \in SUBSET Ids
         /\ \A i \in DOMAIN dream[d].list : dream[d].list[i] \in Listing
         /\ \A S \in SUBSET DOMAIN dream[d].list : [i \in S |-> dream[d].list[i]] \in Lists
         /\ RunSound(dream[d], rows, handmade) /\ DriftSound(d, dream[d], ledger)
<1>1. dream[d] \in Run
  BY DEF IInv, TypeOK
<1>2. dream[d].list \in Lists
  BY <1>1 DEF Run
<1>3. RunSound(dream[d], rows, handmade) /\ DriftSound(d, dream[d], ledger)
  BY DEF IInv, RunsSound, DriftsSound
<1> QED BY <1>1, <1>2, <1>3, ListFields DEF Run

(* What the list of a run holds of the crystals to be boosted. *)
LEMMA ToBoostStays ==
  ASSUME IInv, RowsStep, NEW d \in Dreamers, dream[d].pc = "resurface",
         NEW i \in dream[d].todo
  PROVE  /\ i \in DOMAIN dream[d].list /\ rows'[i].status # "new"
         /\ i \notin handmade' => ListingSound(dream[d].list[i], rows'[i])
<1>1. PICK list : list = dream[d].list
  OBVIOUS
<1>2. /\ i \in DOMAIN list /\ rows[i].status # "new"
      /\ i \notin handmade => ListingSound(list[i], rows[i])
  BY <1>1, RunFields DEF RunSound
<1>3. i \in Ids /\ list[i] \in Listing
  BY <1>1, <1>2, RunFields
<1>4. rows[i] \in Row /\ rows'[i] \in Row
  BY <1>3, RowAt DEF RowsStep
<1>5. /\ Follows(rows[i], rows'[i]) /\ (i \notin handmade' => Gentle(rows[i], rows'[i]))
      /\ i \notin handmade' => i \notin handmade
  BY <1>3 DEF RowsStep
<1>6. rows'[i].status # "new"
  BY <1>2, <1>5 DEF Follows
<1>7. i \notin handmade' => ListingSound(list[i], rows'[i])
  BY <1>2, <1>3, <1>4, <1>5, ListingStays
<1> QED BY <1>1, <1>2, <1>6, <1>7

LEMMA RunStaysAt ==
  ASSUME IInv, RowsStep, NEW d \in Dreamers
  PROVE  RunSound(dream[d], rows', handmade')
BY ToBoostStays, RunFields DEF RunSound

LEMMA RunsStay ==
  ASSUME IInv, RowsStep, dream' = dream
  PROVE  RunsSound'
BY RunStaysAt DEF RunsSound

(* The run of one process moves on. *)
LEMMA RunMoves ==
  ASSUME IInv, RowsStep, NEW d \in Dreamers, NEW run \in Run, Goes(d, run),
         RunSound(run, rows', handmade')
  PROVE  dream' \in [Dreamers -> Run] /\ RunsSound'
<1>1. dream \in [Dreamers -> Run] /\ dream' = [dream EXCEPT ![d] = run]
  BY DEF IInv, TypeOK, Goes
<1>2. dream'[d] = run /\ \A e \in Dreamers \ {d} : dream'[e] = dream[e]
  BY <1>1
<1> QED BY <1>1, <1>2, RunStaysAt DEF RunsSound

LEMMA LedgerFields ==
  ASSUME IInv
  PROVE  /\ ledger \in Seq(Ids \X Ids \X Dreamers) /\ Len(ledger) \in Nat
         /\ DOMAIN ledger = 1..Len(ledger)
         /\ \A n \in DOMAIN ledger : ledger[n] \in Ids \X Ids \X Dreamers
BY DEF IInv, TypeOK

(* The check of another process is not concerned with the entries of d. *)
LEMMA DriftsMove ==
  ASSUME IInv, NEW d \in Dreamers, NEW run, Goes(d, run), LedgerGrows,
         \A n \in DOMAIN ledger' : n \in DOMAIN ledger \/ ledger'[n][3] = d,
         DriftSound(d, run, ledger')
  PROVE  DriftsSound'
<1>1. dream \in [Dreamers -> Run] /\ dream' = [dream EXCEPT ![d] = run]
  BY DEF IInv, TypeOK, Goes
<1>2. dream'[d] = run /\ \A e \in Dreamers \ {d} : dream'[e] = dream[e]
  BY <1>1
<1>3. ASSUME NEW e \in Dreamers \ {d}
      PROVE  DriftSound(e, dream[e], ledger')
  <2>1. DriftSound(e, dream[e], ledger)
    BY RunFields
  <2>2. \A n \in DOMAIN ledger' : ledger'[n][3] = e => n \in DOMAIN ledger /\ ledger'[n] = ledger[n]
    BY DEF LedgerGrows
  <2>3. \A c : (\E n \in DOMAIN ledger : ledger[n][1] = c) => \E n \in DOMAIN ledger' : ledger'[n][1] = c
    BY DEF LedgerGrows
  <2> QED BY <2>1, <2>2, <2>3 DEF DriftSound
<1> QED BY <1>2, <1>3 DEF DriftsSound

LEMMA LedgerSame ==
  ASSUME ledger' = ledger
  PROVE  LedgerGrows /\ \A n \in DOMAIN ledger' : n \in DOMAIN ledger
BY DEF LedgerGrows

LEMMA AccountStays ==
  ASSUME IInv, ledger' = ledger, UNCHANGED history,
         \A i \in Ids : rows'[i].dynamics.flagged => rows[i].dynamics.flagged
  PROVE  DriftAccounted'
BY HistoryStays DEF IInv, DriftAccounted

(* A step of a recall or of the command forget, which leaves the runs and  *)
(* the updates alone.                                                      *)
LEMMA BesideRuns ==
  ASSUME IInv, RowsStep, UNCHANGED <<config, ledger, update, dream, history, steady>>,
         begun' \in 0..MaxBegun,
         recall' \in [Servers -> Event \cup {[pc |-> "idle"]}], EventsSound',
         \A i \in Ids : rows'[i].dynamics.flagged => rows[i].dynamics.flagged
  PROVE  IInv'
<1>1. UNCHANGED <<config, ledger, update, dream, lineage, handmade, steady>>
      /\ LineageGrows /\ LedgerGrows /\ handmade \subseteq handmade'
  BY HistoryStays, LedgerSame
<1>2. TypeOK'
  BY <1>1 DEF IInv, TypeOK, RowsStep
<1>3. RowsSound'
  BY DEF RowsSound, RowsStep
<1>4. UpdatesSound'
  BY <1>1, UpdatesStay
<1>5. RunsSound'
  BY RunsStay
<1>6. DriftsSound' /\ Descended'
  BY <1>1 DEF IInv, DriftsSound, Descended
<1>7. DriftAccounted'
  BY AccountStays
<1> QED BY <1>2, <1>3, <1>4, <1>5, <1>6, <1>7 DEF IInv

-----------------------------------------------------------------------------
(* Commits, forget *)

LEMMA BegunSame ==
  ASSUME IInv, begun' = begun \/ (begun < MaxBegun /\ begun' = begun + 1)
  PROVE  begun' \in 0..MaxBegun
<1>1. begun \in 0..MaxBegun /\ MaxBegun \in Nat
  BY ForgettingAssumption DEF IInv, TypeOK
<1> QED BY <1>1

LEMMA CommitSafe ==
  ASSUME IInv, NEW i \in Ids, Commit(i)
  PROVE  IInv' /\ RowsStep
<1>1. PICK r : r = rows[i]
  OBVIOUS
<1>2. PICK q : q = [r EXCEPT !.status = "active"]
  OBVIOUS
<1>3. /\ r \in Row /\ r.status = "new" /\ r.age = 0 /\ (i \notin handmade => RowSound(r))
      /\ rows \in [Ids -> Row]
  BY <1>1, RowAt DEF Commit
<1>4. rows' = [rows EXCEPT ![i] = q]
  BY <1>1, <1>2 DEF Commit
<1>5. q \in Row /\ q.status = "active" /\ q.age = 0 /\ q.dynamics = r.dynamics
  BY <1>2, <1>3 DEF Row
<1>6. Follows(r, q) /\ Gentle(r, q) /\ (RowSound(r) => RowSound(q))
  BY <1>3, <1>5 DEF RowSound, Gentle, Follows, There
<1>7. UNCHANGED <<config, ledger, recall, update, dream, begun, history, steady>>
  BY DEF Commit
<1>8. RowsStep
  BY <1>1, <1>3, <1>4, <1>5, <1>6, <1>7, OneRowReplaced
<1>9. \A j \in Ids : rows'[j].dynamics.flagged => rows[j].dynamics.flagged
  BY <1>1, <1>3, <1>4, <1>5
<1>10. EventsSound' /\ recall' \in [Servers -> Event \cup {[pc |-> "idle"]}]
  BY <1>7, <1>8, EventsStay DEF IInv, TypeOK
<1>11. begun' \in 0..MaxBegun
  BY <1>7, BegunSame
<1> QED BY <1>7, <1>8, <1>9, <1>10, <1>11, BesideRuns

LEMMA NoDynamicsType ==
  NoDynamics \in Dynamics /\ NoDynamics.stability = Unset /\ ~NoDynamics.flagged
<1>1. \A x, y \in Nat, b \in BOOLEAN :
        [stability |-> x, evb |-> y, flagged |-> b] \in Dynamics
  BY DEF Dynamics
<1>2. Unset \in Nat
  BY DEF Unset
<1>3. NoDynamics \in Dynamics
  BY <1>1, <1>2, Zenon DEF NoDynamics
<1> QED BY <1>3 DEF NoDynamics

LEMMA FreshRow ==
  ASSUME NEW status \in {"new", "absent"},
         NEW q, q = [status |-> status, age |-> 0, hits |-> 0, outcome |-> 50,
                     dynamics |-> NoDynamics]
  PROVE  /\ q \in Row /\ q.status = status /\ q.age = 0
         /\ RowSound(q) /\ ~q.dynamics.flagged
<1>1. 0 \in 0..MaxAge /\ 0 \in 0..MaxHits /\ 50 \in Outcomes
  BY ForgettingAssumption
<1>2. q \in Row
  BY <1>1, NoDynamicsType DEF Row
<1> QED BY <1>2, NoDynamicsType DEF RowSound

LEMMA ForgetSafe ==
  ASSUME IInv, NEW i \in Ids, Forget(i)
  PROVE  IInv' /\ RowsStep
<1>1. PICK r : r = rows[i]
  OBVIOUS
<1>2. PICK q : q = [status |-> "absent", age |-> 0, hits |-> 0, outcome |-> 50,
                    dynamics |-> NoDynamics]
  OBVIOUS
<1>3. rows' = [rows EXCEPT ![i] = q]
  <2>1. [NewRow EXCEPT !.status = "absent"] = q
    BY <1>2 DEF NewRow
  <2> QED BY <2>1 DEF Forget
<1>4. q \in Row /\ q.status = "absent" /\ q.age = 0 /\ RowSound(q) /\ ~q.dynamics.flagged
  BY <1>2, FreshRow
<1>5. Follows(r, q) /\ Gentle(r, q)
  BY <1>4 DEF Gentle, Follows, There
<1>6. /\ UNCHANGED <<config, ledger, recall, update, dream, history, steady>>
      /\ begun < MaxBegun /\ begun' = begun + 1
  BY DEF Forget
<1>7. RowsStep
  BY <1>1, <1>3, <1>4, <1>5, <1>6, OneRowReplaced
<1>8. \A j \in Ids : rows'[j].dynamics.flagged => rows[j].dynamics.flagged
  BY <1>3, <1>4, RowAt
<1>9. EventsSound' /\ recall' \in [Servers -> Event \cup {[pc |-> "idle"]}]
  BY <1>6, <1>7, EventsStay DEF IInv, TypeOK
<1>10. begun' \in 0..MaxBegun
  BY <1>6, BegunSame
<1> QED BY <1>6, <1>7, <1>8, <1>9, <1>10, BesideRuns

-----------------------------------------------------------------------------
(* The clock *)

LEMMA TickSafe ==
  ASSUME IInv, Tick
  PROVE  /\ IInv'
         /\ \A i \in Ids : /\ Present(i) <=> There(rows'[i])
                           /\ rows'[i].dynamics = rows[i].dynamics
                           /\ rows'[i] = rows[i] \/ rows'[i].age > rows[i].age
                           /\ rows'[i].status = rows[i].status
<1>1. rows \in [Ids -> Row]
  BY DEF IInv, TypeOK
<1>2. ASSUME NEW i \in Ids
      PROVE  /\ rows'[i] \in Row /\ rows'[i].status = rows[i].status
             /\ rows'[i].dynamics = rows[i].dynamics
             /\ rows'[i] = rows[i] \/ rows'[i].age > rows[i].age
             /\ ~Present(i) => rows'[i] = rows[i]
  <2> DEFINE r == rows[i]
             older == Min({r.age + 1, MaxAge})
  <2>1. r \in Row /\ r.age \in 0..MaxAge /\ MaxAge \in Nat
    BY <1>1, ForgettingAssumption DEF Row
  <2>2. older = IF r.age + 1 <= MaxAge THEN r.age + 1 ELSE MaxAge
    BY <2>1, MinOfTwo
  <2> HIDE DEF older
  <2>3. older \in 0..MaxAge /\ (older = r.age \/ older > r.age)
    BY <2>1, <2>2
  <2>4. rows'[i] = IF Present(i) THEN [r EXCEPT !.age = older] ELSE r
    BY DEF Tick, older
  <2>5. older = r.age => [r EXCEPT !.age = older] = r
    BY <2>1 DEF Row
  <2>6. /\ [r EXCEPT !.age = older] \in Row
        /\ [r EXCEPT !.age = older].status = r.status
        /\ [r EXCEPT !.age = older].dynamics = r.dynamics
        /\ [r EXCEPT !.age = older].age = older
    BY <2>1, <2>3 DEF Row
  <2> QED BY <2>1, <2>3, <2>4, <2>5, <2>6
<1>3. rows' \in [Ids -> Row]
  <2>1. rows' = [i \in Ids |-> rows'[i]]
    BY DEF Tick
  <2> QED BY <1>2, <2>1
<1>4. UNCHANGED <<config, ledger, recall, update, dream, begun, lineage, handmade, steady>>
  BY HistoryStays DEF Tick
<1>5. RowsSound'
  <2> SUFFICES ASSUME NEW i \in Ids
               PROVE  /\ rows'[i].status = "new" => rows'[i].age = 0
                      /\ i \notin handmade => RowSound(rows'[i])
    BY <1>4 DEF RowsSound
  <2>1. /\ rows[i].status = "new" => rows[i].age = 0
        /\ i \notin handmade => RowSound(rows[i])
    BY RowAt
  <2>2. rows[i].status = "new" => rows'[i] = rows[i]
    BY <1>2 DEF Present
  <2> QED BY <1>2, <2>1, <2>2 DEF RowSound
<1>6. /\ \A d \in Dreamers : dream[d].pc = "idle"
      /\ \A s \in Servers : recall[s].pc = "idle" /\ update[s].pc = "idle"
  BY DEF Tick, Quiet, Free
<1>7. TypeOK'
  BY <1>3, <1>4 DEF IInv, TypeOK
<1>8. EventsSound' /\ UpdatesSound'
  BY <1>4, <1>6 DEF EventsSound, UpdatesSound
<1>9. RunsSound' /\ DriftsSound' /\ Descended'
  BY <1>4, <1>6 DEF IInv, RunsSound, RunSound, DriftsSound, DriftSound, Descended
<1>10. DriftAccounted'
  BY <1>2, <1>4 DEF IInv, DriftAccounted
<1>11. \A i \in Ids : Present(i) <=> There(rows'[i])
  BY <1>2 DEF Present, There
<1> QED BY <1>2, <1>5, <1>7, <1>8, <1>9, <1>10, <1>11 DEF IInv

-----------------------------------------------------------------------------
(* Recalls *)

(* The stability a recall decides on leaves the crystal on the same side   *)
(* of the floor.                                                           *)
LEMMA OnRecallNeutral ==
  ASSUME NEW r \in Row, RowSound(r), NEW age \in 0..MaxAge
  PROVE  LET v == OnRecall(r.dynamics.stability, age)
         IN  /\ v \in LapseStability..MaxStability
             /\ r.age \in {0, age} => (Below(FloorRatio, v, r.age) <=> Below0(r))
<1> DEFINE s == r.dynamics.stability
           v == OnRecall(s, age)
<1>0. /\ s \in Nat /\ r.age \in Nat /\ age \in Nat
      /\ s = Unset \/ s \in LapseStability..MaxStability
      /\ FloorRatio \in Nat /\ MaxStability \in Nat
      /\ InitialStability \in 1..MaxStability /\ LapseStability \in 1..InitialStability
  BY RowFields, ForgettingAssumption DEF RowSound
<1>1. CASE s = Unset
  <2>1. v = InitialStability /\ Effective(s) = InitialStability
    BY <1>1 DEF OnRecall, Effective
  <2> QED BY <1>0, <2>1 DEF Below0
<1>2. CASE s # Unset /\ Below(FloorRatio, s, age)
  <2>1. v = LapseStability /\ Effective(s) = s
    BY <1>2 DEF OnRecall, Effective, LapseReset
  <2>2. LapseStability <= s /\ s \in Nat /\ LapseStability \in Nat
    BY <1>0, <1>2
  <2>3. Below(FloorRatio, LapseStability, age)
    BY <1>0, <1>2, <2>2, BelowMonotone
  <2>4. ~Below(FloorRatio, LapseStability, 0) /\ ~Below(FloorRatio, s, 0)
    BY <1>0, <2>2, TouchedNotBelow
  <2>5. v \in LapseStability..MaxStability
    BY <1>0, <2>1
  <2>6. r.age \in {0, age} => (Below(FloorRatio, LapseStability, r.age) <=> Below(FloorRatio, s, r.age))
    BY <1>2, <2>3, <2>4
  <2> QED BY <2>1, <2>5, <2>6 DEF Below0
<1>3. CASE s # Unset /\ ~Below(FloorRatio, s, age)
  <2>1. v = BoostStability(s) /\ Effective(s) = s
    BY <1>3 DEF OnRecall, Effective
  <2>2. s \in 1..MaxStability /\ s >= LapseStability
    BY <1>0, <1>3 DEF Unset
  <2>3. v \in s..MaxStability
    BY <2>1, <2>2, BoostRaises
  <2>4. v \in Nat /\ s \in Nat /\ s <= v /\ v \in LapseStability..MaxStability
    BY <1>0, <2>2, <2>3
  <2>5. ~Below(FloorRatio, v, age)
    BY <1>0, <1>3, <2>4, BelowMonotone
  <2>6. ~Below(FloorRatio, v, 0) /\ ~Below(FloorRatio, s, 0)
    BY <1>0, <2>4, TouchedNotBelow
  <2>7. r.age \in {0, age} => (Below(FloorRatio, v, r.age) <=> Below(FloorRatio, s, r.age))
    BY <1>3, <2>5, <2>6
  <2> QED BY <2>1, <2>4, <2>7 DEF Below0
<1> QED BY <1>1, <1>2, <1>3

LEMMA EventFields ==
  ASSUME IInv, NEW s \in Servers, recall[s].pc # "idle"
  PROVE  /\ recall[s] \in Event /\ EventSound(recall[s], rows, handmade)
         /\ recall[s].id \in Ids /\ recall[s].age \in 0..MaxAge /\ recall[s].new \in Nat
<1>1. recall[s] \in Event
  BY DEF IInv, TypeOK
<1>2. recall[s].id \in Ids /\ recall[s].age \in 0..MaxAge /\ recall[s].new \in Nat
  BY <1>1 DEF Event
<1> QED BY <1>1, <1>2 DEF IInv, EventsSound

LEMMA RecallReadsSafe ==
  ASSUME IInv, NEW s \in Servers, RecallReads(s)
  PROVE  IInv' /\ RowsStep
<1>1. PICK i \in Ids : /\ Active(i)
         /\ recall' = [recall EXCEPT ![s] =
              [pc |-> IF config.fsrs THEN "dynamics" ELSE "access",
               id |-> i, age |-> IF config.fsrs THEN rows[i].age ELSE 0, new |-> Unset]]
  BY DEF RecallReads
<1>2. PICK e : e = [pc |-> IF config.fsrs THEN "dynamics" ELSE "access",
                    id |-> i, age |-> IF config.fsrs THEN rows[i].age ELSE 0, new |-> Unset]
  OBVIOUS
<1>3. /\ UNCHANGED <<config, rows, ledger, update, dream, history, steady>>
      /\ begun' = begun + 1 /\ begun < MaxBegun /\ handmade' = handmade
  BY HistoryStays DEF RecallReads
<1>4. rows[i].age \in 0..MaxAge /\ 0 \in 0..MaxAge
  BY RowFields, RowAt, ForgettingAssumption
<1>5. e \in Event
  BY <1>2, <1>4 DEF Event, Unset
<1>6. RowsStep
  BY <1>3, RowsUnchanged
<1>7. EventSound(e, rows', handmade')
  BY <1>1, <1>2, <1>3 DEF EventSound, Active
<1>8. recall' \in [Servers -> Event \cup {[pc |-> "idle"]}] /\ EventsSound'
  BY <1>1, <1>2, <1>5, <1>6, <1>7, EventMoves
<1>9. begun' \in 0..MaxBegun
  BY <1>3, BegunSame
<1> QED BY <1>3, <1>6, <1>8, <1>9, BesideRuns

LEMMA ReadDynamicsSafe ==
  ASSUME IInv, NEW s \in Servers, ReadDynamics(s)
  PROVE  IInv' /\ RowsStep
<1>0. recall[s].pc = "dynamics"
  BY DEF ReadDynamics
<1>1. PICK i \in Ids : i = recall[s].id
  BY <1>0, EventFields
<1>2. PICK v : v = OnRecall(rows[i].dynamics.stability, recall[s].age)
  OBVIOUS
<1>3. PICK e : e = [recall[s] EXCEPT !.pc = "boost", !.age = 0, !.new = v]
  OBVIOUS
<1>4. /\ UNCHANGED <<config, rows, ledger, update, dream, begun, history, steady>>
      /\ handmade' = handmade
  BY HistoryStays DEF ReadDynamics
<1>5. recall' = [recall EXCEPT ![s] = e]
  BY <1>1, <1>2, <1>3 DEF ReadDynamics
<1>6. /\ rows[i] \in Row /\ rows[i].status # "new" /\ recall[s].age \in 0..MaxAge
      /\ There(rows[i]) => rows[i].age \in {0, recall[s].age}
      /\ i \notin handmade => RowSound(rows[i])
  BY <1>0, <1>1, RowAt, EventFields DEF EventSound
<1>7. v \in Nat \ {0}
  BY <1>2, <1>6, RowFields, OnRecallPositive
<1>8. i \notin handmade =>
        /\ v \in LapseStability..MaxStability
        /\ There(rows[i]) => (Below(FloorRatio, v, rows[i].age) <=> Below0(rows[i]))
  BY <1>2, <1>6, OnRecallNeutral
<1>9. e \in Event /\ e.pc = "boost" /\ e.id = i /\ e.new = v
  <2>1. recall[s] \in Event
    BY <1>0, EventFields
  <2>2. 0 \in 0..MaxAge
    BY ForgettingAssumption
  <2> QED BY <1>1, <1>3, <1>7, <2>1, <2>2 DEF Event
<1>10. RowsStep
  BY <1>4, RowsUnchanged
<1>11. EventSound(e, rows', handmade')
  BY <1>4, <1>6, <1>7, <1>8, <1>9 DEF EventSound
<1>12. recall' \in [Servers -> Event \cup {[pc |-> "idle"]}] /\ EventsSound'
  BY <1>5, <1>9, <1>10, <1>11, EventMoves
<1>13. begun' \in 0..MaxBegun
  BY <1>4, BegunSame
<1> QED BY <1>4, <1>10, <1>12, <1>13, BesideRuns

(* What the boost of a recall does to the table. *)
LEMMA BoostRecalledStep ==
  ASSUME IInv, NEW s \in Servers, BoostRecalled(s)
  PROVE  /\ RowsStep
         /\ \A j \in Ids : /\ rows'[j].dynamics.flagged = rows[j].dynamics.flagged
                           /\ rows'[j].dynamics.evb = rows[j].dynamics.evb
                           /\ rows'[j].age = rows[j].age /\ rows'[j].status = rows[j].status
<1>0. recall[s].pc = "boost"
  BY DEF BoostRecalled
<1>1. PICK i \in Ids : i = recall[s].id
  BY <1>0, EventFields
<1>2. PICK v \in Nat \ {0} : v = recall[s].new
  BY <1>0, EventFields DEF EventSound
<1>3. UNCHANGED history /\ UpdateDynamics(i, [stability |-> v])
  BY <1>1, <1>2 DEF BoostRecalled
<1>4. i \notin handmade =>
        /\ v \in LapseStability..MaxStability
        /\ Present(i) => (Below(FloorRatio, v, rows[i].age) <=> Below0(rows[i]))
  BY <1>0, <1>1, <1>2, RowAt, EventFields DEF EventSound
<1> QED BY <1>3, <1>4, StabilityStep

LEMMA BoostRecalledSafe ==
  ASSUME IInv, NEW s \in Servers, BoostRecalled(s)
  PROVE  IInv' /\ RowsStep
<1>0. recall[s].pc = "boost"
  BY DEF BoostRecalled
<1>1. PICK e : e = [recall[s] EXCEPT !.pc = "access", !.new = Unset]
  OBVIOUS
<1>2. /\ UNCHANGED <<config, ledger, update, dream, begun, history, steady>>
      /\ recall' = [recall EXCEPT ![s] = e]
  BY <1>1 DEF BoostRecalled
<1>3. RowsStep /\ \A j \in Ids : rows'[j].dynamics.flagged => rows[j].dynamics.flagged
  BY BoostRecalledStep
<1>4. e \in Event /\ e.pc = "access" /\ e.id = recall[s].id
  <2>1. recall[s] \in Event
    BY <1>0, EventFields
  <2> QED BY <1>1, <2>1 DEF Event, Unset
<1>5. EventSound(e, rows', handmade')
  <2>1. EventSound(recall[s], rows', handmade')
    BY <1>0, <1>3, EventStaysAt
  <2> QED BY <1>4, <2>1 DEF EventSound
<1>6. recall' \in [Servers -> Event \cup {[pc |-> "idle"]}] /\ EventsSound'
  BY <1>2, <1>3, <1>4, <1>5, EventMoves
<1>7. begun' \in 0..MaxBegun
  BY <1>2, BegunSame
<1> QED BY <1>2, <1>3, <1>6, <1>7, BesideRuns

(* A crystal is touched: its row q is as it was, but for its age and what  *)
(* counts in its value.                                                    *)
LEMMA Touched ==
  ASSUME IInv, UNCHANGED history, NEW i \in Ids, Present(i), NEW q \in Row,
         rows' = [rows EXCEPT ![i] = q],
         q.status = rows[i].status, q.age = 0, q.dynamics = rows[i].dynamics
  PROVE  /\ RowsStep
         /\ \A j \in Ids : rows'[j].dynamics = rows[j].dynamics
         /\ \A j \in Ids \ {i} : rows'[j] = rows[j]
         /\ There(rows'[i]) => rows'[i].age = 0
<1>1. PICK r : r = rows[i]
  OBVIOUS
<1>2. r \in Row /\ (i \notin handmade => RowSound(r)) /\ rows \in [Ids -> Row]
  BY <1>1, RowAt
<1>3. Follows(r, q) /\ Gentle(r, q) /\ (RowSound(r) => RowSound(q))
  BY <1>1 DEF RowSound, Gentle, Follows, There
<1>4. RowsStep
  BY <1>1, <1>2, <1>3, OneRowReplaced
<1> QED BY <1>2, <1>4

LEMMA AccessStep ==
  ASSUME IInv, UNCHANGED history, NEW i \in Ids, RecordAccess(i)
  PROVE  /\ RowsStep
         /\ \A j \in Ids : rows'[j].dynamics = rows[j].dynamics
         /\ \A j \in Ids \ {i} : rows'[j] = rows[j]
         /\ There(rows'[i]) => rows'[i].age = 0
<1>1. CASE Present(i)
  <2>1. PICK r : r = rows[i]
    OBVIOUS
  <2>2. PICK more : more = Min({r.hits + 1, MaxHits})
    OBVIOUS
  <2>3. PICK hit : hit = [r EXCEPT !.hits = more]
    OBVIOUS
  <2>4. PICK q : q = [hit EXCEPT !.age = 0]
    OBVIOUS
  <2>5. r \in Row /\ rows \in [Ids -> Row]
    BY <2>1, RowAt
  <2>6. rows' = [rows EXCEPT ![i].hits = Min({@ + 1, MaxHits}), ![i].age = 0]
    BY <1>1 DEF RecordAccess
  <2>7. rows' = [rows EXCEPT ![i] = q]
    BY <2>1, <2>2, <2>3, <2>4, <2>5, <2>6
  <2>8. more \in 0..MaxHits
    <3>1. r.hits \in 0..MaxHits /\ MaxHits \in Nat
      BY <2>5, RowFields, ForgettingAssumption
    <3>2. r.hits + 1 \in Nat
      BY <3>1
    <3> QED BY <2>2, <3>1, <3>2, MinOfTwo
  <2>9. hit \in Row /\ hit.status = r.status /\ hit.dynamics = r.dynamics
    BY <2>3, <2>5, <2>8 DEF Row
  <2>10. 0 \in 0..MaxAge
    BY ForgettingAssumption
  <2>11. q \in Row /\ q.status = r.status /\ q.age = 0 /\ q.dynamics = r.dynamics
    BY <2>4, <2>9, <2>10 DEF Row
  <2> QED BY <1>1, <2>1, <2>7, <2>11, Touched
<1>2. CASE ~Present(i)
  <2>1. rows' = rows
    BY <1>2 DEF RecordAccess
  <2> QED BY <1>2, <2>1, RowAt, RowsUnchanged
<1> QED BY <1>1, <1>2

LEMMA OutcomeStep ==
  ASSUME IInv, UNCHANGED history, NEW i \in Ids, NEW outcome \in Outcomes,
         RecordOutcome(i, outcome)
  PROVE  /\ RowsStep
         /\ \A j \in Ids : rows'[j].dynamics = rows[j].dynamics
         /\ \A j \in Ids \ {i} : rows'[j] = rows[j]
         /\ There(rows'[i]) => rows'[i].age = 0
<1>1. CASE Present(i)
  <2>1. PICK r : r = rows[i]
    OBVIOUS
  <2>2. PICK scored : scored = [r EXCEPT !.outcome = outcome]
    OBVIOUS
  <2>3. PICK q : q = [scored EXCEPT !.age = 0]
    OBVIOUS
  <2>4. r \in Row /\ rows \in [Ids -> Row]
    BY <2>1, RowAt
  <2>5. rows' = [rows EXCEPT ![i].outcome = outcome, ![i].age = 0]
    BY <1>1 DEF RecordOutcome
  <2>6. rows' = [rows EXCEPT ![i] = q]
    BY <2>1, <2>2, <2>3, <2>4, <2>5
  <2>7. scored \in Row /\ scored.status = r.status /\ scored.dynamics = r.dynamics
    BY <2>2, <2>4 DEF Row
  <2>8. 0 \in 0..MaxAge
    BY ForgettingAssumption
  <2>9. q \in Row /\ q.status = r.status /\ q.age = 0 /\ q.dynamics = r.dynamics
    BY <2>3, <2>7, <2>8 DEF Row
  <2> QED BY <1>1, <2>1, <2>6, <2>9, Touched
<1>2. CASE ~Present(i)
  <2>1. rows' = rows
    BY <1>2 DEF RecordOutcome
  <2> QED BY <1>2, <2>1, RowAt, RowsUnchanged
<1> QED BY <1>1, <1>2

LEMMA AccessSafe ==
  ASSUME IInv, NEW s \in Servers, Access(s)
  PROVE  IInv' /\ RowsStep
<1>0. recall[s].pc = "access"
  BY DEF Access
<1>1. PICK i \in Ids : i = recall[s].id
  BY <1>0, EventFields
<1>2. PICK e : e = IF config.evb THEN [recall[s] EXCEPT !.pc = "value"] ELSE Idle
  OBVIOUS
<1>3. UNCHANGED <<config, ledger, update, dream, begun, history, steady>>
  BY DEF Access
<1>4. recall' = [recall EXCEPT ![s] = e]
  BY <1>2 DEF Access
<1>5. RecordAccess(i)
  BY <1>1 DEF Access
<1>6. /\ RowsStep
      /\ \A j \in Ids : rows'[j].dynamics = rows[j].dynamics
      /\ There(rows'[i]) => rows'[i].age = 0
  BY <1>3, <1>5, AccessStep
<1>7. \/ e \in Event /\ e.pc = "value" /\ e.id = i
      \/ e = [pc |-> "idle"]
  <2>1. recall[s] \in Event
    BY <1>0, EventFields
  <2> QED BY <1>1, <1>2, <2>1 DEF Event, Idle
<1>8. e.pc # "idle" => EventSound(e, rows', handmade')
  <2>1. EventSound(recall[s], rows', handmade')
    BY <1>0, <1>6, EventStaysAt
  <2> QED BY <1>1, <1>6, <1>7, <2>1 DEF EventSound
<1>9. recall' \in [Servers -> Event \cup {[pc |-> "idle"]}] /\ EventsSound'
  BY <1>4, <1>6, <1>7, <1>8, EventMoves
<1>10. begun' \in 0..MaxBegun
  BY <1>3, BegunSame
<1> QED BY <1>3, <1>6, <1>9, <1>10, BesideRuns

LEMMA ReadValueSafe ==
  ASSUME IInv, NEW s \in Servers, ReadValue(s)
  PROVE  IInv' /\ RowsStep
<1>0. recall[s].pc = "value"
  BY DEF ReadValue
<1>1. PICK i \in Ids : i = recall[s].id
  BY <1>0, EventFields
<1>2. PICK v : v = EvbScore(rows[i])
  OBVIOUS
<1>3. PICK e : e = IF Present(i) THEN [recall[s] EXCEPT !.pc = "persist", !.new = v] ELSE Idle
  OBVIOUS
<1>4. /\ UNCHANGED <<config, rows, ledger, update, dream, begun, history, steady>>
      /\ handmade' = handmade
  BY HistoryStays DEF ReadValue
<1>5. recall' = [recall EXCEPT ![s] = e]
  BY <1>1, <1>2, <1>3 DEF ReadValue
<1>6. /\ rows[i] \in Row /\ rows[i].status # "new" /\ recall[s] \in Event
      /\ There(rows[i]) => rows[i].age = 0
  BY <1>0, <1>1, RowAt, EventFields DEF EventSound
<1>7. v \in Nat \ {0}
  BY <1>2, <1>6, RowFields, ValueType
<1>8. \/ e \in Event /\ e.pc = "persist" /\ e.id = i /\ e.new = v
      \/ e = [pc |-> "idle"]
  BY <1>1, <1>3, <1>6, <1>7 DEF Event, Idle
<1>9. e.pc # "idle" => EventSound(e, rows', handmade')
  BY <1>4, <1>6, <1>7, <1>8 DEF EventSound
<1>10. RowsStep
  BY <1>4, RowsUnchanged
<1>11. recall' \in [Servers -> Event \cup {[pc |-> "idle"]}] /\ EventsSound'
  BY <1>5, <1>8, <1>9, <1>10, EventMoves
<1>12. begun' \in 0..MaxBegun
  BY <1>4, BegunSame
<1> QED BY <1>4, <1>10, <1>11, <1>12, BesideRuns

LEMMA EventEnds ==
  ASSUME IInv, RowsStep, NEW s \in Servers, recall' = [recall EXCEPT ![s] = Idle]
  PROVE  recall' \in [Servers -> Event \cup {[pc |-> "idle"]}] /\ EventsSound'
<1>1. PICK e : e = Idle
  OBVIOUS
<1>2. e \in Event \cup {[pc |-> "idle"]} /\ e.pc = "idle"
  BY <1>1 DEF Idle
<1>3. recall' = [recall EXCEPT ![s] = e]
  BY <1>1
<1> QED BY <1>2, <1>3, EventMoves

LEMMA PersistValueSafe ==
  ASSUME IInv, NEW s \in Servers, PersistValue(s)
  PROVE  IInv' /\ RowsStep
<1>0. recall[s].pc = "persist"
  BY DEF PersistValue
<1>1. PICK i \in Ids : i = recall[s].id
  BY <1>0, EventFields
<1>2. PICK v \in Nat \ {0} : v = recall[s].new
  BY <1>0, EventFields DEF EventSound
<1>3. UpdateDynamics(i, [evb |-> v]) /\ recall' = [recall EXCEPT ![s] = Idle]
      /\ UNCHANGED <<config, ledger, update, dream, begun, history, steady>>
  BY <1>1, <1>2 DEF PersistValue
<1>4. RowsStep /\ \A j \in Ids : rows'[j].dynamics.flagged => rows[j].dynamics.flagged
  BY <1>3, ValueStep
<1>5. recall' \in [Servers -> Event \cup {[pc |-> "idle"]}] /\ EventsSound'
  BY <1>3, <1>4, EventEnds
<1>6. begun' \in 0..MaxBegun
  BY <1>3, BegunSame
<1> QED BY <1>3, <1>4, <1>5, <1>6, BesideRuns

LEMMA AccessEventFailsSafe ==
  ASSUME IInv, NEW s \in Servers, AccessEventFails(s)
  PROVE  IInv' /\ RowsStep
<1>1. /\ recall' = [recall EXCEPT ![s] = Idle]
      /\ UNCHANGED <<config, rows, ledger, update, dream, begun, history, steady>>
  BY DEF AccessEventFails
<1>2. RowsStep
  BY <1>1, RowsUnchanged
<1>3. recall' \in [Servers -> Event \cup {[pc |-> "idle"]}] /\ EventsSound'
  BY <1>1, <1>2, EventEnds
<1>4. begun' \in 0..MaxBegun
  BY <1>1, BegunSame
<1> QED BY <1>1, <1>2, <1>3, <1>4, BesideRuns

-----------------------------------------------------------------------------
(* Updates *)

LEMMA ScoreOutcomeSafe ==
  ASSUME IInv, NEW s \in Servers, ScoreOutcome(s)
  PROVE  IInv' /\ RowsStep
<1>1. PICK i \in Ids, outcome \in Outcomes : RecordOutcome(i, outcome)
  BY DEF ScoreOutcome
<1>2. /\ UNCHANGED <<config, ledger, recall, update, dream, history, steady>>
      /\ begun < MaxBegun /\ begun' = begun + 1
  BY DEF ScoreOutcome
<1>3. RowsStep /\ \A j \in Ids : rows'[j].dynamics = rows[j].dynamics
  BY <1>1, <1>2, OutcomeStep
<1>4. EventsSound' /\ recall' \in [Servers -> Event \cup {[pc |-> "idle"]}]
  BY <1>2, <1>3, EventsStay DEF IInv, TypeOK
<1>5. begun' \in 0..MaxBegun
  BY <1>2, BegunSame
<1> QED BY <1>2, <1>3, <1>4, <1>5, BesideRuns

(* The update of one server moves on to u, beside rows that stay.          *)
LEMMA UpdateMoves ==
  ASSUME IInv, NEW s \in Servers, NEW u \in Update \cup {[pc |-> "idle"]},
         update' = [update EXCEPT ![s] = u],
         handmade \subseteq handmade', LedgerGrows, LineageGrows,
         u.pc # "idle" => CopySound(u, handmade', ledger', lineage')
  PROVE  update' \in [Servers -> Update \cup {[pc |-> "idle"]}] /\ UpdatesSound'
<1>1. update \in [Servers -> Update \cup {[pc |-> "idle"]}]
  BY DEF IInv, TypeOK
<1>2. update'[s] = u /\ \A z \in Servers \ {s} : update'[z] = update[z]
  BY <1>1
<1> QED BY <1>1, <1>2, CopyStays DEF UpdatesSound

LEMMA UpdateEnds ==
  ASSUME IInv, NEW s \in Servers, update' = [update EXCEPT ![s] = Idle],
         handmade \subseteq handmade', LedgerGrows, LineageGrows
  PROVE  update' \in [Servers -> Update \cup {[pc |-> "idle"]}] /\ UpdatesSound'
<1>1. PICK u : u = Idle
  OBVIOUS
<1>2. u \in Update \cup {[pc |-> "idle"]} /\ u.pc = "idle"
  BY <1>1 DEF Idle
<1>3. update' = [update EXCEPT ![s] = u]
  BY <1>1
<1> QED BY <1>2, <1>3, UpdateMoves

(* A step of an update that writes nothing. *)
LEMMA UpdateWritesNothing ==
  ASSUME IInv, UNCHANGED <<config, rows, ledger, recall, dream, history, steady>>,
         begun' \in 0..MaxBegun,
         update' \in [Servers -> Update \cup {[pc |-> "idle"]}], UpdatesSound'
  PROVE  IInv' /\ RowsStep
<1>1. UNCHANGED <<config, rows, ledger, recall, dream, lineage, handmade, steady>>
  BY HistoryStays
<1>2. RowsStep
  BY RowsUnchanged
<1>3. TypeOK'
  BY <1>1 DEF IInv, TypeOK
<1>4. RowsSound' /\ DriftsSound' /\ Descended' /\ DriftAccounted'
  BY <1>1 DEF IInv, RowsSound, DriftsSound, Descended, DriftAccounted
<1>5. EventsSound' /\ RunsSound'
  BY <1>2, EventsStay, RunsStay
<1> QED BY <1>2, <1>3, <1>4, <1>5 DEF IInv

LEMMA UpdateReadsSafe ==
  ASSUME IInv, NEW s \in Servers, UpdateReads(s)
  PROVE  IInv' /\ RowsStep
<1>1. PICK i \in Ids :
        update' = [update EXCEPT ![s] = [pc |-> "insert", id |-> i, row |-> rows[i]]]
  BY DEF UpdateReads
<1>2. PICK u : u = [pc |-> "insert", id |-> i, row |-> rows[i]]
  OBVIOUS
<1>3. /\ UNCHANGED <<config, rows, ledger, recall, dream, history, steady>>
      /\ begun < MaxBegun /\ begun' = begun + 1
      /\ lineage' = lineage /\ handmade' = handmade /\ LineageGrows /\ LedgerGrows
  BY HistoryStays, LedgerSame DEF UpdateReads
<1>4. u \in Update /\ u.id = i /\ u.row = rows[i] /\ update' = [update EXCEPT ![s] = u]
  BY <1>1, <1>2, RowAt DEF Update
<1>5. CopySound(u, handmade, ledger, lineage)
  <2>1. i \notin handmade => RowSound(rows[i])
    BY RowAt
  <2>2. i \notin handmade /\ rows[i].dynamics.flagged => Recorded(ledger, lineage[i])
    BY DEF IInv, DriftAccounted, Recorded
  <2> QED BY <1>4, <2>1, <2>2 DEF CopySound
<1>6. update' \in [Servers -> Update \cup {[pc |-> "idle"]}] /\ UpdatesSound'
  BY <1>3, <1>4, <1>5, UpdateMoves
<1>7. begun' \in 0..MaxBegun
  BY <1>3, BegunSame
<1> QED BY <1>3, <1>6, <1>7, UpdateWritesNothing

LEMMA UpdateFailsSafe ==
  ASSUME IInv, NEW s \in Servers, UpdateFails(s)
  PROVE  IInv' /\ RowsStep
<1>1. /\ update' = [update EXCEPT ![s] = Idle]
      /\ UNCHANGED <<config, rows, ledger, recall, dream, begun, history, steady>>
      /\ handmade' = handmade /\ LineageGrows /\ LedgerGrows
  BY HistoryStays, LedgerSame DEF UpdateFails
<1>2. update' \in [Servers -> Update \cup {[pc |-> "idle"]}] /\ UpdatesSound'
  BY <1>1, UpdateEnds
<1>3. begun' \in 0..MaxBegun
  BY <1>1, BegunSame
<1> QED BY <1>1, <1>2, <1>3, UpdateWritesNothing

(* The row that an update inserts. *)
LEMMA RevisionType ==
  ASSUME NEW layer, NEW utility \in Utility, NEW dynamics \in Dynamics,
         NEW q, q = Revision(layer, utility, dynamics)
  PROVE  q \in Row /\ q.status = "active" /\ q.dynamics = dynamics
<1>1. utility.age \in 0..MaxAge /\ utility.hits \in 0..MaxHits /\ utility.outcome \in Outcomes
  BY DEF Utility
<1>2. 0 \in 0..MaxAge
  BY ForgettingAssumption
<1> QED BY <1>1, <1>2 DEF Revision, Row

(* What the insert of a revision j of i does to the tables and the history.*)
LEMMA InsertRevisionStep ==
  ASSUME IInv, NEW s \in Servers, InsertRevision(s)
  PROVE  \E i \in Ids, j \in Ids, q \in Row :
           /\ i = update[s].id
           /\ rows[j].status = "new" /\ q.status = "active"
           /\ rows' = [rows EXCEPT ![j] = q]
           /\ lineage' = [lineage EXCEPT ![j] = @ \cup lineage[i]]
           /\ \/ /\ q.dynamics = update[s].row.dynamics /\ i \notin handmade
                 /\ handmade' = handmade
              \/ handmade' = handmade \cup {j}
<1>0. update[s].pc = "insert"
  BY DEF InsertRevision
<1>1. PICK i \in Ids, read \in Row : i = update[s].id /\ read = update[s].row
  BY <1>0, UpdateFields
<1>2. PICK j \in Revisions(i), utility \in {UtilityOf(read)} \cup UtilityPatches,
           dynamics \in {read.dynamics} \cup DynamicsPatches :
        /\ rows' = [rows EXCEPT ![j] = Revision(LayerOf(i), utility, dynamics)]
        /\ lineage' = [lineage EXCEPT ![j] = @ \cup lineage[i]]
        /\ handmade' = IF dynamics = read.dynamics /\ i \notin handmade
                       THEN handmade ELSE handmade \cup {j}
  BY <1>1 DEF InsertRevision
<1>3. j \in Ids /\ rows[j].status = "new"
  BY DEF Revisions
<1>4. utility \in Utility
  <2>1. UtilityOf(read) \in Utility
    BY RowFields DEF UtilityOf, Utility
  <2> QED BY <2>1, ForgettingAssumption
<1>5. dynamics \in Dynamics
  BY RowFields, ForgettingAssumption
<1>6. PICK q : q = Revision(LayerOf(i), utility, dynamics)
  OBVIOUS
<1>7. q \in Row /\ q.status = "active" /\ q.dynamics = dynamics
  BY <1>4, <1>5, <1>6, RevisionType
<1>8. rows' = [rows EXCEPT ![j] = q]
  BY <1>2, <1>6
<1> QED BY <1>1, <1>2, <1>3, <1>7, <1>8

LEMMA InsertRevisionSafe ==
  ASSUME IInv, NEW s \in Servers, InsertRevision(s)
  PROVE  IInv' /\ RowsStep
<1>0. /\ update[s].pc = "insert" /\ update' = [update EXCEPT ![s] = Idle]
      /\ UNCHANGED <<config, ledger, recall, dream, begun, steady>>
  BY DEF InsertRevision
<1>1. PICK i \in Ids, j \in Ids, q \in Row :
        /\ i = update[s].id
        /\ rows[j].status = "new" /\ q.status = "active"
        /\ rows' = [rows EXCEPT ![j] = q]
        /\ lineage' = [lineage EXCEPT ![j] = @ \cup lineage[i]]
        /\ \/ /\ q.dynamics = update[s].row.dynamics /\ i \notin handmade
              /\ handmade' = handmade
           \/ handmade' = handmade \cup {j}
  BY InsertRevisionStep
<1>2. /\ rows \in [Ids -> Row] /\ lineage \in [Ids -> SUBSET Ids] /\ handmade \in SUBSET Ids
  BY DEF IInv, TypeOK
<1>3. /\ rows' \in [Ids -> Row] /\ rows'[j] = q /\ \A k \in Ids \ {j} : rows'[k] = rows[k]
      /\ lineage' \in [Ids -> SUBSET Ids] /\ handmade' \in SUBSET Ids
      /\ lineage'[j] = lineage[j] \cup lineage[i]
      /\ \A k \in Ids \ {j} : lineage'[k] = lineage[k]
  BY <1>1, <1>2
<1>4. handmade \subseteq handmade' /\ LineageGrows /\ LedgerGrows
  BY <1>0, <1>1, <1>3, LedgerSame DEF LineageGrows
<1>5. /\ i \notin handmade => RowSound(update[s].row)
      /\ i \notin handmade /\ update[s].row.dynamics.flagged => Recorded(ledger, lineage[i])
  BY <1>0, <1>1, UpdateFields DEF CopySound
<1>6. j \notin handmade' => /\ i \notin handmade /\ q.dynamics = update[s].row.dynamics
                            /\ RowSound(q)
  BY <1>1, <1>5 DEF RowSound
<1>7. RowsStep
  <2>1. Follows(rows[j], q) /\ Gentle(rows[j], q)
    BY <1>1 DEF Follows, Gentle, There
  <2>2. ASSUME NEW k \in Ids \ {j}
        PROVE  /\ Follows(rows[k], rows'[k]) /\ Gentle(rows[k], rows'[k])
               /\ rows'[k].status = "new" => rows'[k].age = 0
               /\ k \notin handmade' => RowSound(rows'[k])
    BY <1>3, <1>4, RowAt, FollowsRefl
  <2> QED BY <1>1, <1>3, <1>4, <1>6, <2>1, <2>2 DEF RowsStep
<1>8. update' \in [Servers -> Update \cup {[pc |-> "idle"]}] /\ UpdatesSound'
  BY <1>0, <1>4, UpdateEnds
<1>9. TypeOK'
  BY <1>0, <1>3, <1>8 DEF IInv, TypeOK
<1>10. RowsSound'
  BY <1>7 DEF RowsSound, RowsStep
<1>11. EventsSound' /\ RunsSound'
  BY <1>0, <1>7, EventsStay, RunsStay
<1>12. DriftsSound' /\ Descended'
  BY <1>0, <1>3 DEF IInv, DriftsSound, Descended
<1>13. DriftAccounted'
  <2>1. ASSUME NEW k \in Ids \ handmade', rows'[k].dynamics.flagged
        PROVE  \E n \in DOMAIN ledger : ledger[n][1] \in lineage'[k]
    <3>1. CASE k = j
      BY <1>3, <1>5, <1>6, <2>1, <3>1 DEF Recorded
    <3>2. CASE k # j
      BY <1>3, <1>4, <2>1, <3>2 DEF IInv, DriftAccounted
    <3> QED BY <3>1, <3>2
  <2> QED BY <1>0, <2>1 DEF IInv, DriftAccounted
<1> QED BY <1>7, <1>8, <1>9, <1>10, <1>11, <1>12, <1>13 DEF IInv

-----------------------------------------------------------------------------
(* The runs *)

LEMMA NoList ==
  <<>> \in Lists
<1>1. <<>> \in [{} -> Listing]
  OBVIOUS
<1> QED BY <1>1 DEF Lists

LEMMA NoRunType ==
  NoRun \in Run
BY NoList, EmptySeq DEF NoRun, Run, Unset

LEMMA ListedType ==
  ASSUME IInv, NEW S \in SUBSET Ids
  PROVE  Listed(S) \in Lists /\ DOMAIN Listed(S) = S
<1>1. ASSUME NEW i \in S
      PROVE  [age |-> rows[i].age, hits |-> rows[i].hits, outcome |-> rows[i].outcome,
              stability |-> Effective(rows[i].dynamics.stability),
              evb |-> rows[i].dynamics.evb] \in Listing
  BY RowFields, RowAt DEF Listing
<1>2. Listed(S) \in [S -> Listing]
  BY <1>1 DEF Listed
<1> QED BY <1>2 DEF Lists

(* The cutoff: of the valued crystals, no more than the share have a value *)
(* below it.                                                               *)
LEMMA CutoffSound ==
  ASSUME IInv
  PROVE  /\ EvbCutoff \in Nat
         /\ IsFiniteSet(Valued) /\ Cardinality(Valued) \in Nat
         /\ 100 * Cardinality({i \in Valued : rows[i].dynamics.evb < EvbCutoff})
              <= EvbPercent * Cardinality(Valued)
<1> DEFINE f == [i \in Valued |-> rows[i].dynamics.evb]
           n == Cardinality(Valued)
           index == CutoffIndex(n)
           Fits(v) == /\ Cardinality({i \in Valued : f[i] < v}) <= index
                      /\ index < Cardinality({i \in Valued : f[i] <= v})
<1>1. Valued \in SUBSET Ids /\ IsFiniteSet(Valued) /\ n \in Nat
  BY FS_Subset, FS_CardinalityType, ForgettingAssumption DEF Valued
<1>2. \A i \in Valued : rows[i].dynamics.evb \in Nat
  BY <1>1, RowFields, RowAt
<1>3. f \in [Valued -> Nat]
  BY <1>2
<1>4. CASE Valued = {}
  <2>1. EvbCutoff = 0
    BY <1>4 DEF EvbCutoff, Unset
  <2>2. {i \in Valued : rows[i].dynamics.evb < EvbCutoff} = {} /\ Cardinality(Valued) = 0
    BY <1>4, FS_EmptySet
  <2>3. Cardinality({i \in Valued : rows[i].dynamics.evb < EvbCutoff}) = 0
    BY <2>2, FS_EmptySet
  <2>4. EvbPercent * 0 = 0 /\ 100 * 0 = 0
    BY ForgettingAssumption
  <2> QED BY <1>1, <2>1, <2>2, <2>3, <2>4
<1>5. CASE Valued # {}
  <2>1. n # 0
    BY <1>1, <1>5, FS_EmptySet
  <2>2. index \in Nat /\ index < n /\ 100 * index <= EvbPercent * n
    <3>1. EvbPercent * n \in Nat
      BY <1>1, ProductType, ForgettingAssumption
    <3> DEFINE share == (EvbPercent * n) \div 100
    <3>2. share \in Nat /\ 100 * share <= EvbPercent * n
      BY <3>1
    <3>3. n - 1 \in Nat
      BY <1>1, <2>1
    <3>4. index = IF n - 1 <= share THEN n - 1 ELSE share
      BY <3>2, <3>3, MinOfTwo DEF CutoffIndex
    <3> HIDE DEF share, index, n
    <3> QED BY <1>1, <3>1, <3>2, <3>3, <3>4
  <2>3. \E v \in {f[i] : i \in Valued} : Fits(v)
    <3>1. PICK S : S = Valued
      OBVIOUS
    <3>2. PICK g \in [S -> Nat] : g = f
      BY <1>3, <3>1
    <3>3. PICK k \in Nat : k = index
      BY <2>2
    <3>4. IsFiniteSet(S) /\ k < Cardinality(S)
      BY <1>1, <2>2, <3>1, <3>3
    <3> HIDE DEF f, n, index, Fits
    <3>5. PICK v \in {g[i] : i \in S} :
            /\ Cardinality({i \in S : g[i] < v}) <= k
            /\ k < Cardinality({i \in S : g[i] <= v})
      BY <3>4, OrderStatistic
    <3>6. v \in {f[i] : i \in Valued} /\ Fits(v)
      BY <3>1, <3>2, <3>3, <3>5 DEF Fits
    <3> QED BY <3>6
  <2>4. EvbCutoff = CHOOSE v \in {f[i] : i \in Valued} : Fits(v)
    <3>1. {f[i] : i \in Valued} = {rows[i].dynamics.evb : i \in Valued}
      OBVIOUS
    <3>2. \A v : /\ {i \in Valued : f[i] < v} = {i \in Valued : rows[i].dynamics.evb < v}
                 /\ {i \in Valued : f[i] <= v} = {i \in Valued : rows[i].dynamics.evb <= v}
      OBVIOUS
    <3> QED BY <1>5, <3>1, <3>2 DEF EvbCutoff
  <2>5. EvbCutoff \in {f[i] : i \in Valued} /\ Fits(EvbCutoff)
    BY <2>3, <2>4
  <2>6. EvbCutoff \in Nat
    BY <1>3, <2>5
  <2>7. {i \in Valued : f[i] < EvbCutoff} = {i \in Valued : rows[i].dynamics.evb < EvbCutoff}
    OBVIOUS
  <2>8. Cardinality({i \in Valued : rows[i].dynamics.evb < EvbCutoff}) \in Nat
    BY <1>1, FS_Subset, FS_CardinalityType
  <2>9. Cardinality({i \in Valued : rows[i].dynamics.evb < EvbCutoff}) <= index
    BY <2>5, <2>7
  <2>10. EvbPercent * n \in Nat
    BY <1>1, ProductType, ForgettingAssumption
  <2> HIDE DEF index, n
  <2>11. 100 * Cardinality({i \in Valued : rows[i].dynamics.evb < EvbCutoff}) <= EvbPercent * n
    BY <2>2, <2>8, <2>9, <2>10
  <2> QED BY <1>1, <2>6, <2>11 DEF n
<1> QED BY <1>4, <1>5

(* A step of the run of d, which leaves recalls and updates alone. *)
LEMMA BesideRecalls ==
  ASSUME IInv, RowsStep, UNCHANGED <<config, recall, update, history>>,
         begun' \in 0..MaxBegun, steady' \in [Dreamers -> SUBSET Ids],
         ledger' \in Seq(Ids \X Ids \X Dreamers), LedgerGrows,
         dream' \in [Dreamers -> Run], RunsSound', DriftsSound', DriftAccounted'
  PROVE  IInv'
<1>1. UNCHANGED <<config, recall, update, lineage, handmade>> /\ LineageGrows
      /\ handmade \subseteq handmade'
  BY HistoryStays
<1>2. TypeOK'
  BY <1>1 DEF IInv, TypeOK, RowsStep
<1>3. RowsSound' /\ Descended'
  BY <1>1 DEF IInv, RowsSound, RowsStep, Descended
<1>4. EventsSound' /\ UpdatesSound'
  BY <1>1, EventsStay, UpdatesStay
<1> QED BY <1>2, <1>3, <1>4 DEF IInv

(* A step of the run of d that leaves the ledger and the marks alone. *)
LEMMA RunWrites ==
  ASSUME IInv, RowsStep, UNCHANGED <<config, ledger, recall, update, history>>,
         begun' \in 0..MaxBegun, steady' \in [Dreamers -> SUBSET Ids],
         \A i \in Ids : rows'[i].dynamics.flagged => rows[i].dynamics.flagged,
         NEW d \in Dreamers, NEW run \in Run, Goes(d, run),
         RunSound(run, rows', handmade'), DriftSound(d, run, ledger)
  PROVE  IInv'
<1>1. dream' \in [Dreamers -> Run] /\ RunsSound'
  BY RunMoves
<1>2. LedgerGrows /\ \A n \in DOMAIN ledger' : n \in DOMAIN ledger
  BY LedgerSame
<1>3. DriftsSound'
  BY <1>2, DriftsMove
<1>4. DriftAccounted'
  BY AccountStays
<1>5. ledger' \in Seq(Ids \X Ids \X Dreamers)
  BY LedgerFields
<1> QED BY <1>1, <1>2, <1>3, <1>4, <1>5, BesideRecalls

(* A step of the run of d that reads, and writes nothing. *)
LEMMA RunReads ==
  ASSUME IInv, UNCHANGED <<config, rows, ledger, recall, update, history>>,
         begun' \in 0..MaxBegun, steady' \in [Dreamers -> SUBSET Ids],
         NEW d \in Dreamers, NEW run \in Run, Goes(d, run),
         RunSound(run, rows, handmade), DriftSound(d, run, ledger)
  PROVE  IInv' /\ RowsStep
<1>1. RowsStep
  BY RowsUnchanged
<1>2. RunSound(run, rows', handmade')
  BY HistoryStays
<1>3. \A i \in Ids : rows'[i].dynamics.flagged => rows[i].dynamics.flagged
  OBVIOUS
<1> QED BY <1>1, <1>2, <1>3, RunWrites

(* A phase in which nothing is carried along. *)
LEMMA LightPhase ==
  ASSUME NEW run, NEW d, NEW t, NEW h, NEW log,
         run.pc \notin {"resurface", "judge", "give up", "drift", "flag"}
  PROVE  RunSound(run, t, h) /\ DriftSound(d, run, log)
BY DEF RunSound, DriftSound

LEMMA SteadySame ==
  ASSUME IInv, UNCHANGED <<begun, steady>>
  PROVE  begun' \in 0..MaxBegun /\ steady' \in [Dreamers -> SUBSET Ids]
BY DEF IInv, TypeOK

LEMMA RunStartsSafe ==
  ASSUME IInv, NEW d \in Dreamers, RunStarts(d)
  PROVE  IInv' /\ RowsStep
<1>1. PICK pc \in {"resurface cutoff", "drift list", "prune cutoff"} :
        Goes(d, [NoRun EXCEPT !.pc = pc])
  BY DEF RunStarts
<1>2. PICK run : run = [NoRun EXCEPT !.pc = pc]
  OBVIOUS
<1>3. /\ UNCHANGED <<config, rows, ledger, recall, update, history, steady>>
      /\ begun' = begun + 1 /\ begun < MaxBegun /\ Goes(d, run)
  BY <1>1, <1>2 DEF RunStarts
<1>4. run \in Run /\ run.pc = pc
  BY <1>2, NoRunType DEF Run
<1>5. begun' \in 0..MaxBegun /\ steady' \in [Dreamers -> SUBSET Ids]
  BY <1>3, BegunSame DEF IInv, TypeOK
<1>6. RunSound(run, rows, handmade) /\ DriftSound(d, run, ledger)
  BY <1>4, LightPhase
<1> QED BY <1>3, <1>4, <1>5, <1>6, RunReads

LEMMA ResurfaceCutoffSafe ==
  ASSUME IInv, NEW d \in Dreamers, ResurfaceCutoff(d)
  PROVE  IInv' /\ RowsStep
<1>1. PICK run : run = [dream[d] EXCEPT !.pc = "resurface list", !.cutoff = EvbCutoff]
  OBVIOUS
<1>2. UNCHANGED <<config, rows, ledger, recall, update, begun, history, steady>> /\ Goes(d, run)
  BY <1>1 DEF ResurfaceCutoff
<1>3. run \in Run /\ run.pc = "resurface list"
  <2>1. dream[d] \in Run /\ EvbCutoff \in Nat
    BY RunFields, CutoffSound
  <2> QED BY <1>1, <2>1 DEF Run
<1>4. RunSound(run, rows, handmade) /\ DriftSound(d, run, ledger)
  BY <1>3, LightPhase
<1> QED BY <1>2, <1>3, <1>4, SteadySame, RunReads

LEMMA ResurfaceListSafe ==
  ASSUME IInv, NEW d \in Dreamers, ResurfaceList(d)
  PROVE  IInv' /\ RowsStep
<1>1. PICK list : list = Listed({i \in Ids : Active(i)})
  OBVIOUS
<1>2. PICK worth : worth = WorthResurfacing(list, dream[d].cutoff)
  OBVIOUS
<1>3. PICK short : short = [i \in worth |-> list[i]]
  OBVIOUS
<1>4. PICK run : run = [dream[d] EXCEPT !.pc = "resurface", !.todo = worth, !.list = short]
  OBVIOUS
<1>5. UNCHANGED <<config, rows, ledger, recall, update, begun, history, steady>> /\ Goes(d, run)
  BY <1>1, <1>2, <1>3, <1>4 DEF ResurfaceList
<1>6. list \in Lists /\ DOMAIN list = {i \in Ids : Active(i)}
  BY <1>1, ListedType
<1>7. worth \subseteq DOMAIN list /\ worth \in SUBSET Ids
  BY <1>2, <1>6 DEF WorthResurfacing
<1>8. short \in Lists /\ DOMAIN short = worth
  BY <1>3, <1>6, <1>7, ListFields
<1>9. run \in Run /\ run.pc = "resurface" /\ run.todo = worth /\ run.list = short
  <2>1. dream[d] \in Run
    BY RunFields
  <2> QED BY <1>4, <1>7, <1>8, <2>1 DEF Run
<1>10. ASSUME NEW i \in worth
       PROVE  /\ rows[i].status # "new"
              /\ i \notin handmade => ListingSound(short[i], rows[i])
  <2>1. short[i] = list[i] /\ i \in Ids /\ Active(i) /\ list[i] \in Listing
    BY <1>3, <1>6, <1>7, ListFields
  <2>2. Above(FloorRatio, list[i].stability, list[i].age)
    BY <1>2 DEF WorthResurfacing
  <2>3. /\ list[i].age = rows[i].age
        /\ list[i].stability = Effective(rows[i].dynamics.stability)
    BY <1>1, <2>1 DEF Listed
  <2>4. ~Below(FloorRatio, list[i].stability, list[i].age)
    <3>1. /\ 1000 * Elapsed(list[i].age) \in Nat
          /\ FloorRatio * list[i].stability \in Nat
      <4>1. rows[i].age \in Nat /\ Effective(rows[i].dynamics.stability) \in Nat
        BY <2>1, RowAt, RowFields
      <4>2. FloorRatio \in Nat
        BY ForgettingAssumption
      <4>3. Elapsed(list[i].age) \in Nat
        BY <2>3, <4>1, ElapsedType
      <4>4. FloorRatio * list[i].stability \in Nat
        BY <2>3, <4>1, <4>2, ProductType
      <4> QED BY <4>3, <4>4
    <3> QED BY <2>2, <3>1 DEF Above, Below
  <2>5. i \notin handmade => list[i].stability \in LapseStability..MaxStability
    <3>1. i \notin handmade => RowSound(rows[i])
      BY <2>1, RowAt
    <3> QED BY <2>3, <3>1, ForgettingAssumption DEF RowSound, Effective
  <2> QED BY <2>1, <2>3, <2>4, <2>5 DEF ListingSound, Below0, Active
<1>11. RunSound(run, rows, handmade)
  BY <1>8, <1>9, <1>10 DEF RunSound
<1>12. DriftSound(d, run, ledger)
  BY <1>9 DEF DriftSound
<1> QED BY <1>5, <1>9, <1>11, <1>12, SteadySame, RunReads

(* What a re-surfacing writes over a row. *)
LEMMA ResurfaceStep ==
  ASSUME IInv, NEW d \in Dreamers, NEW i \in Ids, Resurface(d, i)
  PROVE  /\ RowsStep
         /\ \A j \in Ids : /\ rows'[j].dynamics.flagged = rows[j].dynamics.flagged
                           /\ rows'[j].dynamics.evb = rows[j].dynamics.evb
                           /\ rows'[j].age = rows[j].age /\ rows'[j].status = rows[j].status
<1>1. PICK item : item = dream[d].list[i]
  OBVIOUS
<1>2. PICK v : v = BoostStability(item.stability)
  OBVIOUS
<1>3. /\ dream[d].pc = "resurface" /\ i \in dream[d].todo
      /\ UpdateDynamics(i, [stability |-> v]) /\ UNCHANGED history
  BY <1>1, <1>2 DEF Resurface
<1>4. /\ i \in DOMAIN dream[d].list /\ (i \notin handmade => ListingSound(item, rows[i]))
  BY <1>1, <1>3, RunFields DEF RunSound
<1>5. item \in Listing
  BY <1>1, <1>4, RunFields
<1>6. item.stability \in Nat \ {0} /\ item.age \in Nat
  <2>1. item.stability \in Nat \ {0} /\ item.age \in 0..MaxAge
    BY <1>5 DEF Listing
  <2> QED BY <2>1, ForgettingAssumption
<1>7. v \in Nat \ {0}
  BY <1>2, <1>6, BoostPositive
<1>8. ASSUME i \notin handmade
      PROVE  /\ v \in LapseStability..MaxStability
             /\ Present(i) => (Below(FloorRatio, v, rows[i].age) <=> Below0(rows[i]))
  <2>1. item.stability \in LapseStability..MaxStability /\ ~Below(FloorRatio, item.stability, item.age)
    BY <1>4, <1>8 DEF ListingSound
  <2>2. item.stability \in 1..MaxStability /\ LapseStability \in Nat /\ MaxStability \in Nat
    BY <2>1, ForgettingAssumption
  <2>3. v \in item.stability..MaxStability
    BY <1>2, <2>2, BoostRaises
  <2>4. v \in LapseStability..MaxStability /\ item.stability <= v /\ FloorRatio \in Nat
    BY <2>1, <2>2, <2>3, ForgettingAssumption
  <2>5. ~Below(FloorRatio, v, item.age)
    BY <1>6, <1>7, <2>1, <2>4, BelowMonotone
  <2>6. ~Below(FloorRatio, v, 0)
    BY <1>7, <2>4, TouchedNotBelow
  <2>7. Present(i) => rows[i].age \in {0, item.age} /\ ~Below0(rows[i])
    BY <1>4, <1>8, RowAt DEF ListingSound
  <2> QED BY <2>4, <2>5, <2>6, <2>7
<1> QED BY <1>3, <1>7, <1>8, StabilityStep

LEMMA ResurfaceSafe ==
  ASSUME IInv, NEW d \in Dreamers, NEW i \in Ids, Resurface(d, i)
  PROVE  IInv' /\ RowsStep
<1>1. PICK run : run = [dream[d] EXCEPT !.todo = @ \ {i}]
  OBVIOUS
<1>2. /\ UNCHANGED <<config, ledger, recall, update, begun, history, steady>>
      /\ dream[d].pc = "resurface" /\ Goes(d, run)
  BY <1>1 DEF Resurface
<1>3. RowsStep /\ \A j \in Ids : rows'[j].dynamics.flagged => rows[j].dynamics.flagged
  BY ResurfaceStep
<1>4. /\ run \in Run /\ run.pc = "resurface" /\ run.list = dream[d].list
      /\ run.todo = dream[d].todo \ {i}
  <2>1. dream[d] \in Run
    BY RunFields
  <2> QED BY <1>1, <1>2, <2>1 DEF Run
<1>5. RunSound(run, rows', handmade')
  BY <1>2, <1>3, <1>4, ToBoostStays DEF RunSound
<1>6. DriftSound(d, run, ledger)
  BY <1>4 DEF DriftSound
<1> QED BY <1>2, <1>3, <1>4, <1>5, <1>6, SteadySame, RunWrites

LEMMA ResurfacedSafe ==
  ASSUME IInv, NEW d \in Dreamers, Resurfaced(d)
  PROVE  IInv' /\ RowsStep
<1>1. PICK pc \in {"drift list", "prune cutoff"} :
        Goes(d, [dream[d] EXCEPT !.pc = pc, !.list = <<>>, !.cutoff = Unset])
  BY DEF Resurfaced
<1>2. PICK run : run = [dream[d] EXCEPT !.pc = pc, !.list = <<>>, !.cutoff = Unset]
  OBVIOUS
<1>3. UNCHANGED <<config, rows, ledger, recall, update, begun, history, steady>> /\ Goes(d, run)
  BY <1>1, <1>2 DEF Resurfaced
<1>4. run \in Run /\ run.pc = pc
  <2>1. dream[d] \in Run /\ <<>> \in Lists
    BY RunFields, NoList
  <2> QED BY <1>2, <2>1 DEF Run, Unset
<1>5. RunSound(run, rows, handmade) /\ DriftSound(d, run, ledger)
  BY <1>4, LightPhase
<1> QED BY <1>3, <1>4, <1>5, SteadySame, RunReads

(* The check for drift *)

LEMMA DriftListSafe ==
  ASSUME IInv, NEW d \in Dreamers, DriftList(d)
  PROVE  IInv' /\ RowsStep
<1>1. PICK S : S = {i \in Ids : Active(i) /\ LayerOf(i) = "semantic"}
  OBVIOUS
<1>2. PICK run : run = [dream[d] EXCEPT !.pc = "drift seen", !.todo = S]
  OBVIOUS
<1>3. UNCHANGED <<config, rows, ledger, recall, update, begun, history, steady>> /\ Goes(d, run)
  BY <1>1, <1>2 DEF DriftList
<1>4. run \in Run /\ run.pc = "drift seen"
  <2>1. dream[d] \in Run /\ S \in SUBSET Ids
    BY <1>1, RunFields
  <2> QED BY <1>2, <2>1 DEF Run
<1>5. RunSound(run, rows, handmade) /\ DriftSound(d, run, ledger)
  BY <1>4, LightPhase
<1> QED BY <1>3, <1>4, <1>5, SteadySame, RunReads

LEMMA DriftSeenSafe ==
  ASSUME IInv, NEW d \in Dreamers, DriftSeen(d)
  PROVE  IInv' /\ RowsStep
<1>1. PICK S : S = PairsIn(ledger)
  OBVIOUS
<1>2. PICK run : run = [dream[d] EXCEPT !.pc = "drift", !.seen = S]
  OBVIOUS
<1>3. UNCHANGED <<config, rows, ledger, recall, update, begun, history, steady>> /\ Goes(d, run)
  BY <1>1, <1>2 DEF DriftSeen
<1>4. S \in SUBSET (Ids \X Ids) /\ \A n \in DOMAIN ledger : <<ledger[n][1], ledger[n][2]>> \in S
  BY <1>1, LedgerFields DEF PairsIn, ToSet
<1>5. run \in Run /\ run.pc = "drift" /\ run.seen = S
  <2>1. dream[d] \in Run
    BY RunFields
  <2> QED BY <1>2, <1>4, <2>1 DEF Run
<1>6. RunSound(run, rows, handmade)
  BY <1>5 DEF RunSound
<1>7. DriftSound(d, run, ledger)
  BY <1>4, <1>5 DEF DriftSound
<1> QED BY <1>3, <1>5, <1>6, <1>7, SteadySame, RunReads

LEMMA RecordDriftSafe ==
  ASSUME IInv, NEW d \in Dreamers, NEW i \in Ids, RecordDrift(d, i)
  PROVE  IInv' /\ RowsStep
<1>1. /\ dream[d].pc = "drift" /\ i \in dream[d].todo
      /\ UNCHANGED <<config, rows, recall, update, begun, history, steady>>
  BY DEF RecordDrift
<1>2. PICK old \in Run : old = dream[d] /\ DriftSound(d, old, ledger)
  BY RunFields
<1>3. CASE DriftsFrom(i, old.seen) = {}
  <2>1. PICK run : run = [old EXCEPT !.todo = @ \ {i}]
    OBVIOUS
  <2>2. Goes(d, run) /\ ledger' = ledger
    BY <1>2, <1>3, <2>1 DEF RecordDrift
  <2>3. /\ run \in Run /\ run.pc = "drift" /\ run.seen = old.seen
        /\ run.todo = old.todo \ {i}
    BY <1>1, <1>2, <2>1 DEF Run
  <2>4. RunSound(run, rows, handmade)
    BY <2>3 DEF RunSound
  <2>5. DriftSound(d, run, ledger)
    BY <1>1, <1>2, <2>3 DEF DriftSound
  <2> QED BY <1>1, <2>2, <2>3, <2>4, <2>5, SteadySame, RunReads
<1>4. CASE DriftsFrom(i, old.seen) # {}
  <2>1. PICK p \in DriftsFrom(i, old.seen) : ledger' = Append(ledger, <<i, p, d>>)
    BY <1>2, <1>4 DEF RecordDrift
  <2>2. PICK run : run = [old EXCEPT !.pc = "flag", !.doomed = {i}]
    OBVIOUS
  <2>3. Goes(d, run)
    BY <1>2, <1>4, <2>2 DEF RecordDrift
  <2>4. PICK entry \in Ids \X Ids \X Dreamers :
          /\ entry = <<i, p, d>> /\ entry[1] = i /\ entry[3] = d
          /\ <<entry[1], entry[2]>> \notin old.seen
    <3>1. p \in Ids /\ <<i, p>> \notin old.seen
      BY <2>1 DEF DriftsFrom
    <3>2. PICK entry : entry = <<i, p, d>>
      OBVIOUS
    <3>3. /\ entry \in Ids \X Ids \X Dreamers
          /\ entry[1] = i /\ entry[2] = p /\ entry[3] = d
      BY <3>1, <3>2
    <3> QED BY <3>1, <3>2, <3>3
  <2>5. /\ ledger' \in Seq(Ids \X Ids \X Dreamers)
        /\ DOMAIN ledger' = DOMAIN ledger \cup {Len(ledger) + 1}
        /\ Len(ledger) + 1 \notin DOMAIN ledger
        /\ ledger'[Len(ledger) + 1] = entry
        /\ \A n \in DOMAIN ledger : ledger'[n] = ledger[n]
    BY <2>1, <2>4, LedgerFields
  <2>6. LedgerGrows /\ \A n \in DOMAIN ledger' : n \in DOMAIN ledger \/ ledger'[n][3] = d
    BY <2>4, <2>5 DEF LedgerGrows
  <2>7. /\ run \in Run /\ run.pc = "flag" /\ run.seen = old.seen
        /\ run.todo = old.todo /\ run.doomed = {i}
    BY <2>2 DEF Run
  <2>8. RunSound(run, rows', handmade')
    BY <2>7 DEF RunSound
  <2>9. \A n \in DOMAIN ledger : ledger[n][3] = d =>
          <<ledger[n][1], ledger[n][2]>> \in old.seen \/ ledger[n][1] \notin old.todo
    BY <1>1, <1>2 DEF DriftSound
  <2>10. DriftSound(d, run, ledger')
    <3>1. ASSUME NEW n \in DOMAIN ledger', ledger'[n][3] = d
          PROVE  \/ <<ledger'[n][1], ledger'[n][2]>> \in run.seen
                 \/ ledger'[n][1] \notin run.todo
                 \/ ledger'[n][1] \in run.doomed
      BY <2>4, <2>5, <2>7, <2>9, <3>1
    <3>2. \A c \in run.doomed : \E n \in DOMAIN ledger' : ledger'[n][1] = c
      BY <2>4, <2>5, <2>7
    <3> QED BY <2>7, <3>1, <3>2 DEF DriftSound
  <2>11. RowsStep
    BY <1>1, RowsUnchanged
  <2>12. dream' \in [Dreamers -> Run] /\ RunsSound'
    BY <2>3, <2>7, <2>8, <2>11, RunMoves
  <2>13. DriftsSound'
    BY <2>3, <2>6, <2>10, DriftsMove
  <2>14. \A n \in DOMAIN ledger : ledger[n] # entry
    BY <1>1, <1>2, <2>4, <2>9
  <2>15. IsInjective(ledger')
    <3>1. IsInjective(ledger)
      BY DEF IInv, DriftAccounted
    <3> SUFFICES ASSUME NEW a \in DOMAIN ledger', NEW b \in DOMAIN ledger', ledger'[a] = ledger'[b]
                 PROVE  a = b
      BY DEF IsInjective
    <3> QED BY <2>5, <2>14, <3>1 DEF IsInjective
  <2>16. DriftAccounted'
    BY <1>1, <2>6, <2>15, HistoryStays DEF IInv, DriftAccounted, LedgerGrows
  <2> QED BY <1>1, <2>5, <2>6, <2>11, <2>12, <2>13, <2>16, SteadySame, BesideRecalls
<1> QED BY <1>3, <1>4

LEMMA FlagSafe ==
  ASSUME IInv, NEW d \in Dreamers, NEW i \in Ids, Flag(d, i)
  PROVE  IInv' /\ RowsStep
<1>1. PICK old \in Run : old = dream[d] /\ DriftSound(d, old, ledger)
  BY RunFields
<1>2. PICK run : run = [old EXCEPT !.pc = "drift", !.todo = @ \ {i}, !.doomed = {}]
  OBVIOUS
<1>3. /\ old.pc = "flag" /\ i \in old.doomed
      /\ UpdateDynamics(i, [flagged |-> TRUE]) /\ Goes(d, run)
      /\ UNCHANGED <<config, ledger, recall, update, begun, history, steady>>
  BY <1>1, <1>2 DEF Flag
<1>4. RowsStep /\ \A j \in Ids \ {i} : rows'[j] = rows[j]
  BY <1>3, MarkStep
<1>5. /\ run \in Run /\ run.pc = "drift" /\ run.seen = old.seen
      /\ run.todo = old.todo \ {i} /\ run.doomed = {}
  BY <1>2 DEF Run
<1>6. RunSound(run, rows', handmade')
  BY <1>5 DEF RunSound
<1>7. DriftSound(d, run, ledger')
  <2>1. \A c \in old.doomed : c = i
    BY <1>1, <1>3 DEF DriftSound
  <2> QED BY <1>1, <1>3, <1>5, <2>1 DEF DriftSound
<1>8. LedgerGrows /\ (\A n \in DOMAIN ledger' : n \in DOMAIN ledger)
      /\ ledger' \in Seq(Ids \X Ids \X Dreamers)
  BY <1>3, LedgerSame, LedgerFields
<1>9. dream' \in [Dreamers -> Run] /\ RunsSound'
  BY <1>3, <1>4, <1>5, <1>6, RunMoves
<1>10. DriftsSound'
  BY <1>3, <1>7, <1>8, DriftsMove
<1>11. DriftAccounted'
  <2>1. PICK n \in DOMAIN ledger : ledger[n][1] = i
    BY <1>1, <1>3 DEF DriftSound
  <2>2. i \in lineage[i]
    BY DEF IInv, Descended
  <2> QED BY <1>3, <1>4, <2>1, <2>2, HistoryStays DEF IInv, DriftAccounted
<1> QED BY <1>3, <1>4, <1>8, <1>9, <1>10, <1>11, SteadySame, BesideRecalls

LEMMA DriftCheckedSafe ==
  ASSUME IInv, NEW d \in Dreamers, DriftChecked(d)
  PROVE  IInv' /\ RowsStep
<1>1. PICK run : run = [dream[d] EXCEPT !.pc = "prune cutoff", !.seen = {}]
  OBVIOUS
<1>2. UNCHANGED <<config, rows, ledger, recall, update, begun, history, steady>> /\ Goes(d, run)
  BY <1>1 DEF DriftChecked
<1>3. run \in Run /\ run.pc = "prune cutoff"
  <2>1. dream[d] \in Run
    BY RunFields
  <2> QED BY <1>1, <2>1 DEF Run
<1>4. RunSound(run, rows, handmade) /\ DriftSound(d, run, ledger)
  BY <1>3, LightPhase
<1> QED BY <1>2, <1>3, <1>4, SteadySame, RunReads

(* The prune *)

LEMMA LayerType ==
  ASSUME IInv, NEW d \in Dreamers, dream[d].layers # <<>>
  PROVE  Tail(dream[d].layers) \in Seq(Layers)
<1>1. dream[d].layers \in Seq(Layers)
  BY RunFields
<1> QED BY <1>1, HeadTailProperties

LEMMA PruneCutoffSafe ==
  ASSUME IInv, NEW d \in Dreamers, PruneCutoff(d)
  PROVE  IInv' /\ RowsStep
<1>1. PICK V : V = IF config.fsrs THEN Valued ELSE {}
  OBVIOUS
<1>2. PICK c : c = IF config.fsrs THEN EvbCutoff ELSE Unset
  OBVIOUS
<1>3. PICK run : run = [dream[d] EXCEPT !.pc = "prune list", !.layers = PruneLayers,
                          !.cutoff = c, !.valued = Cardinality(V)]
  OBVIOUS
<1>4. /\ UNCHANGED <<config, rows, ledger, recall, update, begun, history>>
      /\ Goes(d, run) /\ steady' = [steady EXCEPT ![d] = V]
  BY <1>1, <1>2, <1>3 DEF PruneCutoff
<1>5. V \in SUBSET Ids /\ c \in Nat /\ Cardinality(V) \in Nat /\ PruneLayers \in Seq(Layers)
  BY <1>1, <1>2, CutoffSound, FS_EmptySet, ForgettingAssumption DEF Valued, Unset
<1>6. run \in Run /\ run.pc = "prune list"
  <2>1. dream[d] \in Run
    BY RunFields
  <2> QED BY <1>3, <1>5, <2>1 DEF Run
<1>7. begun' \in 0..MaxBegun /\ steady' \in [Dreamers -> SUBSET Ids]
  BY <1>4, <1>5, BegunSame DEF IInv, TypeOK
<1>8. RunSound(run, rows, handmade) /\ DriftSound(d, run, ledger)
  BY <1>6, LightPhase
<1> QED BY <1>4, <1>6, <1>7, <1>8, RunReads

LEMMA PruneListSafe ==
  ASSUME IInv, NEW d \in Dreamers, PruneList(d)
  PROVE  IInv' /\ RowsStep
<1>1. PICK S : S = {i \in Ids : Active(i) /\ LayerOf(i) = Head(dream[d].layers)} \ config.protected
  OBVIOUS
<1>2. PICK list : list = Listed(S)
  OBVIOUS
<1>3. PICK run : run = [dream[d] EXCEPT !.pc = "judge", !.list = list, !.todo = S]
  OBVIOUS
<1>4. UNCHANGED <<config, rows, ledger, recall, update, begun, history, steady>> /\ Goes(d, run)
  BY <1>1, <1>2, <1>3 DEF PruneList
<1>5. dream[d].layers # <<>>
  BY DEF PruneList
<1>6. S \in SUBSET Ids /\ list \in Lists /\ DOMAIN list = S
  BY <1>1, <1>2, ListedType
<1>7. /\ run \in Run /\ run.pc = "judge" /\ run.list = list /\ run.todo = S
      /\ run.layers = dream[d].layers
  <2>1. dream[d] \in Run
    BY RunFields
  <2> QED BY <1>3, <1>6, <2>1 DEF Run
<1>8. RunSound(run, rows, handmade) /\ DriftSound(d, run, ledger)
  BY <1>5, <1>6, <1>7 DEF RunSound, DriftSound
<1> QED BY <1>4, <1>7, <1>8, SteadySame, RunReads

(* What the judging of a row writes over it. *)
LEMMA JudgeStep ==
  ASSUME IInv, NEW d \in Dreamers, NEW i \in Ids, Judge(d, i)
  PROVE  /\ RowsStep
         /\ \A j \in Ids : /\ rows'[j].dynamics.flagged = rows[j].dynamics.flagged
                           /\ rows'[j].age = rows[j].age /\ rows'[j].status = rows[j].status
         /\ \A j \in Ids \ {i} : rows'[j] = rows[j]
         /\ \/ rows' = rows /\ steady' = steady
            \/ steady' = [e \in Dreamers |-> IF e = d THEN steady[e] ELSE steady[e] \ {i}]
         /\ dream[d].list[i] \in Listing
<1>1. PICK item : item = dream[d].list[i]
  OBVIOUS
<1>2. PICK v : v = EvbScore(item)
  OBVIOUS
<1>3. /\ dream[d].pc = "judge" /\ i \in dream[d].todo /\ UNCHANGED history
      /\ IF config.evb
         THEN /\ UpdateDynamics(i, [evb |-> v])
              /\ steady' = [e \in Dreamers |-> IF e = d THEN steady[e] ELSE steady[e] \ {i}]
         ELSE rows' = rows /\ steady' = steady
  BY <1>1, <1>2 DEF Judge
<1>4. i \in DOMAIN dream[d].list
  BY <1>3, RunFields DEF RunSound
<1>5. item \in Listing
  BY <1>1, <1>4, RunFields
<1>6. v \in Nat \ {0}
  <2>1. /\ item.age \in 0..MaxAge /\ item.hits \in 0..MaxHits /\ item.outcome \in Outcomes
    BY <1>5 DEF Listing
  <2>2. MaxAge \in Nat /\ MaxHits \in Nat /\ Outcomes \subseteq 0..100
    BY ForgettingAssumption
  <2>3. item.outcome \in 0..100
    BY <2>1, <2>2
  <2>4. item.age \in Nat /\ item.hits \in Nat /\ item.outcome \in Nat
    BY <2>1, <2>2, <2>3
  <2> QED BY <1>2, <2>4, ValueType
<1>7. CASE config.evb
  BY <1>1, <1>3, <1>5, <1>6, <1>7, ValueStep
<1>8. CASE ~config.evb
  BY <1>1, <1>3, <1>5, <1>8, RowsUnchanged
<1> QED BY <1>7, <1>8

LEMMA JudgeSafe ==
  ASSUME IInv, NEW d \in Dreamers, NEW i \in Ids, Judge(d, i)
  PROVE  IInv' /\ RowsStep
<1>1. PICK old \in Run : old = dream[d] /\ RunSound(old, rows, handmade)
  BY RunFields
<1>2. PICK list : list = [j \in DOMAIN old.list \ {i} |-> old.list[j]]
  OBVIOUS
<1>3. PICK S : S = IF GivenUp(old.list[i], old.cutoff, Head(old.layers))
                   THEN old.doomed \cup {i} ELSE old.doomed
  OBVIOUS
<1>4. PICK run : run = [old EXCEPT !.todo = @ \ {i}, !.list = list, !.doomed = S]
  OBVIOUS
<1>5. /\ old.pc = "judge" /\ i \in old.todo /\ Goes(d, run)
      /\ UNCHANGED <<config, ledger, recall, update, begun, history>>
  BY <1>1, <1>2, <1>3, <1>4 DEF Judge
<1>6. list \in Lists /\ DOMAIN list = DOMAIN old.list \ {i}
  <2>1. DOMAIN old.list \ {i} \in SUBSET DOMAIN old.list
    OBVIOUS
  <2> QED BY <1>1, <1>2, <2>1, RunFields
<1>7. S \in SUBSET Ids
  BY <1>1, <1>3, RunFields
<1>8. /\ run \in Run /\ run.pc = "judge" /\ run.list = list
      /\ run.todo = old.todo \ {i} /\ run.layers = old.layers
  BY <1>4, <1>5, <1>6, <1>7 DEF Run
<1>9. /\ RowsStep /\ \A j \in Ids : rows'[j].dynamics.flagged => rows[j].dynamics.flagged
  BY JudgeStep
<1>10. RunSound(run, rows', handmade') /\ DriftSound(d, run, ledger)
  BY <1>1, <1>5, <1>6, <1>8 DEF RunSound, DriftSound
<1>11. begun' \in 0..MaxBegun /\ steady' \in [Dreamers -> SUBSET Ids]
  <2>1. steady \in [Dreamers -> SUBSET Ids]
    BY DEF IInv, TypeOK
  <2>2. \/ steady' = steady
        \/ steady' = [e \in Dreamers |-> IF e = d THEN steady[e] ELSE steady[e] \ {i}]
    BY JudgeStep
  <2> QED BY <1>5, <2>1, <2>2, BegunSame
<1> QED BY <1>5, <1>8, <1>9, <1>10, <1>11, RunWrites

LEMMA JudgedSafe ==
  ASSUME IInv, NEW d \in Dreamers, Judged(d)
  PROVE  IInv' /\ RowsStep
<1>1. PICK run : run = [dream[d] EXCEPT !.pc = "give up"]
  OBVIOUS
<1>2. /\ UNCHANGED <<config, rows, ledger, recall, update, begun, history, steady>>
      /\ Goes(d, run) /\ dream[d].pc = "judge"
  BY <1>1 DEF Judged
<1>3. run \in Run /\ run.pc = "give up" /\ run.layers = dream[d].layers
  <2>1. dream[d] \in Run
    BY RunFields
  <2> QED BY <1>1, <2>1 DEF Run
<1>4. RunSound(run, rows, handmade) /\ DriftSound(d, run, ledger)
  <2>1. dream[d].layers # <<>>
    BY <1>2, RunFields DEF RunSound
  <2> QED BY <1>3, <2>1 DEF RunSound, DriftSound
<1> QED BY <1>2, <1>3, <1>4, SteadySame, RunReads

(* A row that is given up fades no faster for it. *)
LEMMA GiveUpStep ==
  ASSUME IInv, NEW d \in Dreamers, NEW i \in Ids, GiveUp(d, i)
  PROVE  /\ RowsStep
         /\ \A j \in Ids : rows'[j].dynamics = rows[j].dynamics
         /\ \A j \in Ids : rows'[j].status = "active" => rows'[j] = rows[j]
<1>1. PICK r : r = rows[i]
  OBVIOUS
<1>2. PICK q : q = [r EXCEPT !.status = "deprecated"]
  OBVIOUS
<1>3. rows \in [Ids -> Row] /\ r \in Row /\ (i \notin handmade => RowSound(r)) /\ UNCHANGED history
  BY <1>1, RowAt DEF GiveUp
<1>4. CASE Present(i)
  <2>1. rows' = [rows EXCEPT ![i] = q]
    BY <1>1, <1>2, <1>4 DEF GiveUp
  <2>2. q \in Row /\ q.status = "deprecated" /\ q.age = r.age /\ q.dynamics = r.dynamics
    BY <1>2, <1>3 DEF Row
  <2>3. There(r)
    BY <1>1, <1>4, RowAt
  <2>4. Follows(r, q) /\ Gentle(r, q) /\ (RowSound(r) => RowSound(q))
    BY <2>2, <2>3 DEF RowSound, Gentle, Follows, Below0
  <2>5. RowsStep
    BY <1>1, <1>3, <2>1, <2>2, <2>4, OneRowReplaced
  <2>6. rows'[i] = q /\ \A j \in Ids \ {i} : rows'[j] = rows[j]
    BY <1>3, <2>1
  <2> QED BY <1>1, <2>2, <2>5, <2>6
<1>5. CASE ~Present(i)
  <2>1. rows' = rows
    BY <1>5 DEF GiveUp
  <2> QED BY <1>3, <2>1, RowsUnchanged
<1> QED BY <1>4, <1>5

LEMMA GiveUpSafe ==
  ASSUME IInv, NEW d \in Dreamers, NEW i \in Ids, GiveUp(d, i)
  PROVE  IInv' /\ RowsStep
<1>1. PICK old \in Run : old = dream[d] /\ RunSound(old, rows, handmade)
  BY RunFields
<1>2. PICK run : run = [old EXCEPT !.doomed = @ \ {i}, !.evicted = @ \cup {i}]
  OBVIOUS
<1>3. /\ old.pc = "give up" /\ i \in old.doomed /\ Goes(d, run)
      /\ UNCHANGED <<config, ledger, recall, update, begun, history, steady>>
  BY <1>1, <1>2 DEF GiveUp
<1>4. RowsStep /\ \A j \in Ids : rows'[j].dynamics.flagged => rows[j].dynamics.flagged
  BY GiveUpStep
<1>5. run \in Run /\ run.pc = "give up" /\ run.layers = old.layers
  <2>1. old.doomed \ {i} \in SUBSET Ids /\ old.evicted \cup {i} \in SUBSET Ids
    BY <1>1, RunFields
  <2> QED BY <1>2, <1>3, <2>1 DEF Run
<1>6. RunSound(run, rows', handmade') /\ DriftSound(d, run, ledger)
  BY <1>1, <1>3, <1>5 DEF RunSound, DriftSound
<1> QED BY <1>3, <1>4, <1>5, <1>6, SteadySame, RunWrites

(* The run goes on to the next layer, or ends. *)
LEMMA NextLayerSafe ==
  ASSUME IInv, NEW d \in Dreamers, dream[d].layers # <<>>, NextLayer(d),
         UNCHANGED <<config, rows, ledger, recall, update, begun, history>>
  PROVE  IInv' /\ RowsStep
<1>1. PICK run : run = [dream[d] EXCEPT !.pc = "prune list", !.layers = Tail(@),
                          !.list = <<>>, !.todo = {}, !.doomed = {}]
  OBVIOUS
<1>2. Goes(d, run) /\ steady' = steady
  BY <1>1 DEF NextLayer
<1>3. run \in Run /\ run.pc = "prune list"
  <2>1. dream[d] \in Run /\ Tail(dream[d].layers) \in Seq(Layers) /\ <<>> \in Lists
    BY RunFields, LayerType, NoList
  <2> QED BY <1>1, <2>1 DEF Run
<1>4. RunSound(run, rows, handmade) /\ DriftSound(d, run, ledger)
  BY <1>3, LightPhase
<1> QED BY <1>2, <1>3, <1>4, SteadySame, RunReads

LEMMA NoFurtherSafe ==
  ASSUME IInv, NEW d \in Dreamers, NoFurther(d),
         UNCHANGED <<config, rows, ledger, recall, update, begun, history>>
  PROVE  IInv' /\ RowsStep
<1>1. PICK run : run = NoRun
  OBVIOUS
<1>2. Goes(d, run) /\ steady' = [steady EXCEPT ![d] = {}]
  BY <1>1 DEF NoFurther
<1>3. run \in Run /\ run.pc = "idle"
  BY <1>1, NoRunType DEF NoRun
<1>4. RunSound(run, rows, handmade) /\ DriftSound(d, run, ledger)
  BY <1>3, LightPhase
<1>5. begun' \in 0..MaxBegun /\ steady' \in [Dreamers -> SUBSET Ids]
  BY <1>2, BegunSame DEF IInv, TypeOK
<1> QED BY <1>2, <1>3, <1>4, <1>5, RunReads

LEMMA LayerPrunedSafe ==
  ASSUME IInv, NEW d \in Dreamers, LayerPruned(d)
  PROVE  IInv' /\ RowsStep
<1>1. dream[d].layers # <<>>
  BY RunFields DEF LayerPruned, RunSound
<1> QED BY <1>1, NextLayerSafe DEF LayerPruned

LEMMA RunEndsSafe ==
  ASSUME IInv, NEW d \in Dreamers, RunEnds(d)
  PROVE  IInv' /\ RowsStep
BY NoFurtherSafe DEF RunEnds

LEMMA RunFailsSafe ==
  ASSUME IInv, NEW d \in Dreamers, RunFails(d)
  PROVE  IInv' /\ RowsStep
BY NoFurtherSafe, NextLayerSafe DEF RunFails

-----------------------------------------------------------------------------
(* The theorems *)

LEMMA InitSafe ==
  ASSUME Init
  PROVE  IInv
<1>1. /\ config \in Configs /\ rows = [i \in Ids |-> NewRow] /\ ledger = <<>>
      /\ recall = [s \in Servers |-> Idle] /\ update = [s \in Servers |-> Idle]
      /\ dream = [d \in Dreamers |-> NoRun] /\ begun = 0
      /\ lineage = [i \in Ids |-> {i}] /\ handmade = {}
      /\ steady = [d \in Dreamers |-> {}]
  BY DEF Init
<1>2. PICK q : q = [status |-> "new", age |-> 0, hits |-> 0, outcome |-> 50,
                    dynamics |-> NoDynamics]
  OBVIOUS
<1>3. q \in Row /\ q.status = "new" /\ q.age = 0 /\ RowSound(q) /\ ~q.dynamics.flagged
  BY <1>2, FreshRow
<1>4. rows = [i \in Ids |-> q]
  BY <1>1, <1>2 DEF NewRow
<1>5. TypeOK
  <2>1. rows \in [Ids -> Row]
    BY <1>3, <1>4
  <2>2. ledger \in Seq(Ids \X Ids \X Dreamers)
    BY <1>1, EmptySeq
  <2>3. /\ recall \in [Servers -> Event \cup {[pc |-> "idle"]}]
        /\ update \in [Servers -> Update \cup {[pc |-> "idle"]}]
    BY <1>1 DEF Idle
  <2>4. dream \in [Dreamers -> Run] /\ begun \in 0..MaxBegun
    BY <1>1, NoRunType, ForgettingAssumption
  <2>5. /\ lineage \in [Ids -> SUBSET Ids] /\ handmade \in SUBSET Ids
        /\ steady \in [Dreamers -> SUBSET Ids]
    BY <1>1
  <2> QED BY <1>1, <2>1, <2>2, <2>3, <2>4, <2>5 DEF TypeOK
<1>6. RowsSound
  BY <1>3, <1>4 DEF RowsSound
<1>7. EventsSound /\ UpdatesSound
  BY <1>1 DEF EventsSound, UpdatesSound, Idle
<1>8. RunsSound /\ DriftsSound
  <2>1. NoRun.pc = "idle"
    BY DEF NoRun
  <2> QED BY <1>1, <2>1, LightPhase DEF RunsSound, DriftsSound
<1>9. Descended /\ DriftAccounted
  BY <1>1, <1>3, <1>4 DEF Descended, DriftAccounted, IsInjective
<1> QED BY <1>5, <1>6, <1>7, <1>8, <1>9 DEF IInv

(* Every step but that of the clock is gentle to every row. *)
LEMMA RecallStepSafe ==
  ASSUME IInv, NEW s \in Servers, RecallStep(s)
  PROVE  IInv' /\ RowsStep
BY RecallReadsSafe, ReadDynamicsSafe, BoostRecalledSafe, AccessSafe, ReadValueSafe,
   PersistValueSafe, AccessEventFailsSafe DEF RecallStep

LEMMA UpdateStepSafe ==
  ASSUME IInv, NEW s \in Servers, UpdateStep(s)
  PROVE  IInv' /\ RowsStep
BY ScoreOutcomeSafe, UpdateReadsSafe, InsertRevisionSafe, UpdateFailsSafe DEF UpdateStep

LEMMA RunStepSafe ==
  ASSUME IInv, NEW d \in Dreamers, RunStep(d)
  PROVE  IInv' /\ RowsStep
<1>1. ASSUME NEW i \in Ids,
             \/ Resurface(d, i) \/ RecordDrift(d, i) \/ Flag(d, i) \/ Judge(d, i) \/ GiveUp(d, i)
      PROVE  IInv' /\ RowsStep
  BY <1>1, ResurfaceSafe, RecordDriftSafe, FlagSafe, JudgeSafe, GiveUpSafe
<1> QED
  BY <1>1, RunStartsSafe, ResurfaceCutoffSafe, ResurfaceListSafe, ResurfacedSafe,
     DriftListSafe, DriftSeenSafe, DriftCheckedSafe, PruneCutoffSafe, PruneListSafe,
     JudgedSafe, LayerPrunedSafe, RunEndsSafe, RunFailsSafe DEF RunStep

LEMMA StutterSafe ==
  ASSUME IInv, UNCHANGED vars
  PROVE  IInv' /\ RowsStep
<1>1. /\ UNCHANGED <<config, rows, ledger, recall, update, dream, begun, history, steady>>
      /\ update' = update /\ handmade' = handmade /\ LineageGrows /\ LedgerGrows
  BY HistoryStays, LedgerSame DEF vars
<1>2. update' \in [Servers -> Update \cup {[pc |-> "idle"]}] /\ UpdatesSound'
  BY <1>1, UpdatesStay DEF IInv, TypeOK
<1> QED BY <1>1, <1>2, SteadySame, UpdateWritesNothing

LEMMA NextSafe ==
  ASSUME IInv, [Next]_vars
  PROVE  /\ IInv'
         /\ RowsStep \/ Tick
<1>1. ASSUME NEW i \in Ids, Commit(i) \/ Forget(i) PROVE IInv' /\ RowsStep
  BY <1>1, CommitSafe, ForgetSafe
<1>2. CASE Tick
  BY <1>2, TickSafe
<1>3. ASSUME NEW s \in Servers, RecallStep(s) \/ UpdateStep(s) PROVE IInv' /\ RowsStep
  BY <1>3, RecallStepSafe, UpdateStepSafe
<1>4. ASSUME NEW d \in Dreamers, RunStep(d) PROVE IInv' /\ RowsStep
  BY <1>4, RunStepSafe
<1>5. CASE UNCHANGED vars
  BY <1>5, StutterSafe
<1> QED BY <1>1, <1>2, <1>3, <1>4, <1>5 DEF Next

(* Whatever the settings, the crystals and the processes, what the tables, *)
(* the access events, the updates and the runs hold has its type: above    *)
(* all, every cutoff and every value a run or a recall computes and writes *)
(* is a number, whatever a caller has put into the columns it reads.       *)
THEOREM TypeCorrect == Spec => []TypeOK
<1>1. Init => IInv
  BY InitSafe
<1>2. IInv /\ [Next]_vars => IInv'
  BY NextSafe
<1>3. IInv => TypeOK
  BY DEF IInv
<1> QED BY <1>1, <1>2, <1>3, PTL DEF Spec

(* Unless a caller wrote it, a stability is one that the curve gives out:  *)
(* no boost, of a recall or of a re-surfacing, no lapse and no copy by an  *)
(* update takes it under that of a lapse or past max_stability.            *)
StabilityBounded ==
  \A i \in Ids \ handmade :
    rows[i].dynamics.stability \in {Unset} \cup (LapseStability..MaxStability)

THEOREM StabilityStaysBounded == Spec => []StabilityBounded
<1>1. Init => IInv
  BY InitSafe
<1>2. IInv /\ [Next]_vars => IInv'
  BY NextSafe
<1>3. IInv => StabilityBounded
  BY DEF IInv, RowsSound, RowSound, StabilityBounded
<1> QED BY <1>1, <1>2, <1>3, PTL DEF Spec

(* However often processes run the drift check, together or one after the  *)
(* other, and wherever it is cut off, no process enters a pair twice in    *)
(* drift_audit, and each mark, copied by updates or not, can be traced to  *)
(* an entry unless a caller wrote it.                                      *)
THEOREM DriftIsAccounted == Spec => []DriftAccounted
<1>1. Init => IInv
  BY InitSafe
<1>2. IInv /\ [Next]_vars => IInv'
  BY NextSafe
<1>3. IInv => DriftAccounted
  BY DEF IInv
<1> QED BY <1>1, <1>2, <1>3, PTL DEF Spec

(* The action that OnlyTimeForgets allows, and that of KeysKept. *)
Fading ==
  \A i \in Ids \ handmade : Present(i) /\ Faded(i)' => Faded(i) \/ rows'[i].age > rows[i].age

Keeping ==
  \A i \in Ids : Present(i) /\ Present(i)' =>
    \A k \in DOMAIN NoDynamics :
      rows[i].dynamics[k] # NoDynamics[k] => rows'[i].dynamics[k] # NoDynamics[k]

(* Only the insert of a crystal makes it one that a caller wrote. *)
LEMMA RecallKeepsHistory ==
  ASSUME NEW s \in Servers, RecallStep(s)
  PROVE  UNCHANGED history
<1>1. CASE RecallReads(s)
  BY <1>1 DEF RecallReads
<1>2. CASE ReadDynamics(s) \/ BoostRecalled(s) \/ Access(s)
  BY <1>2 DEF ReadDynamics, BoostRecalled, Access
<1>3. CASE ReadValue(s) \/ PersistValue(s) \/ AccessEventFails(s)
  BY <1>3 DEF ReadValue, PersistValue, AccessEventFails
<1> QED BY <1>1, <1>2, <1>3 DEF RecallStep

LEMMA RunKeepsHistory ==
  ASSUME NEW d \in Dreamers, RunStep(d)
  PROVE  UNCHANGED history
<1>1. CASE RunStarts(d) \/ ResurfaceCutoff(d) \/ ResurfaceList(d) \/ Resurfaced(d)
  BY <1>1 DEF RunStarts, ResurfaceCutoff, ResurfaceList, Resurfaced
<1>2. CASE DriftList(d) \/ DriftSeen(d) \/ DriftChecked(d)
  BY <1>2 DEF DriftList, DriftSeen, DriftChecked
<1>3. CASE PruneCutoff(d) \/ PruneList(d) \/ Judged(d)
  BY <1>3 DEF PruneCutoff, PruneList, Judged
<1>4. CASE LayerPruned(d) \/ RunEnds(d) \/ RunFails(d)
  BY <1>4 DEF LayerPruned, RunEnds, RunFails
<1>5. ASSUME NEW i \in Ids, Resurface(d, i) \/ RecordDrift(d, i) \/ Flag(d, i)
      PROVE  UNCHANGED history
  BY <1>5 DEF Resurface, RecordDrift, Flag
<1>6. ASSUME NEW i \in Ids, Judge(d, i) \/ GiveUp(d, i)
      PROVE  UNCHANGED history
  BY <1>6 DEF Judge, GiveUp
<1> QED BY <1>1, <1>2, <1>3, <1>4, <1>5, <1>6 DEF RunStep

LEMMA HandmadeByInsert ==
  ASSUME IInv, [Next]_vars, NEW i \in Ids \ handmade, Present(i)
  PROVE  i \notin handmade'
<1>1. ASSUME NEW s \in Servers, InsertRevision(s)
      PROVE  i \notin handmade'
  <2>1. PICK j \in Ids : rows[j].status = "new" /\ handmade' \subseteq handmade \cup {j}
    BY <1>1, InsertRevisionStep
  <2> QED BY <2>1 DEF Present
<1>2. CASE UNCHANGED history
  BY <1>2, HistoryStays
<1>3. ASSUME NEW j \in Ids, Commit(j) \/ Forget(j)
      PROVE  UNCHANGED history
  BY <1>3 DEF Commit, Forget
<1>4. ASSUME NEW s \in Servers, ScoreOutcome(s) \/ UpdateReads(s) \/ UpdateFails(s)
      PROVE  UNCHANGED history
  BY <1>4 DEF ScoreOutcome, UpdateReads, UpdateFails
<1>5. CASE Tick
  <2>1. UNCHANGED history
    BY <1>5 DEF Tick
  <2> QED BY <1>2, <2>1
<1>6. CASE UNCHANGED vars
  <2>1. UNCHANGED history
    BY <1>6 DEF vars
  <2> QED BY <1>2, <2>1
<1> QED
  BY <1>1, <1>2, <1>3, <1>4, <1>5, <1>6, RecallKeepsHistory, RunKeepsHistory DEF Next, UpdateStep

LEMMA StepsFade ==
  ASSUME IInv, [Next]_vars
  PROVE  Fading
<1> SUFFICES ASSUME NEW i \in Ids \ handmade, Present(i), Faded(i)'
             PROVE  Faded(i) \/ rows'[i].age > rows[i].age
  BY DEF Fading
<1>1. There(rows'[i]) /\ Below0(rows'[i])
  BY DEF Faded, Present, There, Below0
<1>2. There(rows[i]) /\ (Below0(rows[i]) => Faded(i))
  BY DEF Faded, Present, There, Below0
<1>3. rows[i] \in Row /\ rows'[i] \in Row
  BY NextSafe DEF IInv, TypeOK
<1>4. CASE RowsStep
  <2>1. Gentle(rows[i], rows'[i])
    BY <1>4, HandmadeByInsert DEF RowsStep
  <2>2. rows'[i].age # 0
    BY <1>1, <1>3, Below0Touched
  <2> QED BY <1>1, <1>2, <2>1, <2>2 DEF Gentle
<1>5. CASE Tick
  BY <1>1, <1>2, <1>5, TickSafe
<1> QED BY <1>4, <1>5, NextSafe

LEMMA StepsKeep ==
  ASSUME IInv, [Next]_vars
  PROVE  Keeping
<1> SUFFICES ASSUME NEW i \in Ids, There(rows[i]), There(rows'[i]), NEW k \in DOMAIN NoDynamics,
                    rows[i].dynamics[k] # NoDynamics[k]
             PROVE  rows'[i].dynamics[k] # NoDynamics[k]
  BY DEF Keeping, Present, There
<1>1. CASE RowsStep
  BY <1>1 DEF RowsStep, Follows
<1>2. CASE Tick
  BY <1>2, TickSafe
<1> QED BY <1>1, <1>2, NextSafe

(* Whatever recalls, outcomes, updates, runs, failures and kills           *)
(* interleave, only the passage of time takes a crystal under the floor at *)
(* which it may be given up, unless a caller wrote its memory_dynamics.    *)
THEOREM TimeForgets == Spec => OnlyTimeForgets
<1>1. Init => IInv
  BY InitSafe
<1>2. IInv /\ [Next]_vars => IInv' /\ [Fading]_vars
  BY NextSafe, StepsFade
<1>3. Spec => [][Fading]_vars
  BY <1>1, <1>2, PTL DEF Spec
<1> QED BY <1>3 DEF OnlyTimeForgets, Fading

(* No writer of one key of memory_dynamics undoes what another wrote.      *)
THEOREM KeysAreKept == Spec => KeysKept
<1>1. Init => IInv
  BY InitSafe
<1>2. IInv /\ [Next]_vars => IInv' /\ [Keeping]_vars
  BY NextSafe, StepsKeep
<1>3. Spec => [][Keeping]_vars
  BY <1>1, <1>2, PTL DEF Spec
<1> QED BY <1>3 DEF KeysKept, Keeping


-----------------------------------------------------------------------------
(* What a prune may give up *)

PrunePcs == {"prune list", "judge", "give up"}

(* The layers that a prune has still to list. *)
AheadOf(run) == IF run.pc = "prune list" THEN ToSet(run.layers) ELSE ToSet(Tail(run.layers))

(* A row, or a listed row, that a prune with the cutoff c may give up. *)
Cheap(r, c) ==
  r.status = "active" /\ r.age # 0 /\ r.dynamics.evb # Unset /\ r.dynamics.evb < c

CheapItem(item, c) == item.age # 0 /\ item.evb # Unset /\ item.evb < c

(* Among own, the crystals that were valued at the cutoff and that no      *)
(* other run has valued anew, L are no more than the share and all that    *)
(* the run gives up.                                                       *)
Covers(L, cfg, run, own, t) ==
  /\ 100 * Cardinality(L) <= EvbPercent * run.valued
  /\ (run.evicted \cup run.doomed) \cap own \subseteq L
  /\ \A i \in own : cfg.layer[i] \in AheadOf(run) /\ Cheap(t[i], run.cutoff) => i \in L
  /\ run.pc = "judge" =>
       \A i \in run.todo \cap own : CheapItem(run.list[i], run.cutoff) => i \in L

(* Each layer is visited once, and the run values only crystals of the     *)
(* layer that it visits anew.                                              *)
ShareSound(cfg, run, own, t) ==
  /\ IsInjective(run.layers)
  /\ run.pc \notin PrunePcs => run.evicted = {}
  /\ run.pc \notin {"flag", "judge", "give up"} => run.doomed = {}
  /\ run.pc = "judge" => \A i \in run.todo : cfg.layer[i] = Head(run.layers)
  /\ \A i \in own : t[i].status # "new"
  /\ cfg.fsrs /\ run.pc \in PrunePcs => \E L \in SUBSET Ids : Covers(L, cfg, run, own, t)

SharesSound == \A d \in Dreamers : ShareSound(config, dream[d], steady[d], rows)

(* The row q that replaces r is no new one, and no cheaper. *)
NoCheaper(r, q) ==
  r.status # "new" => q.status # "new" /\ \A c : Cheap(q, c) => Cheap(r, c)

LEMMA ShareBeside ==
  ASSUME NEW cfg, NEW run, NEW own, NEW less \in SUBSET own, NEW t, NEW u,
         ShareSound(cfg, run, own, t), \A i \in less : NoCheaper(t[i], u[i])
  PROVE  ShareSound(cfg, run, less, u)
<1>1. \A i \in less : t[i].status # "new" /\ u[i].status # "new"
  BY DEF ShareSound, NoCheaper
<1>2. \A i \in less : \A c : Cheap(u[i], c) => Cheap(t[i], c)
  BY <1>1 DEF NoCheaper
<1>3. \A L : Covers(L, cfg, run, own, t) => Covers(L, cfg, run, less, u)
  BY <1>2 DEF Covers
<1> QED BY <1>1, <1>3 DEF ShareSound

(* No run moves, no crystal becomes cheaper. *)
LEMMA SharesBeside ==
  ASSUME SharesSound, UNCHANGED <<config, dream, steady>>,
         \A i \in Ids : NoCheaper(rows[i], rows'[i]), IInv
  PROVE  SharesSound'
<1>1. ASSUME NEW d \in Dreamers
      PROVE  ShareSound(config, dream[d], steady[d], rows')
  <2>1. ShareSound(config, dream[d], steady[d], rows)
    BY DEF SharesSound
  <2>2. steady[d] \in SUBSET Ids
    BY DEF IInv, TypeOK
  <2>3. \A i \in steady[d] : NoCheaper(rows[i], rows'[i])
    BY <2>2
  <2> QED BY <2>1, <2>3, ShareBeside
<1> QED BY <1>1 DEF SharesSound

(* The run of d moves. *)
LEMMA ShareMoves ==
  ASSUME IInv, SharesSound, NEW d \in Dreamers, NEW run, Goes(d, run), config' = config,
         \A e \in Dreamers \ {d} : /\ steady'[e] \subseteq steady[e]
                                   /\ \A i \in steady'[e] : NoCheaper(rows[i], rows'[i]),
         ShareSound(config, run, steady'[d], rows')
  PROVE  SharesSound'
<1>1. dream \in [Dreamers -> Run] /\ dream' = [dream EXCEPT ![d] = run]
  BY DEF IInv, TypeOK, Goes
<1>2. dream'[d] = run /\ \A e \in Dreamers \ {d} : dream'[e] = dream[e]
  BY <1>1
<1>3. ASSUME NEW e \in Dreamers \ {d}
      PROVE  ShareSound(config, dream[e], steady'[e], rows')
  <2>1. ShareSound(config, dream[e], steady[e], rows)
    BY DEF SharesSound
  <2> QED BY <2>1, ShareBeside
<1> QED BY <1>2, <1>3 DEF SharesSound

LEMMA SameRows ==
  \A i \in Ids : NoCheaper(rows[i], rows[i])
BY DEF NoCheaper

(* The run of d moves, and writes nothing. *)
LEMMA ShareReads ==
  ASSUME IInv, SharesSound, NEW d \in Dreamers, NEW run, Goes(d, run),
         UNCHANGED <<config, rows, steady>>, ShareSound(config, run, steady[d], rows)
  PROVE  SharesSound'
<1>1. \A e \in Dreamers : steady[e] \in SUBSET Ids
  BY DEF IInv, TypeOK
<1>2. \A e \in Dreamers \ {d} : \A i \in steady'[e] : NoCheaper(rows[i], rows'[i])
  BY <1>1, SameRows
<1> QED BY <1>2, ShareMoves

(* One crystal is touched, inserted or gone. *)
LEMMA OneNoCheaper ==
  ASSUME NEW i \in Ids, \A j \in Ids \ {i} : rows'[j] = rows[j],
         \/ rows[i].status = "new"
         \/ rows'[i].status # "new" /\ (There(rows'[i]) => rows'[i].age = 0)
  PROVE  \A j \in Ids : NoCheaper(rows[j], rows'[j])
BY DEF NoCheaper, Cheap, There

LEMMA CommitShare ==
  ASSUME IInv, SharesSound, NEW i \in Ids, Commit(i)
  PROVE  SharesSound'
<1>1. rows[i].status = "new" /\ UNCHANGED <<config, dream, steady>>
  BY DEF Commit
<1>2. \A j \in Ids \ {i} : rows'[j] = rows[j]
  BY DEF Commit, IInv, TypeOK
<1> QED BY <1>1, <1>2, OneNoCheaper, SharesBeside

LEMMA ForgetShare ==
  ASSUME IInv, SharesSound, NEW i \in Ids, Forget(i)
  PROVE  SharesSound'
<1>1. rows \in [Ids -> Row] /\ UNCHANGED <<config, dream, steady>>
  BY DEF IInv, TypeOK, Forget
<1>2. rows'[i].status = "absent" /\ \A j \in Ids \ {i} : rows'[j] = rows[j]
  BY <1>1 DEF Forget, NewRow
<1> QED BY <1>1, <1>2, OneNoCheaper, SharesBeside DEF There

(* The clock stands while a run is under way. *)
LEMMA TickShare ==
  ASSUME IInv, SharesSound, Tick
  PROVE  SharesSound'
<1>1. UNCHANGED <<config, dream, steady>> /\ \A d \in Dreamers : dream[d].pc = "idle"
  BY DEF Tick, Quiet
<1>2. \A d \in Dreamers : steady[d] \in SUBSET Ids
  BY DEF IInv, TypeOK
<1>3. \A i \in Ids : rows'[i].status = rows[i].status
  BY TickSafe
<1>4. ASSUME NEW d \in Dreamers
      PROVE  ShareSound(config, dream[d], steady[d], rows')
  <2>1. ShareSound(config, dream[d], steady[d], rows)
    BY DEF SharesSound
  <2> QED BY <1>1, <1>2, <1>3, <2>1 DEF ShareSound, PrunePcs
<1> QED BY <1>1, <1>4 DEF SharesSound

LEMMA RecallShare ==
  ASSUME IInv, SharesSound, NEW s \in Servers, RecallStep(s)
  PROVE  SharesSound'
<1>1. CASE RecallReads(s) \/ ReadDynamics(s) \/ ReadValue(s) \/ AccessEventFails(s)
  <2>1. UNCHANGED <<config, rows, dream, steady>>
    BY <1>1 DEF RecallReads, ReadDynamics, ReadValue, AccessEventFails
  <2> QED BY <2>1, SharesBeside, SameRows
<1>2. CASE BoostRecalled(s)
  <2>1. UNCHANGED <<config, dream, steady>>
    BY <1>2 DEF BoostRecalled
  <2>2. \A j \in Ids : NoCheaper(rows[j], rows'[j])
    BY <1>2, BoostRecalledStep DEF NoCheaper, Cheap
  <2> QED BY <2>1, <2>2, SharesBeside
<1>3. CASE Access(s)
  <2>1. recall[s].pc = "access" /\ UNCHANGED history /\ UNCHANGED <<config, dream, steady>>
    BY <1>3 DEF Access
  <2>2. PICK i \in Ids : i = recall[s].id
    BY <2>1, EventFields
  <2>3. RecordAccess(i) /\ rows[i].status # "new"
    BY <1>3, <2>1, <2>2, EventFields DEF Access, EventSound
  <2>4. rows'[i].status # "new"
    BY <2>1, <2>3, AccessStep DEF RowsStep, Follows
  <2> QED BY <2>1, <2>3, <2>4, AccessStep, OneNoCheaper, SharesBeside
<1>4. CASE PersistValue(s)
  <2>1. recall[s].pc = "persist" /\ UNCHANGED history /\ UNCHANGED <<config, dream, steady>>
    BY <1>4 DEF PersistValue
  <2>2. PICK i \in Ids : i = recall[s].id
    BY <2>1, EventFields
  <2>3. PICK v \in Nat \ {0} : v = recall[s].new
    BY <2>1, EventFields DEF EventSound
  <2>4. UpdateDynamics(i, [evb |-> v])
    BY <1>4, <2>2, <2>3 DEF PersistValue
  <2>5. rows[i].status # "new" /\ (There(rows[i]) => rows[i].age = 0)
    BY <2>1, <2>2, EventFields DEF EventSound
  <2>6. rows'[i].age = rows[i].age /\ rows'[i].status = rows[i].status
    BY <2>1, <2>4, ValueStep
  <2>7. rows'[i].status # "new" /\ (There(rows'[i]) => rows'[i].age = 0)
    BY <2>5, <2>6 DEF There
  <2> QED BY <2>1, <2>4, <2>7, ValueStep, OneNoCheaper, SharesBeside
<1> QED BY <1>1, <1>2, <1>3, <1>4 DEF RecallStep

LEMMA UpdateShare ==
  ASSUME IInv, SharesSound, NEW s \in Servers, UpdateStep(s)
  PROVE  SharesSound'
<1>1. CASE UpdateReads(s) \/ UpdateFails(s)
  <2>1. UNCHANGED <<config, rows, dream, steady>>
    BY <1>1 DEF UpdateReads, UpdateFails
  <2> QED BY <2>1, SharesBeside, SameRows
<1>2. CASE ScoreOutcome(s)
  <2>1. /\ UNCHANGED history /\ UNCHANGED <<config, dream, steady>>
        /\ \E i \in Ids, outcome \in Outcomes : Present(i) /\ RecordOutcome(i, outcome)
    BY <1>2 DEF ScoreOutcome
  <2>2. PICK i \in Ids, outcome \in Outcomes : Present(i) /\ RecordOutcome(i, outcome)
    BY <2>1
  <2>3. rows'[i].status # "new"
    BY <2>1, <2>2, OutcomeStep DEF RowsStep, Follows, Present
  <2> QED BY <2>1, <2>2, <2>3, OutcomeStep, OneNoCheaper, SharesBeside
<1>3. CASE InsertRevision(s)
  <2>1. UNCHANGED <<config, dream, steady>>
    BY <1>3 DEF InsertRevision
  <2>2. PICK j \in Ids, q \in Row : rows[j].status = "new" /\ rows' = [rows EXCEPT ![j] = q]
    BY <1>3, InsertRevisionStep
  <2>3. \A k \in Ids \ {j} : rows'[k] = rows[k]
    BY <2>2 DEF IInv, TypeOK
  <2> QED BY <2>1, <2>2, <2>3, OneNoCheaper, SharesBeside
<1> QED BY <1>1, <1>2, <1>3 DEF UpdateStep

LEMMA NoneInjective ==
  IsInjective(<<>>)
BY DEF IsInjective

(* The phases before the prune. *)
LEMMA ShareEarly ==
  ASSUME NEW cfg, NEW run, NEW own, NEW t, run.pc \notin PrunePcs,
         IsInjective(run.layers), run.evicted = {}, run.pc # "flag" => run.doomed = {},
         \A i \in own : t[i].status # "new"
  PROVE  ShareSound(cfg, run, own, t)
BY DEF ShareSound, PrunePcs

LEMMA ShareAt ==
  ASSUME IInv, SharesSound, NEW d \in Dreamers
  PROVE  ShareSound(config, dream[d], steady[d], rows) /\ dream[d] \in Run
         /\ steady[d] \in SUBSET Ids /\ steady \in [Dreamers -> SUBSET Ids]
BY DEF SharesSound, IInv, TypeOK

(* The first layer and the layers after it. *)
LEMMA AheadOfTail ==
  ASSUME NEW s \in Seq(Layers), s # <<>>
  PROVE  Head(s) \in ToSet(s) /\ ToSet(Tail(s)) \subseteq ToSet(s)
<1>1. /\ Len(s) \in Nat /\ DOMAIN s = 1..Len(s) /\ Len(s) # 0
      /\ Head(s) = s[1]
  OBVIOUS
<1>2. /\ DOMAIN Tail(s) = 1..(Len(s) - 1)
      /\ \A n \in 1..(Len(s) - 1) : Tail(s)[n] = s[n + 1]
  BY HeadTailProperties
<1>3. \A n \in 1..(Len(s) - 1) : n + 1 \in 1..Len(s)
  BY <1>1
<1>4. 1 \in 1..Len(s)
  BY <1>1
<1> QED BY <1>1, <1>2, <1>3, <1>4 DEF ToSet

LEMMA HeadNotAhead ==
  ASSUME NEW s \in Seq(Layers), s # <<>>, IsInjective(s)
  PROVE  Head(s) \notin ToSet(Tail(s)) /\ IsInjective(Tail(s))
<1>1. /\ Len(s) \in Nat /\ DOMAIN s = 1..Len(s) /\ Len(s) # 0
      /\ Head(s) = s[1]
  OBVIOUS
<1>2. /\ DOMAIN Tail(s) = 1..(Len(s) - 1)
      /\ \A n \in 1..(Len(s) - 1) : Tail(s)[n] = s[n + 1]
  BY HeadTailProperties
<1>3. \A n \in 1..(Len(s) - 1) : n + 1 \in 1..Len(s) /\ n + 1 # 1
  BY <1>1
<1>4. \A n \in 1..(Len(s) - 1) : Tail(s)[n] # s[1]
  BY <1>1, <1>2, <1>3 DEF IsInjective
<1>5. \A a, b \in 1..(Len(s) - 1) : a + 1 = b + 1 => a = b
  OBVIOUS
<1>6. IsInjective(Tail(s))
  BY <1>1, <1>2, <1>3, <1>5 DEF IsInjective
<1> QED BY <1>1, <1>2, <1>4, <1>6 DEF ToSet

LEMMA NoRunShare ==
  ASSUME IInv, SharesSound, NEW d \in Dreamers, NoFurther(d), UNCHANGED <<config, rows>>
  PROVE  SharesSound'
<1>1. PICK run : run = NoRun
  OBVIOUS
<1>2. Goes(d, run) /\ steady' = [steady EXCEPT ![d] = {}]
  BY <1>1 DEF NoFurther
<1>3. run.pc = "idle" /\ run.layers = <<>> /\ run.evicted = {} /\ run.doomed = {}
  BY <1>1 DEF NoRun
<1>4. steady'[d] = {} /\ \A e \in Dreamers \ {d} : steady'[e] = steady[e]
  BY <1>2, ShareAt
<1>5. \A e \in Dreamers \ {d} : \A i \in steady'[e] : NoCheaper(rows[i], rows'[i])
  BY <1>4, ShareAt, SameRows
<1>6. ShareSound(config, run, steady'[d], rows')
  BY <1>3, <1>4, NoneInjective, ShareEarly DEF PrunePcs
<1> QED BY <1>2, <1>4, <1>5, <1>6, ShareMoves

LEMMA RunStartsShare ==
  ASSUME IInv, SharesSound, NEW d \in Dreamers, RunStarts(d)
  PROVE  SharesSound'
<1>1. PICK pc : pc = IF config.fsrs THEN "resurface cutoff"
                     ELSE IF config.drift THEN "drift list" ELSE "prune cutoff"
  OBVIOUS
<1>2. PICK run : run = [NoRun EXCEPT !.pc = pc]
  OBVIOUS
<1>3. Goes(d, run) /\ UNCHANGED <<config, rows, steady>>
  BY <1>1, <1>2 DEF RunStarts
<1>4. run.pc = pc /\ run.layers = <<>> /\ run.evicted = {} /\ run.doomed = {}
  BY <1>2 DEF NoRun
<1>5. run.pc \notin PrunePcs
  BY <1>1, <1>4 DEF PrunePcs
<1>6. ShareSound(config, run, steady[d], rows)
  <2>1. \A i \in steady[d] : rows[i].status # "new"
    BY ShareAt DEF ShareSound
  <2> QED BY <1>4, <1>5, <2>1, NoneInjective, ShareEarly
<1> QED BY <1>3, <1>6, ShareReads

(* A run that has not come to its prune goes on to another such phase. *)
LEMMA EarlyGoesOn ==
  ASSUME IInv, SharesSound, NEW d \in Dreamers, dream[d].pc \notin PrunePcs,
         NEW run, Goes(d, run), run.pc \notin PrunePcs,
         run.layers = dream[d].layers, run.evicted = dream[d].evicted,
         \/ run.pc = "flag"
         \/ run.doomed = {}
         \/ dream[d].pc # "flag" /\ run.doomed = dream[d].doomed,
         UNCHANGED <<config, steady>>, \A i \in Ids : NoCheaper(rows[i], rows'[i])
  PROVE  SharesSound'
<1>1. ShareSound(config, dream[d], steady[d], rows)
  BY ShareAt
<1>2. /\ IsInjective(run.layers) /\ run.evicted = {} /\ (run.pc # "flag" => run.doomed = {})
  BY <1>1 DEF ShareSound, PrunePcs
<1>3. \A i \in steady[d] : rows'[i].status # "new"
  BY <1>1, ShareAt DEF ShareSound, NoCheaper
<1>4. ShareSound(config, run, steady'[d], rows')
  BY <1>2, <1>3, ShareEarly
<1>5. \A e \in Dreamers \ {d} : /\ steady'[e] \subseteq steady[e]
                                /\ \A i \in steady'[e] : NoCheaper(rows[i], rows'[i])
  BY ShareAt
<1> QED BY <1>4, <1>5, ShareMoves

LEMMA EarlyReadsShare ==
  ASSUME IInv, SharesSound, NEW d \in Dreamers,
         \/ ResurfaceCutoff(d) \/ ResurfaceList(d) \/ Resurfaced(d)
         \/ DriftList(d) \/ DriftSeen(d) \/ DriftChecked(d)
  PROVE  SharesSound'
<1>0. PICK old \in Run : old = dream[d]
  BY ShareAt
<1>1. CASE ResurfaceCutoff(d)
  <2>1. PICK c : c = EvbCutoff
    OBVIOUS
  <2>2. PICK run : run = [old EXCEPT !.pc = "resurface list", !.cutoff = c]
    OBVIOUS
  <2>3. old.pc = "resurface cutoff" /\ Goes(d, run) /\ UNCHANGED <<config, rows, steady>>
    BY <1>0, <1>1, <2>1, <2>2 DEF ResurfaceCutoff
  <2>4. /\ run.pc = "resurface list" /\ run.layers = old.layers /\ run.evicted = old.evicted
        /\ run.doomed = old.doomed
    BY <2>2 DEF Run
  <2> QED BY <1>0, <2>3, <2>4, SameRows, EarlyGoesOn DEF PrunePcs
<1>2. CASE ResurfaceList(d)
  <2>1. PICK list : list = Listed({i \in Ids : Active(i)})
    OBVIOUS
  <2>2. PICK W : W = WorthResurfacing(list, old.cutoff)
    OBVIOUS
  <2>3. PICK f : f = [i \in W |-> list[i]]
    OBVIOUS
  <2>4. PICK run : run = [old EXCEPT !.pc = "resurface", !.todo = W, !.list = f]
    OBVIOUS
  <2>5. old.pc = "resurface list" /\ Goes(d, run) /\ UNCHANGED <<config, rows, steady>>
    BY <1>0, <1>2, <2>1, <2>2, <2>3, <2>4 DEF ResurfaceList
  <2>6. /\ run.pc = "resurface" /\ run.layers = old.layers /\ run.evicted = old.evicted
        /\ run.doomed = old.doomed
    BY <2>4 DEF Run
  <2> QED BY <1>0, <2>5, <2>6, SameRows, EarlyGoesOn DEF PrunePcs
<1>3. CASE Resurfaced(d)
  <2>1. PICK pc : pc = IF config.drift THEN "drift list" ELSE "prune cutoff"
    OBVIOUS
  <2>2. PICK run : run = [old EXCEPT !.pc = pc, !.list = <<>>, !.cutoff = Unset]
    OBVIOUS
  <2>3. old.pc = "resurface" /\ Goes(d, run) /\ UNCHANGED <<config, rows, steady>>
    BY <1>0, <1>3, <2>1, <2>2 DEF Resurfaced
  <2>4. /\ run.pc = pc /\ run.layers = old.layers /\ run.evicted = old.evicted
        /\ run.doomed = old.doomed
    BY <2>2 DEF Run
  <2>5. run.pc \notin PrunePcs
    BY <2>1, <2>4 DEF PrunePcs
  <2> QED BY <1>0, <2>3, <2>4, <2>5, SameRows, EarlyGoesOn DEF PrunePcs
<1>4. CASE DriftList(d)
  <2>1. PICK S : S = {i \in Ids : Active(i) /\ LayerOf(i) = "semantic"}
    OBVIOUS
  <2>2. PICK run : run = [old EXCEPT !.pc = "drift seen", !.todo = S]
    OBVIOUS
  <2>3. old.pc = "drift list" /\ Goes(d, run) /\ UNCHANGED <<config, rows, steady>>
    BY <1>0, <1>4, <2>1, <2>2 DEF DriftList
  <2>4. /\ run.pc = "drift seen" /\ run.layers = old.layers /\ run.evicted = old.evicted
        /\ run.doomed = old.doomed
    BY <2>2 DEF Run
  <2> QED BY <1>0, <2>3, <2>4, SameRows, EarlyGoesOn DEF PrunePcs
<1>5. CASE DriftSeen(d)
  <2>1. PICK S : S = PairsIn(ledger)
    OBVIOUS
  <2>2. PICK run : run = [old EXCEPT !.pc = "drift", !.seen = S]
    OBVIOUS
  <2>3. old.pc = "drift seen" /\ Goes(d, run) /\ UNCHANGED <<config, rows, steady>>
    BY <1>0, <1>5, <2>1, <2>2 DEF DriftSeen
  <2>4. /\ run.pc = "drift" /\ run.layers = old.layers /\ run.evicted = old.evicted
        /\ run.doomed = old.doomed
    BY <2>2 DEF Run
  <2> QED BY <1>0, <2>3, <2>4, SameRows, EarlyGoesOn DEF PrunePcs
<1>6. CASE DriftChecked(d)
  <2>1. PICK run : run = [old EXCEPT !.pc = "prune cutoff", !.seen = {}]
    OBVIOUS
  <2>2. old.pc = "drift" /\ Goes(d, run) /\ UNCHANGED <<config, rows, steady>>
    BY <1>0, <1>6, <2>1 DEF DriftChecked
  <2>3. /\ run.pc = "prune cutoff" /\ run.layers = old.layers /\ run.evicted = old.evicted
        /\ run.doomed = old.doomed
    BY <2>1 DEF Run
  <2> QED BY <1>0, <2>2, <2>3, SameRows, EarlyGoesOn DEF PrunePcs
<1> QED BY <1>1, <1>2, <1>3, <1>4, <1>5, <1>6

LEMMA EarlyWritesShare ==
  ASSUME IInv, SharesSound, NEW d \in Dreamers, NEW i \in Ids,
         Resurface(d, i) \/ RecordDrift(d, i) \/ Flag(d, i)
  PROVE  SharesSound'
<1>0. PICK old \in Run : old = dream[d]
  BY ShareAt
<1>1. CASE Resurface(d, i)
  <2>1. PICK run : run = [old EXCEPT !.todo = @ \ {i}]
    OBVIOUS
  <2>2. old.pc = "resurface" /\ Goes(d, run) /\ UNCHANGED <<config, steady>>
    BY <1>0, <1>1, <2>1 DEF Resurface
  <2>3. /\ run.pc = "resurface" /\ run.layers = old.layers /\ run.evicted = old.evicted
        /\ run.doomed = old.doomed
    BY <2>1, <2>2 DEF Run
  <2>4. \A j \in Ids : NoCheaper(rows[j], rows'[j])
    BY <1>1, ResurfaceStep DEF NoCheaper, Cheap
  <2> QED BY <1>0, <2>2, <2>3, <2>4, EarlyGoesOn DEF PrunePcs
<1>2. CASE RecordDrift(d, i)
  <2>1. PICK run : run = IF DriftsFrom(i, old.seen) = {} THEN [old EXCEPT !.todo = @ \ {i}]
                         ELSE [old EXCEPT !.pc = "flag", !.doomed = {i}]
    OBVIOUS
  <2>2. old.pc = "drift" /\ Goes(d, run) /\ UNCHANGED <<config, rows, steady>>
    BY <1>0, <1>2, <2>1 DEF RecordDrift
  <2>3. /\ \/ run.pc = "drift" /\ run.doomed = old.doomed
           \/ run.pc = "flag"
        /\ run.layers = old.layers /\ run.evicted = old.evicted
    BY <2>1, <2>2 DEF Run
  <2>4. dream[d].pc \notin PrunePcs /\ run.pc \notin PrunePcs /\ dream[d].pc # "flag"
    BY <1>0, <2>2, <2>3 DEF PrunePcs
  <2>5. \A j \in Ids : NoCheaper(rows[j], rows'[j])
    BY <2>2, SameRows
  <2> QED BY <1>0, <2>2, <2>3, <2>4, <2>5, EarlyGoesOn
<1>3. CASE Flag(d, i)
  <2>1. PICK run : run = [old EXCEPT !.pc = "drift", !.todo = @ \ {i}, !.doomed = {}]
    OBVIOUS
  <2>2. /\ old.pc = "flag" /\ Goes(d, run) /\ UNCHANGED <<config, steady>>
        /\ UNCHANGED history /\ UpdateDynamics(i, [flagged |-> TRUE])
    BY <1>0, <1>3, <2>1 DEF Flag
  <2>3. /\ run.pc = "drift" /\ run.layers = old.layers /\ run.evicted = old.evicted
        /\ run.doomed = {}
    BY <2>1 DEF Run
  <2>4. \A j \in Ids : NoCheaper(rows[j], rows'[j])
    BY <2>2, MarkStep DEF NoCheaper, Cheap
  <2>5. dream[d].pc \notin PrunePcs /\ run.pc \notin PrunePcs
    BY <1>0, <2>2, <2>3 DEF PrunePcs
  <2> QED BY <1>0, <2>2, <2>3, <2>4, <2>5, EarlyGoesOn
<1> QED BY <1>1, <1>2, <1>3

(* The cutoff of the prune is the one that covers. *)
LEMMA PruneCutoffShare ==
  ASSUME IInv, SharesSound, NEW d \in Dreamers, PruneCutoff(d)
  PROVE  SharesSound'
<1>0. PICK old \in Run : old = dream[d]
  BY ShareAt
<1>1. PICK V : V = IF config.fsrs THEN Valued ELSE {}
  OBVIOUS
<1>2. PICK c : c = IF config.fsrs THEN EvbCutoff ELSE Unset
  OBVIOUS
<1>3. PICK run : run = [old EXCEPT !.pc = "prune list", !.layers = PruneLayers,
                          !.cutoff = c, !.valued = Cardinality(V)]
  OBVIOUS
<1>4. /\ old.pc = "prune cutoff" /\ UNCHANGED <<config, rows>>
      /\ Goes(d, run) /\ steady' = [steady EXCEPT ![d] = V]
  BY <1>0, <1>1, <1>2, <1>3 DEF PruneCutoff
<1>5. steady'[d] = V /\ \A e \in Dreamers \ {d} : steady'[e] = steady[e]
  BY <1>4, ShareAt
<1>6. /\ run.pc = "prune list" /\ run.layers = PruneLayers
      /\ run.cutoff = c /\ run.valued = Cardinality(V)
      /\ run.evicted = {} /\ run.doomed = {}
  <2>1. old.evicted = {} /\ old.doomed = {}
    BY <1>0, <1>4, ShareAt DEF ShareSound, PrunePcs
  <2> QED BY <1>3, <2>1 DEF Run
<1>7. ASSUME config.fsrs
      PROVE  \E L \in SUBSET Ids : Covers(L, config, run, V, rows)
  <2>1. PICK L : L = {i \in Valued : rows[i].dynamics.evb < c}
    OBVIOUS
  <2>2. L \in SUBSET Ids /\ 100 * Cardinality(L) <= EvbPercent * run.valued
    BY <1>1, <1>2, <1>6, <1>7, <2>1, CutoffSound DEF Valued
  <2>3. \A i \in V : Cheap(rows[i], c) => i \in L
    BY <1>1, <1>7, <2>1 DEF Cheap
  <2>4. Covers(L, config, run, V, rows)
    BY <1>6, <2>2, <2>3 DEF Covers
  <2> QED BY <2>2, <2>4
<1>8. \A i \in V : rows[i].status # "new"
  BY <1>1 DEF Valued, Active
<1>9. ShareSound(config, run, steady'[d], rows')
  BY <1>4, <1>5, <1>6, <1>7, <1>8, ForgettingAssumption DEF ShareSound, PrunePcs
<1>10. \A e \in Dreamers \ {d} : /\ steady'[e] \subseteq steady[e]
                                 /\ \A i \in steady'[e] : NoCheaper(rows[i], rows'[i])
  BY <1>4, <1>5, ShareAt, SameRows
<1> QED BY <1>4, <1>9, <1>10, ShareMoves

LEMMA PruneListShare ==
  ASSUME IInv, SharesSound, NEW d \in Dreamers, PruneList(d)
  PROVE  SharesSound'
<1>0. PICK old \in Run : old = dream[d]
  BY ShareAt
<1>1. PICK S : S = {i \in Ids : Active(i) /\ LayerOf(i) = Head(old.layers)} \ config.protected
  OBVIOUS
<1>2. PICK list : list = Listed(S)
  OBVIOUS
<1>3. PICK run : run = [old EXCEPT !.pc = "judge", !.list = list, !.todo = S]
  OBVIOUS
<1>4. /\ old.pc = "prune list" /\ old.layers # <<>> /\ UNCHANGED <<config, rows, steady>>
      /\ Goes(d, run)
  BY <1>0, <1>1, <1>2, <1>3 DEF PruneList
<1>5. /\ run.pc = "judge" /\ run.list = list /\ run.todo = S
      /\ run.layers = old.layers /\ run.cutoff = old.cutoff
      /\ run.valued = old.valued /\ run.evicted = old.evicted /\ run.doomed = old.doomed
  BY <1>3 DEF Run
<1>6. /\ Head(old.layers) \in ToSet(old.layers)
      /\ ToSet(Tail(old.layers)) \subseteq ToSet(old.layers)
  BY <1>0, <1>4, AheadOfTail, RunFields
<1>7. PICK own : own = steady[d]
  OBVIOUS
<1>8. ShareSound(config, old, own, rows) /\ own \in SUBSET Ids
  BY <1>0, <1>7, ShareAt
<1>9. ASSUME config.fsrs
      PROVE  \E L \in SUBSET Ids : Covers(L, config, run, own, rows)
  <2>1. PICK L \in SUBSET Ids : Covers(L, config, old, own, rows)
    BY <1>4, <1>8, <1>9 DEF ShareSound, PrunePcs
  <2>2. \A i \in own : config.layer[i] \in ToSet(old.layers) /\ Cheap(rows[i], old.cutoff) => i \in L
    BY <1>4, <2>1 DEF Covers, AheadOf
  <2>3. \A i \in S \cap own : CheapItem(list[i], old.cutoff) => i \in L
    <3>1. ASSUME NEW i \in S \cap own, CheapItem(list[i], old.cutoff)
          PROVE  i \in L
      <4>1. list[i].age = rows[i].age /\ list[i].evb = rows[i].dynamics.evb
        BY <1>2, <3>1 DEF Listed
      <4>2. Cheap(rows[i], old.cutoff)
        BY <1>1, <3>1, <4>1 DEF Cheap, CheapItem, Active
      <4>3. config.layer[i] \in ToSet(old.layers)
        BY <1>1, <1>6, <3>1 DEF LayerOf
      <4> QED BY <2>2, <3>1, <4>2, <4>3
    <3> QED BY <3>1
  <2>4. Covers(L, config, run, own, rows)
    BY <1>4, <1>5, <1>6, <2>1, <2>2, <2>3 DEF Covers, AheadOf
  <2> QED BY <2>4
<1>10. \A i \in S : config.layer[i] = Head(old.layers)
  BY <1>1 DEF LayerOf
<1>11. ShareSound(config, run, steady[d], rows)
  BY <1>4, <1>5, <1>7, <1>8, <1>9, <1>10 DEF ShareSound, PrunePcs
<1> QED BY <1>4, <1>11, ShareReads

(* The values that the judging of a layer writes are of that layer, which  *)
(* the run does not list again; to the other runs they are values anew.    *)
LEMMA JudgeShare ==
  ASSUME IInv, SharesSound, NEW d \in Dreamers, NEW i \in Ids, Judge(d, i)
  PROVE  SharesSound'
<1>0. PICK old \in Run : old = dream[d]
  BY ShareAt
<1>1. PICK item : item = old.list[i]
  OBVIOUS
<1>2. PICK list : list = [j \in DOMAIN old.list \ {i} |-> old.list[j]]
  OBVIOUS
<1>3. PICK S : S = IF GivenUp(item, old.cutoff, Head(old.layers))
                   THEN old.doomed \cup {i} ELSE old.doomed
  OBVIOUS
<1>4. PICK run : run = [old EXCEPT !.todo = @ \ {i}, !.list = list, !.doomed = S]
  OBVIOUS
<1>5. /\ old.pc = "judge" /\ i \in old.todo /\ Goes(d, run) /\ config' = config
      /\ IF config.evb
         THEN steady' = [e \in Dreamers |-> IF e = d THEN steady[e] ELSE steady[e] \ {i}]
         ELSE rows' = rows /\ steady' = steady
  BY <1>0, <1>1, <1>2, <1>3, <1>4 DEF Judge
<1>6. /\ run.pc = "judge" /\ run.list = list /\ run.todo = old.todo \ {i}
      /\ run.layers = old.layers /\ run.cutoff = old.cutoff
      /\ run.valued = old.valued /\ run.evicted = old.evicted /\ run.doomed = S
  BY <1>4, <1>5 DEF Run
<1>7. /\ \A j \in Ids \ {i} : rows'[j] = rows[j]
      /\ rows'[i].status = rows[i].status
      /\ item \in Listing
  BY <1>0, <1>1, JudgeStep
<1>8. PICK own : own = steady[d]
  OBVIOUS
<1>9. steady'[d] = own /\ ShareSound(config, old, own, rows) /\ own \in SUBSET Ids
  BY <1>0, <1>5, <1>8, ShareAt
<1>10. \A j \in old.todo \ {i} : list[j] = old.list[j]
  BY <1>0, <1>2, <1>5, RunFields DEF RunSound
<1>11. /\ config.layer[i] = Head(old.layers) /\ IsInjective(old.layers)
       /\ old.layers # <<>> /\ old.layers \in Seq(Layers)
  BY <1>0, <1>5, <1>9, RunFields DEF ShareSound, RunSound
<1>12. Head(old.layers) \notin ToSet(Tail(old.layers))
  BY <1>11, HeadNotAhead
<1>13. ASSUME config.fsrs
       PROVE  \E L \in SUBSET Ids : Covers(L, config, run, own, rows')
  <2>1. PICK L \in SUBSET Ids : Covers(L, config, old, own, rows)
    BY <1>5, <1>9, <1>13 DEF ShareSound, PrunePcs
  <2>2. GivenUp(item, old.cutoff, Head(old.layers)) /\ i \in own => i \in L
    <3>1. item.stability \in Nat
      BY <1>7 DEF Listing
    <3>2. ~Below(FloorRatio, item.stability, 0)
      BY <3>1, TouchedNotBelow, ForgettingAssumption
    <3>3. GivenUp(item, old.cutoff, Head(old.layers)) => CheapItem(item, old.cutoff)
      BY <1>13, <3>2 DEF GivenUp, CheapItem
    <3> QED BY <1>1, <1>5, <2>1, <3>3 DEF Covers
  <2>3. (old.evicted \cup S) \cap own \subseteq L
    BY <1>3, <2>1, <2>2 DEF Covers
  <2>4. ASSUME NEW j \in own, config.layer[j] \in ToSet(Tail(old.layers)),
               Cheap(rows'[j], old.cutoff)
        PROVE  j \in L
    <3>1. j # i
      BY <1>11, <1>12, <2>4
    <3>2. Cheap(rows[j], old.cutoff)
      BY <1>7, <1>9, <2>4, <3>1
    <3> QED BY <1>5, <2>1, <2>4, <3>2 DEF Covers, AheadOf
  <2>5. \A j \in (old.todo \ {i}) \cap own : CheapItem(list[j], old.cutoff) => j \in L
    BY <1>5, <1>10, <2>1 DEF Covers
  <2>6. Covers(L, config, run, own, rows')
    BY <1>6, <2>1, <2>3, <2>4, <2>5 DEF Covers, AheadOf
  <2> QED BY <2>6
<1>14. \A j \in own : rows'[j].status # "new"
  BY <1>7, <1>9 DEF ShareSound
<1>15. ShareSound(config, run, steady'[d], rows')
  BY <1>5, <1>6, <1>9, <1>13, <1>14 DEF ShareSound, PrunePcs
<1>16. ASSUME NEW e \in Dreamers \ {d}
       PROVE  /\ steady'[e] \subseteq steady[e]
              /\ \A j \in steady'[e] : NoCheaper(rows[j], rows'[j])
  <2>1. steady[e] \in SUBSET Ids
    BY ShareAt
  <2>2. \A j \in Ids \ {i} : NoCheaper(rows[j], rows'[j])
    BY <1>7 DEF NoCheaper
  <2>3. CASE config.evb
    <3>1. steady'[e] = steady[e] \ {i}
      BY <1>5, <2>3
    <3> QED BY <2>1, <2>2, <3>1
  <2>4. CASE ~config.evb
    BY <1>5, <2>1, <2>4, SameRows
  <2> QED BY <2>3, <2>4
<1> QED BY <1>5, <1>15, <1>16, ShareMoves

LEMMA JudgedShare ==
  ASSUME IInv, SharesSound, NEW d \in Dreamers, Judged(d)
  PROVE  SharesSound'
<1>0. PICK old \in Run : old = dream[d]
  BY ShareAt
<1>1. PICK run : run = [old EXCEPT !.pc = "give up"]
  OBVIOUS
<1>2. old.pc = "judge" /\ UNCHANGED <<config, rows, steady>> /\ Goes(d, run)
  BY <1>0, <1>1 DEF Judged
<1>3. /\ run.pc = "give up" /\ run.layers = old.layers /\ run.cutoff = old.cutoff
      /\ run.valued = old.valued /\ run.evicted = old.evicted /\ run.doomed = old.doomed
  BY <1>1 DEF Run
<1>4. ShareSound(config, old, steady[d], rows)
  BY <1>0, ShareAt
<1>5. \A L : Covers(L, config, old, steady[d], rows) => Covers(L, config, run, steady[d], rows)
  BY <1>2, <1>3 DEF Covers, AheadOf
<1>6. ShareSound(config, run, steady[d], rows)
  BY <1>2, <1>3, <1>4, <1>5 DEF ShareSound, PrunePcs
<1> QED BY <1>2, <1>6, ShareReads

(* What the giving up of a row writes makes no crystal cheaper. *)
LEMMA GiveUpNoCheaper ==
  ASSUME IInv, NEW d \in Dreamers, NEW i \in Ids, GiveUp(d, i)
  PROVE  \A j \in Ids : NoCheaper(rows[j], rows'[j])
<1>1. rows \in [Ids -> Row]
  BY DEF IInv, TypeOK
<1>2. CASE Present(i)
  <2>1. rows' = [rows EXCEPT ![i].status = "deprecated"]
    BY <1>2 DEF GiveUp
  <2>2. rows'[i].status = "deprecated" /\ \A j \in Ids \ {i} : rows'[j] = rows[j]
    BY <1>1, <2>1 DEF Row
  <2> QED BY <2>2 DEF NoCheaper, Cheap
<1>3. CASE ~Present(i)
  BY <1>3, SameRows DEF GiveUp
<1> QED BY <1>2, <1>3

LEMMA GiveUpShare ==
  ASSUME IInv, SharesSound, NEW d \in Dreamers, NEW i \in Ids, GiveUp(d, i)
  PROVE  SharesSound'
<1>0. PICK old \in Run : old = dream[d]
  BY ShareAt
<1>1. PICK run : run = [old EXCEPT !.doomed = @ \ {i}, !.evicted = @ \cup {i}]
  OBVIOUS
<1>2. old.pc = "give up" /\ i \in old.doomed /\ UNCHANGED <<config, steady>> /\ Goes(d, run)
  BY <1>0, <1>1 DEF GiveUp
<1>3. /\ run.pc = "give up" /\ run.layers = old.layers /\ run.cutoff = old.cutoff
      /\ run.valued = old.valued
      /\ run.evicted = old.evicted \cup {i} /\ run.doomed = old.doomed \ {i}
  BY <1>1, <1>2 DEF Run
<1>4. PICK own : own = steady[d]
  OBVIOUS
<1>5. ShareSound(config, old, own, rows) /\ own \in SUBSET Ids
  BY <1>0, <1>4, ShareAt
<1>6. \A j \in own : rows'[j].status # "new" /\ \A c : Cheap(rows'[j], c) => Cheap(rows[j], c)
  BY <1>5, GiveUpNoCheaper DEF NoCheaper, ShareSound
<1>7. \A L : Covers(L, config, old, own, rows) => Covers(L, config, run, own, rows')
  BY <1>2, <1>3, <1>6 DEF Covers, AheadOf
<1>8. ShareSound(config, run, steady'[d], rows')
  BY <1>2, <1>3, <1>4, <1>5, <1>6, <1>7 DEF ShareSound, PrunePcs
<1>9. \A e \in Dreamers \ {d} : /\ steady'[e] \subseteq steady[e]
                                /\ \A j \in steady'[e] : NoCheaper(rows[j], rows'[j])
  BY <1>2, ShareAt, GiveUpNoCheaper
<1> QED BY <1>2, <1>8, <1>9, ShareMoves

LEMMA NextLayerShare ==
  ASSUME IInv, SharesSound, NEW d \in Dreamers, dream[d].pc \in PrunePcs,
         dream[d].layers # <<>>, NextLayer(d), UNCHANGED <<config, rows>>
  PROVE  SharesSound'
<1>0. PICK old \in Run : old = dream[d]
  BY ShareAt
<1>1. PICK run : run = [old EXCEPT !.pc = "prune list", !.layers = Tail(@),
                          !.list = <<>>, !.todo = {}, !.doomed = {}]
  OBVIOUS
<1>2. Goes(d, run) /\ steady' = steady
  BY <1>0, <1>1 DEF NextLayer
<1>3. /\ run.pc = "prune list" /\ run.layers = Tail(old.layers) /\ run.cutoff = old.cutoff
      /\ run.valued = old.valued /\ run.evicted = old.evicted /\ run.doomed = {}
  BY <1>1 DEF Run
<1>4. ShareSound(config, old, steady[d], rows)
  BY <1>0, ShareAt
<1>5. /\ ToSet(Tail(old.layers)) \subseteq ToSet(old.layers)
      /\ IsInjective(Tail(old.layers))
  <2>1. old.layers \in Seq(Layers) /\ old.layers # <<>> /\ IsInjective(old.layers)
    BY <1>0, <1>4, RunFields DEF ShareSound
  <2> QED BY <2>1, AheadOfTail, HeadNotAhead
<1>6. \A L : Covers(L, config, old, steady[d], rows) => Covers(L, config, run, steady[d], rows)
  BY <1>3, <1>5 DEF Covers, AheadOf
<1>7. ShareSound(config, run, steady[d], rows)
  BY <1>0, <1>3, <1>4, <1>5, <1>6 DEF ShareSound, PrunePcs
<1> QED BY <1>2, <1>7, ShareReads

LEMMA RunShare ==
  ASSUME IInv, SharesSound, NEW d \in Dreamers, RunStep(d)
  PROVE  SharesSound'
<1>1. CASE LayerPruned(d)
  <2>1. dream[d].pc = "give up" /\ NextLayer(d) /\ UNCHANGED <<config, rows>>
    BY <1>1 DEF LayerPruned
  <2>2. dream[d].layers # <<>>
    BY <2>1, RunFields DEF RunSound
  <2> QED BY <2>1, <2>2, NextLayerShare DEF PrunePcs
<1>2. CASE RunEnds(d)
  BY <1>2, NoRunShare DEF RunEnds
<1>3. CASE RunFails(d)
  BY <1>3, NoRunShare, NextLayerShare DEF RunFails, PrunePcs
<1>4. ASSUME NEW i \in Ids,
             \/ Resurface(d, i) \/ RecordDrift(d, i) \/ Flag(d, i) \/ Judge(d, i) \/ GiveUp(d, i)
      PROVE  SharesSound'
  BY <1>4, EarlyWritesShare, JudgeShare, GiveUpShare
<1> QED
  BY <1>1, <1>2, <1>3, <1>4, RunStartsShare, EarlyReadsShare, PruneCutoffShare,
     PruneListShare, JudgedShare DEF RunStep

LEMMA NextShare ==
  ASSUME IInv, SharesSound, [Next]_vars
  PROVE  SharesSound'
<1>1. CASE UNCHANGED vars
  <2>1. UNCHANGED <<config, rows, dream, steady>>
    BY <1>1 DEF vars
  <2> QED BY <2>1, SharesBeside, SameRows
<1> QED
  BY <1>1, CommitShare, ForgetShare, TickShare, RecallShare, UpdateShare, RunShare DEF Next

LEMMA ShareHeld ==
  ASSUME IInv, SharesSound
  PROVE  ValuableSurvive
<1> SUFFICES ASSUME NEW d \in Dreamers, config.fsrs
             PROVE  100 * Cardinality(dream[d].evicted \cap steady[d]) <= EvbPercent * dream[d].valued
  BY DEF ValuableSurvive
<1>1. PICK run, own : run = dream[d] /\ own = steady[d]
  OBVIOUS
<1>2. ShareSound(config, run, own, rows)
  BY <1>1, ShareAt
<1>3. run.valued \in Nat /\ EvbPercent * run.valued \in Nat
  <2>1. run.valued \in Nat BY <1>1, RunFields
  <2>2. EvbPercent \in Nat BY ForgettingAssumption
  <2> QED BY <2>1, <2>2, ProductType
<1>4. CASE run.pc \in PrunePcs
  <2>1. PICK L \in SUBSET Ids : Covers(L, config, run, own, rows)
    BY <1>2, <1>4 DEF ShareSound
  <2>2. IsFiniteSet(L) /\ Cardinality(L) \in Nat
    BY FS_Subset, FS_CardinalityType, ForgettingAssumption
  <2>3. PICK given : given = run.evicted \cap own
    OBVIOUS
  <2>4. given \in SUBSET L
    BY <2>1, <2>3 DEF Covers
  <2>5. Cardinality(given) <= Cardinality(L) /\ Cardinality(given) \in Nat
    BY <2>2, <2>4, FS_Subset, FS_CardinalityType
  <2>6. 100 * Cardinality(L) <= EvbPercent * run.valued
    BY <2>1 DEF Covers
  <2> QED BY <1>1, <1>3, <2>2, <2>3, <2>5, <2>6
<1>5. CASE run.pc \notin PrunePcs
  <2>1. run.evicted \cap own = {}
    BY <1>2, <1>5 DEF ShareSound
  <2>2. Cardinality(run.evicted \cap own) = 0
    BY <2>1, FS_EmptySet
  <2> QED BY <1>1, <1>3, <2>2
<1> QED BY <1>4, <1>5

(* With the curve on, no run gives up more than the share evb_percentile   *)
(* of what had a value when its cutoff was taken, whatever recalls, other  *)
(* runs and its own judging write meanwhile; what another run has valued   *)
(* anew and what was inserted since are not counted.                       *)
THEOREM ShareIsKept == Spec => []ValuableSurvive
<1>1. Init => IInv
  BY InitSafe
<1>2. IInv /\ [Next]_vars => IInv'
  BY NextSafe
<1>3. Init => SharesSound
  <2>1. Init => dream = [d \in Dreamers |-> NoRun] /\ steady = [d \in Dreamers |-> {}]
    BY DEF Init
  <2>2. /\ NoRun.pc = "idle" /\ NoRun.evicted = {} /\ NoRun.doomed = {} /\ NoRun.layers = <<>>
    BY DEF NoRun
  <2>3. ShareSound(config, NoRun, {}, rows)
    BY <2>2, NoneInjective, ShareEarly DEF PrunePcs
  <2> QED BY <2>1, <2>3 DEF SharesSound
<1>4. IInv /\ SharesSound /\ [Next]_vars => SharesSound'
  BY NextShare
<1>5. IInv /\ SharesSound => ValuableSurvive
  BY ShareHeld
<1> QED BY <1>1, <1>2, <1>3, <1>4, <1>5, PTL DEF Spec
=============================================================================
