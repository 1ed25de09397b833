----------------------------- MODULE RecallProofs -----------------------------
(***************************************************************************)
(* Theorems about Recall for every store, query, request and configuration *)
(* and any number of writes between two reads. The lemmas come first:      *)
(* induction and recursion, sequences, sorting, sums.                      *)
(***************************************************************************)
EXTENDS Recall, TLAPS, FiniteSetTheorems, SequenceTheorems, WellFoundedInduction

-------------------------------------------------------------------------------
(* Induction and recursion over numbers. An induction is over a set, the   *)
(* set of the numbers of which the statement holds.                        *)

LEMMA NatSetInduction ==
  ASSUME NEW T, 0 \in T, \A n \in Nat : n \in T => n + 1 \in T
  PROVE  Nat \subseteq T
<1> DEFINE bad == {n \in Nat : n \notin T}
<1> SUFFICES ASSUME bad # {} PROVE FALSE OBVIOUS
<1>1. PICK n \in bad : \A m \in bad : ~ (<<m, n>> \in OpToRel(<, Nat))
  <2>1. bad \subseteq Nat OBVIOUS
  <2> HIDE DEF bad
  <2> QED BY <2>1, WFMin, NatLessThanWellFounded
<1>2. n \in Nat /\ n # 0 /\ n - 1 \in Nat OBVIOUS
<1>3. n - 1 \in T
  <2> SUFFICES ASSUME n - 1 \in bad PROVE FALSE BY <1>2
  <2>1. <<n - 1, n>> \in Nat \X Nat /\ n - 1 < n BY <1>2
  <2>2. <<n - 1, n>> \in OpToRel(<, Nat) BY <2>1 DEF OpToRel
  <2> QED BY <2>2, <1>1
<1> QED BY <1>2, <1>3

LEMMA RangeInduction ==
  ASSUME NEW max \in Nat, NEW T, 0 \in T,
         \A n \in 0..(max - 1) : n \in T => n + 1 \in T
  PROVE  0..max \subseteq T
<1> DEFINE U == {n \in Nat : n <= max => n \in T}
<1>1. 0 \in U OBVIOUS
<1>2. \A n \in Nat : n \in U => n + 1 \in U OBVIOUS
<1>3. Nat \subseteq U
  <2> HIDE DEF U
  <2> QED BY <1>1, <1>2, NatSetInduction
<1> QED BY <1>3

LEMMA LeastNumber ==
  ASSUME NEW T, T \subseteq Nat, T # {}
  PROVE  \E n \in T : \A m \in T : n <= m
<1>1. PICK n \in T : \A m \in T : ~ (<<m, n>> \in OpToRel(<, Nat))
  BY WFMin, NatLessThanWellFounded
<1>2. ASSUME NEW m \in T, m < n PROVE FALSE
  <2>1. <<m, n>> \in Nat \X Nat OBVIOUS
  <2>2. <<m, n>> \in OpToRel(<, Nat) BY <2>1, <1>2 DEF OpToRel
  <2> QED BY <2>2, <1>1
<1>3. \A m \in T : n \in Nat /\ m \in Nat /\ ~(m < n) BY <1>2
<1> QED BY <1>3

(* A function that is defined from its value at the number before.         *)
Runs(f, A, max, a, step) ==
  /\ f \in [0..max -> A]
  /\ f[0] = a /\ \A n \in 1..max : f[n] = step[<<n, f[n - 1]>>]

LEMMA Recursion ==
  ASSUME NEW A, NEW max \in Nat, NEW a \in A, NEW step \in [(1..max) \X A -> A]
  PROVE  \E f : Runs(f, A, max, a, step)
<1> DEFINE T == {m \in Nat : \E f : Runs(f, A, m, a, step)}
<1>1. 0 \in T
  <2> DEFINE f == [n \in 0..0 |-> a]
  <2>1. Runs(f, A, 0, a, step) BY DEF Runs
  <2> QED BY <2>1
<1>2. ASSUME NEW m \in 0..(max - 1), m \in T PROVE m + 1 \in T
  <2>1. PICK f : Runs(f, A, m, a, step) BY <1>2
  <2> DEFINE g == [n \in 0..(m + 1) |-> IF n <= m THEN f[n] ELSE step[<<m + 1, f[m]>>]]
  <2>2. f[m] \in A BY <2>1 DEF Runs
  <2>3. <<m + 1, f[m]>> \in (1..max) \X A BY <2>2
  <2>4. step[<<m + 1, f[m]>>] \in A BY <2>3
  <2>5. g \in [0..(m + 1) -> A] BY <2>1, <2>4 DEF Runs
  <2>6. g[0] = a BY <2>1 DEF Runs
  <2>7. ASSUME NEW n \in 1..(m + 1) PROVE g[n] = step[<<n, g[n - 1]>>]
    <3>1. CASE n <= m
      <4>1. n \in 1..m /\ n \in 0..(m + 1) /\ n - 1 \in 0..(m + 1) /\ n - 1 <= m BY <3>1
      <4>2. g[n] = f[n] /\ g[n - 1] = f[n - 1] BY <3>1, <4>1
      <4>3. f[n] = step[<<n, f[n - 1]>>] BY <4>1, <2>1 DEF Runs
      <4> QED BY <4>2, <4>3
    <3>2. CASE n = m + 1
      <4>1. n - 1 = m /\ ~(n <= m) /\ n \in 0..(m + 1) /\ m \in 0..(m + 1) /\ m <= m BY <3>2
      <4>2. g[n] = step[<<m + 1, f[m]>>] /\ g[m] = f[m] BY <4>1
      <4> QED BY <3>2, <4>1, <4>2
    <3> QED BY <3>1, <3>2
  <2>8. Runs(g, A, m + 1, a, step)
    <3> HIDE DEF g
    <3> QED BY <2>5, <2>6, <2>7 DEF Runs
  <2>9. m + 1 \in Nat OBVIOUS
  <2> HIDE DEF g
  <2> QED BY <2>8, <2>9
<1>3. max \in T
  <2>1. \A n \in 0..(max - 1) : n \in T => n + 1 \in T BY <1>2
  <2> HIDE DEF T
  <2>2. 0..max \subseteq T BY <1>1, <2>1, RangeInduction
  <2> QED BY <2>2
<1> QED BY <1>3

-------------------------------------------------------------------------------
(* Sequences: what there is in the first items of one, in one after the    *)
(* other, and in the items of one that are in a set.                       *)

LEMMA CountTo ==
  ASSUME NEW n \in Nat
  PROVE  IsFiniteSet(1..n) /\ Cardinality(1..n) = n
<1>1. /\ IsFiniteSet(1..n) /\ Cardinality(1..n) = IF 1 > n THEN 0 ELSE n - 1 + 1
  BY FS_Interval
<1> QED BY <1>1

LEMMA OneToOne ==
  ASSUME NEW S, NEW T, IsFiniteSet(S), NEW f \in [S -> T],
         \A x, y \in S : f[x] = f[y] => x = y,
         \A z \in T : \E x \in S : f[x] = z
  PROVE  IsFiniteSet(T) /\ Cardinality(T) = Cardinality(S)
<1>1. f \in Injection(S, T) BY DEF Injection, IsInjective
<1>2. f \in Surjection(S, T) BY DEF Surjection
<1>3. f \in Bijection(S, T) BY <1>1, <1>2 DEF Bijection
<1>4. ExistsBijection(S, T) BY <1>3 DEF ExistsBijection
<1> QED BY <1>4, FS_Bijection

LEMMA ItemsOfSeq ==
  ASSUME NEW S, NEW s \in Seq(S)
  PROVE  /\ ItemsOf(s) = {s[n] : n \in 1..Len(s)}
         /\ ItemsOf(s) \subseteq S
         /\ IsFiniteSet(ItemsOf(s))
         /\ Cardinality(ItemsOf(s)) <= Len(s)
<1>1. Len(s) \in Nat /\ s \in [1..Len(s) -> S] /\ DOMAIN s = 1..Len(s)
  BY LenProperties
<1>2. ItemsOf(s) = {s[n] : n \in 1..Len(s)} /\ ItemsOf(s) \subseteq S
  BY <1>1 DEF ItemsOf
<1> DEFINE f == [n \in 1..Len(s) |-> s[n]]
<1>3. f \in Surjection(1..Len(s), ItemsOf(s)) BY <1>2 DEF Surjection
<1>4. IsFiniteSet(1..Len(s)) /\ Cardinality(1..Len(s)) = Len(s)
  BY <1>1, CountTo
<1>5. IsFiniteSet(ItemsOf(s)) /\ Cardinality(ItemsOf(s)) <= Len(s)
  BY <1>3, <1>4, FS_Surjection
<1> QED BY <1>2, <1>5

LEMMA ItemsAreSeq ==
  ASSUME NEW S, NEW s \in Seq(S), NEW T, ItemsOf(s) \subseteq T
  PROVE  s \in Seq(T)
<1>1. Len(s) \in Nat /\ s \in [1..Len(s) -> S] /\ DOMAIN s = 1..Len(s)
  BY LenProperties
<1>2. s \in [1..Len(s) -> T] BY <1>1 DEF ItemsOf
<1> QED BY <1>1, <1>2, SeqDef

LEMMA NoItems ==
  /\ ItemsOf(<<>>) = {}
  /\ \A S : \A s \in Seq(S) : ItemsOf(s) = {} <=> s = <<>>
<1>1. ItemsOf(<<>>) = {} BY DEF ItemsOf
<1>2. ASSUME NEW S, NEW s \in Seq(S), ItemsOf(s) = {} PROVE s = <<>>
  <2>1. Len(s) \in Nat BY LenProperties
  <2>2. ItemsOf(s) = {s[n] : n \in 1..Len(s)} BY ItemsOfSeq
  <2>3. \A n \in 1..Len(s) : s[n] \in {} BY <2>2, <1>2
  <2>4. Len(s) = 0
    <3> SUFFICES ASSUME Len(s) # 0 PROVE FALSE OBVIOUS
    <3>1. 1 \in 1..Len(s) BY <2>1
    <3> QED BY <3>1, <2>3
  <2> QED BY <2>4, EmptySeq
<1> QED BY <1>1, <1>2

LEMMA HeadTailItems ==
  ASSUME NEW S, NEW s \in Seq(S), s # <<>>
  PROVE  /\ Head(s) \in ItemsOf(s) /\ Tail(s) \in Seq(S)
         /\ ItemsOf(s) = {Head(s)} \cup ItemsOf(Tail(s))
         /\ Len(Tail(s)) = Len(s) - 1
<1>1. Len(s) \in Nat \ {0} BY EmptySeq
<1>2. /\ Tail(s) \in Seq(S) /\ Len(Tail(s)) = Len(s) - 1
      /\ \A i \in 1..Len(Tail(s)) : Tail(s)[i] = s[i + 1]
  BY HeadTailProperties
<1>3. Head(s) = s[1] BY <1>1
<1>4. ItemsOf(s) = {s[n] : n \in 1..Len(s)} BY ItemsOfSeq
<1>5. ItemsOf(Tail(s)) = {Tail(s)[n] : n \in 1..(Len(s) - 1)}
  BY <1>2, ItemsOfSeq
<1>6. \A n \in 1..(Len(s) - 1) : Tail(s)[n] = s[n + 1] BY <1>2
<1>7. \A x \in ItemsOf(s) : x = s[1] \/ x \in ItemsOf(Tail(s))
  <2> SUFFICES ASSUME NEW n \in 1..Len(s), n # 1 PROVE s[n] \in ItemsOf(Tail(s))
    BY <1>4
  <2>1. n - 1 \in 1..(Len(s) - 1) /\ Tail(s)[n - 1] = s[n] BY <1>1, <1>6
  <2> QED BY <2>1, <1>5
<1>8. \A x \in ItemsOf(Tail(s)) : x \in ItemsOf(s)
  <2> SUFFICES ASSUME NEW n \in 1..(Len(s) - 1) PROVE Tail(s)[n] \in ItemsOf(s)
    BY <1>5
  <2>1. n + 1 \in 1..Len(s) BY <1>1
  <2> QED BY <2>1, <1>4, <1>6
<1>9. s[1] \in ItemsOf(s) BY <1>1, <1>4
<1> QED BY <1>2, <1>3, <1>7, <1>8, <1>9

LEMMA FirstOfItems ==
  ASSUME NEW S, NEW s \in Seq(S), NEW n \in Nat
  PROVE  /\ FirstOf(n, s) \in Seq(S)
         /\ Len(FirstOf(n, s)) = IF n < Len(s) THEN n ELSE Len(s)
         /\ \A i \in 1..Len(FirstOf(n, s)) : FirstOf(n, s)[i] = s[i]
         /\ ItemsOf(FirstOf(n, s)) \subseteq ItemsOf(s)
         /\ Len(FirstOf(n, s)) < n => FirstOf(n, s) = s
<1> DEFINE top == IF n < Len(s) THEN n ELSE Len(s)
<1>1. Len(s) \in Nat /\ top \in Nat /\ top <= Len(s) BY LenProperties
<1>2. \A i \in 1..top : s[i] \in S BY <1>1, ElementOfSeq
<1>3. FirstOf(n, s) = SubSeq(s, 1, top) BY DEF FirstOf
<1> HIDE DEF top
<1>4. /\ SubSeq(s, 1, top) \in Seq(S)
      /\ Len(SubSeq(s, 1, top)) = IF 1 <= top THEN top - 1 + 1 ELSE 0
      /\ \A i \in 1..(top - 1 + 1) : SubSeq(s, 1, top)[i] = s[1 + i - 1]
  BY <1>1, <1>2, SubSeqProperties
<1>5. Len(SubSeq(s, 1, top)) = top BY <1>1, <1>4
<1>6. \A i \in 1..top : SubSeq(s, 1, top)[i] = s[i] BY <1>1, <1>4
<1>7. ItemsOf(FirstOf(n, s)) \subseteq ItemsOf(s)
  <2>1. FirstOf(n, s) \in Seq(S) /\ Len(FirstOf(n, s)) = top BY <1>3, <1>4, <1>5
  <2>2. ItemsOf(FirstOf(n, s)) = {FirstOf(n, s)[i] : i \in 1..Len(FirstOf(n, s))}
    BY <2>1, ItemsOfSeq
  <2> QED BY <2>1, <2>2, <1>1, <1>3, <1>6, ItemsOfSeq
<1>8. top < n => FirstOf(n, s) = s
  <2>1. top < n => top = Len(s) BY <1>1 DEF top
  <2> QED BY <2>1, <1>3, SubSeqFull
<1> QED BY <1>3, <1>4, <1>5, <1>6, <1>7, <1>8 DEF top

LEMMA ConcatItems ==
  ASSUME NEW S, NEW s \in Seq(S), NEW t \in Seq(S)
  PROVE  /\ s \o t \in Seq(S) /\ Len(s \o t) = Len(s) + Len(t)
         /\ ItemsOf(s \o t) = ItemsOf(s) \cup ItemsOf(t)
<1>1. Len(s) \in Nat /\ Len(t) \in Nat BY LenProperties
<1>2. /\ s \o t \in Seq(S) /\ Len(s \o t) = Len(s) + Len(t)
      /\ \A i \in 1..(Len(s) + Len(t)) :
           (s \o t)[i] = IF i <= Len(s) THEN s[i] ELSE t[i - Len(s)]
  BY ConcatProperties
<1>3. ItemsOf(s \o t) = {(s \o t)[i] : i \in 1..(Len(s) + Len(t))}
  BY <1>2, ItemsOfSeq
<1>4. ItemsOf(s) = {s[i] : i \in 1..Len(s)} /\ ItemsOf(t) = {t[i] : i \in 1..Len(t)}
  BY ItemsOfSeq
<1>5. \A i \in 1..(Len(s) + Len(t)) : (s \o t)[i] \in ItemsOf(s) \cup ItemsOf(t)
  <2> TAKE i \in 1..(Len(s) + Len(t))
  <2>1. CASE i <= Len(s) BY <2>1, <1>1, <1>2, <1>4
  <2>2. CASE ~(i <= Len(s))
    <3>1. i - Len(s) \in 1..Len(t) BY <2>2, <1>1
    <3> QED BY <3>1, <2>2, <1>2, <1>4
  <2> QED BY <2>1, <2>2
<1>6. \A i \in 1..Len(s) : s[i] \in ItemsOf(s \o t)
  <2> TAKE i \in 1..Len(s)
  <2>1. i \in 1..(Len(s) + Len(t)) /\ (s \o t)[i] = s[i] BY <1>1, <1>2
  <2> QED BY <2>1, <1>3
<1>7. \A i \in 1..Len(t) : t[i] \in ItemsOf(s \o t)
  <2> TAKE i \in 1..Len(t)
  <2>1. i + Len(s) \in 1..(Len(s) + Len(t)) /\ ~(i + Len(s) <= Len(s)) BY <1>1
  <2>2. (s \o t)[i + Len(s)] = t[i] BY <2>1, <1>1, <1>2
  <2> QED BY <2>1, <2>2, <1>3
<1>8. \A x \in ItemsOf(s \o t) : x \in ItemsOf(s) \cup ItemsOf(t) BY <1>3, <1>5
<1>9. \A x \in ItemsOf(s) : x \in ItemsOf(s \o t) BY <1>4, <1>6
<1>10. \A x \in ItemsOf(t) : x \in ItemsOf(s \o t) BY <1>4, <1>7
<1>11. ItemsOf(s \o t) = ItemsOf(s) \cup ItemsOf(t) BY <1>8, <1>9, <1>10
<1> QED BY <1>2, <1>11

LEMMA AppendItems ==
  ASSUME NEW S, NEW s \in Seq(S), NEW e \in S
  PROVE  /\ Append(s, e) \in Seq(S) /\ Len(Append(s, e)) = Len(s) + 1
         /\ ItemsOf(Append(s, e)) = ItemsOf(s) \cup {e}
<1>1. /\ Append(s, e) \in Seq(S) /\ Len(Append(s, e)) = Len(s) + 1
      /\ \A i \in 1..Len(s) : Append(s, e)[i] = s[i]
      /\ Append(s, e)[Len(s) + 1] = e
  BY AppendProperties
<1>2. Len(s) \in Nat BY LenProperties
<1>3. ItemsOf(Append(s, e)) = {Append(s, e)[i] : i \in 1..(Len(s) + 1)}
  BY <1>1, ItemsOfSeq
<1>4. 1..(Len(s) + 1) = 1..Len(s) \cup {Len(s) + 1} BY <1>2
<1>5. ItemsOf(s) = {s[i] : i \in 1..Len(s)} BY ItemsOfSeq
<1> QED BY <1>1, <1>3, <1>4, <1>5

(* What Where picks, item by item.                                         *)
LEMMA Picking ==
  ASSUME NEW S, NEW s \in Seq(S), NEW T
  PROVE  \E f \in [0..Len(s) -> Seq(S)] :
           /\ f[0] = <<>> /\ Where(s, T) = f[Len(s)]
           /\ \A n \in 1..Len(s) :
                f[n] = IF s[n] \in T THEN Append(f[n - 1], s[n]) ELSE f[n - 1]
<1> DEFINE Picks(g) ==
      g = [n \in 0..Len(s) |->
             IF n = 0 THEN <<>>
             ELSE IF s[n] \in T THEN Append(g[n - 1], s[n]) ELSE g[n - 1]]
<1> DEFINE f == CHOOSE g : Picks(g)
<1>1. Len(s) \in Nat /\ <<>> \in Seq(S) /\ \A n \in 1..Len(s) : s[n] \in S
  BY LenProperties, EmptySeq, ElementOfSeq
<1> DEFINE step == [p \in (1..Len(s)) \X Seq(S) |->
                      IF s[p[1]] \in T THEN Append(p[2], s[p[1]]) ELSE p[2]]
<1>2. step \in [(1..Len(s)) \X Seq(S) -> Seq(S)]
  <2> SUFFICES ASSUME NEW p \in (1..Len(s)) \X Seq(S)
               PROVE  (IF s[p[1]] \in T THEN Append(p[2], s[p[1]]) ELSE p[2]) \in Seq(S)
    OBVIOUS
  <2>1. p[1] \in 1..Len(s) /\ p[2] \in Seq(S) /\ s[p[1]] \in S BY <1>1
  <2> QED BY <2>1, AppendProperties
<1>3. PICK h : Runs(h, Seq(S), Len(s), <<>>, step)
  <2> HIDE DEF step
  <2> QED BY <1>1, <1>2, Recursion
<1>4. Picks(h)
  <2>1. ASSUME NEW n \in 1..Len(s)
        PROVE  h[n] = IF s[n] \in T THEN Append(h[n - 1], s[n]) ELSE h[n - 1]
    <3>1. n - 1 \in 0..Len(s) BY <1>1
    <3>2. h[n - 1] \in Seq(S) BY <3>1, <1>3 DEF Runs
    <3>3. <<n, h[n - 1]>> \in (1..Len(s)) \X Seq(S) BY <3>2
    <3>4. h[n] = step[<<n, h[n - 1]>>] BY <1>3 DEF Runs
    <3> QED BY <3>3, <3>4
  <2>2. \A n \in 0..Len(s) : n = 0 \/ n \in 1..Len(s) BY <1>1
  <2>3. \A n \in 0..Len(s) : h[n] = IF n = 0 THEN <<>>
             ELSE IF s[n] \in T THEN Append(h[n - 1], s[n]) ELSE h[n - 1]
    BY <2>1, <2>2, <1>3 DEF Runs
  <2>4. h = [n \in 0..Len(s) |-> h[n]] BY <1>3 DEF Runs
  <2> QED BY <2>3, <2>4
<1>5. Picks(f) BY <1>4
<1>6. Where(s, T) = f[Len(s)] BY DEF Where
<1> HIDE DEF f
<1>7. f[0] = <<>> BY <1>1, <1>5
<1>8. \A n \in 1..Len(s) :
        f[n] = IF s[n] \in T THEN Append(f[n - 1], s[n]) ELSE f[n - 1]
  <2>1. \A n \in 1..Len(s) : n \in 0..Len(s) /\ n # 0 BY <1>1
  <2> QED BY <2>1, <1>5
<1>9. \A n \in 0..Len(s) : f[n] \in Seq(S)
  <2> DEFINE U == {n \in 0..Len(s) : f[n] \in Seq(S)}
  <2>1. 0 \in U
    <3>1. 0 \in 0..Len(s) BY <1>1
    <3>2. f[0] \in Seq(S) BY <1>1, <1>7
    <3> QED BY <3>1, <3>2
  <2>2. ASSUME NEW n \in 0..(Len(s) - 1), n \in U PROVE n + 1 \in U
    <3>1. n + 1 \in 1..Len(s) /\ n + 1 - 1 = n /\ s[n + 1] \in S BY <1>1
    <3>2. f[n + 1] = IF s[n + 1] \in T THEN Append(f[n + 1 - 1], s[n + 1]) ELSE f[n + 1 - 1]
      BY <3>1, <1>8
    <3>3. f[n] \in Seq(S) BY <2>2
    <3>4. Append(f[n], s[n + 1]) \in Seq(S) BY <3>1, <3>3, AppendProperties
    <3>5. f[n + 1] \in Seq(S) BY <3>1, <3>2, <3>3, <3>4
    <3>6. n + 1 \in 0..Len(s) BY <1>1
    <3> QED BY <3>5, <3>6
  <2>3. \A n \in 0..(Len(s) - 1) : n \in U => n + 1 \in U BY <2>2
  <2> HIDE DEF U
  <2>4. 0..Len(s) \subseteq U BY <1>1, <2>1, <2>3, RangeInduction
  <2> QED BY <2>4 DEF U
<1>10. f \in [0..Len(s) -> Seq(S)] BY <1>5, <1>9
<1> QED BY <1>6, <1>7, <1>8, <1>10

LEMMA WhereItems ==
  ASSUME NEW S, NEW s \in Seq(S), NEW T
  PROVE  /\ Where(s, T) \in Seq(S)
         /\ ItemsOf(Where(s, T)) = ItemsOf(s) \cap T
         /\ Len(Where(s, T)) = Cardinality({n \in 1..Len(s) : s[n] \in T})
<1>1. PICK f \in [0..Len(s) -> Seq(S)] :
        /\ f[0] = <<>> /\ Where(s, T) = f[Len(s)]
        /\ \A n \in 1..Len(s) :
             f[n] = IF s[n] \in T THEN Append(f[n - 1], s[n]) ELSE f[n - 1]
  BY Picking
<1>2. Len(s) \in Nat BY LenProperties
<1> DEFINE At(n) == {m \in 1..n : s[m] \in T}
           U == {n \in 0..Len(s) : /\ ItemsOf(f[n]) = {s[m] : m \in At(n)}
                                   /\ Len(f[n]) = Cardinality(At(n))}
<1>3. 0 \in U
  <2>1. At(0) = {} OBVIOUS
  <2>2. ItemsOf(f[0]) = {} /\ Len(f[0]) = 0 BY <1>1, NoItems, EmptySeq
  <2>3. {s[m] : m \in At(0)} = {} /\ Cardinality(At(0)) = 0 BY <2>1, FS_EmptySet
  <2>4. 0 \in 0..Len(s) BY <1>2
  <2> HIDE DEF At
  <2> QED BY <2>2, <2>3, <2>4
<1>4. ASSUME NEW n \in 0..(Len(s) - 1), n \in U PROVE n + 1 \in U
  <2>1. n + 1 \in 1..Len(s) /\ n + 1 - 1 = n /\ s[n + 1] \in S /\ n \in 0..Len(s)
    BY <1>2, ElementOfSeq
  <2>2. ItemsOf(f[n]) = {s[m] : m \in At(n)} /\ Len(f[n]) = Cardinality(At(n))
    BY <1>4
  <2>3. 1..(n + 1) = 1..n \cup {n + 1} /\ n + 1 \notin 1..n OBVIOUS
  <2>4. IsFiniteSet(At(n))
    <3>1. IsFiniteSet(1..n) BY FS_Interval
    <3> QED BY <3>1, FS_Subset
  <2>7. f[n + 1] = IF s[n + 1] \in T THEN Append(f[n + 1 - 1], s[n + 1])
                   ELSE f[n + 1 - 1]
    BY <1>1, <2>1
  <2>8. n + 1 \in 0..Len(s) /\ f[n] \in Seq(S) BY <1>2, <2>1
  <2>5. CASE s[n + 1] \in T
    <3>1. f[n + 1] = Append(f[n], s[n + 1]) BY <2>1, <2>5, <2>7
    <3>2. At(n + 1) = At(n) \cup {n + 1} /\ n + 1 \notin At(n) BY <2>3, <2>5
    <3>3. Cardinality(At(n + 1)) = Cardinality(At(n)) + 1
      BY <2>4, <3>2, FS_AddElement
    <3>4. /\ Len(f[n + 1]) = Len(f[n]) + 1
          /\ ItemsOf(f[n + 1]) = ItemsOf(f[n]) \cup {s[n + 1]}
      BY <2>1, <2>8, <3>1, AppendItems
    <3>5. {s[m] : m \in At(n + 1)} = {s[m] : m \in At(n)} \cup {s[n + 1]} BY <3>2
    <3> HIDE DEF At
    <3> QED BY <2>8, <2>2, <3>3, <3>4, <3>5
  <2>6. CASE s[n + 1] \notin T
    <3>1. f[n + 1] = f[n] BY <2>1, <2>6, <2>7
    <3>2. At(n + 1) = At(n) BY <2>3, <2>6
    <3> HIDE DEF At
    <3> QED BY <2>8, <2>2, <3>1, <3>2
  <2> QED BY <2>5, <2>6
<1>5. \A n \in 0..(Len(s) - 1) : n \in U => n + 1 \in U BY <1>4
<1> HIDE DEF U
<1>6. 0..Len(s) \subseteq U BY <1>2, <1>3, <1>5, RangeInduction
<1>7. Len(s) \in U BY <1>2, <1>6
<1>8. /\ ItemsOf(f[Len(s)]) = {s[m] : m \in At(Len(s))}
      /\ Len(f[Len(s)]) = Cardinality(At(Len(s)))
  BY <1>7 DEF U
<1>9. ItemsOf(s) = {s[n] : n \in 1..Len(s)} BY ItemsOfSeq
<1>10. {s[m] : m \in At(Len(s))} = ItemsOf(s) \cap T BY <1>9
<1>11. f[Len(s)] \in Seq(S) BY <1>2
<1> QED BY <1>1, <1>8, <1>10, <1>11

(* Everything is picked from a sequence whose items are all in the set.    *)
LEMMA WhereAll ==
  ASSUME NEW S, NEW s \in Seq(S), NEW T, ItemsOf(s) \subseteq T
  PROVE  Len(Where(s, T)) = Len(s)
<1>1. Len(s) \in Nat BY LenProperties
<1>2. {n \in 1..Len(s) : s[n] \in T} = 1..Len(s) BY ItemsOfSeq
<1>3. Cardinality(1..Len(s)) = Len(s) BY <1>1, CountTo
<1> QED BY <1>2, <1>3, WhereItems

-------------------------------------------------------------------------------
(* Sorting: by keys that are linearly ordered, Ranked has every value at   *)
(* one place, the lower key before the higher.                             *)

LinearlyKeyed(keyed) ==
  /\ \A p \in keyed : ~KeyBelow(p[1], p[1])
  /\ \A p, q, r \in keyed :
       KeyBelow(p[1], q[1]) /\ KeyBelow(q[1], r[1]) => KeyBelow(p[1], r[1])
  /\ \A p, q \in keyed : p # q => KeyBelow(p[1], q[1]) \/ KeyBelow(q[1], p[1])

Below(keyed, p) == {q \in keyed : KeyBelow(q[1], p[1])}

LEMMA RankOf ==
  ASSUME NEW keyed, IsFiniteSet(keyed), LinearlyKeyed(keyed)
  PROVE  /\ \A p \in keyed : Cardinality(Below(keyed, p)) \in 0..(Cardinality(keyed) - 1)
         /\ \A p, q \in keyed : KeyBelow(p[1], q[1]) =>
              Cardinality(Below(keyed, p)) < Cardinality(Below(keyed, q))
<1>1. Cardinality(keyed) \in Nat BY FS_CardinalityType
<1>2. ASSUME NEW p \in keyed
      PROVE  /\ IsFiniteSet(Below(keyed, p)) /\ Cardinality(Below(keyed, p)) \in Nat
             /\ p \notin Below(keyed, p)
  <2>1. Below(keyed, p) \in SUBSET keyed BY DEF Below
  <2>2. IsFiniteSet(Below(keyed, p)) BY <2>1, FS_Subset
  <2>3. p \notin Below(keyed, p) BY DEF Below, LinearlyKeyed
  <2> QED BY <2>2, <2>3, FS_CardinalityType
<1>3. ASSUME NEW p \in keyed
      PROVE  Cardinality(Below(keyed, p)) \in 0..(Cardinality(keyed) - 1)
  <2>1. IsFiniteSet(keyed \ {p}) /\ Cardinality(keyed \ {p}) = Cardinality(keyed) - 1
    BY FS_RemoveElement
  <2>2. Below(keyed, p) \in SUBSET (keyed \ {p}) BY <1>2 DEF Below
  <2>3. Cardinality(Below(keyed, p)) <= Cardinality(keyed \ {p})
    BY <2>1, <2>2, FS_Subset
  <2> QED BY <1>1, <1>2, <2>1, <2>3
<1>4. ASSUME NEW p \in keyed, NEW q \in keyed, KeyBelow(p[1], q[1])
      PROVE  Cardinality(Below(keyed, p)) < Cardinality(Below(keyed, q))
  <2>1. Below(keyed, p) \in SUBSET Below(keyed, q)
    BY <1>4 DEF Below, LinearlyKeyed
  <2>2. p \in Below(keyed, q) BY <1>4 DEF Below
  <2>3. Below(keyed, p) # Below(keyed, q) BY <1>2, <2>2
  <2>4. IsFiniteSet(Below(keyed, q)) BY <1>2
  <2>5. /\ Cardinality(Below(keyed, p)) <= Cardinality(Below(keyed, q))
        /\ Cardinality(Below(keyed, p)) # Cardinality(Below(keyed, q))
    BY <2>1, <2>3, <2>4, FS_Subset
  <2> QED BY <1>2, <2>5
<1> QED BY <1>3, <1>4

LEMMA RankTaken ==
  ASSUME NEW keyed, IsFiniteSet(keyed), LinearlyKeyed(keyed),
         NEW n \in 1..Cardinality(keyed)
  PROVE  \E p \in keyed : Cardinality(Below(keyed, p)) = n - 1
<1> DEFINE N == Cardinality(keyed)
           f == [p \in keyed |-> Cardinality(Below(keyed, p))]
<1>1. N \in Nat BY FS_CardinalityType
<1>2. f \in [keyed -> 0..(N - 1)] BY RankOf
<1>3. ASSUME NEW p \in keyed, NEW q \in keyed, f[p] = f[q] PROVE p = q
  <2>1. f[p] \in Nat /\ f[q] \in Nat BY <1>1, <1>2
  <2>2. ~KeyBelow(p[1], q[1]) /\ ~KeyBelow(q[1], p[1]) BY <1>3, <2>1, RankOf
  <2> QED BY <2>2 DEF LinearlyKeyed
<1>4. f \in Injection(keyed, 0..(N - 1)) BY <1>2, <1>3 DEF Injection, IsInjective
<1>5. IsFiniteSet(0..(N - 1)) /\ Cardinality(0..(N - 1)) = N
  <2>1. /\ IsFiniteSet(0..(N - 1))
        /\ Cardinality(0..(N - 1)) = IF 0 > N - 1 THEN 0 ELSE N - 1 - 0 + 1
    <3>1. N - 1 \in Int /\ 0 \in Int BY <1>1
    <3> HIDE DEF N
    <3> QED BY <3>1, FS_Interval
  <2> QED BY <1>1, <2>1
<1>6. f \in Surjection(keyed, 0..(N - 1))
  <2> HIDE DEF f
  <2> QED BY <1>4, <1>5, FS_Injection
<1>7. n - 1 \in 0..(N - 1) BY <1>1
<1>8. PICK p \in keyed : f[p] = n - 1 BY <1>6, <1>7 DEF Surjection
<1> QED BY <1>8

(* at: which pair Ranked takes for each place.                             *)
IsRanking(at, keyed) ==
  /\ at \in [1..Cardinality(keyed) -> keyed]
  /\ Ranked(keyed) = [n \in 1..Cardinality(keyed) |-> at[n][2]]
  /\ \A p \in keyed : \E n \in 1..Cardinality(keyed) : at[n] = p
  /\ \A m, n \in 1..Cardinality(keyed) : m < n => KeyBelow(at[m][1], at[n][1])

LEMMA RankedInOrder ==
  ASSUME NEW keyed, IsFiniteSet(keyed), LinearlyKeyed(keyed)
  PROVE  \E at : IsRanking(at, keyed)
<1> DEFINE N == Cardinality(keyed)
           at == [n \in 1..N |-> CHOOSE p \in keyed : Cardinality(Below(keyed, p)) = n - 1]
<1>1. N \in Nat BY FS_CardinalityType
<1>2. ASSUME NEW n \in 1..N
      PROVE  at[n] \in keyed /\ Cardinality(Below(keyed, at[n])) = n - 1
  <2>1. \E p \in keyed : Cardinality(Below(keyed, p)) = n - 1 BY RankTaken
  <2> QED BY <2>1
<1>3. Ranked(keyed) = [n \in 1..N |-> at[n][2]] BY DEF Ranked, Below
<1> HIDE DEF at
<1>4. ASSUME NEW p \in keyed PROVE \E n \in 1..N : at[n] = p
  <2> DEFINE n == Cardinality(Below(keyed, p)) + 1
  <2>1. Cardinality(Below(keyed, p)) \in 0..(N - 1) BY RankOf
  <2>2. n \in 1..N /\ n - 1 = Cardinality(Below(keyed, p)) BY <1>1, <2>1
  <2>3. at[n] \in keyed /\ Cardinality(Below(keyed, at[n])) = n - 1 BY <1>2, <2>2
  <2>4. at[n] = p
    <3> SUFFICES ASSUME at[n] # p PROVE FALSE OBVIOUS
    <3>1. KeyBelow(p[1], at[n][1]) \/ KeyBelow(at[n][1], p[1])
      BY <2>3 DEF LinearlyKeyed
    <3> QED BY <3>1, <2>1, <2>2, <2>3, RankOf
  <2> QED BY <2>2, <2>4
<1>5. ASSUME NEW m \in 1..N, NEW n \in 1..N, m < n PROVE KeyBelow(at[m][1], at[n][1])
  <2>1. /\ at[m] \in keyed /\ Cardinality(Below(keyed, at[m])) = m - 1
        /\ at[n] \in keyed /\ Cardinality(Below(keyed, at[n])) = n - 1
    BY <1>2
  <2>2. at[m] # at[n] BY <2>1, <1>5
  <2>3. ~KeyBelow(at[n][1], at[m][1]) BY <2>1, <1>5, RankOf
  <2> QED BY <2>1, <2>2, <2>3 DEF LinearlyKeyed
<1>6. at = [n \in 1..N |-> at[n]] BY DEF at
<1>7. at \in [1..N -> keyed] BY <1>2, <1>6
<1> QED BY <1>3, <1>4, <1>5, <1>7 DEF IsRanking

(* Tuples of as many integers are linearly ordered.                        *)
LEMMA KeysLinear ==
  ASSUME NEW S, NEW k \in Nat, NEW key \in [S -> [1..k -> Int]],
         \A x, y \in S : key[x] = key[y] => x = y,
         NEW keyed, keyed = {<<key[x], x>> : x \in S}
  PROVE  LinearlyKeyed(keyed)
<1>1. ASSUME NEW s \in [1..k -> Int] PROVE ~KeyBelow(s, s)
  BY DEF KeyBelow
<1>2. ASSUME NEW s \in [1..k -> Int], NEW t \in [1..k -> Int], NEW u \in [1..k -> Int],
             KeyBelow(s, t), KeyBelow(t, u)
      PROVE  KeyBelow(s, u)
  <2>1. PICK m \in 1..k : s[m] < t[m] /\ \A i \in 1..(m - 1) : s[i] = t[i]
    BY <1>2 DEF KeyBelow
  <2>2. PICK n \in 1..k : t[n] < u[n] /\ \A i \in 1..(n - 1) : t[i] = u[i]
    BY <1>2 DEF KeyBelow
  <2>3. CASE m <= n
    <3>1. s[m] < u[m]
      <4>1. CASE m = n BY <4>1, <2>1, <2>2
      <4>2. CASE m < n
        <5>1. m \in 1..(n - 1) BY <4>2
        <5> QED BY <5>1, <2>1, <2>2
      <4> QED BY <2>3, <4>1, <4>2
    <3>2. \A i \in 1..(m - 1) : s[i] = u[i]
      <4> TAKE i \in 1..(m - 1)
      <4>1. i \in 1..(n - 1) BY <2>3
      <4> QED BY <4>1, <2>1, <2>2
    <3> QED BY <3>1, <3>2 DEF KeyBelow
  <2>4. CASE n < m
    <3>1. n \in 1..(m - 1) BY <2>4
    <3>2. s[n] < u[n] BY <3>1, <2>1, <2>2
    <3>3. \A i \in 1..(n - 1) : s[i] = u[i]
      <4> TAKE i \in 1..(n - 1)
      <4>1. i \in 1..(m - 1) BY <2>4
      <4> QED BY <4>1, <2>1, <2>2
    <3> QED BY <3>2, <3>3 DEF KeyBelow
  <2> QED BY <2>3, <2>4
<1>3. ASSUME NEW s \in [1..k -> Int], NEW t \in [1..k -> Int], s # t
      PROVE  KeyBelow(s, t) \/ KeyBelow(t, s)
  <2> DEFINE T == {n \in 1..k : s[n] # t[n]}
  <2>1. T # {} /\ T \subseteq Nat
    <3>1. s = [n \in 1..k |-> s[n]] /\ t = [n \in 1..k |-> t[n]] OBVIOUS
    <3>2. (\A n \in 1..k : s[n] = t[n]) => s = t BY <3>1, Zenon
    <3>3. \E n \in 1..k : s[n] # t[n] BY <3>2, <1>3, Zenon
    <3>4. T # {} BY <3>3, Zenon
    <3>5. T \subseteq Nat OBVIOUS
    <3> QED BY <3>4, <3>5
  <2>2. PICK n \in T : \A m \in T : n <= m
    <3> HIDE DEF T
    <3> QED BY <2>1, LeastNumber
  <2>3. \A i \in 1..(n - 1) : s[i] = t[i]
    <3> SUFFICES ASSUME NEW i \in 1..(n - 1), s[i] # t[i] PROVE FALSE OBVIOUS
    <3>1. i \in T OBVIOUS
    <3> QED BY <3>1, <2>2
  <2>4. s[n] < t[n] \/ t[n] < s[n] OBVIOUS
  <2> QED BY <2>3, <2>4 DEF KeyBelow
<1>4. \A p \in keyed : p[1] \in [1..k -> Int] /\ p[2] \in S /\ p[1] = key[p[2]] /\ p = <<p[1], p[2]>>
  OBVIOUS
<1>5. \A p, q \in keyed : p # q => p[1] # q[1] BY <1>4
<1>6. \A p \in keyed : ~KeyBelow(p[1], p[1]) BY <1>1, <1>4
<1>7. \A p, q, r \in keyed :
        KeyBelow(p[1], q[1]) /\ KeyBelow(q[1], r[1]) => KeyBelow(p[1], r[1])
  BY <1>2, <1>4
<1>8. \A p, q \in keyed : p # q => KeyBelow(p[1], q[1]) \/ KeyBelow(q[1], p[1])
  BY <1>3, <1>4, <1>5
<1> QED BY <1>6, <1>7, <1>8 DEF LinearlyKeyed

(* s has the members of S, each once, a lower key before a higher.         *)
Sorts(s, S, key) ==
  /\ s \in Seq(S) /\ ItemsOf(s) = S /\ Len(s) = Cardinality(S)
  /\ \A m, n \in 1..Len(s) : m < n => KeyBelow(key[s[m]], key[s[n]]) /\ s[m] # s[n]

LEMMA Sorting ==
  ASSUME NEW S, IsFiniteSet(S), NEW k \in Nat, NEW key \in [S -> [1..k -> Int]],
         \A x, y \in S : key[x] = key[y] => x = y
  PROVE  Sorts(Ranked({<<key[x], x>> : x \in S}), S, key)
<1> DEFINE keyed == {<<key[x], x>> : x \in S}
           s == Ranked(keyed)
           N == Cardinality(keyed)
<1>1. LinearlyKeyed(keyed)
  <2>1. keyed = {<<key[x], x>> : x \in S} OBVIOUS
  <2> HIDE DEF keyed
  <2> QED BY <2>1, KeysLinear
<1>2. IsFiniteSet(keyed) /\ N = Cardinality(S)
  <2> DEFINE f == [x \in S |-> <<key[x], x>>]
  <2>1. f \in [S -> keyed] /\ \A p \in keyed : \E x \in S : f[x] = p OBVIOUS
  <2>2. \A x, y \in S : f[x] = f[y] => x = y OBVIOUS
  <2> HIDE DEF f, keyed
  <2> QED BY <2>1, <2>2, OneToOne
<1>3. \A p \in keyed : p[2] \in S /\ p[1] = key[p[2]] OBVIOUS
<1>4. \A x \in S : \E p \in keyed : p[2] = x
  <2> TAKE x \in S
  <2>1. <<key[x], x>> \in keyed /\ <<key[x], x>>[2] = x OBVIOUS
  <2> HIDE DEF keyed
  <2> QED BY <2>1
<1> HIDE DEF keyed
<1>5. PICK at : IsRanking(at, keyed) BY <1>1, <1>2, RankedInOrder
<1>6. /\ N \in Nat /\ at \in [1..N -> keyed] /\ s = [n \in 1..N |-> at[n][2]]
      /\ \A p \in keyed : \E n \in 1..N : at[n] = p
      /\ \A m, n \in 1..N : m < n => KeyBelow(at[m][1], at[n][1])
  BY <1>2, <1>5, FS_CardinalityType DEF IsRanking
<1>7. s \in [1..N -> S] /\ s \in Seq(S)
  <2>1. \A n \in 1..N : at[n][2] \in S BY <1>3, <1>6
  <2> HIDE DEF s, N
  <2>2. s \in [1..N -> S] BY <2>1, <1>6, Zenon
  <2> QED BY <2>2, <1>6, SeqDef
<1>8. Len(s) = N BY <1>6, <1>7
<1> HIDE DEF s
<1>9. ItemsOf(s) = S
  <2>1. ItemsOf(s) = {s[n] : n \in 1..N} /\ ItemsOf(s) \subseteq S
    BY <1>7, <1>8, ItemsOfSeq
  <2>2. ASSUME NEW x \in S PROVE x \in ItemsOf(s)
    <3>1. PICK p \in keyed : p[2] = x BY <1>4
    <3>2. PICK n \in 1..N : at[n] = p BY <1>6
    <3>3. s[n] = x BY <1>6, <3>1, <3>2
    <3> QED BY <2>1, <3>2, <3>3
  <2> QED BY <2>1, <2>2
<1>10. ASSUME NEW m \in 1..N, NEW n \in 1..N, m < n
       PROVE  KeyBelow(key[s[m]], key[s[n]]) /\ s[m] # s[n]
  <2>1. at[m] \in keyed /\ at[n] \in keyed /\ s[m] = at[m][2] /\ s[n] = at[n][2]
    BY <1>6
  <2>2. at[m][1] = key[s[m]] /\ at[n][1] = key[s[n]] BY <1>3, <2>1
  <2>3. KeyBelow(at[m][1], at[n][1]) BY <1>6, <1>10
  <2>4. ~KeyBelow(at[m][1], at[m][1]) BY <1>1, <2>1 DEF LinearlyKeyed
  <2> QED BY <2>2, <2>3, <2>4
<1> QED BY <1>2, <1>7, <1>8, <1>9, <1>10 DEF Sorts, s, keyed

-------------------------------------------------------------------------------
(* Sums: a sum of weights over a finite set is the number of units there   *)
(* are, so it does not depend on the order, and it can be compared along   *)
(* an injection.                                                           *)

(* total: the sum over each subset of S, by taking one member at a time.   *)
SumsUp(total, S, w) ==
  total = [T \in SUBSET S |->
             IF T = {} THEN 0
             ELSE w[CHOOSE x \in T : TRUE] + total[T \ {CHOOSE x \in T : TRUE}]]

Units(T, w) == UNION {{x} \X (1..w[x]) : x \in T}

LEMMA UnitsFinite ==
  ASSUME NEW S, IsFiniteSet(S), NEW w \in [S -> Nat]
  PROVE  IsFiniteSet(Units(S, w)) /\ Cardinality(Units(S, w)) \in Nat
<1> DEFINE units == [x \in S |-> {x} \X (1..w[x])]
           U == {units[x] : x \in S}
<1>1. IsFiniteSet(U)
  <2>1. units \in Surjection(S, U) BY DEF Surjection
  <2> HIDE DEF units, U
  <2> QED BY <2>1, FS_Surjection
<1>2. \A x \in S : IsFiniteSet({x} \X (1..w[x]))
  <2> TAKE x \in S
  <2>1. IsFiniteSet({x}) BY FS_Singleton
  <2>2. IsFiniteSet(1..w[x]) BY CountTo
  <2> QED BY <2>1, <2>2, FS_Product
<1>3. IsFiniteSet(UNION U) BY <1>1, <1>2, FS_UNION
<1>4. UNION U = Units(S, w) BY DEF Units
<1> QED BY <1>3, <1>4, FS_CardinalityType

LEMMA UnitsOfOneMore ==
  ASSUME NEW S, IsFiniteSet(S), NEW w \in [S -> Nat], NEW x \in S
  PROVE  Cardinality(Units(S, w)) = w[x] + Cardinality(Units(S \ {x}, w))
<1>1. IsFiniteSet(Units(S, w)) BY UnitsFinite
<1>2. /\ Units(S, w) = ({x} \X (1..w[x])) \cup Units(S \ {x}, w)
      /\ ({x} \X (1..w[x])) \cap Units(S \ {x}, w) = {}
  BY DEF Units
<1>3. IsFiniteSet({x} \X (1..w[x])) /\ Cardinality({x} \X (1..w[x])) = w[x]
  <2>1. IsFiniteSet({x}) /\ Cardinality({x}) = 1 BY FS_Singleton
  <2>2. IsFiniteSet(1..w[x]) /\ Cardinality(1..w[x]) = w[x] BY CountTo
  <2>3. /\ IsFiniteSet({x} \X (1..w[x]))
        /\ Cardinality({x} \X (1..w[x])) = Cardinality({x}) * Cardinality(1..w[x])
    BY <2>1, <2>2, FS_Product
  <2>4. 1 * w[x] = w[x] OBVIOUS
  <2> QED BY <2>1, <2>2, <2>3, <2>4
<1>4. IsFiniteSet(Units(S \ {x}, w)) BY <1>1, <1>2, FS_Subset
<1>5. Cardinality({}) = 0 BY FS_EmptySet
<1>6. Cardinality(Units(S, w)) = Cardinality({x} \X (1..w[x]))
        + Cardinality(Units(S \ {x}, w)) - Cardinality(({x} \X (1..w[x])) \cap Units(S \ {x}, w))
  BY <1>2, <1>3, <1>4, FS_Union
<1>7. Cardinality(Units(S \ {x}, w)) \in Nat BY <1>4, FS_CardinalityType
<1>8. Cardinality({x} \X (1..w[x])) \in Nat BY <1>3
<1>9. Cardinality(({x} \X (1..w[x])) \cap Units(S \ {x}, w)) = 0 BY <1>2, <1>5
<1> HIDE DEF Units
<1> QED BY <1>3, <1>6, <1>7, <1>8, <1>9

LEMMA SumExists ==
  ASSUME NEW S, IsFiniteSet(S), NEW w \in [S -> Nat]
  PROVE  \E total : SumsUp(total, S, w)
<1> DEFINE total == [T \in SUBSET S |-> Cardinality(Units(T, w))]
<1>1. ASSUME NEW T \in SUBSET S
      PROVE  total[T] = IF T = {} THEN 0
               ELSE w[CHOOSE x \in T : TRUE] + total[T \ {CHOOSE x \in T : TRUE}]
  <2>1. CASE T = {}
    <3>1. Units(T, w) = {} BY <2>1 DEF Units
    <3> QED BY <2>1, <3>1, FS_EmptySet
  <2>2. CASE T # {}
    <3> DEFINE x == CHOOSE x \in T : TRUE
    <3>1. x \in T /\ T \ {x} \in SUBSET S BY <2>2
    <3> HIDE DEF x
    <3>2. IsFiniteSet(T) BY FS_Subset
    <3> DEFINE v == [y \in T |-> w[y]]
    <3>3. v \in [T -> Nat] OBVIOUS
    <3>4. Units(T, v) = Units(T, w) /\ Units(T \ {x}, v) = Units(T \ {x}, w) /\ v[x] = w[x]
      BY <3>1 DEF Units
    <3> HIDE DEF v
    <3>5. Cardinality(Units(T, v)) = v[x] + Cardinality(Units(T \ {x}, v))
      BY <3>1, <3>2, <3>3, UnitsOfOneMore
    <3>6. total[T] = w[x] + total[T \ {x}] BY <3>1, <3>4, <3>5
    <3> HIDE DEF total
    <3> QED BY <2>2, <3>6 DEF x
  <2> QED BY <2>1, <2>2
<1>2. total = [T \in SUBSET S |-> total[T]] OBVIOUS
<1>3. SumsUp(total, S, w)
  <2> HIDE DEF total
  <2> QED BY <1>1, <1>2 DEF SumsUp
<1> QED BY <1>3

LEMMA SumOf ==
  ASSUME NEW S, IsFiniteSet(S), NEW w \in [S -> Nat], NEW total, SumsUp(total, S, w)
  PROVE  total[S] = Cardinality(Units(S, w)) /\ total[S] \in Nat
<1> DEFINE N == Cardinality(S)
           U == {n \in 0..N : \A T \in SUBSET S :
                   Cardinality(T) = n => total[T] = Cardinality(Units(T, w))}
<1>1. N \in Nat BY FS_CardinalityType
<1>2. \A T \in SUBSET S : IsFiniteSet(T) /\ Cardinality(T) \in Nat
  BY FS_Subset, FS_CardinalityType
<1>3. \A T \in SUBSET S : total[T] =
        IF T = {} THEN 0
        ELSE w[CHOOSE x \in T : TRUE] + total[T \ {CHOOSE x \in T : TRUE}]
  BY Zenon DEF SumsUp
<1>4. 0 \in U
  <2>1. 0 \in 0..N BY <1>1
  <2>2. ASSUME NEW T \in SUBSET S, Cardinality(T) = 0
        PROVE  total[T] = Cardinality(Units(T, w))
    <3>1. T = {} BY <1>2, <2>2, FS_EmptySet
    <3>2. Units(T, w) = {} BY <3>1 DEF Units
    <3>3. Cardinality(Units(T, w)) = 0 BY <3>2, FS_EmptySet
    <3> QED BY <1>3, <3>1, <3>3
  <2> QED BY <2>1, <2>2
<1>5. ASSUME NEW n \in 0..(N - 1), n \in U PROVE n + 1 \in U
  <2>1. n + 1 \in 0..N BY <1>1
  <2>2. ASSUME NEW T \in SUBSET S, Cardinality(T) = n + 1
        PROVE  total[T] = Cardinality(Units(T, w))
    <3> DEFINE x == CHOOSE x \in T : TRUE
    <3>1. T # {}
      <4> SUFFICES ASSUME T = {} PROVE FALSE OBVIOUS
      <4>1. Cardinality(T) = 0 BY FS_EmptySet
      <4> QED BY <4>1, <2>2
    <3>2. x \in T /\ T \ {x} \in SUBSET S BY <3>1
    <3>3. total[T] = w[x] + total[T \ {x}] BY <1>3, <3>1
    <3> HIDE DEF x
    <3>4. Cardinality(T \ {x}) = n
      <4>1. Cardinality(T \ {x}) = Cardinality(T) - 1
        BY <1>2, <3>2, FS_RemoveElement
      <4> QED BY <4>1, <2>2
    <3>5. total[T \ {x}] = Cardinality(Units(T \ {x}, w)) BY <1>5, <3>2, <3>4
    <3> DEFINE v == [y \in T |-> w[y]]
    <3>6. v \in [T -> Nat] OBVIOUS
    <3>7. Units(T, v) = Units(T, w) /\ Units(T \ {x}, v) = Units(T \ {x}, w) /\ v[x] = w[x]
      BY <3>2 DEF Units
    <3> HIDE DEF v
    <3>8. Cardinality(Units(T, v)) = v[x] + Cardinality(Units(T \ {x}, v))
      BY <1>2, <3>2, <3>6, UnitsOfOneMore
    <3> QED BY <3>3, <3>5, <3>7, <3>8
  <2> QED BY <2>1, <2>2
<1>6. \A n \in 0..(N - 1) : n \in U => n + 1 \in U BY <1>5
<1>7. N \in U
  <2> HIDE DEF U, N
  <2>1. 0..N \subseteq U BY <1>1, <1>4, <1>6, RangeInduction
  <2> QED BY <1>1, <2>1
<1>8. total[S] = Cardinality(Units(S, w)) BY <1>7
<1> QED BY <1>8, UnitsFinite

LEMMA UnitsAtMost ==
  ASSUME NEW S, NEW w \in [S -> Nat],
         NEW T, IsFiniteSet(T), NEW v \in [T -> Nat], NEW f \in [S -> T],
         \A x, y \in S : f[x] = f[y] => x = y,
         \A x \in S : w[x] <= v[f[x]]
  PROVE  Cardinality(Units(S, w)) <= Cardinality(Units(T, v))
<1> DEFINE g == [u \in Units(S, w) |-> <<f[u[1]], u[2]>>]
<1>1. \A u \in Units(S, w) : u[1] \in S /\ u[2] \in 1..w[u[1]] /\ u = <<u[1], u[2]>>
  BY DEF Units
<1>2. \A u \in Units(S, w) : <<f[u[1]], u[2]>> \in Units(T, v)
  <2> TAKE u \in Units(S, w)
  <2>1. f[u[1]] \in T /\ u[2] \in 1..v[f[u[1]]] BY <1>1
  <2> QED BY <2>1 DEF Units
<1>3. g \in [Units(S, w) -> Units(T, v)] BY <1>2
<1>4. \A x, y \in Units(S, w) : g[x] = g[y] => x = y BY <1>1
<1>5. g \in Injection(Units(S, w), Units(T, v))
  <2> HIDE DEF g
  <2> QED BY <1>3, <1>4 DEF Injection, IsInjective
<1>6. IsFiniteSet(Units(T, v)) BY UnitsFinite
<1> QED BY <1>5, <1>6, FS_Injection

(* The three sums of the model.                                            *)
LEMMA TokensOfIsSum ==
  ASSUME NEW S, IsFiniteSet(S), \A c \in S : c.tokens \in Nat
  PROVE  /\ TokensOf(S) = Cardinality(Units(S, [c \in S |-> c.tokens]))
         /\ TokensOf(S) \in Nat
<1> DEFINE w == [c \in S |-> c.tokens]
           Sum(it) == it = [s \in SUBSET S |->
                        IF s = {} THEN 0
                        ELSE (CHOOSE x \in s : TRUE).tokens + it[s \ {CHOOSE x \in s : TRUE}]]
<1>1. TokensOf(S) = (CHOOSE it : Sum(it))[S]
  BY DEF TokensOf, MapThenSumSet, MapThenFoldSet
<1>2. w \in [S -> Nat] OBVIOUS
<1>3. ASSUME NEW sum PROVE Sum(sum) <=> SumsUp(sum, S, w)
  <2>1. \A s \in SUBSET S : s # {} => w[CHOOSE x \in s : TRUE] = (CHOOSE x \in s : TRUE).tokens
    OBVIOUS
  <2> QED BY <2>1 DEF SumsUp
<1>4. PICK sum : SumsUp(sum, S, w)
  <2> HIDE DEF w
  <2> QED BY <1>2, SumExists
<1> DEFINE total == CHOOSE it : Sum(it)
<1>5. Sum(total)
  <2>1. Sum(sum) BY <1>3, <1>4
  <2> QED BY <2>1, Zenon
<1> HIDE DEF total
<1>6. SumsUp(total, S, w) BY <1>3, <1>5
<1>7. total[S] = Cardinality(Units(S, w)) /\ total[S] \in Nat
  <2> HIDE DEF w
  <2> QED BY <1>2, <1>6, SumOf
<1> QED BY <1>1, <1>7 DEF total

LEMMA TokensInIsSum ==
  ASSUME NEW S, S \subseteq Ids
  PROVE  /\ TokensIn(S) = Cardinality(Units(S, [i \in S |-> Crystals[i].tokens]))
         /\ TokensIn(S) \in Nat
<1> DEFINE w == [i \in S |-> Crystals[i].tokens]
           Sum(it) == it = [s \in SUBSET S |->
                        IF s = {} THEN 0
                        ELSE Crystals[CHOOSE x \in s : TRUE].tokens + it[s \ {CHOOSE x \in s : TRUE}]]
<1>1. TokensIn(S) = (CHOOSE it : Sum(it))[S]
  BY DEF TokensIn, MapThenSumSet, MapThenFoldSet
<1>2. w \in [S -> Nat] /\ IsFiniteSet(S) BY RecallAssumption, FS_Subset
<1>3. ASSUME NEW sum PROVE Sum(sum) <=> SumsUp(sum, S, w)
  <2>1. \A s \in SUBSET S : s # {} =>
          w[CHOOSE x \in s : TRUE] = Crystals[CHOOSE x \in s : TRUE].tokens
    OBVIOUS
  <2> QED BY <2>1 DEF SumsUp
<1>4. PICK sum : SumsUp(sum, S, w)
  <2> HIDE DEF w
  <2> QED BY <1>2, SumExists
<1> DEFINE total == CHOOSE it : Sum(it)
<1>5. Sum(total)
  <2>1. Sum(sum) BY <1>3, <1>4
  <2> QED BY <2>1, Zenon
<1> HIDE DEF total
<1>6. SumsUp(total, S, w) BY <1>3, <1>5
<1>7. total[S] = Cardinality(Units(S, w)) /\ total[S] \in Nat
  <2> HIDE DEF w
  <2> QED BY <1>2, <1>6, SumOf
<1> QED BY <1>1, <1>7 DEF total

LEMMA SharesSum ==
  ASSUME NEW S, IsFiniteSet(S), \A s \in S : s[4] \in Nat
  PROVE  MapThenSumSet(LAMBDA s : s[4], S) \in Nat
<1> DEFINE w == [c \in S |-> c[4]]
           Sum(it) == it = [s \in SUBSET S |->
                        IF s = {} THEN 0
                        ELSE (CHOOSE x \in s : TRUE)[4] + it[s \ {CHOOSE x \in s : TRUE}]]
<1>1. MapThenSumSet(LAMBDA s : s[4], S) = (CHOOSE it : Sum(it))[S]
  BY DEF MapThenSumSet, MapThenFoldSet
<1>2. w \in [S -> Nat] OBVIOUS
<1>3. ASSUME NEW sum PROVE Sum(sum) <=> SumsUp(sum, S, w)
  <2>1. \A s \in SUBSET S : s # {} => w[CHOOSE x \in s : TRUE] = (CHOOSE x \in s : TRUE)[4]
    OBVIOUS
  <2> QED BY <2>1 DEF SumsUp
<1>4. PICK sum : SumsUp(sum, S, w)
  <2> HIDE DEF w
  <2> QED BY <1>2, SumExists
<1> DEFINE total == CHOOSE it : Sum(it)
<1>5. Sum(total)
  <2>1. Sum(sum) BY <1>3, <1>4
  <2> QED BY <2>1, Zenon
<1> HIDE DEF total
<1>6. SumsUp(total, S, w) BY <1>3, <1>5
<1>7. total[S] \in Nat
  <2> HIDE DEF w
  <2> QED BY <1>2, <1>6, SumOf
<1> QED BY <1>1, <1>7 DEF total

-------------------------------------------------------------------------------
(* The composer keeps to its caps.                                         *)

(* Candidates: each has an id of its own.                                  *)
IsPool(S) ==
  /\ IsFiniteSet(S)
  /\ \A c \in S : /\ c.tokens \in Nat
                  /\ {c.id, c.score, c.importance, c.lastAccess} \subseteq Int
  /\ \A c, d \in S : c.id = d.id => c = d

LEMMA PartOfPool ==
  ASSUME NEW S, IsPool(S), NEW T, T \subseteq S
  PROVE  IsPool(T) /\ TokensOf(T) \in Nat /\ TokensOf(T) <= TokensOf(S)
<1>1. IsPool(T)
  <2>1. IsFiniteSet(T) BY FS_Subset DEF IsPool
  <2> QED BY <2>1 DEF IsPool
<1> DEFINE w == [c \in T |-> c.tokens]
           v == [c \in S |-> c.tokens]
           f == [c \in T |-> c]
<1>2. /\ w \in [T -> Nat] /\ v \in [S -> Nat] /\ f \in [T -> S]
      /\ \A x, y \in T : f[x] = f[y] => x = y
      /\ \A x \in T : w[x] <= v[f[x]]
  <2>1. \A c \in S : c.tokens \in Nat BY DEF IsPool
  <2> QED BY <2>1
<1>3. /\ TokensOf(T) = Cardinality(Units(T, w)) /\ TokensOf(T) \in Nat
  BY <1>1, TokensOfIsSum DEF IsPool
<1>4. TokensOf(S) = Cardinality(Units(S, v)) BY TokensOfIsSum DEF IsPool
<1>5. IsFiniteSet(S) BY DEF IsPool
<1>6. Cardinality(Units(T, w)) <= Cardinality(Units(S, v))
  <2> HIDE DEF w, v, f
  <2> QED BY <1>2, <1>5, UnitsAtMost
<1> QED BY <1>1, <1>3, <1>4, <1>6

LEMMA EvictionKeys ==
  ASSUME NEW S, IsPool(S), NEW primary \in BOOLEAN
  PROVE  \E k \in Nat :
           /\ [c \in S |-> EvictionKey(primary, c)] \in [S -> [1..k -> Int]]
           /\ \A x, y \in S : EvictionKey(primary, x) = EvictionKey(primary, y) => x = y
<1>1. /\ \A c, d \in S : c.id = d.id => c = d
      /\ \A c \in S : c.id \in Int /\ c.score \in Int /\ c.importance \in Int /\ c.lastAccess \in Int
  BY DEF IsPool
<1>2. CASE primary
  <2>1. \A c \in S : EvictionKey(primary, c) = <<c.score, c.importance, c.lastAccess, c.id>>
    BY <1>2 DEF EvictionKey
  <2>2. \A c \in S : EvictionKey(primary, c) \in [1..4 -> Int] BY <1>1, <2>1
  <2>3. \A c \in S : EvictionKey(primary, c)[4] = c.id BY <2>1
  <2>4. [c \in S |-> EvictionKey(primary, c)] \in [S -> [1..4 -> Int]] BY <2>2
  <2>5. \A x, y \in S : EvictionKey(primary, x) = EvictionKey(primary, y) => x = y
    BY <2>3, <1>1
  <2> QED BY <2>4, <2>5
<1>3. CASE ~primary
  <2>1. \A c \in S : EvictionKey(primary, c) = <<c.importance, c.lastAccess, c.id>>
    BY <1>3 DEF EvictionKey
  <2>2. \A c \in S : EvictionKey(primary, c) \in [1..3 -> Int] BY <1>1, <2>1
  <2>3. \A c \in S : EvictionKey(primary, c)[3] = c.id BY <2>1
  <2>4. [c \in S |-> EvictionKey(primary, c)] \in [S -> [1..3 -> Int]] BY <2>2
  <2>5. \A x, y \in S : EvictionKey(primary, x) = EvictionKey(primary, y) => x = y
    BY <2>3, <1>1
  <2> QED BY <2>4, <2>5
<1> QED BY <1>2, <1>3

LEMMA EvictionLinear ==
  ASSUME NEW S, IsPool(S), NEW primary \in BOOLEAN
  PROVE  LinearlyKeyed({<<[c \in S |-> EvictionKey(primary, c)][x], x>> : x \in S})
<1> DEFINE key == [c \in S |-> EvictionKey(primary, c)]
<1>1. PICK k \in Nat : key \in [S -> [1..k -> Int]] /\ \A x, y \in S : key[x] = key[y] => x = y
  BY EvictionKeys
<1> HIDE DEF key
<1> DEFINE keyed == {<<key[x], x>> : x \in S}
<1>2. keyed = {<<key[x], x>> : x \in S} OBVIOUS
<1> HIDE DEF keyed
<1>3. LinearlyKeyed(keyed) BY <1>1, <1>2, KeysLinear
<1> QED BY <1>3 DEF key, keyed

LEMMA EvictionSorts ==
  ASSUME NEW S, IsPool(S), NEW primary \in BOOLEAN
  PROVE  Sorts(InOrder(S, LAMBDA c : EvictionKey(primary, c)), S,
               [c \in S |-> EvictionKey(primary, c)])
<1> DEFINE key == [c \in S |-> EvictionKey(primary, c)]
<1>1. IsFiniteSet(S) BY DEF IsPool
<1>2. InOrder(S, LAMBDA c : EvictionKey(primary, c)) = Ranked({<<key[x], x>> : x \in S})
  <2>1. {<<key[x], x>> : x \in S} = {<<EvictionKey(primary, x), x>> : x \in S} OBVIOUS
  <2> QED BY <2>1 DEF InOrder
<1>3. PICK k \in Nat : key \in [S -> [1..k -> Int]] /\ \A x, y \in S : key[x] = key[y] => x = y
  BY EvictionKeys
<1>4. Sorts(Ranked({<<key[x], x>> : x \in S}), S, key)
  <2> HIDE DEF key
  <2> QED BY <1>1, <1>3, Sorting
<1> QED BY <1>2, <1>4

(* The candidates that stay are those from the first that stays on.        *)
LEMMA TrimFits ==
  ASSUME NEW S, IsPool(S), NEW primary \in BOOLEAN, NEW cap \in Nat
  PROVE  /\ Trim(primary, S, cap) \subseteq S
         /\ TokensOf(Trim(primary, S, cap)) <= cap
<1> DEFINE T == Trim(primary, S, cap)
           From(c) == {d \in S : ~EvictedFirst(primary, d, c)}
<1>1. T \subseteq S BY DEF Trim
<1>2. CASE TokensOf(S) <= cap BY <1>2 DEF Trim
<1>3. CASE ~(TokensOf(S) <= cap)
  <2>1. T = {c \in S : TokensOf(From(c)) <= cap} BY <1>3 DEF Trim
  <2>2. CASE T = {}
    <3>1. IsPool({}) BY FS_EmptySet DEF IsPool
    <3>2. /\ TokensOf({}) = Cardinality(Units({}, [c \in {} |-> c.tokens]))
      BY <3>1, TokensOfIsSum, FS_EmptySet
    <3>3. Units({}, [c \in {} |-> c.tokens]) = {} BY DEF Units
    <3>4. TokensOf({}) = 0 BY <3>2, <3>3, FS_EmptySet
    <3> QED BY <1>1, <2>2, <3>4
  <2>3. CASE T # {}
    <3> HIDE DEF T
    <3> DEFINE s == InOrder(T, LAMBDA c : EvictionKey(primary, c))
               key == [c \in T |-> EvictionKey(primary, c)]
    <3>1. IsPool(T) BY <1>1, PartOfPool
    <3>2. Sorts(s, T, key) BY <3>1, EvictionSorts
    <3> HIDE DEF s
    <3>3. /\ s \in Seq(T) /\ ItemsOf(s) = T
          /\ \A m, n \in 1..Len(s) : m < n => KeyBelow(key[s[m]], key[s[n]])
      BY <3>2 DEF Sorts
    <3>4. ItemsOf(s) = {s[n] : n \in 1..Len(s)} /\ Len(s) \in Nat
      BY <3>3, ItemsOfSeq, LenProperties
    <3>5. Len(s) # 0
      <4>1. \E n : n \in 1..Len(s) BY <2>3, <3>3, <3>4
      <4> QED BY <4>1, <3>4
    <3>6. 1 \in 1..Len(s) /\ s[1] \in T BY <3>3, <3>4, <3>5
    <3>7. ASSUME NEW d \in T PROVE ~EvictedFirst(primary, d, s[1])
      <4>1. PICK n \in 1..Len(s) : s[n] = d BY <3>3, <3>4
      <4>2. n = 1 \/ KeyBelow(EvictionKey(primary, s[1]), EvictionKey(primary, d))
        <5>1. Len(s) \in Nat /\ (n # 1 => 1 < n) /\ key[s[1]] = EvictionKey(primary, s[1])
              /\ key[d] = EvictionKey(primary, d)
          BY <3>4, <3>6
        <5> HIDE DEF key
        <5> QED BY <5>1, <3>3, <3>6, <4>1
      <4> DEFINE keyed == {<<key[x], x>> : x \in T}
      <4>3. LinearlyKeyed(keyed)
        <5> HIDE DEF keyed
        <5>1. LinearlyKeyed({<<[c \in T |-> EvictionKey(primary, c)][x], x>> : x \in T})
          BY <3>1, EvictionLinear
        <5> QED BY <5>1 DEF keyed
      <4>4. <<key[d], d>> \in keyed /\ <<key[s[1]], s[1]>> \in keyed BY <3>6
      <4>5. /\ ~KeyBelow(key[d], key[d])
            /\ ~(KeyBelow(key[d], key[s[1]]) /\ KeyBelow(key[s[1]], key[d]))
        <5> HIDE DEF keyed, key
        <5>1. \A p \in keyed : ~KeyBelow(p[1], p[1]) BY <4>3 DEF LinearlyKeyed
        <5>2. \A p, q, r \in keyed :
                KeyBelow(p[1], q[1]) /\ KeyBelow(q[1], r[1]) => KeyBelow(p[1], r[1])
          BY <4>3 DEF LinearlyKeyed
        <5>3. <<key[d], d>>[1] = key[d] /\ <<key[s[1]], s[1]>>[1] = key[s[1]] OBVIOUS
        <5> QED BY <4>4, <5>1, <5>2, <5>3
      <4>6. key[d] = EvictionKey(primary, d) /\ key[s[1]] = EvictionKey(primary, s[1])
        BY <3>6
      <4> HIDE DEF key
      <4> QED BY <4>1, <4>2, <4>5, <4>6 DEF EvictedFirst
    <3>8. T \subseteq From(s[1]) BY <1>1, <3>7
    <3>9. From(s[1]) \subseteq S /\ TokensOf(From(s[1])) <= cap BY <2>1, <3>6
    <3>10. IsPool(From(s[1])) /\ TokensOf(From(s[1])) \in Nat BY <3>9, PartOfPool
    <3>11. TokensOf(T) <= TokensOf(From(s[1])) /\ TokensOf(T) \in Nat
      BY <3>8, <3>10, PartOfPool
    <3>12. TokensOf(T) <= cap BY <3>9, <3>10, <3>11
    <3> QED BY <1>1, <3>12 DEF T
  <2> QED BY <2>2, <2>3
<1> QED BY <1>2, <1>3

LEMMA FlattenItems ==
  ASSUME NEW S, NEW seqs \in Seq(Seq(S))
  PROVE  /\ FlattenSeq(seqs) \in Seq(S)
         /\ ItemsOf(FlattenSeq(seqs)) \subseteq UNION {ItemsOf(seqs[i]) : i \in 1..Len(seqs)}
<1> DEFINE N == Len(seqs)
           all == UNION {ItemsOf(seqs[i]) : i \in 1..N}
           Flat(g) == g = [i \in 1..N |-> IF i = 1 THEN seqs[i] ELSE g[i - 1] \o seqs[i]]
           flat == CHOOSE g : Flat(g)
<1>1. N \in Nat /\ \A i \in 1..N : seqs[i] \in Seq(S) BY LenProperties, ElementOfSeq
<1>2. CASE N = 0
  <2>1. FlattenSeq(seqs) = seqs BY <1>2 DEF FlattenSeq
  <2>2. seqs = <<>> BY <1>2, EmptySeq
  <2> QED BY <2>1, <2>2, NoItems, EmptySeq
<1>3. CASE N # 0
  <2>1. FlattenSeq(seqs) = flat[N] BY <1>3 DEF FlattenSeq
  <2> DEFINE step == [p \in (1..N) \X Seq(S) |-> p[2] \o seqs[p[1]]]
  <2>2. step \in [(1..N) \X Seq(S) -> Seq(S)]
    <3> SUFFICES ASSUME NEW p \in (1..N) \X Seq(S) PROVE p[2] \o seqs[p[1]] \in Seq(S)
      OBVIOUS
    <3>1. p[1] \in 1..N /\ p[2] \in Seq(S) OBVIOUS
    <3> QED BY <3>1, <1>1, ConcatProperties
  <2>3. <<>> \in Seq(S) BY EmptySeq
  <2>4. PICK h : Runs(h, Seq(S), N, <<>>, step)
    <3> HIDE DEF step, N
    <3> QED BY <1>1, <2>2, <2>3, Recursion
  <2>5. h \in [0..N -> Seq(S)] /\ h[0] = <<>> /\ \A n \in 1..N : h[n] = step[<<n, h[n - 1]>>]
    BY <2>4 DEF Runs
  <2> DEFINE g == [i \in 1..N |-> h[i]]
  <2>6. ASSUME NEW n \in 1..N PROVE g[n] = IF n = 1 THEN seqs[n] ELSE g[n - 1] \o seqs[n]
    <3>1. n - 1 \in 0..N BY <1>1
    <3>2. h[n - 1] \in Seq(S) BY <2>5, <3>1
    <3>3. <<n, h[n - 1]>> \in (1..N) \X Seq(S) BY <3>2
    <3>4. h[n] = h[n - 1] \o seqs[n] BY <2>5, <3>3
    <3>5. CASE n = 1
      <4>1. h[n - 1] = <<>> BY <2>5, <3>5
      <4>2. <<>> \o seqs[n] = seqs[n] BY <1>1, ConcatEmptySeq
      <4> QED BY <3>4, <3>5, <4>1, <4>2
    <3>6. CASE n # 1
      <4>1. n - 1 \in 1..N BY <1>1, <3>6
      <4> QED BY <3>4, <3>6, <4>1
    <3> QED BY <3>5, <3>6
  <2>7. Flat(g)
    <3>1. g = [i \in 1..N |-> g[i]] OBVIOUS
    <3> HIDE DEF g
    <3> QED BY <2>6, <3>1
  <2>8. Flat(flat) BY <2>7, Zenon
  <2>9. \A n \in 1..N : flat[n] = IF n = 1 THEN seqs[n] ELSE flat[n - 1] \o seqs[n]
    <3> HIDE DEF flat
    <3> QED BY <2>8
  <2> HIDE DEF flat, Flat
  <2> DEFINE U == {n \in 0..(N - 1) : flat[n + 1] \in Seq(S) /\ ItemsOf(flat[n + 1]) \subseteq all}
  <2>10. 0 \in U
    <3>1. 0 \in 0..(N - 1) /\ 1 \in 1..N /\ 0 + 1 = 1 BY <1>1, <1>3
    <3>2. flat[1] = seqs[1] BY <2>9, <3>1
    <3>3. flat[1] \in Seq(S) /\ ItemsOf(flat[1]) \subseteq all BY <1>1, <3>1, <3>2
    <3> QED BY <3>1, <3>3
  <2>11. ASSUME NEW n \in 0..(N - 1 - 1), n \in U PROVE n + 1 \in U
    <3>1. n + 1 \in 0..(N - 1) /\ n + 1 + 1 \in 1..N /\ n + 1 + 1 # 1 /\ n + 1 + 1 - 1 = n + 1
      BY <1>1
    <3>2. flat[n + 1 + 1] = flat[n + 1] \o seqs[n + 1 + 1]
      <4> DEFINE m == n + 1 + 1
      <4>1. m \in 1..N /\ m # 1 /\ m - 1 = n + 1 BY <3>1
      <4> HIDE DEF m
      <4>2. flat[m] = flat[m - 1] \o seqs[m] BY <2>9, <4>1
      <4>3. flat[m] = flat[n + 1] \o seqs[m] BY <4>1, <4>2
      <4> QED BY <4>3 DEF m
    <3>3. flat[n + 1] \in Seq(S) /\ ItemsOf(flat[n + 1]) \subseteq all BY <2>11
    <3>4. seqs[n + 1 + 1] \in Seq(S) /\ ItemsOf(seqs[n + 1 + 1]) \subseteq all BY <1>1, <3>1
    <3> HIDE DEF all
    <3>5. flat[n + 1 + 1] \in Seq(S) /\ ItemsOf(flat[n + 1 + 1]) \subseteq all
      BY <3>2, <3>3, <3>4, ConcatItems
    <3> QED BY <3>1, <3>5
  <2>12. \A n \in 0..(N - 1 - 1) : n \in U => n + 1 \in U BY <2>11
  <2>13. N - 1 \in Nat BY <1>1, <1>3
  <2>14. 0..(N - 1) \subseteq U
    <3> HIDE DEF U
    <3> QED BY <2>10, <2>12, <2>13, RangeInduction
  <2>15. N - 1 \in U /\ N - 1 + 1 = N
    <3>1. N - 1 \in 0..(N - 1) /\ N - 1 + 1 = N BY <1>1, <2>13
    <3> HIDE DEF U
    <3> QED BY <2>14, <3>1
  <2>16. flat[N] \in Seq(S) /\ ItemsOf(flat[N]) \subseteq all BY <2>15
  <2> QED BY <2>1, <2>16
<1> QED BY <1>2, <1>3

LEMMA TrimsFit ==
  ASSUME NEW S, IsPool(S), NEW primary \in BOOLEAN
  PROVE  /\ SlotsTrimmed(primary, S) \subseteq S
         /\ Compose(primary, S) \subseteq S
         /\ TokensOf(Compose(primary, S)) <= TotalCap
         /\ \A slot \in Slots : TokensOf(InSlot(Compose(primary, S), slot)) <= SlotCap[slot]
<1> DEFINE Run(slot) == Trim(primary, InSlot(S, slot), SlotCap[slot])
<1>1. \A slot \in Slots : SlotCap[slot] \in Nat BY ComposerAssumption
<1>2. ASSUME NEW slot \in Slots
      PROVE  /\ IsPool(InSlot(S, slot)) /\ Run(slot) \subseteq InSlot(S, slot)
             /\ TokensOf(Run(slot)) <= SlotCap[slot]
  <2>1. InSlot(S, slot) \subseteq S BY DEF InSlot
  <2>2. IsPool(InSlot(S, slot)) BY <2>1, PartOfPool
  <2> QED BY <1>1, <2>2, TrimFits
<1>3. SlotsTrimmed(primary, S) \subseteq S BY <1>2 DEF SlotsTrimmed, InSlot
<1>4. IsPool(SlotsTrimmed(primary, S)) BY <1>3, PartOfPool
<1>5. TotalCap \in Nat BY ComposerAssumption
<1>6. /\ Compose(primary, S) \subseteq SlotsTrimmed(primary, S)
      /\ TokensOf(Compose(primary, S)) <= TotalCap
  BY <1>4, <1>5, TrimFits DEF Compose
<1>7. ASSUME NEW slot \in Slots
      PROVE  TokensOf(InSlot(Compose(primary, S), slot)) <= SlotCap[slot]
  <2>1. InSlot(Compose(primary, S), slot) \subseteq Run(slot)
    <3> SUFFICES ASSUME NEW c \in Compose(primary, S), c.slot = slot PROVE c \in Run(slot)
      BY DEF InSlot
    <3>1. PICK other \in Slots : c \in Run(other) BY <1>6 DEF SlotsTrimmed
    <3> HIDE DEF Run
    <3>2. c.slot = other BY <1>2, <3>1 DEF InSlot
    <3> QED BY <3>1, <3>2
  <2>2. Run(slot) \subseteq S BY <1>2 DEF InSlot
  <2>3. IsPool(Run(slot)) BY <2>2, PartOfPool
  <2>4. /\ TokensOf(InSlot(Compose(primary, S), slot)) <= TokensOf(Run(slot))
        /\ TokensOf(InSlot(Compose(primary, S), slot)) \in Nat
    BY <2>1, <2>3, PartOfPool
  <2>5. TokensOf(Run(slot)) \in Nat BY <2>2, PartOfPool
  <2> QED BY <1>1, <1>2, <2>4, <2>5
<1> QED BY <1>3, <1>6, <1>7

LEMMA WorkingSetFits ==
  ASSUME NEW S, NEW s \in Seq(S), IsPool(ItemsOf(s)), NEW primary \in BOOLEAN
  PROVE  /\ WorkingSet(primary, s) \in Seq(S)
         /\ ItemsOf(WorkingSet(primary, s)) \subseteq Compose(primary, ItemsOf(s))
         /\ primary => Len(WorkingSet(primary, s)) <= Len(s)
<1> DEFINE all == ItemsOf(s)
           kept == Compose(primary, all)
<1>1. all \subseteq S /\ IsFiniteSet(all) /\ Cardinality(all) <= Len(s) BY ItemsOfSeq
<1>2. kept \subseteq all BY TrimsFit
<1>3. IsPool(kept) BY <1>2, PartOfPool
<1>4. CASE primary
  <2> HIDE DEF kept, all
  <2> DEFINE key == [c \in kept |-> <<-c.score, c.id>>]
             ws == InOrder(kept, LAMBDA c : <<-c.score, c.id>>)
  <2>1. ws = Ranked({<<key[x], x>> : x \in kept})
    <3>1. {<<key[x], x>> : x \in kept} = {<<<<-x.score, x.id>>, x>> : x \in kept} OBVIOUS
    <3> QED BY <3>1 DEF InOrder
  <2>2. IsFiniteSet(kept) /\ key \in [kept -> [1..2 -> Int]]
        /\ \A x, y \in kept : key[x] = key[y] => x = y
    <3>1. /\ IsFiniteSet(kept) /\ \A c, d \in kept : c.id = d.id => c = d
          /\ \A c \in kept : c.score \in Int /\ c.id \in Int
      BY <1>3 DEF IsPool
    <3>2. \A c \in kept : <<-c.score, c.id>> \in [1..2 -> Int]
      <4> TAKE c \in kept
      <4>1. -c.score \in Int /\ c.id \in Int BY <3>1
      <4> QED BY <4>1
    <3>3. \A c \in kept : key[c][2] = c.id OBVIOUS
    <3>4. key \in [kept -> [1..2 -> Int]] BY <3>2
    <3> HIDE DEF key
    <3> QED BY <3>1, <3>3, <3>4
  <2>3. 2 \in Nat OBVIOUS
  <2>4. Sorts(ws, kept, key)
    <3> HIDE DEF key, ws
    <3> QED BY <2>1, <2>2, <2>3, Sorting
  <2> HIDE DEF ws, key
  <2>5. ws \in Seq(kept) /\ ItemsOf(ws) = kept /\ Len(ws) = Cardinality(kept)
    BY <2>4 DEF Sorts
  <2>6. Cardinality(kept) <= Cardinality(all) /\ Cardinality(kept) \in Nat /\ Cardinality(all) \in Nat
    BY <1>1, <1>2, FS_Subset, FS_CardinalityType
  <2>7. Len(s) \in Nat BY LenProperties
  <2>8. ws \in Seq(S) BY <1>1, <1>2, <2>5, ItemsAreSeq
  <2>9. WorkingSet(primary, s) = ws BY <1>4 DEF WorkingSet, kept, ws, all
  <2> QED BY <1>1, <2>5, <2>6, <2>7, <2>8, <2>9 DEF kept, all
<1>5. CASE ~primary
  <2>1. WorkingSet(primary, s) = PassOrder(primary, s) BY <1>5 DEF WorkingSet
  <2> DEFINE over == TokensOf(SlotsTrimmed(primary, all)) > TotalCap
             Sorted(T) == InOrder(T, LAMBDA c : EvictionKey(primary, c))
             SlotRun(slot) ==
               IF TokensOf(InSlot(all, slot)) <= SlotCap[slot]
               THEN Where(s, InSlot(all, slot))
               ELSE Sorted(Trim(primary, InSlot(all, slot), SlotCap[slot]))
             runs == [n \in DOMAIN SlotOrder |-> SlotRun(SlotOrder[n])]
  <2>2. PassOrder(primary, s) = IF over THEN Sorted(kept) ELSE FlattenSeq(runs)
    BY DEF PassOrder
  <2>3. ASSUME NEW T, T \subseteq all PROVE Sorted(T) \in Seq(S) /\ ItemsOf(Sorted(T)) = T
    <3>1. IsPool(T) BY <2>3, PartOfPool
    <3>2. Sorts(Sorted(T), T, [c \in T |-> EvictionKey(primary, c)]) BY <3>1, EvictionSorts
    <3> HIDE DEF Sorted
    <3>3. Sorted(T) \in Seq(T) /\ ItemsOf(Sorted(T)) = T BY <3>2 DEF Sorts
    <3>4. T \subseteq S BY <1>1, <2>3
    <3> QED BY <3>3, <3>4, ItemsAreSeq
  <2>4. CASE over
    <3>1. Sorted(kept) \in Seq(S) /\ ItemsOf(Sorted(kept)) = kept BY <1>2, <2>3
    <3> HIDE DEF Sorted
    <3> QED BY <1>5, <2>1, <2>2, <2>4, <3>1
  <2>5. CASE ~over
    <3>1. IsPool(SlotsTrimmed(primary, all)) /\ TokensOf(SlotsTrimmed(primary, all)) \in Nat
      BY TrimsFit, PartOfPool
    <3>2. kept = SlotsTrimmed(primary, all)
      BY <2>5, <3>1, ComposerAssumption DEF Compose, Trim
    <3>3. ASSUME NEW slot \in Slots
          PROVE  SlotRun(slot) \in Seq(S) /\ ItemsOf(SlotRun(slot)) \subseteq kept
      <4> DEFINE T == Trim(primary, InSlot(all, slot), SlotCap[slot])
      <4>1. T \subseteq kept BY <3>2 DEF SlotsTrimmed
      <4>2. CASE TokensOf(InSlot(all, slot)) <= SlotCap[slot]
        <5>1. T = InSlot(all, slot) BY <4>2 DEF Trim
        <5>2. /\ Where(s, InSlot(all, slot)) \in Seq(S)
              /\ ItemsOf(Where(s, InSlot(all, slot))) = all \cap InSlot(all, slot)
          BY WhereItems
        <5> QED BY <4>1, <4>2, <5>1, <5>2
      <4>3. CASE ~(TokensOf(InSlot(all, slot)) <= SlotCap[slot])
        <5>1. T \subseteq all BY <1>2, <4>1
        <5>2. SlotRun(slot) = Sorted(T) BY <4>3
        <5>3. Sorted(T) \in Seq(S) /\ ItemsOf(Sorted(T)) = T
          <6> HIDE DEF T, Sorted
          <6> QED BY <2>3, <5>1
        <5> HIDE DEF SlotRun, Sorted
        <5> QED BY <4>1, <5>2, <5>3
      <4> QED BY <4>2, <4>3
    <3>4. SlotOrder \in Seq(Slots) BY ComposerAssumption
    <3>5. /\ Len(SlotOrder) \in Nat /\ DOMAIN SlotOrder = 1..Len(SlotOrder)
          /\ \A n \in 1..Len(SlotOrder) : SlotOrder[n] \in Slots
      BY <3>4, LenProperties, ElementOfSeq
    <3> HIDE DEF SlotRun, kept
    <3>6. runs \in [1..Len(SlotOrder) -> Seq(S)] BY <3>3, <3>5
    <3>7. runs \in Seq(Seq(S)) /\ Len(runs) = Len(SlotOrder)
      <4> HIDE DEF runs
      <4>1. runs \in Seq(Seq(S)) BY <3>5, <3>6, SeqDef
      <4>2. DOMAIN runs = 1..Len(runs) /\ Len(runs) \in Nat BY <4>1, LenProperties
      <4> QED BY <3>5, <3>6, <4>1, <4>2
    <3>8. \A n \in 1..Len(runs) : ItemsOf(runs[n]) \subseteq kept BY <3>3, <3>5, <3>7
    <3> HIDE DEF runs
    <3>9. /\ FlattenSeq(runs) \in Seq(S)
          /\ ItemsOf(FlattenSeq(runs)) \subseteq UNION {ItemsOf(runs[i]) : i \in 1..Len(runs)}
      BY <3>7, FlattenItems
    <3>10. ItemsOf(FlattenSeq(runs)) \subseteq kept BY <3>8, <3>9
    <3> QED BY <1>5, <2>1, <2>2, <2>5, <3>9, <3>10 DEF kept
  <2> QED BY <2>4, <2>5
<1> QED BY <1>4, <1>5

-------------------------------------------------------------------------------
(* The rankings: what the walks over the graph and the merges return.      *)

LEMMA IdsFinite ==
  IsFiniteSet(Ids) /\ \A T : T \subseteq Ids => IsFiniteSet(T) /\ \A i \in T : i \in Int
<1>1. IsFiniteSet(Ids) /\ Ids \subseteq Nat \ {0} BY RecallAssumption
<1>2. ASSUME NEW T, T \subseteq Ids PROVE IsFiniteSet(T) /\ \A i \in T : i \in Int
  <2>1. IsFiniteSet(T) BY <1>1, <1>2, FS_Subset
  <2> QED BY <1>1, <1>2, <2>1
<1> QED BY <1>1, <1>2

LEMMA MinOf ==
  ASSUME NEW T, T \subseteq Nat, T # {}
  PROVE  Min(T) \in T /\ \A n \in T : Min(T) <= n
<1>1. \E n \in T : \A m \in T : n <= m BY LeastNumber
<1> QED BY <1>1 DEF Min

LEMMA FirstPlaceOf ==
  ASSUME NEW S, NEW s \in Seq(S), NEW x \in ItemsOf(s)
  PROVE  FirstPlace(s, x) \in 1..Len(s) /\ s[FirstPlace(s, x)] = x
<1> DEFINE T == {n \in DOMAIN s : s[n] = x}
<1>1. DOMAIN s = 1..Len(s) BY LenProperties
<1>2. T \subseteq Nat /\ T # {} BY <1>1 DEF ItemsOf
<1> HIDE DEF T
<1>3. Min(T) \in T BY <1>2, MinOf
<1> QED BY <1>1, <1>3 DEF T, FirstPlace

LEMMA ReachesIds ==
  ASSUME NEW graph, \A e \in graph.edges : {e.from, e.to} \subseteq Ids,
         NEW from \in SUBSET Ids, NEW depth \in Nat, NEW excluding \in BOOLEAN
  PROVE  NeighborExpand(graph, from, depth, excluding) \subseteq Ids
<1> DEFINE A == [found : SUBSET Ids, visited : SUBSET Ids, frontier : SUBSET Ids]
           Hop(last) == OneHop(graph, last.frontier, excluding) \ (IF excluding THEN from ELSE {})
           Onward(last) == [found |-> last.found \cup Hop(last),
                            visited |-> last.visited \cup Hop(last),
                            frontier |-> Hop(last) \ last.visited]
           first == [found |-> {}, visited |-> from, frontier |-> from]
           Walks(g) == g = [n \in 0..depth |-> IF n = 0 THEN first ELSE Onward(g[n - 1])]
           walk == CHOOSE g : Walks(g)
<1>1. NeighborExpand(graph, from, depth, excluding) = walk[depth].found
  BY DEF NeighborExpand
<1>2. \A last \in A : Onward(last) \in A
  <2> TAKE last \in A
  <2>1. \A ids : OneHop(graph, ids, excluding) \subseteq Ids BY DEF OneHop
  <2>2. Hop(last) \subseteq Ids BY <2>1
  <2> HIDE DEF Hop
  <2> QED BY <2>2
<1>3. first \in A OBVIOUS
<1> DEFINE step == [p \in (1..depth) \X A |-> Onward(p[2])]
<1>4. step \in [(1..depth) \X A -> A] BY <1>2
<1>5. PICK h : Runs(h, A, depth, first, step)
  <2> HIDE DEF step, A, first
  <2> QED BY <1>3, <1>4, Recursion
<1>6. Walks(h)
  <2>1. h \in [0..depth -> A] /\ h[0] = first /\ \A n \in 1..depth : h[n] = step[<<n, h[n - 1]>>]
    BY <1>5 DEF Runs
  <2> HIDE DEF A, first, Onward
  <2>2. \A n \in 1..depth : h[n] = Onward(h[n - 1])
    <3> TAKE n \in 1..depth
    <3>1. n - 1 \in 0..depth OBVIOUS
    <3>2. h[n - 1] \in A BY <2>1, <3>1
    <3> QED BY <2>1, <3>2
  <2>3. \A n \in 0..depth : n = 0 \/ n \in 1..depth OBVIOUS
  <2>4. h = [n \in 0..depth |-> h[n]] BY <2>1
  <2> QED BY <2>1, <2>2, <2>3, <2>4
<1>7. Walks(walk) BY <1>6, Zenon
<1> HIDE DEF walk
<1>8. \A n \in 0..depth : walk[n] = IF n = 0 THEN first ELSE Onward(walk[n - 1])
  <2> HIDE DEF first, Onward
  <2> QED BY <1>7
<1> DEFINE U == {n \in 0..depth : walk[n] \in A}
<1> HIDE DEF A, first, Onward
<1>9. 0 \in U
  <2>1. 0 \in 0..depth OBVIOUS
  <2>2. walk[0] = first BY <1>8, <2>1
  <2> QED BY <1>3, <2>1, <2>2
<1>10. ASSUME NEW n \in 0..(depth - 1), n \in U PROVE n + 1 \in U
  <2>1. n + 1 \in 0..depth /\ n + 1 # 0 /\ n + 1 - 1 = n OBVIOUS
  <2>2. walk[n + 1] = Onward(walk[n]) BY <1>8, <2>1
  <2>3. walk[n] \in A BY <1>10
  <2> QED BY <1>2, <2>1, <2>2, <2>3
<1>11. \A n \in 0..(depth - 1) : n \in U => n + 1 \in U BY <1>10
<1>12. 0..depth \subseteq U
  <2> HIDE DEF U
  <2> QED BY <1>9, <1>11, RangeInduction
<1>13. walk[depth] \in A BY <1>12
<1> QED BY <1>1, <1>13 DEF A

LEMMA RingsOfIds ==
  ASSUME NEW graph, \A e \in graph.edges : {e.from, e.to} \subseteq Ids,
         NEW from \in SUBSET Ids, NEW max \in Nat, NEW excluding \in BOOLEAN
  PROVE  WalkRings(graph, from, max, excluding) \in [1..max -> SUBSET Ids]
<1> DEFINE A == [new : SUBSET Ids, visited : SUBSET Ids]
           New(last) == NeighborExpand(graph, last.new, 1, excluding) \ last.visited
           Onward(last) == [new |-> New(last), visited |-> last.visited \cup New(last)]
           first == [new |-> from, visited |-> IF excluding THEN from ELSE {}]
           Walks(g) == g = [n \in 0..max |-> IF n = 0 THEN first ELSE Onward(g[n - 1])]
           ring == CHOOSE g : Walks(g)
<1>1. WalkRings(graph, from, max, excluding) = [n \in 1..max |-> ring[n].new]
  BY DEF WalkRings
<1>2. \A last \in A : Onward(last) \in A
  <2> TAKE last \in A
  <2>1. last.new \in SUBSET Ids /\ last.visited \in SUBSET Ids /\ 1 \in Nat OBVIOUS
  <2>2. New(last) \subseteq Ids BY <2>1, ReachesIds
  <2> HIDE DEF New
  <2> QED BY <2>1, <2>2
<1>3. first \in A OBVIOUS
<1> DEFINE step == [p \in (1..max) \X A |-> Onward(p[2])]
<1>4. step \in [(1..max) \X A -> A] BY <1>2
<1>5. PICK h : Runs(h, A, max, first, step)
  <2> HIDE DEF step, A, first
  <2> QED BY <1>3, <1>4, Recursion
<1>6. Walks(h)
  <2>1. h \in [0..max -> A] /\ h[0] = first /\ \A n \in 1..max : h[n] = step[<<n, h[n - 1]>>]
    BY <1>5 DEF Runs
  <2> HIDE DEF A, first, Onward
  <2>2. \A n \in 1..max : h[n] = Onward(h[n - 1])
    <3> TAKE n \in 1..max
    <3>1. n - 1 \in 0..max OBVIOUS
    <3>2. h[n - 1] \in A BY <2>1, <3>1
    <3> QED BY <2>1, <3>2
  <2>3. \A n \in 0..max : n = 0 \/ n \in 1..max OBVIOUS
  <2>4. h = [n \in 0..max |-> h[n]] BY <2>1
  <2> QED BY <2>1, <2>2, <2>3, <2>4
<1>7. Walks(ring) BY <1>6, Zenon
<1> HIDE DEF ring
<1>8. \A n \in 0..max : ring[n] = IF n = 0 THEN first ELSE Onward(ring[n - 1])
  <2> HIDE DEF first, Onward
  <2> QED BY <1>7
<1> DEFINE U == {n \in 0..max : ring[n] \in A}
<1> HIDE DEF A, first, Onward
<1>9. 0 \in U
  <2>1. 0 \in 0..max OBVIOUS
  <2>2. ring[0] = first BY <1>8, <2>1
  <2> QED BY <1>3, <2>1, <2>2
<1>10. ASSUME NEW n \in 0..(max - 1), n \in U PROVE n + 1 \in U
  <2>1. n + 1 \in 0..max /\ n + 1 # 0 /\ n + 1 - 1 = n OBVIOUS
  <2>2. ring[n + 1] = Onward(ring[n]) BY <1>8, <2>1
  <2>3. ring[n] \in A BY <1>10
  <2> QED BY <1>2, <2>1, <2>2, <2>3
<1>11. \A n \in 0..(max - 1) : n \in U => n + 1 \in U BY <1>10
<1>12. 0..max \subseteq U
  <2> HIDE DEF U
  <2> QED BY <1>9, <1>11, RangeInduction
<1>13. \A n \in 1..max : ring[n] \in A BY <1>12
<1>14. \A n \in 1..max : ring[n].new \in SUBSET Ids BY <1>13 DEF A
<1> QED BY <1>1, <1>14

(* Ids sorted by a key of their own.                                       *)
LEMMA ById ==
  ASSUME NEW T, T \subseteq Ids
  PROVE  /\ InOrder(T, LAMBDA i : <<i>>) \in Seq(Ids)
         /\ ItemsOf(InOrder(T, LAMBDA i : <<i>>)) = T
<1> DEFINE key == [i \in T |-> <<i>>]
<1>1. IsFiniteSet(T) /\ \A i \in T : i \in Int BY IdsFinite
<1>2. InOrder(T, LAMBDA i : <<i>>) = Ranked({<<key[x], x>> : x \in T})
  <2>1. {<<key[x], x>> : x \in T} = {<<<<x>>, x>> : x \in T} OBVIOUS
  <2> QED BY <2>1 DEF InOrder
<1>3. key \in [T -> [1..1 -> Int]] /\ \A x, y \in T : key[x] = key[y] => x = y
  <2>1. \A i \in T : <<i>> \in [1..1 -> Int] BY <1>1
  <2>2. \A i \in T : key[i][1] = i OBVIOUS
  <2>3. key \in [T -> [1..1 -> Int]] BY <2>1
  <2> HIDE DEF key
  <2> QED BY <2>2, <2>3
<1>4. 1 \in Nat OBVIOUS
<1>5. Sorts(Ranked({<<key[x], x>> : x \in T}), T, key)
  <2> HIDE DEF key
  <2> QED BY <1>1, <1>3, <1>4, Sorting
<1> DEFINE s == InOrder(T, LAMBDA i : <<i>>)
<1>6. s \in Seq(T) /\ ItemsOf(s) = T BY <1>2, <1>5 DEF Sorts
<1> HIDE DEF s
<1>7. s \in Seq(Ids) BY <1>6, ItemsAreSeq
<1> QED BY <1>6, <1>7 DEF s

LEMMA ByKeyThenId ==
  ASSUME NEW T, T \subseteq Ids, NEW first \in [T -> Int]
  PROVE  Sorts(Ranked({<<<<first[i], i>>, i>> : i \in T}), T, [i \in T |-> <<first[i], i>>])
<1> DEFINE key == [i \in T |-> <<first[i], i>>]
<1>1. IsFiniteSet(T) /\ \A i \in T : i \in Int BY IdsFinite
<1>2. Ranked({<<<<first[i], i>>, i>> : i \in T}) = Ranked({<<key[x], x>> : x \in T})
  <2>1. {<<key[x], x>> : x \in T} = {<<<<first[x], x>>, x>> : x \in T} OBVIOUS
  <2> QED BY <2>1
<1>3. key \in [T -> [1..2 -> Int]] /\ \A x, y \in T : key[x] = key[y] => x = y
  <2>1. \A i \in T : <<first[i], i>> \in [1..2 -> Int] BY <1>1
  <2>2. \A i \in T : key[i][2] = i OBVIOUS
  <2>3. key \in [T -> [1..2 -> Int]] BY <2>1
  <2> HIDE DEF key
  <2> QED BY <2>2, <2>3
<1>4. 2 \in Nat OBVIOUS
<1>5. Sorts(Ranked({<<key[x], x>> : x \in T}), T, key)
  <2> HIDE DEF key
  <2> QED BY <1>1, <1>3, <1>4, Sorting
<1> QED BY <1>2, <1>5

LEMMA ByHop ==
  ASSUME NEW rings, NEW max \in Nat, rings \in [1..max -> SUBSET Ids],
         NEW s, s = Ranked({<<<<HopOf(rings, i), i>>, i>> : i \in Walked(rings)})
  PROVE  s \in Seq(Ids)
<1> DEFINE T == Walked(rings)
           first == [i \in T |-> HopOf(rings, i)]
<1>1. T \subseteq Ids BY DEF Walked
<1>2. first \in [T -> Int]
  <2>1. \A i \in T : \E n \in DOMAIN rings : i \in rings[n] BY DEF Walked
  <2>2. \A i \in T : HopOf(rings, i) \in DOMAIN rings BY <2>1 DEF HopOf
  <2>3. DOMAIN rings \subseteq Int OBVIOUS
  <2> HIDE DEF T
  <2> QED BY <2>2, <2>3
<1>3. s = Ranked({<<<<first[i], i>>, i>> : i \in T})
  <2>1. {<<<<first[i], i>>, i>> : i \in T} = {<<<<HopOf(rings, i), i>>, i>> : i \in T}
    OBVIOUS
  <2> QED BY <2>1
<1>4. s \in Seq(T) /\ ItemsOf(s) = T
  <2> HIDE DEF first, T
  <2>1. Sorts(s, T, [i \in T |-> <<first[i], i>>]) BY <1>1, <1>2, <1>3, ByKeyThenId
  <2> QED BY <2>1 DEF Sorts
<1> QED BY <1>1, <1>4, ItemsAreSeq

LEMMA Quotients ==
  ASSUME NEW a \in Nat, NEW b \in Nat \ {0}
  PROVE  a \div b \in Nat
OBVIOUS

Ballots == Seq([ids : Seq(Ids), weight : Nat])

LEMMA ScoresAre ==
  ASSUME NEW arms_ \in Ballots
  PROVE  /\ Voters(arms_) \subseteq Ids
         /\ Scores(arms_) \in [Voters(arms_) -> Nat]
<1> DEFINE N == Len(arms_)
           V == Voters(arms_)
           shares == Shares(arms_)
<1>1. /\ N \in Nat /\ DOMAIN arms_ = 1..N
      /\ \A a \in 1..N : arms_[a] \in [ids : Seq(Ids), weight : Nat]
  BY LenProperties, ElementOfSeq DEF Ballots
<1>2. V \subseteq Ids
  <2>1. \A a \in 1..N : ItemsOf(arms_[a].ids) \subseteq Ids
    <3> TAKE a \in 1..N
    <3>1. arms_[a].ids \in Seq(Ids) BY <1>1
    <3> QED BY <3>1, ItemsOfSeq
  <2> QED BY <1>1, <2>1 DEF Voters
<1>3. \A a \in 1..N : \A n \in DOMAIN arms_[a].ids : Share(arms_[a].weight, n) \in Nat
  <2> TAKE a \in 1..N
  <2> TAKE n \in DOMAIN arms_[a].ids
  <2>1. arms_[a].ids \in Seq(Ids) /\ arms_[a].weight \in Nat BY <1>1
  <2>2. n \in Nat /\ n >= 1 BY <2>1, LenProperties
  <2>3. arms_[a].weight * 1000000 \in Nat BY <2>1
  <2>4. One * (KRrf + n) \in Nat \ {0} BY <2>2, KRrfAssumption DEF One
  <2> HIDE DEF One
  <2> QED BY <2>3, <2>4, Quotients DEF Share
<1>4. \A x \in shares : x[4] \in Nat BY <1>1, <1>3 DEF Shares
<1>5. IsFiniteSet(shares)
  <2> DEFINE Row(a) == {<<a, n, arms_[a].ids[n], Share(arms_[a].weight, n)>> : n \in DOMAIN arms_[a].ids}
             rows_ == [a \in 1..N |-> Row(a)]
             R == {rows_[a] : a \in 1..N}
  <2>1. IsFiniteSet(R)
    <3>1. rows_ \in Surjection(1..N, R) BY DEF Surjection
    <3>2. IsFiniteSet(1..N) BY <1>1, CountTo
    <3> HIDE DEF rows_, R
    <3> QED BY <3>1, <3>2, FS_Surjection
  <2>2. \A a \in 1..N : IsFiniteSet(Row(a))
    <3> TAKE a \in 1..N
    <3> DEFINE D == DOMAIN arms_[a].ids
               f == [n \in D |-> <<a, n, arms_[a].ids[n], Share(arms_[a].weight, n)>>]
    <3>1. IsFiniteSet(D)
      <4>1. arms_[a].ids \in Seq(Ids) BY <1>1
      <4>2. Len(arms_[a].ids) \in Nat /\ D = 1..Len(arms_[a].ids) BY <4>1, LenProperties
      <4> QED BY <4>2, CountTo
    <3>2. f \in Surjection(D, Row(a)) BY DEF Surjection
    <3> HIDE DEF f, D, Row
    <3> QED BY <3>1, <3>2, FS_Surjection
  <2>3. shares = UNION R BY <1>1 DEF Shares
  <2>4. \A T \in R : IsFiniteSet(T) BY <2>2
  <2> HIDE DEF R, shares
  <2> QED BY <2>1, <2>3, <2>4, FS_UNION
<1>6. ASSUME NEW id \in V
      PROVE  MapThenSumSet(LAMBDA s : s[4], {s \in shares : s[3] = id}) \in Nat
  <2> DEFINE T == {s \in shares : s[3] = id}
  <2>1. IsFiniteSet(T) /\ \A s \in T : s[4] \in Nat BY <1>4, <1>5, FS_Subset
  <2> HIDE DEF T
  <2> QED BY <2>1, SharesSum DEF T
<1>7. Scores(arms_) = [id \in V |-> MapThenSumSet(LAMBDA s : s[4], {s \in shares : s[3] = id})]
  BY DEF Scores
<1> HIDE DEF V, shares
<1>8. Scores(arms_) \in [V -> Nat] BY <1>6, <1>7
<1> QED BY <1>2, <1>8 DEF V

(* s has the members of S, each once.                                      *)
Enumerates(s, S) ==
  /\ s \in Seq(S) /\ ItemsOf(s) = S
  /\ \A m, n \in 1..Len(s) : s[m] = s[n] => m = n

LEMMA SortsEnumerates ==
  ASSUME NEW S, NEW s, NEW key, Sorts(s, S, key)
  PROVE  Enumerates(s, S)
<1>1. s \in Seq(S) /\ ItemsOf(s) = S /\ \A m, n \in 1..Len(s) : m < n => s[m] # s[n]
  BY DEF Sorts
<1>2. Len(s) \in Nat BY <1>1, LenProperties
<1>3. \A m, n \in 1..Len(s) : m = n \/ m < n \/ n < m BY <1>2
<1>4. \A m, n \in 1..Len(s) : s[m] = s[n] => m = n BY <1>1, <1>3
<1> QED BY <1>1, <1>4 DEF Enumerates

LEMMA WeightedMergeEnumerates ==
  ASSUME NEW V, V \subseteq Ids, NEW score \in [V -> Nat]
  PROVE  Enumerates(WeightedMerge(score), V)
<1> DEFINE first == [i \in V |-> -score[i]]
           s == WeightedMerge(score)
<1>1. first \in [V -> Int] /\ DOMAIN score = V OBVIOUS
<1>2. s = Ranked({<<<<first[i], i>>, i>> : i \in V})
  <2>1. {<<<<first[i], i>>, i>> : i \in V} = {<<<<-score[i], i>>, i>> : i \in V} OBVIOUS
  <2> QED BY <1>1, <2>1 DEF InOrder, WeightedMerge
<1> HIDE DEF first, s
<1>3. Sorts(s, V, [i \in V |-> <<first[i], i>>]) BY <1>1, <1>2, ByKeyThenId
<1>4. Enumerates(s, V) BY <1>3, SortsEnumerates
<1> QED BY <1>4 DEF s

LEMMA PlainMergeEnumerates ==
  ASSUME NEW arms_ \in Ballots, NEW score \in [Voters(arms_) -> Nat], Voters(arms_) \subseteq Ids
  PROVE  Enumerates(PlainMerge(score, arms_), Voters(arms_))
<1> DEFINE V == Voters(arms_)
           At(i) == FirstArm(arms_, i)
           key == [i \in V |-> <<-score[i], At(i), FirstPlace(arms_[At(i)].ids, i)>>]
           s == PlainMerge(score, arms_)
<1>1. /\ Len(arms_) \in Nat /\ DOMAIN arms_ = 1..Len(arms_)
      /\ \A a \in DOMAIN arms_ : arms_[a] \in [ids : Seq(Ids), weight : Nat]
  BY LenProperties, ElementOfSeq DEF Ballots
<1>2. ASSUME NEW i \in V
      PROVE  At(i) \in Int /\ FirstPlace(arms_[At(i)].ids, i) \in Int
             /\ arms_[At(i)].ids[FirstPlace(arms_[At(i)].ids, i)] = i
  <2> DEFINE T == {a \in DOMAIN arms_ : i \in ItemsOf(arms_[a].ids)}
  <2>1. T # {} /\ T \subseteq Nat BY <1>1 DEF Voters
  <2>2. At(i) \in T
    <3> HIDE DEF T
    <3>1. Min(T) \in T BY <2>1, MinOf
    <3> QED BY <3>1 DEF FirstArm, T
  <2>3. At(i) \in DOMAIN arms_ /\ i \in ItemsOf(arms_[At(i)].ids) /\ At(i) \in Int
    BY <2>1, <2>2
  <2> HIDE DEF At
  <2>4. arms_[At(i)].ids \in Seq(Ids) BY <1>1, <2>3
  <2>5. /\ FirstPlace(arms_[At(i)].ids, i) \in 1..Len(arms_[At(i)].ids)
        /\ arms_[At(i)].ids[FirstPlace(arms_[At(i)].ids, i)] = i
    BY <2>3, <2>4, FirstPlaceOf
  <2> QED BY <2>3, <2>5
<1>3. s = Ranked({<<key[x], x>> : x \in V})
  <2>1. DOMAIN score = V OBVIOUS
  <2>2. {<<key[x], x>> : x \in V} =
          {<<<<-score[x], At(x), FirstPlace(arms_[At(x)].ids, x)>>, x>> : x \in V}
    OBVIOUS
  <2> HIDE DEF V
  <2> QED BY <2>1, <2>2 DEF InOrder, PlainMerge
<1>4. key \in [V -> [1..3 -> Int]] /\ \A x, y \in V : key[x] = key[y] => x = y
  <2> HIDE DEF V
  <2>1. ASSUME NEW i \in V
        PROVE  <<-score[i], At(i), FirstPlace(arms_[At(i)].ids, i)>> \in [1..3 -> Int]
    <3>1. -score[i] \in Int BY DEF V
    <3> HIDE DEF At
    <3> QED BY <1>2, <3>1
  <2>2. \A i \in V : key[i][2] = At(i) /\ key[i][3] = FirstPlace(arms_[At(i)].ids, i)
    OBVIOUS
  <2>3. key \in [V -> [1..3 -> Int]] BY <2>1
  <2> HIDE DEF key, At
  <2>4. \A x, y \in V : key[x] = key[y] => x = y BY <1>2, <2>2
  <2> QED BY <2>3, <2>4
<1>5. IsFiniteSet(V) /\ 3 \in Nat BY IdsFinite
<1> HIDE DEF key, V, s
<1>6. Sorts(s, V, key) BY <1>3, <1>4, <1>5, Sorting
<1>7. Enumerates(s, V) BY <1>6, SortsEnumerates
<1> QED BY <1>7 DEF s, V

LEMMA DerivedFamilyOfIds ==
  ASSUME NEW s \in Seq(Ids), NEW t \in Seq(Ids)
  PROVE  /\ DerivedFamily(s, t) \in Seq(Ids)
         /\ ItemsOf(DerivedFamily(s, t)) = ItemsOf(s) \cup ItemsOf(t)
<1> DEFINE T == ItemsOf(s) \cup ItemsOf(t)
           first == [i \in T |-> BestRank({s, t}, i)]
           d == DerivedFamily(s, t)
<1>1. T \subseteq Ids BY ItemsOfSeq
<1>2. ASSUME NEW i \in T PROVE BestRank({s, t}, i) \in Int
  <2> DEFINE P == {FirstPlace(u, i) : u \in {v \in {s, t} : i \in ItemsOf(v)}}
  <2>1. \A u \in {s, t} : i \in ItemsOf(u) => FirstPlace(u, i) \in Nat
    <3> TAKE u \in {s, t}
    <3>1. u \in Seq(Ids) OBVIOUS
    <3>2. Len(u) \in Nat BY <3>1, LenProperties
    <3>3. i \in ItemsOf(u) => FirstPlace(u, i) \in 1..Len(u) BY <3>1, FirstPlaceOf
    <3> QED BY <3>2, <3>3
  <2>2. P \subseteq Nat /\ P # {} BY <2>1
  <2> HIDE DEF P
  <2>3. Min(P) \in P BY <2>2, MinOf
  <2> QED BY <2>2, <2>3 DEF BestRank, P
<1>3. first \in [T -> Int] BY <1>2
<1>4. d = Ranked({<<<<first[i], i>>, i>> : i \in T})
  <2>1. {<<<<first[i], i>>, i>> : i \in T} = {<<<<BestRank({s, t}, i), i>>, i>> : i \in T}
    OBVIOUS
  <2> HIDE DEF first
  <2> QED BY <2>1 DEF InOrder, DerivedFamily
<1> HIDE DEF first, d, T
<1>5. Sorts(d, T, [i \in T |-> <<first[i], i>>]) BY <1>1, <1>3, <1>4, ByKeyThenId
<1>6. d \in Seq(T) /\ ItemsOf(d) = T BY <1>5 DEF Sorts
<1>7. d \in Seq(Ids) BY <1>1, <1>6, ItemsAreSeq
<1> QED BY <1>6, <1>7 DEF d, T

-------------------------------------------------------------------------------
(* Types *)

Labels    == Layers \cup {"head"}
FoundRows == RowStates \cup {"none"}

Steps == {"idle", "fetch", "fetched", "search", "dense", "seed", "expand", "graph",
          "walk", "completion", "rank", "compose", "touch", "rescore", "done", "shut"}

Batches == [label : Labels \cup {"none"}, width : Nat, raw : Nat, widened : BOOLEAN,
            hits : Seq(Ids), seen : [Ids -> FoundRows]]

Asked == [label : Labels, topup : BOOLEAN, width : Nat, raw : Nat]

Answers == [kept : Seq(Ids), assembled : Seq(Ids), cut : SUBSET Ids, evicted : SUBSET Ids,
            candidates : Int, byScope : Int, byStatus : Int, byK : Int, byBudget : Int]

TypeOK ==
  /\ world \in Worlds
  /\ rows \in [Ids -> RowStates] /\ embedded \in SUBSET Ids
  /\ touches \in [Ids -> Nat] /\ scored \in [Ids -> Nat]
  /\ pc \in Steps /\ call \in Requests
  /\ todo \in Seq(Labels) /\ batch \in Batches /\ fetches \in Seq(Asked)
  /\ lookups \in Seq(Ids) /\ found \in [Ids -> FoundRows]
  /\ ranked \in [Arms -> Seq(Ids)]
  /\ signal \in [raw : Nat, cap : Nat] /\ weight \in Nat
  /\ seeds \in Seq(Ids) /\ answer \in Answers
  /\ writes \in Nat /\ live \in SUBSET Ids
  /\ pc = "fetch" => todo # <<>>
  /\ pc = "fetched" => batch.label \in Labels /\ todo # <<>>
  /\ pc = "rescore" => lookups # <<>>

LEMMA OnlyHead == <<"head">> \in Seq(Labels)
<1>1. <<"head">> \in [1..1 -> Labels] BY DEF Labels
<1>2. 1 \in Nat OBVIOUS
<1> QED BY <1>1, <1>2, SeqDef

LEMMA WorldTypes ==
  ASSUME NEW w \in Worlds
  PROVE  /\ w.bm25 \in Seq(Ids) /\ w.ann \in Seq(Ids)
         /\ \A e \in w.links.edges : {e.from, e.to} \subseteq Ids
<1>1. {w.bm25, w.ann} \subseteq Seq(Ids) /\ \A e \in w.links.edges : {e.from, e.to} \subseteq Ids
  BY RecallAssumption
<1> QED BY <1>1

LEMMA LayersListed ==
  /\ LayerOrder \in Seq(Layers) /\ Len(LayerOrder) \in Nat
  /\ "head" \notin Layers
<1>1. LayerOrder \in Seq(Layers) /\ "head" \notin Layers BY RecallAssumption
<1> QED BY <1>1, LenProperties

(* What the call asks for. *)
LEMMA CallTypes ==
  ASSUME call \in Requests
  PROVE  /\ NormalizeK(call.k) \in Nat \ {0} /\ K \in Nat \ {0}
         /\ CandidateK \in Nat \ {0} /\ FetchWidth \in Nat \ {0}
         /\ TargetList \in Seq(Layers) /\ Len(TargetList) \in Nat
         /\ Targets \subseteq Layers
         /\ Primary \in BOOLEAN
<1>1. call \in Call /\ {KDefault, KMax, FetchFactor, FetchFloor} \subseteq Nat \ {0}
      /\ AssembleWidth \in Nat
  BY RecallAssumption
<1>2. call.k \in Int \cup {Garbage} /\ call.layers \in Seq(Layers) BY <1>1 DEF Call
<1>3. NormalizeK(call.k) \in Nat \ {0} BY <1>1, <1>2 DEF NormalizeK
<1>4. K \in Nat \ {0}
  <2> HIDE DEF NormalizeK
  <2> QED BY <1>1, <1>3 DEF K
<1>5. CandidateK \in Nat \ {0} /\ FetchWidth \in Nat \ {0}
  <2>1. FetchFactor \in Nat \ {0} /\ FetchFloor \in Nat \ {0} BY <1>1
  <2>2. K * FetchFactor \in Nat BY <1>4, <2>1
  <2> QED BY <1>4, <2>1, <2>2 DEF CandidateK, FetchWidth
<1>6. TargetList \in Seq(Layers) BY <1>2, LayersListed DEF TargetList
<1>7. Len(TargetList) \in Nat /\ Targets \subseteq Layers
  BY <1>6, LenProperties, ItemsOfSeq DEF Targets
<1> QED BY <1>3, <1>4, <1>5, <1>6, <1>7 DEF Primary

LEMMA Widths ==
  ASSUME call \in Requests, NEW label
  PROVE  Width(label) \in Nat
<1>1. CandidateK \in Nat /\ Len(LayerOrder) \in Nat BY CallTypes, LayersListed
<1>2. CandidateK * Len(LayerOrder) \in Nat BY <1>1
<1> QED BY <1>1, <1>2 DEF Width

(* What a search returns is of the layers it was asked for.                *)
LEMMA SearchTypes ==
  ASSUME world \in Worlds, NEW label, NEW n \in Nat
  PROVE  /\ Bm25(label, n) \in Seq(Ids) /\ Len(Bm25(label, n)) \in Nat
         /\ ItemsOf(Bm25(label, n)) \subseteq Stored
         /\ Nearest(label, n) \in Seq(Ids) /\ Len(Nearest(label, n)) \in Nat
<1> DEFINE T == {i \in Stored : Crystals[i].layer \in LayerFilter(label)}
           E == {i \in embedded : Crystals[i].layer \in LayerFilter(label)}
<1>1. world.bm25 \in Seq(Ids) /\ world.ann \in Seq(Ids) BY WorldTypes
<1>2. Where(world.bm25, T) \in Seq(Ids) /\ ItemsOf(Where(world.bm25, T)) \subseteq T
  <2> HIDE DEF T
  <2>1. ItemsOf(Where(world.bm25, T)) = ItemsOf(world.bm25) \cap T BY <1>1, WhereItems
  <2> QED BY <1>1, <2>1, WhereItems
<1>3. Where(world.ann, E) \in Seq(Ids)
  <2> HIDE DEF E
  <2> QED BY <1>1, WhereItems
<1>4. /\ FirstOf(n, Where(world.bm25, T)) \in Seq(Ids)
      /\ ItemsOf(FirstOf(n, Where(world.bm25, T))) \subseteq T
      /\ FirstOf(n, Where(world.ann, E)) \in Seq(Ids)
  BY <1>2, <1>3, FirstOfItems
<1>5. Bm25(label, n) \in Seq(Ids) /\ Nearest(label, n) \in Seq(Ids)
  BY <1>4 DEF Bm25, Nearest
<1> QED BY <1>4, <1>5, LenProperties DEF Bm25

LEMMA InTargetsItems ==
  ASSUME NEW hits \in Seq(Ids)
  PROVE  /\ InTargets(hits) \in Seq(Ids)
         /\ ItemsOf(InTargets(hits)) = {i \in ItemsOf(hits) : Crystals[i].layer \in Targets}
<1> DEFINE T == {i \in Ids : Crystals[i].layer \in Targets}
<1>1. ItemsOf(hits) \subseteq Ids BY ItemsOfSeq
<1>2. Where(hits, T) \in Seq(Ids) /\ ItemsOf(Where(hits, T)) = ItemsOf(hits) \cap T
  <2> HIDE DEF T
  <2> QED BY WhereItems
<1>3. InTargets(hits) = Where(hits, T) BY DEF InTargets
<1>4. ItemsOf(hits) \cap T = {i \in ItemsOf(hits) : Crystals[i].layer \in Targets} BY <1>1
<1> QED BY <1>2, <1>3, <1>4

LEMMA JoinedItems ==
  ASSUME NEW s \in Seq(Ids), NEW t \in Seq(Ids)
  PROVE  /\ Joined(s, t) \in Seq(Ids)
         /\ ItemsOf(Joined(s, t)) = ItemsOf(s) \cup ItemsOf(t)
         /\ Len(Joined(s, t)) >= Len(s)
<1> DEFINE rest == Where(t, Ids \ ItemsOf(s))
<1>1. rest \in Seq(Ids) /\ ItemsOf(rest) = ItemsOf(t) \cap (Ids \ ItemsOf(s))
  BY WhereItems
<1>2. ItemsOf(t) \subseteq Ids BY ItemsOfSeq
<1>3. Len(rest) \in Nat /\ Len(s) \in Nat BY <1>1, LenProperties
<1> HIDE DEF rest
<1>4. /\ s \o rest \in Seq(Ids) /\ Len(s \o rest) = Len(s) + Len(rest)
      /\ ItemsOf(s \o rest) = ItemsOf(s) \cup ItemsOf(rest)
  BY <1>1, ConcatItems
<1>5. Joined(s, t) = s \o rest BY DEF Joined, rest
<1>6. ItemsOf(s \o rest) = ItemsOf(s) \cup ItemsOf(t) BY <1>1, <1>2, <1>4
<1>7. Len(s \o rest) >= Len(s) BY <1>3, <1>4
<1> QED BY <1>4, <1>5, <1>6, <1>7

LEMMA WeightTypes ==
  ASSUME NEW raw \in Nat, NEW resolved \in Nat, NEW cap \in Nat, NEW scoped \in Nat
  PROVE  SparseWeight(raw, resolved, cap, scoped, Alpha) \in Nat
<1> DEFINE population == IF scoped = 0 THEN 1 ELSE scoped
           q == (resolved * One) \div population
<1>1. population \in Nat \ {0} /\ resolved * One \in Nat BY DEF One
<1>2. q \in Nat
  <2> HIDE DEF population, One
  <2> QED BY <1>1, Quotients
<1>3. ~(resolved > population) => q <= One
  <2> SUFFICES ASSUME ~(resolved > population) PROVE q <= One OBVIOUS
  <2>1. resolved * One <= One * population BY <1>1 DEF One
  <2> HIDE DEF population
  <2>2. resolved * One \in Nat BY <1>1
  <2> QED BY <1>1, <2>1, <2>2 DEF One
<1>4. Selectivity(raw, resolved, cap, scoped) \in Nat
  <2>1. Selectivity(raw, resolved, cap, scoped) =
          IF raw = 0 \/ Censored(raw, cap) \/ resolved > population THEN 0 ELSE One - q
    BY DEF Selectivity
  <2> HIDE DEF q, population
  <2> QED BY <1>2, <1>3, <2>1 DEF One
<1>5. Alpha \in Nat BY RecallAssumption
<1>6. Alpha * Selectivity(raw, resolved, cap, scoped) \in Nat BY <1>4, <1>5
<1> QED BY <1>6 DEF SparseWeight, One

LEMMA TypeInit == Init => TypeOK
<1> SUFFICES ASSUME Init PROVE TypeOK OBVIOUS
<1>1. \A S : <<>> \in Seq(S) BY EmptySeq
<1>2. /\ Tables \subseteq [rows : [Ids -> RowStates], embedded : SUBSET Ids]
  BY RecallAssumption
<1>3. rows \in [Ids -> RowStates] /\ embedded \in SUBSET Ids BY <1>2 DEF Init
<1>4. batch \in Batches
  <2>1. [i \in Ids |-> "none"] \in [Ids -> FoundRows] BY DEF FoundRows
  <2>2. <<>> \in Seq(Ids) BY <1>1
  <2> QED BY <2>1, <2>2 DEF Init, NoBatch, Batches
<1>5. found \in [Ids -> FoundRows] /\ ranked \in [Arms -> Seq(Ids)]
  BY <1>1 DEF Init, FoundRows
<1>6. answer \in Answers
  <2>1. <<>> \in Seq(Ids) BY <1>1
  <2> QED BY <2>1 DEF Init, NoAnswer, Answers
<1>7. pc = "idle" /\ pc \in Steps BY DEF Init, Steps
<1>8. touches \in [Ids -> Nat] /\ scored \in [Ids -> Nat] /\ signal \in [raw : Nat, cap : Nat]
      /\ weight \in Nat /\ writes \in Nat
  BY DEF Init, One
<1>9. todo \in Seq(Labels) /\ fetches \in Seq(Asked) /\ lookups \in Seq(Ids) /\ seeds \in Seq(Ids)
  BY <1>1 DEF Init
<1> QED BY <1>3, <1>4, <1>5, <1>6, <1>7, <1>8, <1>9 DEF Init, TypeOK

(* The steps up to the composition, one by one.                            *)
LEMMA BeginTypes == TypeOK /\ Begin => TypeOK'
<1> SUFFICES ASSUME TypeOK, Begin PROVE TypeOK' OBVIOUS
<1>1. todo' \in Seq(Labels) BY OnlyHead, EmptySeq DEF Begin
<1>2. pc' \in {"shut", "fetch"} /\ (pc' = "fetch" => todo' # <<>>) BY DEF Begin
<1>3. live' \in SUBSET Ids BY DEF Begin, Current
<1> QED BY <1>1, <1>2, <1>3 DEF TypeOK, Begin, store, Steps

LEMMA RecordTypes ==
  ASSUME TypeOK, NEW b \in Batches, b.label \in Labels
  PROVE  /\ [label |-> b.label, topup |-> b.widened, width |-> b.width, raw |-> b.raw] \in Asked
         /\ Append(fetches, [label |-> b.label, topup |-> b.widened, width |-> b.width,
                             raw |-> b.raw]) \in Seq(Asked)
<1> DEFINE r == [label |-> b.label, topup |-> b.widened, width |-> b.width, raw |-> b.raw]
<1>1. r \in Asked BY DEF Batches, Asked
<1> HIDE DEF r
<1>2. fetches \in Seq(Asked) BY DEF TypeOK
<1>3. Append(fetches, r) \in Seq(Asked) BY <1>1, <1>2, AppendProperties
<1> QED BY <1>1, <1>3 DEF r

LEMMA FetchTypes ==
  ASSUME TypeOK, Fetch
  PROVE  TypeOK' /\ batch' \in Batches /\ batch'.label \in Labels
<1> DEFINE l == Head(todo)
           hits == Bm25(l, Width(l))
<1>1. todo \in Seq(Labels) /\ todo # <<>> /\ call \in Requests /\ world \in Worlds
      /\ rows \in [Ids -> RowStates]
  BY DEF TypeOK, Fetch
<1>2. l \in Labels
  <2>1. l \in ItemsOf(todo) BY <1>1, HeadTailItems
  <2> QED BY <1>1, <2>1, ItemsOfSeq
<1>3. Width(l) \in Nat BY <1>1, Widths
<1>4. hits \in Seq(Ids) /\ Len(hits) \in Nat
  <2> HIDE DEF l
  <2> QED BY <1>1, <1>3, SearchTypes
<1>5. ReadNow(hits) \in [Ids -> FoundRows] BY <1>1 DEF ReadNow, FoundRows
<1>6. batch' = [label |-> l, width |-> Width(l), raw |-> Len(hits), widened |-> FALSE,
                hits |-> hits, seen |-> ReadNow(hits)]
  BY DEF Fetch
<1> HIDE DEF hits, l
<1>7. batch' \in Batches /\ batch'.label \in Labels BY <1>2, <1>3, <1>4, <1>5, <1>6 DEF Batches
<1>8. fetches' \in Seq(Asked)
  <2>1. PICK b : b = batch' OBVIOUS
  <2>2. fetches' = Append(fetches, [label |-> b.label, topup |-> b.widened, width |-> b.width,
                                    raw |-> b.raw])
    BY <2>1 DEF Fetch, Recorded
  <2>3. b \in Batches /\ b.label \in Labels BY <1>7, <2>1
  <2> QED BY <2>2, <2>3, RecordTypes
<1>9. /\ pc' = "fetched" /\ UNCHANGED <<world, store, call, todo, lookups, found, ranked,
                 signal, weight, seeds, fused, answer, writes, live>>
  BY DEF Fetch
<1> QED BY <1>1, <1>7, <1>8, <1>9 DEF TypeOK, store, Steps

LEMMA WiderTypes ==
  ASSUME TypeOK
  PROVE  WiderThan(batch) \in Nat /\ WiderThan(batch) <= TopUpCeiling
<1>1. batch \in Batches BY DEF TypeOK
<1>2. batch.width \in Nat /\ batch.hits \in Seq(Ids) BY <1>1 DEF Batches
<1>3. InTargets(batch.hits) \in Seq(Ids) BY <1>2, InTargetsItems
<1> DEFINE hits == InTargets(batch.hits)
<1>4. IsFiniteSet(ItemsOf(hits)) BY <1>3, ItemsOfSeq
<1>5. Inactive(hits, batch.seen) \subseteq ItemsOf(hits) BY DEF Inactive
<1>6. Cardinality(Inactive(hits, batch.seen)) \in Nat
  <2> HIDE DEF hits
  <2>1. IsFiniteSet(Inactive(hits, batch.seen)) BY <1>4, <1>5, FS_Subset
  <2> QED BY <2>1, FS_CardinalityType
<1>7. TopUpCeiling \in Nat BY RecallAssumption
<1> HIDE DEF hits
<1> QED BY <1>2, <1>6, <1>7 DEF WiderThan, hits

LEMMA WidenTypes ==
  ASSUME TypeOK, Widen
  PROVE  TypeOK' /\ batch' \in Batches /\ batch'.label \in Labels
<1> DEFINE w == WiderThan(batch)
           wide == Bm25(batch.label, w)
<1>1. /\ batch \in Batches /\ batch.label \in Labels /\ todo # <<>> /\ world \in Worlds
      /\ rows \in [Ids -> RowStates] /\ pc = "fetched"
  BY DEF TypeOK, Widen
<1>2. w \in Nat BY WiderTypes
<1>3. wide \in Seq(Ids) /\ Len(wide) \in Nat
  <2> HIDE DEF w
  <2> QED BY <1>1, <1>2, SearchTypes
<1>4. batch.hits \in Seq(Ids) /\ batch.seen \in [Ids -> FoundRows] BY <1>1 DEF Batches
<1>5. Joined(wide, batch.hits) \in Seq(Ids)
  <2> HIDE DEF wide
  <2> QED BY <1>3, <1>4, JoinedItems
<1>6. batch' = [label |-> batch.label, width |-> w, raw |-> Len(wide), widened |-> TRUE,
                hits |-> Joined(wide, batch.hits),
                seen |-> [i \in Ids |-> IF i \in ItemsOf(wide) THEN rows[i] ELSE batch.seen[i]]]
  BY DEF Widen
<1> HIDE DEF wide, w
<1>7. [i \in Ids |-> IF i \in ItemsOf(wide) THEN rows[i] ELSE batch.seen[i]] \in [Ids -> FoundRows]
  BY <1>1, <1>4 DEF FoundRows
<1>8. batch' \in Batches /\ batch'.label \in Labels
  BY <1>1, <1>2, <1>3, <1>5, <1>6, <1>7 DEF Batches
<1>9. fetches' \in Seq(Asked)
  <2>1. PICK b : b = batch' OBVIOUS
  <2>2. fetches' = Append(fetches, [label |-> b.label, topup |-> b.widened, width |-> b.width,
                                    raw |-> b.raw])
    BY <2>1 DEF Widen, Recorded
  <2>3. b \in Batches /\ b.label \in Labels BY <1>8, <2>1
  <2> QED BY <2>2, <2>3, RecordTypes
<1>10. UNCHANGED <<world, store, pc, call, todo, lookups, found, ranked, signal, weight,
                   seeds, fused, answer, writes, live>>
  BY DEF Widen
<1> QED BY <1>1, <1>8, <1>9, <1>10 DEF TypeOK, store

LEMMA NextFetchesTypes ==
  ASSUME TypeOK, NEW label, NEW contribution, NEW raw, NEW width,
         label # "head" => todo # <<>>
  PROVE  NextFetches(label, contribution, raw, width) \in Seq(Labels)
<1>1. todo \in Seq(Labels) /\ call \in Requests BY DEF TypeOK
<1>2. label # "head" => Tail(todo) \in Seq(Labels) BY <1>1, HeadTailItems
<1>3. TargetList \in Seq(Layers) /\ ItemsOf(TargetList) \subseteq Labels
  BY <1>1, CallTypes DEF Targets, Labels
<1>4. TargetList \in Seq(Labels) BY <1>3, ItemsAreSeq
<1>5. <<>> \in Seq(Labels) BY EmptySeq
<1> QED BY <1>2, <1>4, <1>5 DEF NextFetches

LEMMA IngestTypes == TypeOK /\ Ingest => TypeOK'
<1> SUFFICES ASSUME TypeOK, Ingest PROVE TypeOK' OBVIOUS
<1> DEFINE contribution == InTargets(batch.hits)
<1>1. /\ batch \in Batches /\ batch.label \in Labels /\ todo # <<>> /\ pc = "fetched"
      /\ ranked \in [Arms -> Seq(Ids)] /\ found \in [Ids -> FoundRows]
      /\ signal \in [raw : Nat, cap : Nat]
  BY DEF TypeOK, Ingest
<1>2. batch.hits \in Seq(Ids) /\ batch.seen \in [Ids -> FoundRows]
      /\ batch.raw \in Nat /\ batch.width \in Nat
  BY <1>1 DEF Batches
<1>3. contribution \in Seq(Ids) BY <1>2, InTargetsItems
<1> HIDE DEF contribution
<1>4. Joined(ranked.sparse, contribution) \in Seq(Ids)
  <2>1. ranked.sparse \in Seq(Ids) BY <1>1 DEF Arms
  <2> QED BY <1>3, <2>1, JoinedItems
<1>5. ranked' \in [Arms -> Seq(Ids)]
  <2>1. ranked' = [ranked EXCEPT !.sparse = Joined(ranked.sparse, contribution)]
    BY DEF Ingest, contribution
  <2> QED BY <1>1, <1>4, <2>1 DEF Arms
<1>6. found' \in [Ids -> FoundRows] BY <1>1, <1>2 DEF Ingest
<1>7. todo' \in Seq(Labels) BY <1>1, NextFetchesTypes DEF Ingest
<1>8. signal' \in [raw : Nat, cap : Nat] BY <1>1, <1>2 DEF Ingest
<1>9. batch' \in Batches
  <2>1. [i \in Ids |-> "none"] \in [Ids -> FoundRows] BY DEF FoundRows
  <2>2. <<>> \in Seq(Ids) BY EmptySeq
  <2> QED BY <2>1, <2>2 DEF Ingest, NoBatch, Batches
<1>10. pc' \in Steps \ {"fetched", "rescore"} /\ (pc' = "fetch" => todo' # <<>>)
  BY DEF Ingest, Steps
<1>11. UNCHANGED <<world, store, call, fetches, lookups, weight, seeds, fused,
                   answer, writes, live>>
  BY DEF Ingest
<1> QED BY <1>5, <1>6, <1>7, <1>8, <1>9, <1>10, <1>11 DEF TypeOK, store

LEMMA SearchStepTypes == TypeOK /\ Search => TypeOK'
<1> SUFFICES ASSUME TypeOK, Search PROVE TypeOK' OBVIOUS
<1> DEFINE hits == Nearest(Label, Width(Label))
<1>1. call \in Requests /\ world \in Worlds /\ todo \in Seq(Labels) BY DEF TypeOK
<1>2. Width(Label) \in Nat BY <1>1, Widths
<1>3. hits \in Seq(Ids)
  <2>1. PICK w \in Nat : w = Width(Label) BY <1>2
  <2> QED BY <1>1, <2>1, SearchTypes
<1>4. InTargets(hits) \in Seq(Ids)
  <2> HIDE DEF hits
  <2> QED BY <1>3, InTargetsItems
<1>5. lookups' \in Seq(Ids) BY <1>4 DEF Search
<1>6. Label # "head" => todo # <<>> BY DEF Label
<1>7. todo' \in Seq(Labels) BY <1>6, NextFetchesTypes DEF Search
<1>8. pc' = "dense" BY DEF Search
<1>9. UNCHANGED <<world, store, call, fetches, batch, found, ranked, signal,
                  weight, seeds, fused, answer, writes, live>>
  BY DEF Search
<1> QED BY <1>5, <1>7, <1>8, <1>9 DEF TypeOK, store, Steps

LEMMA LookupTypes == TypeOK /\ Lookup => TypeOK'
<1> SUFFICES ASSUME TypeOK, Lookup PROVE TypeOK' OBVIOUS
<1>1. /\ lookups \in Seq(Ids) /\ ranked \in [Arms -> Seq(Ids)] /\ found \in [Ids -> FoundRows]
      /\ rows \in [Ids -> RowStates] /\ pc \in {"dense", "graph", "completion"}
  BY DEF TypeOK, Lookup
<1>2. UNCHANGED <<world, store, call, fetches, todo, batch, signal, weight,
                  seeds, fused, answer, writes, live>>
  BY DEF Lookup
<1>3. CASE lookups = <<>>
  <2>1. AfterLookups \in {"seed", "search", "walk", "rank"} BY <1>1 DEF AfterLookups
  <2>2. pc' = AfterLookups /\ UNCHANGED <<lookups, found, ranked>> BY <1>3 DEF Lookup
  <2> QED BY <1>2, <2>1, <2>2 DEF TypeOK, store, Steps
<1>4. CASE lookups # <<>>
  <2> DEFINE i == Head(lookups)
  <2>1. i \in Ids /\ Tail(lookups) \in Seq(Ids)
    <3>1. i \in ItemsOf(lookups) /\ Tail(lookups) \in Seq(Ids) BY <1>1, <1>4, HeadTailItems
    <3> QED BY <1>1, <3>1, ItemsOfSeq
  <2>2. /\ found' = ReadRow(i) /\ lookups' = Tail(lookups) /\ UNCHANGED pc
        /\ ranked' = IF pc = "completion" /\ found'[i] = "none" THEN ranked
                     ELSE [ranked EXCEPT ![pc] = Joined(@, <<i>>)]
    BY <1>4 DEF Lookup
  <2> HIDE DEF i
  <2>3. found' \in [Ids -> FoundRows]
    <3>1. rows[i] \in FoundRows BY <1>1, <2>1 DEF FoundRows
    <3> QED BY <1>1, <2>1, <2>2, <3>1 DEF ReadRow
  <2>4. ranked' \in [Arms -> Seq(Ids)]
    <3>1. pc \in Arms /\ ranked[pc] \in Seq(Ids) BY <1>1 DEF Arms
    <3>2. <<i>> \in Seq(Ids) BY <2>1
    <3>3. Joined(ranked[pc], <<i>>) \in Seq(Ids) BY <3>1, <3>2, JoinedItems
    <3> QED BY <1>1, <2>2, <3>1, <3>3
  <2> QED BY <1>1, <1>2, <2>1, <2>2, <2>3, <2>4 DEF TypeOK, store
<1> QED BY <1>3, <1>4

(* The arms as they are merged. *)
LEMMA BallotTypes ==
  ASSUME TypeOK, NEW w \in Nat
  PROVE  BaseArms(w) \in Ballots
<1>1. /\ ranked.sparse \in Seq(Ids) /\ ranked.dense \in Seq(Ids) BY DEF TypeOK, Arms
<1>2. /\ Arm(ranked.sparse, w) \in [ids : Seq(Ids), weight : Nat]
      /\ Arm(ranked.dense, One) \in [ids : Seq(Ids), weight : Nat]
  BY <1>1 DEF Arm, One
<1> DEFINE B == [ids : Seq(Ids), weight : Nat]
<1>3. BaseArms(w) = <<Arm(ranked.sparse, w), Arm(ranked.dense, One)>> BY DEF BaseArms
<1>4. <<Arm(ranked.sparse, w), Arm(ranked.dense, One)>> \in Seq(B)
  <2> HIDE DEF B
  <2> QED BY <1>2 DEF B
<1> QED BY <1>3, <1>4 DEF Ballots

LEMMA SeedTypes == TypeOK /\ Seed => TypeOK'
<1> SUFFICES ASSUME TypeOK, Seed PROVE TypeOK' OBVIOUS
<1>1. /\ call \in Requests /\ ranked \in [Arms -> Seq(Ids)]
      /\ signal \in [raw : Nat, cap : Nat] /\ found \in [Ids -> FoundRows]
  BY DEF TypeOK
<1>2. Scoped \in Nat
  <2> DEFINE T == {i \in Current : Crystals[i].mine /\ Crystals[i].layer \in Targets}
  <2>1. T \subseteq Ids BY DEF Current
  <2> HIDE DEF T
  <2>2. IsFiniteSet(T) BY <2>1, IdsFinite
  <2> QED BY <2>2, FS_CardinalityType DEF Scoped, T
<1>3. FoundActive(ranked.sparse) \in Nat
  <2> DEFINE T == {i \in ItemsOf(ranked.sparse) : found[i] = "active"}
  <2>1. ItemsOf(ranked.sparse) \subseteq Ids
    <3>1. ranked.sparse \in Seq(Ids) BY <1>1 DEF Arms
    <3> QED BY <3>1, ItemsOfSeq
  <2>2. T \subseteq Ids BY <2>1
  <2> HIDE DEF T
  <2>3. IsFiniteSet(T) BY <2>2, IdsFinite
  <2> QED BY <2>3, FS_CardinalityType DEF FoundActive, T
<1>4. SparseWeightNow \in Nat
  <2>1. PICK resolved \in Nat, scoped \in Nat :
          resolved = FoundActive(ranked.sparse) /\ scoped = Scoped
    BY <1>2, <1>3
  <2>2. PICK raw \in Nat, cap \in Nat : raw = signal.raw /\ cap = signal.cap BY <1>1
  <2>3. SparseWeight(raw, resolved, cap, scoped, Alpha) \in Nat BY WeightTypes
  <2> QED BY <2>1, <2>2, <2>3 DEF SparseWeightNow, One
<1>5. PICK w \in Nat : w = weight' BY <1>4 DEF Seed
<1>6. ranked' = ranked /\ call' = call BY DEF Seed
<1>7. BaseArms(weight') = BaseArms(w) BY <1>5
<1>8. WeightedMerge(Scores(BaseArms(w))) \in Seq(Ids)
  <2> DEFINE b == BaseArms(w)
  <2>1. b \in Ballots BY BallotTypes
  <2> HIDE DEF b
  <2>2. Voters(b) \subseteq Ids /\ Scores(b) \in [Voters(b) -> Nat] BY <2>1, ScoresAre
  <2>3. Enumerates(WeightedMerge(Scores(b)), Voters(b)) BY <2>2, WeightedMergeEnumerates
  <2>4. WeightedMerge(Scores(b)) \in Seq(Ids) BY <2>2, <2>3, ItemsAreSeq DEF Enumerates
  <2> QED BY <2>4 DEF b
<1>9. ranked.dense \in Seq(Ids) BY <1>1 DEF Arms
<1>10. FetchWidth \in Nat BY <1>1, CallTypes
<1>11. seeds' \in Seq(Ids)
  <2> DEFINE from == IF call.mode = "weighted" THEN WeightedMerge(Scores(BaseArms(w)))
                     ELSE ranked.dense
  <2>1. from \in Seq(Ids) BY <1>8, <1>9
  <2>2. seeds' = FirstOf(FetchWidth, from) BY <1>7 DEF Seed
  <2> HIDE DEF from
  <2> QED BY <1>10, <2>1, <2>2, FirstOfItems
<1>12. pc' = "expand" /\ UNCHANGED <<world, store, call, fetches, todo, batch, lookups, found,
                 ranked, signal, fused, answer, writes, live>>
  BY DEF Seed
<1> QED BY <1>5, <1>11, <1>12 DEF TypeOK, store, Steps

LEMMA ExpandTypes == TypeOK /\ Expand => TypeOK'
<1> SUFFICES ASSUME TypeOK, Expand PROVE TypeOK' OBVIOUS
<1> DEFINE T == NeighborExpand(world.links, ItemsOf(seeds), 1, ~SeedCredit)
<1>1. seeds \in Seq(Ids) /\ world \in Worlds BY DEF TypeOK
<1>2. T \subseteq Ids
  <2>1. PICK graph : graph = world.links OBVIOUS
  <2>2. PICK from \in SUBSET Ids : from = ItemsOf(seeds) BY <1>1, ItemsOfSeq
  <2>3. \A e \in graph.edges : {e.from, e.to} \subseteq Ids BY <1>1, <2>1, WorldTypes
  <2>4. PICK excluding \in BOOLEAN : excluding = ~SeedCredit OBVIOUS
  <2>5. 1 \in Nat OBVIOUS
  <2>6. NeighborExpand(graph, from, 1, excluding) \subseteq Ids BY <2>3, <2>5, ReachesIds
  <2> QED BY <2>1, <2>2, <2>4, <2>6
<1>3. lookups' \in Seq(Ids)
  <2>1. PICK t : t = T OBVIOUS
  <2>2. InOrder(t, LAMBDA i : <<i>>) \in Seq(Ids) BY <1>2, <2>1, ById
  <2>3. lookups' = InOrder(t, LAMBDA i : <<i>>) BY <2>1 DEF Expand
  <2> QED BY <2>2, <2>3
<1>4. pc' = "graph" /\ UNCHANGED <<world, store, call, fetches, todo, batch, found, ranked,
                 signal, weight, seeds, fused, answer, writes, live>>
  BY DEF Expand
<1> QED BY <1>3, <1>4 DEF TypeOK, store, Steps

LEMMA WalkTypes == TypeOK /\ Walk => TypeOK'
<1> SUFFICES ASSUME TypeOK, Walk PROVE TypeOK' OBVIOUS
<1> DEFINE from == IF seeds = <<>> THEN FirstOf(FetchWidth, ranked.sparse) ELSE seeds
           rings == WalkRings(world.links, ItemsOf(from), WalkHops, ~SeedCredit)
<1>1. seeds \in Seq(Ids) /\ world \in Worlds /\ call \in Requests /\ ranked.sparse \in Seq(Ids)
  BY DEF TypeOK, Arms
<1>2. from \in Seq(Ids)
  <2>1. FetchWidth \in Nat BY <1>1, CallTypes
  <2>2. FirstOf(FetchWidth, ranked.sparse) \in Seq(Ids) BY <1>1, <2>1, FirstOfItems
  <2> QED BY <1>1, <2>2
<1>3. PICK r : r = rings OBVIOUS
<1>4. WalkHops \in Nat BY RecallAssumption
<1>5. r \in [1..WalkHops -> SUBSET Ids]
  <2> HIDE DEF from
  <2>1. PICK graph : graph = world.links OBVIOUS
  <2>2. PICK start \in SUBSET Ids : start = ItemsOf(from) BY <1>2, ItemsOfSeq
  <2>3. \A e \in graph.edges : {e.from, e.to} \subseteq Ids BY <1>1, <2>1, WorldTypes
  <2>4. PICK excluding \in BOOLEAN : excluding = ~SeedCredit OBVIOUS
  <2>5. WalkRings(graph, start, WalkHops, excluding) \in [1..WalkHops -> SUBSET Ids]
    BY <1>4, <2>3, RingsOfIds
  <2> QED BY <1>3, <2>1, <2>2, <2>4, <2>5
<1>6. lookups' \in Seq(Ids)
  <2>1. lookups' = Ranked({<<<<HopOf(r, i), i>>, i>> : i \in Walked(r)})
    BY <1>3 DEF Walk, InOrder
  <2>2. PICK s : s = lookups' OBVIOUS
  <2> QED BY <1>4, <1>5, <2>1, <2>2, ByHop
<1>7. pc' = "completion" /\ UNCHANGED <<world, store, call, fetches, todo, batch, found, ranked,
                 signal, weight, seeds, fused, answer, writes, live>>
  BY DEF Walk
<1> QED BY <1>6, <1>7 DEF TypeOK, store, Steps

LEMMA FailTypes == TypeOK /\ GraphFails => TypeOK'
<1> SUFFICES ASSUME TypeOK, GraphFails PROVE TypeOK' OBVIOUS
<1>1. pc' \in {"walk", "rank"} /\ UNCHANGED <<world, store, call, arms, answer, writes, live>>
  BY DEF GraphFails
<1> QED BY <1>1 DEF TypeOK, store, arms, Steps

(* Every crystal of some arm is in the fused ranking, once, and has its    *)
(* score.                                                                  *)
Voted == UNION {ItemsOf(ranked[a]) : a \in Arms}

FusedOK ==
  pc \in {"compose", "touch", "rescore", "done"} =>
    fused.score \in [Voted -> Nat] /\ Enumerates(fused.order, Voted)

LEMMA VotedIds ==
  ASSUME TypeOK
  PROVE  Voted \subseteq Ids
<1>1. \A a \in Arms : ranked[a] \in Seq(Ids) BY DEF TypeOK
<1>2. \A a \in Arms : ItemsOf(ranked[a]) \subseteq Ids BY <1>1, ItemsOfSeq
<1> QED BY <1>2 DEF Voted

LEMMA FusedArmsVote ==
  ASSUME TypeOK
  PROVE  FusedArms \in Ballots /\ Voters(FusedArms) = Voted
<1> DEFINE B == [ids : Seq(Ids), weight : Nat]
           s1 == Arm(ranked.sparse, weight)
           s2 == Arm(ranked.dense, One)
           s3 == Arm(DerivedFamily(ranked.graph, ranked.completion), One)
           s4 == Arm(ranked.graph, One)
           s5 == Arm(ranked.completion, One)
<1>1. /\ ranked.sparse \in Seq(Ids) /\ ranked.dense \in Seq(Ids) /\ ranked.graph \in Seq(Ids)
      /\ ranked.completion \in Seq(Ids) /\ weight \in Nat /\ One \in Nat
  BY DEF TypeOK, Arms, One
<1>2. /\ DerivedFamily(ranked.graph, ranked.completion) \in Seq(Ids)
      /\ ItemsOf(DerivedFamily(ranked.graph, ranked.completion)) =
           ItemsOf(ranked.graph) \cup ItemsOf(ranked.completion)
  BY <1>1, DerivedFamilyOfIds
<1>3. s1 \in B /\ s2 \in B /\ s3 \in B /\ s4 \in B /\ s5 \in B BY <1>1, <1>2 DEF Arm
<1>4. /\ s1.ids = ranked.sparse /\ s2.ids = ranked.dense /\ s4.ids = ranked.graph
      /\ s5.ids = ranked.completion
      /\ s3.ids = DerivedFamily(ranked.graph, ranked.completion)
  BY DEF Arm
<1>5. Voted = ItemsOf(ranked.sparse) \cup ItemsOf(ranked.dense) \cup ItemsOf(ranked.graph)
                \cup ItemsOf(ranked.completion)
  BY DEF Voted, Arms
<1>6. BaseArms(weight) = <<s1, s2>> BY DEF BaseArms
<1>7. CASE call.mode = "weighted"
  <2>1. FusedArms = Append(<<s1, s2>>, s3) BY <1>6, <1>7 DEF FusedArms
  <2> HIDE DEF B, s1, s2, s3, s4, s5
  <2>2. <<s1, s2>> \in Seq(B) /\ Len(<<s1, s2>>) = 2 BY <1>3
  <2>3. /\ FusedArms \in Seq(B) /\ Len(FusedArms) = 3
        /\ \A n \in 1..2 : FusedArms[n] = <<s1, s2>>[n]
        /\ FusedArms[3] = s3
    BY <1>3, <2>1, <2>2, AppendProperties
  <2>4. Voters(FusedArms) = ItemsOf(s1.ids) \cup ItemsOf(s2.ids) \cup ItemsOf(s3.ids)
    <3>1. DOMAIN FusedArms = 1..3 BY <2>3, LenProperties
    <3>2. FusedArms[1] = s1 /\ FusedArms[2] = s2 /\ FusedArms[3] = s3 BY <2>3
    <3>3. \A n : n \in 1..3 <=> n = 1 \/ n = 2 \/ n = 3 OBVIOUS
    <3> QED BY <3>1, <3>2, <3>3 DEF Voters
  <2>5. Voters(FusedArms) = Voted BY <1>2, <1>4, <1>5, <2>4
  <2> QED BY <2>3, <2>5 DEF Ballots, B
<1>8. CASE call.mode # "weighted"
  <2>1. FusedArms = <<s1, s2>> \o <<s4, s5>> BY <1>6, <1>8 DEF FusedArms
  <2> HIDE DEF B, s1, s2, s3, s4, s5
  <2>2. /\ <<s1, s2>> \in Seq(B) /\ Len(<<s1, s2>>) = 2
        /\ <<s4, s5>> \in Seq(B) /\ Len(<<s4, s5>>) = 2
    BY <1>3
  <2>3. /\ FusedArms \in Seq(B) /\ Len(FusedArms) = 4
        /\ \A n \in 1..4 : FusedArms[n] = IF n <= 2 THEN <<s1, s2>>[n] ELSE <<s4, s5>>[n - 2]
    BY <2>1, <2>2, ConcatProperties
  <2>4. Voters(FusedArms) = ItemsOf(s1.ids) \cup ItemsOf(s2.ids) \cup ItemsOf(s4.ids)
                              \cup ItemsOf(s5.ids)
    <3>1. DOMAIN FusedArms = 1..4 BY <2>3, LenProperties
    <3>2. FusedArms[1] = s1 /\ FusedArms[2] = s2 /\ FusedArms[3] = s4 /\ FusedArms[4] = s5
      BY <2>3
    <3>3. \A n : n \in 1..4 <=> n = 1 \/ n = 2 \/ n = 3 \/ n = 4 OBVIOUS
    <3> QED BY <3>1, <3>2, <3>3 DEF Voters
  <2>5. Voters(FusedArms) = Voted BY <1>4, <1>5, <2>4
  <2> QED BY <2>3, <2>5 DEF Ballots, B
<1> QED BY <1>7, <1>8

LEMMA FuseTypes == TypeOK /\ Fuse => TypeOK' /\ FusedOK'
<1> SUFFICES ASSUME TypeOK, Fuse PROVE TypeOK' /\ FusedOK' OBVIOUS
<1>1. pc' = "compose" /\ UNCHANGED <<world, store, call, fetches, todo, batch, lookups, found,
                 ranked, signal, weight, seeds, answer, writes, live>>
  BY DEF Fuse
<1>2. TypeOK' BY <1>1 DEF TypeOK, store, Steps
<1>3. PICK ballots : ballots = FusedArms OBVIOUS
<1>4. PICK voted : voted = Voted OBVIOUS
<1>5. ballots \in Ballots /\ Voters(ballots) = voted /\ voted \subseteq Ids
  BY <1>3, <1>4, FusedArmsVote, VotedIds
<1>6. Scores(ballots) \in [voted -> Nat] BY <1>5, ScoresAre
<1>7. /\ Enumerates(WeightedMerge(Scores(ballots)), voted)
      /\ Enumerates(PlainMerge(Scores(ballots), ballots), voted)
  BY <1>5, <1>6, WeightedMergeEnumerates, PlainMergeEnumerates
<1>8. fused'.score = Scores(ballots)
      /\ \/ fused'.order = WeightedMerge(Scores(ballots))
         \/ fused'.order = PlainMerge(Scores(ballots), ballots)
  BY <1>3 DEF Fuse
<1>9. Voted' = voted BY <1>1, <1>4 DEF Voted
<1>10. FusedOK' BY <1>6, <1>7, <1>8, <1>9 DEF FusedOK
<1> QED BY <1>2, <1>10

(* What passes the filters, and goes through the gate of k.                *)
LEMMA GatedTypes ==
  ASSUME TypeOK, FusedOK, pc = "compose"
  PROVE  /\ Filtered \in Seq(Ids) /\ Gated \in Seq(Ids)
         /\ ItemsOf(Filtered) = {i \in Voted : Passes(i)}
         /\ ItemsOf(Gated) \subseteq ItemsOf(Filtered)
         /\ Primary => Len(Gated) <= K
<1>1. fused.order \in Seq(Voted) /\ ItemsOf(fused.order) = Voted BY DEF FusedOK, Enumerates
<1>2. Voted \subseteq Ids BY VotedIds
<1>3. fused.order \in Seq(Ids) BY <1>1, <1>2, ItemsAreSeq
<1> DEFINE T == {i \in Ids : Passes(i)}
<1>4. Filtered = Where(fused.order, T) BY DEF Filtered
<1>5. Filtered \in Seq(Ids) /\ ItemsOf(Filtered) = Voted \cap T
  <2> HIDE DEF T
  <2>1. PICK order : order = fused.order OBVIOUS
  <2> QED BY <1>1, <1>3, <1>4, <2>1, WhereItems
<1>6. ItemsOf(Filtered) = {i \in Voted : Passes(i)} BY <1>2, <1>5
<1>7. K \in Nat /\ Primary \in BOOLEAN BY CallTypes DEF TypeOK
<1>8. PICK s \in Seq(Ids) : s = Filtered BY <1>5
<1>9. PICK k \in Nat : k = K BY <1>7
<1>10. /\ FirstOf(k, s) \in Seq(Ids) /\ ItemsOf(FirstOf(k, s)) \subseteq ItemsOf(s)
       /\ Len(FirstOf(k, s)) = IF k < Len(s) THEN k ELSE Len(s)
  BY FirstOfItems
<1>11. Len(s) \in Nat BY LenProperties
<1>12. Len(FirstOf(k, s)) <= k BY <1>10, <1>11
<1>13. Gated = IF Primary THEN FirstOf(k, s) ELSE s BY <1>8, <1>9 DEF Gated, KGate
<1> QED BY <1>5, <1>6, <1>8, <1>9, <1>10, <1>12, <1>13

Pool == [n \in DOMAIN Gated |-> Candidate(Gated[n])]

LEMMA PoolTypes ==
  ASSUME TypeOK, FusedOK, pc = "compose"
  PROVE  /\ Pool \in Seq({Candidate(i) : i \in ItemsOf(Gated)})
         /\ ItemsOf(Pool) = {Candidate(i) : i \in ItemsOf(Gated)}
         /\ Len(Pool) = Len(Gated) /\ IsPool(ItemsOf(Pool))
<1> DEFINE C == {Candidate(i) : i \in ItemsOf(Gated)}
<1>1. Gated \in Seq(Ids) /\ ItemsOf(Gated) \subseteq Voted BY GatedTypes
<1>2. /\ Len(Gated) \in Nat /\ DOMAIN Gated = 1..Len(Gated)
      /\ \A n \in 1..Len(Gated) : Gated[n] \in ItemsOf(Gated)
  BY <1>1, LenProperties DEF ItemsOf
<1>3. Pool = [n \in 1..Len(Gated) |-> Candidate(Gated[n])] BY <1>2 DEF Pool
<1>4. Pool \in [1..Len(Gated) -> C] BY <1>2, <1>3
<1>5. Pool \in Seq(C) /\ Len(Pool) = Len(Gated)
  <2> HIDE DEF C
  <2>1. Pool \in Seq(C) BY <1>2, <1>4, SeqDef
  <2>2. Len(Pool) \in Nat /\ DOMAIN Pool = 1..Len(Pool) BY <2>1, LenProperties
  <2> QED BY <1>2, <1>4, <2>1, <2>2
<1>6. ItemsOf(Pool) = C BY <1>2, <1>3 DEF ItemsOf
<1>7. Voted \subseteq Ids /\ fused.score \in [Voted -> Nat] BY VotedIds DEF FusedOK
<1>8. \A i \in Ids : Crystals[i] \in
       [layer : Layers, mine : BOOLEAN, executive : BOOLEAN, tokens : Nat,
        importance : Int, lastAccess : Int, cue : BOOLEAN]
  BY RecallAssumption
<1>9. \A i \in ItemsOf(Gated) :
        /\ Crystals[i].tokens \in Nat /\ Crystals[i].importance \in Int
        /\ Crystals[i].lastAccess \in Int /\ i \in Int /\ fused.score[i] \in Int
  <2> TAKE i \in ItemsOf(Gated)
  <2>1. i \in Voted /\ i \in Ids BY <1>1, <1>7
  <2>2. i \in Int BY <2>1, IdsFinite
  <2> QED BY <1>7, <1>8, <2>1, <2>2
<1>10. \A c \in C : /\ c.tokens \in Nat
                    /\ {c.id, c.score, c.importance, c.lastAccess} \subseteq Int
  BY <1>9 DEF Candidate
<1>11. \A c, d \in C : c.id = d.id => c = d BY DEF Candidate
<1>12. IsFiniteSet(C) BY <1>5, <1>6, ItemsOfSeq
<1> HIDE DEF C
<1>13. IsPool(C) BY <1>10, <1>11, <1>12 DEF IsPool
<1> QED BY <1>5, <1>6, <1>13 DEF C

(* What the composer keeps: crystals that passed, within the caps.         *)
Fits(kept) ==
  /\ kept \in Seq(Ids) /\ ItemsOf(kept) \subseteq ItemsOf(Gated)
  /\ \A slot \in Slots : TokensIn({i \in ItemsOf(kept) : SlotOf(i) = slot}) <= SlotCap[slot]
  /\ TokensIn(ItemsOf(kept)) <= TotalCap
  /\ Primary => Len(kept) <= K

LEMMA TokensOfKept ==
  ASSUME TypeOK, FusedOK, pc = "compose", NEW T, T \subseteq ItemsOf(Gated),
         NEW P, P \subseteq ItemsOf(Pool), \A i \in T : Candidate(i) \in P
  PROVE  TokensIn(T) \in Nat /\ TokensOf(P) \in Nat /\ TokensIn(T) <= TokensOf(P)
<1> DEFINE w == [i \in T |-> Crystals[i].tokens]
           v == [c \in P |-> c.tokens]
           f == [i \in T |-> Candidate(i)]
<1>1. T \subseteq Ids
  <2>1. Gated \in Seq(Ids) BY GatedTypes
  <2> QED BY <2>1, ItemsOfSeq
<1>2. IsPool(P) BY PoolTypes, PartOfPool
<1>3. IsFiniteSet(P) /\ \A c \in P : c.tokens \in Nat BY <1>2 DEF IsPool
<1>4. TokensIn(T) = Cardinality(Units(T, w)) /\ TokensIn(T) \in Nat BY <1>1, TokensInIsSum
<1>5. TokensOf(P) = Cardinality(Units(P, v)) /\ TokensOf(P) \in Nat BY <1>3, TokensOfIsSum
<1>6. \A i \in T : Candidate(i).tokens = Crystals[i].tokens /\ Candidate(i).id = i
  BY DEF Candidate
<1>7. w \in [T -> Nat] /\ v \in [P -> Nat] /\ f \in [T -> P] BY <1>3, <1>6
<1>8. \A x, y \in T : f[x] = f[y] => x = y BY <1>6
<1>9. \A i \in T : w[i] <= v[f[i]]
  <2> TAKE i \in T
  <2>1. f[i] = Candidate(i) /\ f[i] \in P /\ w[i] = Crystals[i].tokens OBVIOUS
  <2>2. v[f[i]] = w[i] BY <1>6, <2>1
  <2>3. w[i] \in Nat BY <1>7
  <2> QED BY <2>2, <2>3
<1>10. Cardinality(Units(T, w)) <= Cardinality(Units(P, v))
  <2> HIDE DEF w, v, f
  <2> QED BY <1>3, <1>7, <1>8, <1>9, UnitsAtMost
<1> QED BY <1>4, <1>5, <1>10

LEMMA KeptFits ==
  ASSUME TypeOK, FusedOK, pc = "compose"
  PROVE  Fits(Kept(WorkingSet(Primary, Pool)))
<1> DEFINE C == {Candidate(i) : i \in ItemsOf(Gated)}
           ws == WorkingSet(Primary, Pool)
           kept == Kept(ws)
           chosen == Compose(Primary, ItemsOf(Pool))
<1>1. /\ Pool \in Seq(C) /\ ItemsOf(Pool) = C /\ Len(Pool) = Len(Gated) /\ IsPool(ItemsOf(Pool))
  BY PoolTypes
<1>2. Primary \in BOOLEAN /\ K \in Nat BY CallTypes DEF TypeOK
<1>3. ws \in Seq(C) /\ ItemsOf(ws) \subseteq chosen /\ (Primary => Len(ws) <= Len(Pool))
  <2> HIDE DEF C
  <2>1. PICK s \in Seq(C) : s = Pool BY <1>1
  <2>2. PICK p \in BOOLEAN : p = Primary BY <1>2
  <2>3. /\ WorkingSet(p, s) \in Seq(C) /\ ItemsOf(WorkingSet(p, s)) \subseteq Compose(p, ItemsOf(s))
        /\ p => Len(WorkingSet(p, s)) <= Len(s)
    BY <1>1, <2>1, WorkingSetFits
  <2> QED BY <2>1, <2>2, <2>3
<1>4. /\ chosen \subseteq C /\ TokensOf(chosen) <= TotalCap
      /\ \A slot \in Slots : TokensOf(InSlot(chosen, slot)) <= SlotCap[slot]
  <2>1. PICK S : S = ItemsOf(Pool) OBVIOUS
  <2>2. PICK p \in BOOLEAN : p = Primary BY <1>2
  <2>3. /\ Compose(p, S) \subseteq S /\ TokensOf(Compose(p, S)) <= TotalCap
        /\ \A slot \in Slots : TokensOf(InSlot(Compose(p, S), slot)) <= SlotCap[slot]
    BY <1>1, <2>1, TrimsFit
  <2> QED BY <1>1, <2>1, <2>2, <2>3
<1>5. Gated \in Seq(Ids) /\ ItemsOf(Gated) \subseteq Ids /\ (Primary => Len(Gated) <= K)
  BY GatedTypes, ItemsOfSeq
<1>6. /\ Len(ws) \in Nat /\ DOMAIN ws = 1..Len(ws) /\ \A n \in 1..Len(ws) : ws[n] \in C
  BY <1>3, LenProperties, ElementOfSeq
<1>7. kept = [n \in 1..Len(ws) |-> ws[n].id] BY <1>6 DEF Kept
<1>8. \A c \in C : c.id \in ItemsOf(Gated) /\ Candidate(c.id) = c BY DEF Candidate
<1> HIDE DEF C, ws, kept, chosen
<1>9. kept \in [1..Len(ws) -> Ids] BY <1>5, <1>6, <1>7, <1>8
<1>10. kept \in Seq(Ids) /\ Len(kept) = Len(ws)
  <2>1. kept \in Seq(Ids) BY <1>6, <1>9, SeqDef
  <2>2. Len(kept) \in Nat /\ DOMAIN kept = 1..Len(kept) BY <2>1, LenProperties
  <2> QED BY <1>6, <1>7, <2>1, <2>2
<1>11. \A i \in ItemsOf(kept) : i \in ItemsOf(Gated) /\ Candidate(i) \in chosen
  <2> TAKE i \in ItemsOf(kept)
  <2>1. PICK n \in 1..Len(ws) : i = ws[n].id BY <1>7 DEF ItemsOf
  <2>2. ws[n] \in C /\ ws[n] \in ItemsOf(ws) BY <1>6 DEF ItemsOf
  <2>3. Candidate(i) = ws[n] /\ i \in ItemsOf(Gated) BY <1>8, <2>1, <2>2
  <2> QED BY <1>3, <2>2, <2>3
<1>12. TokensIn(ItemsOf(kept)) <= TotalCap
  <2>1. PICK T : T = ItemsOf(kept) OBVIOUS
  <2>2. PICK P : P = chosen OBVIOUS
  <2>3. T \subseteq ItemsOf(Gated) /\ P \subseteq ItemsOf(Pool) /\ \A i \in T : Candidate(i) \in P
    BY <1>1, <1>4, <1>11, <2>1, <2>2
  <2>4. TokensIn(T) \in Nat /\ TokensOf(P) \in Nat /\ TokensIn(T) <= TokensOf(P)
    BY <2>3, TokensOfKept
  <2>5. TotalCap \in Nat BY ComposerAssumption
  <2> QED BY <1>4, <2>1, <2>2, <2>4, <2>5
<1>13. ASSUME NEW slot \in Slots
       PROVE  TokensIn({i \in ItemsOf(kept) : SlotOf(i) = slot}) <= SlotCap[slot]
  <2>1. PICK T : T = {i \in ItemsOf(kept) : SlotOf(i) = slot} OBVIOUS
  <2>2. PICK P : P = InSlot(chosen, slot) OBVIOUS
  <2>3. \A i \in T : Candidate(i).slot = slot BY <2>1 DEF Candidate, SlotOf
  <2>4. T \subseteq ItemsOf(Gated) /\ P \subseteq ItemsOf(Pool) /\ \A i \in T : Candidate(i) \in P
    BY <1>1, <1>4, <1>11, <2>1, <2>2, <2>3 DEF InSlot
  <2>5. TokensIn(T) \in Nat /\ TokensOf(P) \in Nat /\ TokensIn(T) <= TokensOf(P)
    BY <2>4, TokensOfKept
  <2>6. SlotCap[slot] \in Nat BY ComposerAssumption
  <2> QED BY <1>4, <2>1, <2>2, <2>5, <2>6
<1>14. Primary => Len(kept) <= K
  <2>1. Len(Gated) \in Nat BY <1>5, LenProperties
  <2> QED BY <1>1, <1>2, <1>3, <1>5, <1>6, <1>10, <2>1
<1>15. ItemsOf(kept) \subseteq ItemsOf(Gated) BY <1>11
<1>16. Fits(kept) BY <1>10, <1>12, <1>13, <1>14, <1>15 DEF Fits
<1> QED BY <1>16 DEF kept, ws

LEMMA NothingFits ==
  ASSUME TypeOK
  PROVE  Fits(<<>>)
<1>1. <<>> \in Seq(Ids) /\ ItemsOf(<<>>) = {} /\ Len(<<>>) = 0 BY NoItems, EmptySeq
<1>2. TokensIn({}) = 0
  <2>1. TokensIn({}) = Cardinality(Units({}, [i \in {} |-> Crystals[i].tokens])) BY TokensInIsSum
  <2>2. Units({}, [i \in {} |-> Crystals[i].tokens]) = {} BY DEF Units
  <2> QED BY <2>1, <2>2, FS_EmptySet
<1>3. \A slot : {i \in ItemsOf(<<>>) : SlotOf(i) = slot} = {} BY <1>1
<1>4. K \in Nat /\ TotalCap \in Nat /\ \A slot \in Slots : SlotCap[slot] \in Nat
  BY CallTypes, ComposerAssumption DEF TypeOK
<1>5. ASSUME NEW slot \in Slots
      PROVE  TokensIn({i \in ItemsOf(<<>>) : SlotOf(i) = slot}) <= SlotCap[slot]
  <2>1. PICK T : T = {i \in ItemsOf(<<>>) : SlotOf(i) = slot} OBVIOUS
  <2>2. TokensIn(T) = 0 BY <1>2, <1>3, <2>1
  <2>3. 0 <= SlotCap[slot] BY <1>4
  <2> QED BY <2>1, <2>2, <2>3
<1>6. TokensIn(ItemsOf(<<>>)) <= TotalCap
  <2>1. PICK T : T = ItemsOf(<<>>) OBVIOUS
  <2>2. TokensIn(T) = 0 BY <1>1, <1>2, <2>1
  <2>3. 0 <= TotalCap BY <1>4
  <2> QED BY <2>1, <2>2, <2>3
<1>7. ItemsOf(<<>>) \subseteq ItemsOf(Gated) BY <1>1
<1> QED BY <1>1, <1>4, <1>5, <1>6, <1>7 DEF Fits

LEMMA AnswersFit ==
  ASSUME TypeOK, FusedOK, Composition \/ CompositionFails
  PROVE  pc = "compose" /\ \E kept : Fits(kept) /\ Answering(kept)
<1>1. pc = "compose" BY DEF Composition, CompositionFails
<1>2. CASE Composition
  <2>1. Answering(Kept(WorkingSet(Primary, Pool))) BY <1>2 DEF Composition, Pool
  <2> QED BY <1>1, <2>1, KeptFits
<1>3. CASE CompositionFails
  <2>1. Answering(<<>>) BY <1>3 DEF CompositionFails
  <2> QED BY <1>1, <2>1, NothingFits
<1> QED BY <1>2, <1>3

(* What is answered passed the filters, and nothing is answered before.    *)
AnswerOK ==
  IF Answered THEN KeptIds \subseteq {i \in Voted : Passes(i)} ELSE answer = NoAnswer

LEMMA AnswerShape ==
  ASSUME TypeOK, FusedOK, pc = "compose", NEW kept, Fits(kept), Answering(kept)
  PROVE  answer' \in Answers
<1>1. Filtered \in Seq(Ids) /\ Gated \in Seq(Ids) BY GatedTypes
<1>2. ItemsOf(Filtered) \subseteq Ids /\ ItemsOf(Gated) \subseteq Ids BY <1>1, ItemsOfSeq
<1>3. Len(Filtered) \in Nat /\ Len(Gated) \in Nat BY <1>1, LenProperties
<1>4. kept \in Seq(Ids) /\ Len(kept) \in Nat BY LenProperties DEF Fits
<1>5. <<>> \in Seq(Ids) BY EmptySeq
<1> DEFINE C == {i \in Ids : found[i] # "none"}
           S == {i \in Ids : found[i] # "none" /\ ~InScope(i)}
           T == {i \in Ids : InScope(i) /\ ~Passes(i)}
<1>6. Cardinality(C) \in Int
  <2> HIDE DEF C
  <2>1. C \subseteq Ids BY DEF C
  <2> QED BY <2>1, IdsFinite, FS_Subset, FS_CardinalityType
<1>7. Len(Where(fused.order, S)) \in Int /\ Len(Where(fused.order, T)) \in Int
  <2> HIDE DEF S, T
  <2>1. fused.order \in Seq(Voted) BY DEF FusedOK, Enumerates
  <2>2. Where(fused.order, S) \in Seq(Voted) /\ Where(fused.order, T) \in Seq(Voted)
    <3>1. PICK V : V = Voted OBVIOUS
    <3>2. PICK s \in Seq(V) : s = fused.order BY <2>1, <3>1
    <3>3. Where(s, S) \in Seq(V) /\ Where(s, T) \in Seq(V) BY WhereItems
    <3> QED BY <3>1, <3>2, <3>3
  <2> QED BY <2>2, LenProperties
<1>8. Len(Filtered) - Len(Gated) \in Int /\ Len(Gated) - Len(kept) \in Int BY <1>3, <1>4
<1>9. answer' = [kept |-> kept, assembled |-> <<>>,
        cut |-> ItemsOf(Filtered) \ ItemsOf(Gated),
        evicted |-> ItemsOf(Gated) \ ItemsOf(kept),
        candidates |-> Cardinality(C),
        byScope |-> Len(Where(fused.order, S)), byStatus |-> Len(Where(fused.order, T)),
        byK |-> Len(Filtered) - Len(Gated), byBudget |-> Len(Gated) - Len(kept)]
  BY DEF Answering, TruncatedBy
<1> HIDE DEF C, S, T
<1> QED BY <1>2, <1>4, <1>5, <1>6, <1>7, <1>8, <1>9 DEF Answers

LEMMA AnswerTypes ==
  ASSUME TypeOK, FusedOK, Composition \/ CompositionFails
  PROVE  TypeOK' /\ FusedOK' /\ AnswerOK'
<1>1. pc = "compose" /\ \E kept : Fits(kept) /\ Answering(kept) BY AnswersFit
<1>2. PICK kept : Fits(kept) /\ Answering(kept) BY <1>1
<1>3. /\ answer'.kept = kept /\ answer'.assembled = <<>> /\ lookups' = kept /\ pc' = "touch"
      /\ UNCHANGED <<world, store, call, fetches, todo, batch, found, ranked,
                     signal, weight, seeds, fused, writes, live>>
  BY <1>2 DEF Answering
<1>4. kept \in Seq(Ids) /\ ItemsOf(kept) \subseteq ItemsOf(Gated) BY <1>2 DEF Fits
<1>5. answer' \in Answers BY <1>1, <1>2, AnswerShape
<1>6. TypeOK' BY <1>3, <1>4, <1>5 DEF TypeOK, store, Steps
<1>7. FusedOK' BY <1>1, <1>3 DEF FusedOK, Voted
<1>8. ItemsOf(kept) \subseteq {i \in Voted : Passes(i)} BY <1>1, <1>4, GatedTypes
<1>9. AnswerOK' BY <1>3, <1>8 DEF AnswerOK, Answered, KeptIds, Voted, Passes, InScope
<1> QED BY <1>6, <1>7, <1>9

LEMMA TouchTypes == TypeOK /\ Touch => TypeOK'
<1> SUFFICES ASSUME TypeOK, Touch PROVE TypeOK' OBVIOUS
<1>1. lookups \in Seq(Ids) /\ lookups # <<>> /\ touches \in [Ids -> Nat] BY DEF TypeOK, Touch
<1>2. touches' \in [Ids -> Nat]
  <2> DEFINE i == Head(lookups)
  <2>1. touches' = touches \/ (i \in Stored /\ touches' = [touches EXCEPT ![i] = @ + 1])
    BY DEF Touch
  <2> HIDE DEF i
  <2>2. i \in Stored => i \in Ids BY DEF Stored
  <2> QED BY <1>1, <2>1, <2>2
<1>3. pc' = "rescore"
      /\ UNCHANGED <<world, rows, embedded, scored, call, arms, answer, writes, live>>
  BY DEF Touch
<1> QED BY <1>1, <1>2, <1>3 DEF TypeOK, arms, Steps

LEMMA RescoreTypes == TypeOK /\ Rescore => TypeOK'
<1> SUFFICES ASSUME TypeOK, Rescore PROVE TypeOK' OBVIOUS
<1>1. /\ lookups \in Seq(Ids) /\ lookups # <<>> /\ touches \in [Ids -> Nat]
      /\ scored \in [Ids -> Nat]
  BY DEF TypeOK, Rescore
<1>2. lookups' \in Seq(Ids) BY <1>1, HeadTailItems DEF Rescore
<1>3. scored' \in [Ids -> Nat]
  <2> DEFINE i == Head(lookups)
  <2>1. scored' = scored \/ (i \in Stored /\ scored' = [scored EXCEPT ![i] = touches[i]])
    BY DEF Rescore
  <2> HIDE DEF i
  <2>2. i \in Stored => i \in Ids BY DEF Stored
  <2> QED BY <1>1, <2>1, <2>2
<1>4. pc' = "touch"
      /\ UNCHANGED <<world, rows, embedded, touches, call, fetches, todo, batch,
                 found, ranked, signal, weight, seeds, fused, answer, writes, live>>
  BY DEF Rescore
<1> QED BY <1>2, <1>3, <1>4 DEF TypeOK, Steps

LEMMA OthersTypes == TypeOK /\ Others => TypeOK'
<1> SUFFICES ASSUME TypeOK, Others PROVE TypeOK' OBVIOUS
<1>1. /\ rows \in [Ids -> RowStates] /\ embedded \in SUBSET Ids /\ live \in SUBSET Ids
      /\ writes \in Nat
  BY DEF TypeOK
<1>2. writes' \in Nat /\ UNCHANGED <<world, touches, scored, pc, call, arms, answer>>
  BY <1>1 DEF Others, Write
<1>3. PICK i \in Ids : Retire(i) \/ Commit(i) \/ Embed(i) \/ Erase(i) BY DEF Others
<1>4. rows' \in [Ids -> RowStates] /\ embedded' \in SUBSET Ids /\ live' \in SUBSET Ids
  BY <1>1, <1>3 DEF Retire, Commit, Embed, Erase, RowStates
<1> QED BY <1>2, <1>4 DEF TypeOK, arms

-------------------------------------------------------------------------------
(* assemble_context: the records in bands of scores.                       *)

(* Bands begin at or before each place, with a score at most a tenth above.*)
LEMMA Bands ==
  ASSUME NEW s \in Seq(Ids), NEW score, \A i \in ItemsOf(s) : score[i] \in Nat
  PROVE  \A n \in 1..Len(s) :
           /\ BandStart(s, score)[n] \in 1..n
           /\ score[s[n]] * 10 >= score[s[BandStart(s, score)[n]]] * 9
<1> DEFINE N == Len(s)
           Near(n, m) == score[s[n]] * 10 >= score[s[m]] * 9
           Starts(g) == g = [n \in 1..N |->
               IF n = 1 THEN 1
               ELSE IF score[s[n]] * 10 >= score[s[g[n - 1]]] * 9 THEN g[n - 1] ELSE n]
           start == CHOOSE g : Starts(g)
<1>1. N \in Nat /\ DOMAIN s = 1..N /\ \A n \in 1..N : s[n] \in ItemsOf(s) /\ score[s[n]] \in Nat
  BY LenProperties DEF ItemsOf
<1>2. BandStart(s, score) = start BY <1>1 DEF BandStart
<1> DEFINE step == [p \in (1..N) \X Nat |->
               IF p[1] = 1 THEN 1
               ELSE IF score[s[p[1]]] * 10 >= score[s[p[2]]] * 9 THEN p[2] ELSE p[1]]
<1>3. step \in [(1..N) \X Nat -> Nat]
  <2> SUFFICES ASSUME NEW p \in (1..N) \X Nat
               PROVE  (IF p[1] = 1 THEN 1
                       ELSE IF score[s[p[1]]] * 10 >= score[s[p[2]]] * 9 THEN p[2] ELSE p[1]) \in Nat
    OBVIOUS
  <2>1. p[1] \in Nat /\ p[2] \in Nat OBVIOUS
  <2> QED BY <2>1
<1>4. PICK h : Runs(h, Nat, N, 1, step)
  <2>1. 1 \in Nat OBVIOUS
  <2> HIDE DEF step, N
  <2> QED BY <1>1, <1>3, <2>1, Recursion
<1>5. h \in [0..N -> Nat] /\ \A n \in 1..N : h[n] = step[<<n, h[n - 1]>>]
  BY <1>4 DEF Runs
<1> DEFINE g == [n \in 1..N |-> h[n]]
<1>6. ASSUME NEW n \in 1..N
      PROVE  g[n] = IF n = 1 THEN 1
               ELSE IF score[s[n]] * 10 >= score[s[g[n - 1]]] * 9 THEN g[n - 1] ELSE n
  <2>1. n - 1 \in 0..N BY <1>1
  <2>2. h[n - 1] \in Nat BY <1>5, <2>1
  <2>3. <<n, h[n - 1]>> \in (1..N) \X Nat BY <2>2
  <2>4. h[n] = IF n = 1 THEN 1
               ELSE IF score[s[n]] * 10 >= score[s[h[n - 1]]] * 9 THEN h[n - 1] ELSE n
    BY <1>5, <2>3
  <2>5. n # 1 => n - 1 \in 1..N BY <1>1
  <2>6. g[n] = h[n] /\ (n # 1 => g[n - 1] = h[n - 1]) BY <2>5
  <2> HIDE DEF g
  <2> QED BY <2>4, <2>6
<1>7. Starts(g)
  <2>1. g = [n \in 1..N |-> g[n]] OBVIOUS
  <2> HIDE DEF g
  <2> QED BY <1>6, <2>1, Zenon
<1>8. Starts(start) BY <1>7, Zenon
<1> HIDE DEF start, g, step
<1>9. \A n \in 1..N : start[n] = IF n = 1 THEN 1 ELSE IF Near(n, start[n - 1])
                                 THEN start[n - 1] ELSE n
  BY <1>8
<1> HIDE DEF Starts
<1> DEFINE U == {n \in 0..(N - 1) : start[n + 1] \in 1..(n + 1) /\ Near(n + 1, start[n + 1])}
<1>10. CASE N = 0 BY <1>10, <1>2
<1>11. CASE N # 0
  <2>1. 0 \in U
    <3>1. 0 \in 0..(N - 1) /\ 0 + 1 = 1 /\ 1 \in 1..N BY <1>1, <1>11
    <3>2. start[1] = 1 BY <1>9, <3>1
    <3>3. score[s[1]] \in Nat BY <1>1, <3>1
    <3>4. Near(1, 1) BY <3>3
    <3>5. 1 \in 1..1 OBVIOUS
    <3> HIDE DEF Near
    <3> QED BY <3>1, <3>2, <3>4, <3>5
  <2>2. ASSUME NEW n \in 0..(N - 1 - 1), n \in U PROVE n + 1 \in U
    <3> DEFINE m == n + 1 + 1
    <3>1. n + 1 \in 0..(N - 1) /\ m \in 1..N /\ m # 1 /\ m - 1 = n + 1 BY <1>1
    <3>2. start[n + 1] \in 1..(n + 1) BY <2>2
    <3>3. score[s[m]] \in Nat BY <1>1, <3>1
    <3>4. Near(m, m) BY <3>3
    <3> HIDE DEF Near
    <3>5. start[m] = IF Near(m, start[n + 1]) THEN start[n + 1] ELSE m
      <4> HIDE DEF m
      <4>1. start[m] = IF Near(m, start[m - 1]) THEN start[m - 1] ELSE m BY <1>9, <3>1
      <4> QED BY <3>1, <4>1
    <3>6. m \in 1..m /\ 1..(n + 1) \subseteq 1..m BY <3>1
    <3>7. start[m] \in 1..m /\ Near(m, start[m])
      <4> HIDE DEF m
      <4> QED BY <3>2, <3>4, <3>5, <3>6
    <3> QED BY <3>1, <3>7
  <2>3. \A n \in 0..(N - 1 - 1) : n \in U => n + 1 \in U BY <2>2
  <2>4. N - 1 \in Nat BY <1>1, <1>11
  <2>5. 0..(N - 1) \subseteq U
    <3> HIDE DEF U
    <3> QED BY <2>1, <2>3, <2>4, RangeInduction
  <2>6. ASSUME NEW n \in 1..N PROVE start[n] \in 1..n /\ Near(n, start[n])
    <3> HIDE DEF Near
    <3>1. n - 1 \in 0..(N - 1) /\ n - 1 + 1 = n BY <1>1
    <3>2. n - 1 \in U BY <2>5, <3>1
    <3>3. start[n - 1 + 1] \in 1..(n - 1 + 1) /\ Near(n - 1 + 1, start[n - 1 + 1]) BY <3>2
    <3> QED BY <3>1, <3>3
  <2> QED BY <1>2, <2>6
<1> QED BY <1>10, <1>11

(* From the best score down, and the key of each record in its band.       *)
InBands(kept, score, byScore, key) ==
  /\ Sorts(byScore, ItemsOf(kept), [i \in ItemsOf(kept) |-> <<-score[i], FirstPlace(kept, i)>>])
  /\ key = [i \in ItemsOf(kept) |->
              <<BandStart(byScore, score)[FirstPlace(byScore, i)],
                IF Crystals[i].cue THEN 0 ELSE 1, Crystals[i].tokens, FirstPlace(kept, i)>>]
  /\ Sorts(Selected(kept, score), ItemsOf(kept), key)

LEMMA SelectedInBands ==
  ASSUME NEW kept \in Seq(Ids), NEW score, \A i \in ItemsOf(kept) : score[i] \in Nat
  PROVE  \E byScore, key : InBands(kept, score, byScore, key)
<1> DEFINE T == ItemsOf(kept)
           first == [i \in T |-> <<-score[i], FirstPlace(kept, i)>>]
           byScore == InOrder(T, LAMBDA i : <<-score[i], FirstPlace(kept, i)>>)
           start == BandStart(byScore, score)
           key == [i \in T |-> <<start[FirstPlace(byScore, i)],
                                 IF Crystals[i].cue THEN 0 ELSE 1,
                                 Crystals[i].tokens, FirstPlace(kept, i)>>]
<1>1. T \subseteq Ids /\ IsFiniteSet(T) /\ Len(kept) \in Nat BY ItemsOfSeq, LenProperties
<1>2. \A i \in T : FirstPlace(kept, i) \in 1..Len(kept) /\ kept[FirstPlace(kept, i)] = i
  BY FirstPlaceOf
<1>3. \A i \in T : FirstPlace(kept, i) \in Int /\ -score[i] \in Int BY <1>1, <1>2
<1>4. \A i, j \in T : FirstPlace(kept, i) = FirstPlace(kept, j) => i = j BY <1>2
<1>5. Sorts(byScore, T, first)
  <2>1. byScore = Ranked({<<first[x], x>> : x \in T})
    <3>1. {<<first[x], x>> : x \in T} = {<<<<-score[x], FirstPlace(kept, x)>>, x>> : x \in T}
      OBVIOUS
    <3> QED BY <3>1 DEF InOrder
  <2>2. \A i \in T : first[i] \in [1..2 -> Int] /\ first[i][2] = FirstPlace(kept, i)
    <3> HIDE DEF T
    <3> TAKE i \in T
    <3>1. <<-score[i], FirstPlace(kept, i)>> \in [1..2 -> Int] BY <1>3
    <3> QED BY <3>1
  <2>3. first \in [T -> [1..2 -> Int]] BY <2>2
  <2>4. 2 \in Nat OBVIOUS
  <2> HIDE DEF first, byScore, T
  <2>5. \A x, y \in T : first[x] = first[y] => x = y BY <1>4, <2>2
  <2> QED BY <1>1, <2>1, <2>3, <2>4, <2>5, Sorting
<1> HIDE DEF byScore
<1>6. /\ byScore \in Seq(T) /\ ItemsOf(byScore) = T /\ byScore \in Seq(Ids)
      /\ Len(byScore) \in Nat
  <2> HIDE DEF T
  <2>1. byScore \in Seq(T) /\ ItemsOf(byScore) = T BY <1>5 DEF Sorts
  <2> QED BY <1>1, <2>1, ItemsAreSeq, LenProperties
<1>7. \A n \in 1..Len(byScore) : start[n] \in Int
  <2>1. \A i \in ItemsOf(byScore) : score[i] \in Nat BY <1>6
  <2>2. \A n \in 1..Len(byScore) : BandStart(byScore, score)[n] \in 1..n
    BY <1>6, <2>1, Bands
  <2> QED BY <2>2
<1>8. \A i \in T : FirstPlace(byScore, i) \in 1..Len(byScore) BY <1>6, FirstPlaceOf
<1>9. Selected(kept, score) = Ranked({<<key[x], x>> : x \in T})
  <2>1. {<<key[x], x>> : x \in T} =
          {<<<<start[FirstPlace(byScore, x)], IF Crystals[x].cue THEN 0 ELSE 1,
               Crystals[x].tokens, FirstPlace(kept, x)>>, x>> : x \in T}
    OBVIOUS
  <2> HIDE DEF key
  <2> QED BY <2>1 DEF Selected, InOrder, byScore
<1>10. \A i \in T : key[i] \in [1..4 -> Int] /\ key[i][4] = FirstPlace(kept, i)
  <2> TAKE i \in T
  <2>1. start[FirstPlace(byScore, i)] \in Int BY <1>7, <1>8
  <2>2. Crystals[i].tokens \in Int
    <3>1. Crystals[i] \in [layer : Layers, mine : BOOLEAN, executive : BOOLEAN, tokens : Nat,
                           importance : Int, lastAccess : Int, cue : BOOLEAN]
      BY <1>1, RecallAssumption
    <3> QED BY <3>1
  <2>3. (IF Crystals[i].cue THEN 0 ELSE 1) \in Int OBVIOUS
  <2> HIDE DEF start, T
  <2>4. <<start[FirstPlace(byScore, i)], IF Crystals[i].cue THEN 0 ELSE 1,
          Crystals[i].tokens, FirstPlace(kept, i)>> \in [1..4 -> Int]
    BY <1>3, <2>1, <2>2, <2>3
  <2> QED BY <2>4
<1>11. key \in [T -> [1..4 -> Int]] BY <1>10
<1>12. 4 \in Nat OBVIOUS
<1>13. Sorts(Selected(kept, score), T, key)
  <2> HIDE DEF key, T, start
  <2>1. \A x, y \in T : key[x] = key[y] => x = y BY <1>4, <1>10
  <2> QED BY <1>1, <1>9, <1>11, <1>12, <2>1, Sorting
<1>14. InBands(kept, score, byScore, key) BY <1>5, <1>13 DEF InBands
<1> HIDE DEF key, byScore
<1> QED BY <1>14

LEMMA SelectedWithinBands ==
  ASSUME NEW kept \in Seq(Ids), NEW score, \A i \in ItemsOf(kept) : score[i] \in Nat
  PROVE  LET sel == Selected(kept, score)
         IN  /\ sel \in Seq(Ids) /\ ItemsOf(sel) = ItemsOf(kept)
             /\ \A m, n \in 1..Len(sel) : m < n => score[sel[m]] * 10 >= score[sel[n]] * 9
<1> DEFINE T == ItemsOf(kept)
           sel == Selected(kept, score)
<1>1. PICK byScore, key : InBands(kept, score, byScore, key) BY SelectedInBands
<1> DEFINE start == BandStart(byScore, score)
           Place(i) == FirstPlace(byScore, i)
<1>2. T \subseteq Ids BY ItemsOfSeq
<1>3. /\ sel \in Seq(T) /\ ItemsOf(sel) = T
      /\ \A m, n \in 1..Len(sel) : m < n => KeyBelow(key[sel[m]], key[sel[n]])
  BY <1>1 DEF InBands, Sorts
<1>4. /\ byScore \in Seq(T) /\ ItemsOf(byScore) = T
      /\ \A m, n \in 1..Len(byScore) : m < n =>
           KeyBelow([i \in T |-> <<-score[i], FirstPlace(kept, i)>>][byScore[m]],
                    [i \in T |-> <<-score[i], FirstPlace(kept, i)>>][byScore[n]])
  BY <1>1 DEF InBands, Sorts
<1>5. sel \in Seq(Ids) /\ byScore \in Seq(Ids)
  <2> HIDE DEF sel, T
  <2> QED BY <1>2, <1>3, <1>4, ItemsAreSeq
<1>6. /\ Len(byScore) \in Nat /\ \A n \in 1..Len(byScore) : byScore[n] \in T
      /\ \A n \in 1..Len(sel) : sel[n] \in T
  <2> HIDE DEF T, sel
  <2> QED BY <1>3, <1>4, LenProperties, ElementOfSeq
<1>7. ASSUME NEW m \in 1..Len(byScore), NEW n \in 1..Len(byScore), m <= n
      PROVE  score[byScore[m]] >= score[byScore[n]]
  <2>1. score[byScore[m]] \in Nat /\ score[byScore[n]] \in Nat BY <1>6
  <2>2. CASE m = n BY <2>1, <2>2
  <2>3. CASE m < n
    <3> DEFINE i == byScore[m]
               j == byScore[n]
    <3>1. i \in T /\ j \in T BY <1>6
    <3>2. KeyBelow(<<-score[i], FirstPlace(kept, i)>>, <<-score[j], FirstPlace(kept, j)>>)
      BY <1>4, <2>3, <3>1
    <3>3. -score[i] <= -score[j]
      <4> DEFINE a == <<-score[i], FirstPlace(kept, i)>>
                 b == <<-score[j], FirstPlace(kept, j)>>
      <4>1. DOMAIN a = 1..2 /\ a[1] = -score[i] /\ b[1] = -score[j] OBVIOUS
      <4> HIDE DEF a, b
      <4>2. a[1] < b[1] \/ a[1] = b[1]
        <5>1. PICK k \in 1..2 : a[k] < b[k] /\ \A l \in 1..(k - 1) : a[l] = b[l]
          BY <3>2, <4>1 DEF KeyBelow, a, b
        <5>2. k = 1 \/ (k # 1 /\ 1 \in 1..(k - 1)) OBVIOUS
        <5> QED BY <5>1, <5>2
      <4>3. -score[i] < -score[j] \/ -score[i] = -score[j] BY <4>1, <4>2
      <4>4. -score[i] \in Int /\ -score[j] \in Int BY <2>1
      <4> HIDE DEF i, j
      <4> QED BY <4>3, <4>4
    <3> HIDE DEF i, j
    <3>4. PICK p \in Nat, q \in Nat : p = score[i] /\ q = score[j] BY <2>1 DEF i, j
    <3>5. -p <= -q BY <3>3, <3>4
    <3>6. p >= q BY <3>5
    <3> QED BY <3>4, <3>6 DEF i, j
  <2> QED BY <1>6, <1>7, <2>2, <2>3
<1>8. \A n \in 1..Len(byScore) :
        start[n] \in 1..n /\ score[byScore[n]] * 10 >= score[byScore[start[n]]] * 9
  <2>1. \A i \in ItemsOf(byScore) : score[i] \in Nat BY <1>4
  <2> QED BY <1>5, <2>1, Bands
<1>9. \A i \in T : Place(i) \in 1..Len(byScore) /\ byScore[Place(i)] = i
  <2> HIDE DEF T
  <2> QED BY <1>4, FirstPlaceOf
<1>10. ASSUME NEW m \in 1..Len(sel), NEW n \in 1..Len(sel), m < n
       PROVE  score[sel[m]] * 10 >= score[sel[n]] * 9
  <2> DEFINE i == sel[m]
             j == sel[n]
             a == Place(i)
             b == Place(j)
  <2>1. i \in T /\ j \in T BY <1>6
  <2>2. KeyBelow(key[i], key[j]) BY <1>3, <1>10
  <2>3. key = [x \in T |->
              <<start[Place(x)], IF Crystals[x].cue THEN 0 ELSE 1, Crystals[x].tokens,
                FirstPlace(kept, x)>>]
    BY <1>1 DEF InBands
  <2>4. /\ key[i][1] = start[a] /\ key[j][1] = start[b] /\ DOMAIN key[i] = 1..4
    <3> HIDE DEF T, i, j, start, Place
    <3> QED BY <2>1, <2>3 DEF a, b
  <2>5. /\ a \in 1..Len(byScore) /\ byScore[a] = i /\ b \in 1..Len(byScore) /\ byScore[b] = j
    <3> HIDE DEF T, i, j, Place
    <3> QED BY <1>9, <2>1 DEF a, b
  <2> HIDE DEF a, b, i, j, start, T
  <2>6. start[a] \in 1..a /\ start[b] \in 1..b BY <1>8, <2>5
  <2>7. start[a] <= start[b]
    <3>1. PICK k \in 1..4 : key[i][k] < key[j][k] /\ \A l \in 1..(k - 1) : key[i][l] = key[j][l]
      BY <2>2, <2>4 DEF KeyBelow
    <3>2. k = 1 \/ (k # 1 /\ 1 \in 1..(k - 1)) OBVIOUS
    <3>3. key[i][1] < key[j][1] \/ key[i][1] = key[j][1] BY <3>1, <3>2
    <3> QED BY <2>4, <2>6, <3>3
  <2>8. start[a] \in 1..Len(byScore) /\ start[b] \in 1..Len(byScore) BY <1>6, <2>5, <2>6
  <2>9. score[byScore[start[a]]] >= score[byScore[start[b]]] BY <1>7, <2>7, <2>8
  <2>10. score[byScore[start[b]]] >= score[byScore[b]] BY <1>7, <2>5, <2>6, <2>8
  <2>11. score[byScore[a]] * 10 >= score[byScore[start[a]]] * 9 BY <1>8, <2>5
  <2>12. /\ score[byScore[a]] \in Nat /\ score[byScore[b]] \in Nat
         /\ score[byScore[start[a]]] \in Nat /\ score[byScore[start[b]]] \in Nat
    BY <1>6, <2>5, <2>8 DEF T
  <2>13. score[byScore[a]] * 10 >= score[byScore[b]] * 9
    <3>1. PICK sa \in Nat, sb \in Nat, ta \in Nat, tb \in Nat :
            /\ sa = score[byScore[a]] /\ sb = score[byScore[b]]
            /\ ta = score[byScore[start[a]]] /\ tb = score[byScore[start[b]]]
      BY <2>12
    <3>2. ta >= tb /\ tb >= sb /\ sa * 10 >= ta * 9 BY <2>9, <2>10, <2>11, <3>1
    <3>3. sa * 10 >= sb * 9 BY <3>2
    <3> QED BY <3>1, <3>3
  <2> QED BY <2>5, <2>13 DEF i, j
<1> QED BY <1>3, <1>5, <1>10

-------------------------------------------------------------------------------
(* The types, step by step.                                                *)

Typed == TypeOK /\ FusedOK /\ AnswerOK

(* The steps before the composition leave the answer as it was.            *)
LEMMA RetrieveTyped ==
  ASSUME Typed, Retrieve
  PROVE  Typed' /\ ~Answered /\ ~Answered'
<1>1. TypeOK /\ FusedOK /\ AnswerOK BY DEF Typed
<1>2. TypeOK'
  BY <1>1, FetchTypes, WidenTypes, IngestTypes, SearchStepTypes, LookupTypes, SeedTypes,
     ExpandTypes, WalkTypes, FailTypes DEF Retrieve
<1>3. pc \in {"fetch", "fetched", "search", "dense", "graph", "completion", "seed", "expand", "walk"}
  BY DEF Retrieve, Fetch, Widen, Ingest, Search, Lookup, Seed, Expand, Walk, GraphFails
<1>4. UNCHANGED answer
  BY DEF Retrieve, Fetch, Widen, Ingest, Search, Lookup, Seed, Expand, Walk, GraphFails
<1>5. pc' \notin {"compose", "touch", "rescore", "done"}
  <2>1. CASE Fetch \/ Ingest \/ Search \/ Seed \/ Expand \/ Walk \/ GraphFails
    BY <2>1 DEF Fetch, Ingest, Search, Seed, Expand, Walk, GraphFails
  <2>2. CASE Widen BY <2>2, <1>3 DEF Widen
  <2>3. CASE Lookup
    <3>1. pc \in {"dense", "graph", "completion"} BY <2>3 DEF Lookup
    <3>2. AfterLookups \in {"seed", "search", "walk", "rank"} BY <3>1 DEF AfterLookups
    <3> QED BY <2>3, <3>1, <3>2 DEF Lookup
  <2> QED BY <2>1, <2>2, <2>3 DEF Retrieve
<1>6. ~Answered /\ ~Answered' BY <1>3, <1>5 DEF Answered
<1>7. FusedOK' BY <1>5 DEF FusedOK
<1>8. AnswerOK' BY <1>1, <1>4, <1>6 DEF AnswerOK, NoAnswer
<1> QED BY <1>2, <1>6, <1>7, <1>8 DEF Typed

LEMMA FinishTypes ==
  ASSUME Typed, Finish
  PROVE  TypeOK'
<1>1. TypeOK /\ FusedOK /\ AnswerOK /\ pc = "touch" BY DEF Typed, Finish
<1>2. answer \in Answers /\ answer.kept \in Seq(Ids) /\ call \in Requests
  BY <1>1 DEF TypeOK, Answers
<1>3. KeptIds \subseteq Voted /\ fused.score \in [Voted -> Nat]
  BY <1>1 DEF AnswerOK, FusedOK, Answered
<1>4. \A i \in ItemsOf(answer.kept) : fused.score[i] \in Nat BY <1>3 DEF KeptIds
<1>5. Selected(answer.kept, fused.score) \in Seq(Ids)
  <2>1. PICK kept \in Seq(Ids) : kept = answer.kept BY <1>2
  <2>2. PICK score : score = fused.score OBVIOUS
  <2>3. Selected(kept, score) \in Seq(Ids) BY <1>4, <2>1, <2>2, SelectedWithinBands
  <2> QED BY <2>1, <2>2, <2>3
<1>6. NormalizeK(call.k) \in Nat BY <1>2, CallTypes
<1>7. FirstOf(NormalizeK(call.k), Selected(answer.kept, fused.score)) \in Seq(Ids)
  BY <1>5, <1>6, FirstOfItems
<1>8. answer' \in Answers
  <2>1. CASE call.tool # "assemble" BY <1>2, <2>1 DEF Finish
  <2>2. CASE call.tool = "assemble" BY <1>2, <1>7, <2>2 DEF Finish, Answers
  <2> QED BY <2>1, <2>2
<1>9. pc' = "done" /\ UNCHANGED <<world, store, call, arms, writes, live>> BY DEF Finish
<1> QED BY <1>1, <1>8, <1>9 DEF TypeOK, store, arms, Steps

(* The other steps: nothing is answered before, nothing is taken back.     *)
LEMMA TypedStep == Typed /\ [Next]_vars => Typed'
<1> SUFFICES ASSUME Typed, [Next]_vars PROVE Typed' OBVIOUS
<1>1. TypeOK /\ FusedOK /\ AnswerOK BY DEF Typed
<1>2. CASE Begin
  <2>1. TypeOK' BY <1>1, <1>2, BeginTypes
  <2>2. pc = "idle" /\ pc' \in {"shut", "fetch"} /\ UNCHANGED answer BY <1>2 DEF Begin
  <2>3. FusedOK' BY <2>2 DEF FusedOK
  <2>4. AnswerOK' BY <1>1, <2>2 DEF AnswerOK, Answered, NoAnswer
  <2> QED BY <2>1, <2>3, <2>4 DEF Typed
<1>3. CASE Retrieve BY <1>3, RetrieveTyped
<1>4. CASE Fuse
  <2>1. TypeOK' /\ FusedOK' BY <1>1, <1>4, FuseTypes
  <2>2. pc = "rank" /\ pc' = "compose" /\ UNCHANGED answer BY <1>4 DEF Fuse
  <2>3. AnswerOK' BY <1>1, <2>2 DEF AnswerOK, Answered, NoAnswer
  <2> QED BY <2>1, <2>3 DEF Typed
<1>5. CASE Composition \/ CompositionFails BY <1>1, <1>5, AnswerTypes DEF Typed
<1>6. CASE Touch \/ Rescore \/ Finish
  <2>1. TypeOK'
    BY <1>1, <1>6, TouchTypes, RescoreTypes, FinishTypes
  <2>2. /\ pc \in {"touch", "rescore"} /\ pc' \in {"touch", "rescore", "done"}
        /\ UNCHANGED <<fused, ranked, found>> /\ answer'.kept = answer.kept
    <3>1. CASE Touch BY <3>1 DEF Touch, arms
    <3>2. CASE Rescore BY <3>2 DEF Rescore
    <3>3. CASE Finish
      <4>1. answer \in Answers BY <1>1 DEF TypeOK
      <4>2. answer'.kept = answer.kept BY <3>3, <4>1 DEF Finish, Answers
      <4> QED BY <3>3, <4>2 DEF Finish, arms
    <3> QED BY <1>6, <3>1, <3>2, <3>3
  <2>3. FusedOK' BY <1>1, <2>2 DEF FusedOK, Voted
  <2>4. AnswerOK' BY <1>1, <2>2 DEF AnswerOK, Answered, KeptIds, Voted, Passes, InScope
  <2> QED BY <2>1, <2>3, <2>4 DEF Typed
<1>7. CASE Others
  <2>1. TypeOK' BY <1>1, <1>7, OthersTypes
  <2>2. UNCHANGED <<pc, arms, answer>> BY <1>7 DEF Others, Write
  <2>3. FusedOK' BY <1>1, <2>2 DEF FusedOK, Voted, arms
  <2>4. AnswerOK'
    BY <1>1, <2>2 DEF AnswerOK, Answered, KeptIds, Voted, Passes, InScope, arms, NoAnswer
  <2> QED BY <2>1, <2>3, <2>4 DEF Typed
<1>8. CASE UNCHANGED vars
  <2>1. UNCHANGED <<world, rows, embedded, touches, scored, pc, call, todo, batch, fetches,
                    lookups, found, ranked, signal, weight, seeds, fused, answer, writes, live>>
    BY <1>8 DEF vars, store, arms
  <2>2. TypeOK' BY <1>1, <2>1 DEF TypeOK
  <2>3. FusedOK' BY <1>1, <2>1 DEF FusedOK, Voted
  <2>4. AnswerOK' BY <1>1, <2>1 DEF AnswerOK, Answered, KeptIds, Voted, Passes, InScope, NoAnswer
  <2> QED BY <2>2, <2>3, <2>4 DEF Typed
<1> QED BY <1>2, <1>3, <1>4, <1>5, <1>6, <1>7, <1>8 DEF Next, Respond, Over

LEMMA TypedInit == Init => Typed
<1> SUFFICES ASSUME Init PROVE Typed OBVIOUS
<1>1. TypeOK BY TypeInit
<1>2. pc = "idle" /\ answer = NoAnswer BY DEF Init
<1>3. FusedOK /\ AnswerOK BY <1>2 DEF FusedOK, AnswerOK, Answered
<1> QED BY <1>1, <1>3 DEF Typed

(* The types of a recall, whatever the other processes do: the rows, the   *)
(* fetches, the rankings and the answer are of the crystals and layers of  *)
(* the store; the fused ranking has each candidate once, with its score;   *)
(* and nothing is answered that did not pass the filters.                  *)
THEOREM TypeCorrect == Spec => []Typed
<1> QED BY TypedInit, TypedStep, PTL DEF Spec

-------------------------------------------------------------------------------
(* What is answered was current at some moment.                            *)

(* A row that was read as current was current at the time.                 *)
OnceCurrent ==
  /\ pc # "idle" => Current \subseteq live
  /\ \A i \in Ids : found[i] = "active" \/ batch.seen[i] = "active" => i \in live
  /\ pc = "idle" => \A i \in Ids : found[i] = "none" /\ batch.seen[i] = "none"

(* The steps that read no row.                                             *)
Quiet == Search \/ Seed \/ Expand \/ Walk \/ GraphFails \/ Fuse \/ Composition
           \/ CompositionFails \/ Touch \/ Rescore \/ Finish

LEMMA QuietSteps ==
  ASSUME Quiet
  PROVE  /\ UNCHANGED <<world, rows, embedded, call, batch, fetches, found, ranked, writes, live>>
         /\ pc \notin {"idle", "fetch", "fetched", "done", "shut"}
         /\ pc' \notin {"idle", "fetch", "fetched", "shut"}
         /\ ~Search => UNCHANGED todo
<1>1. CASE Search BY <1>1 DEF Search, store
<1>2. CASE Seed \/ Expand \/ Walk BY <1>2 DEF Seed, Expand, Walk, store
<1>3. CASE GraphFails BY <1>3 DEF GraphFails, store, arms
<1>4. CASE Fuse BY <1>4 DEF Fuse, store
<1>5. CASE Composition \/ CompositionFails
  BY <1>5 DEF Composition, CompositionFails, Answering, store
<1>6. CASE Touch BY <1>6 DEF Touch, arms
<1>7. CASE Rescore BY <1>7 DEF Rescore
<1>8. CASE Finish BY <1>8 DEF Finish, store, arms
<1> QED BY <1>1, <1>2, <1>3, <1>4, <1>5, <1>6, <1>7, <1>8 DEF Quiet

LEMMA StepsOfNext ==
  ASSUME [Next]_vars
  PROVE  \/ Begin \/ Fetch \/ Widen \/ Ingest \/ Lookup \/ Quiet \/ Others
         \/ UNCHANGED <<world, rows, embedded, touches, scored, pc, call, todo, batch, fetches,
                        lookups, found, ranked, signal, weight, seeds, fused, answer, writes, live>>
<1>1. CASE UNCHANGED vars BY <1>1 DEF vars, store, arms
<1>2. CASE Next BY <1>1, <1>2 DEF Next, Retrieve, Respond, Over, Quiet
<1> QED BY <1>1, <1>2

LEMMA OnceCurrentStep ==
  ASSUME Typed, OnceCurrent, [Next]_vars
  PROVE  OnceCurrent'
<1>1. /\ rows \in [Ids -> RowStates] /\ found \in [Ids -> FoundRows] /\ batch \in Batches
      /\ batch.seen \in [Ids -> FoundRows]
  BY DEF Typed, TypeOK, Batches
<1>2. /\ pc # "idle" => \A i \in Ids : rows[i] = "active" => i \in live
      /\ \A i \in Ids : found[i] = "active" \/ batch.seen[i] = "active" => i \in live
  BY DEF OnceCurrent, Current
<1>3. CASE Begin
  <2>1. /\ pc = "idle" /\ pc' # "idle" /\ live' = Current
        /\ UNCHANGED <<rows, found, batch>>
    BY <1>3 DEF Begin, store
  <2> QED BY <2>1 DEF OnceCurrent, Current
<1>4. CASE Fetch
  <2>1. /\ pc = "fetch" /\ pc' = "fetched" /\ UNCHANGED <<rows, found, live>>
    BY <1>4 DEF Fetch, store
  <2>2. PICK hits : batch'.seen = ReadNow(hits) BY <1>4 DEF Fetch
  <2>3. \A i \in Ids : batch'.seen[i] = "active" => rows[i] = "active" BY <2>2 DEF ReadNow
  <2> QED BY <1>2, <2>1, <2>3 DEF OnceCurrent, Current
<1>5. CASE Widen
  <2>1. /\ pc = "fetched" /\ UNCHANGED <<pc, rows, found, live>>
    BY <1>5 DEF Widen, store
  <2>2. \A i \in Ids : batch'.seen[i] = rows[i] \/ batch'.seen[i] = batch.seen[i]
    BY <1>5 DEF Widen
  <2> QED BY <1>2, <2>1, <2>2 DEF OnceCurrent, Current
<1>6. CASE Ingest
  <2>1. /\ pc = "fetched" /\ pc' # "idle" /\ UNCHANGED <<rows, live>> /\ batch' = NoBatch
    BY <1>6 DEF Ingest, store
  <2>2. \A i \in Ids : found'[i] = found[i] \/ found'[i] = batch.seen[i] BY <1>6 DEF Ingest
  <2>3. \A i \in Ids : batch'.seen[i] = "none" BY <2>1 DEF NoBatch
  <2> QED BY <1>2, <2>1, <2>2, <2>3 DEF OnceCurrent, Current
<1>7. CASE Lookup
  <2>1. pc \in {"dense", "graph", "completion"} /\ UNCHANGED <<rows, live, batch>>
    BY <1>7 DEF Lookup, store
  <2>2. pc' # "idle"
    <3>1. AfterLookups # "idle" BY <2>1 DEF AfterLookups
    <3> QED BY <1>7, <2>1, <3>1 DEF Lookup
  <2>3. \A i \in Ids : found'[i] = found[i] \/ found'[i] = rows[i]
    <3>1. found' = found \/ \E j : found' = ReadRow(j) BY <1>7 DEF Lookup
    <3>2. CASE found' = found BY <3>2
    <3>3. CASE \E j : found' = ReadRow(j)
      <4>1. PICK j : found' = ReadRow(j) BY <3>3
      <4>2. found' = found \/ found' = [found EXCEPT ![j] = rows[j]] BY <4>1 DEF ReadRow
      <4> QED BY <1>1, <4>2
    <3> QED BY <3>1, <3>2, <3>3
  <2> QED BY <1>2, <2>1, <2>2, <2>3 DEF OnceCurrent, Current
<1>8. CASE Quiet
  <2>1. UNCHANGED <<rows, batch, found, live>> /\ pc # "idle" /\ pc' # "idle"
    BY <1>8, QuietSteps
  <2> QED BY <1>2, <2>1 DEF OnceCurrent, Current
<1>9. CASE Others
  <2>1. pc # "idle" /\ UNCHANGED <<pc, batch, found>> BY <1>9 DEF Others, Write, arms
  <2>2. PICK i \in Ids : Retire(i) \/ Commit(i) \/ Embed(i) \/ Erase(i) BY <1>9 DEF Others
  <2>3. live \subseteq live' BY <2>2 DEF Retire, Commit, Embed, Erase
  <2>4. \A j \in Ids : rows'[j] = "active" => j \in live'
    BY <1>1, <1>2, <2>1, <2>2 DEF Retire, Commit, Embed, Erase
  <2> QED BY <1>2, <2>1, <2>3, <2>4 DEF OnceCurrent, Current
<1>10. CASE UNCHANGED <<pc, rows, batch, found, live>>
  BY <1>10 DEF OnceCurrent, Current
<1> QED BY <1>3, <1>4, <1>5, <1>6, <1>7, <1>8, <1>9, <1>10, StepsOfNext

LEMMA OnceCurrentInit == Init => OnceCurrent
<1> SUFFICES ASSUME Init PROVE OnceCurrent OBVIOUS
<1>1. pc = "idle" /\ found = [i \in Ids |-> "none"] /\ batch.seen = [i \in Ids |-> "none"]
  BY DEF Init, NoBatch
<1> QED BY <1>1 DEF OnceCurrent

LEMMA OnceCurrentAnswers == Typed /\ OnceCurrent => AnswersOnceCurrent
<1> SUFFICES ASSUME Typed, OnceCurrent, NEW i \in KeptIds
             PROVE  Crystals[i].mine /\ i \in live
  BY DEF AnswersOnceCurrent
<1>1. AnswerOK /\ Voted \subseteq Ids BY VotedIds DEF Typed
<1>2. Answered
  <2> SUFFICES ASSUME ~Answered PROVE FALSE OBVIOUS
  <2>1. answer.kept = <<>> BY <1>1 DEF AnswerOK, NoAnswer
  <2> QED BY <2>1, NoItems DEF KeptIds
<1>3. i \in Ids /\ Passes(i) BY <1>1, <1>2 DEF AnswerOK
<1> QED BY <1>3 DEF Passes, InScope, OnceCurrent

(* What a recall answers belongs to the caller's project and was current   *)
(* at some moment of the recall, for every store and every query: whatever *)
(* other processes write meanwhile, and however stale the vector index and *)
(* the graph are (aetheryte/retrieve.py's filters over all_candidates).    *)
THEOREM AnswersWereCurrent == Spec => []AnswersOnceCurrent
<1>1. Typed /\ OnceCurrent /\ [Next]_vars => OnceCurrent' BY OnceCurrentStep
<1> QED BY <1>1, TypedInit, TypedStep, OnceCurrentInit, OnceCurrentAnswers, PTL DEF Spec

-------------------------------------------------------------------------------
(* The answer fits, and its diagnosis adds up.                             *)

(* Who writes the answer.                                                  *)
LEMMA AnswerSteps ==
  ASSUME Typed, [Next]_vars
  PROVE  \/ pc = "compose" /\ pc' = "touch" /\ \E kept : Fits(kept) /\ Answering(kept)
         \/ Finish
         \/ UNCHANGED <<answer, call>> /\ (Answered' => Answered /\ UNCHANGED fused)
              /\ (pc' = "done" => pc = "done")
<1>1. TypeOK /\ FusedOK BY DEF Typed
<1>2. CASE Composition \/ CompositionFails
  <2>1. pc = "compose" /\ \E kept : Fits(kept) /\ Answering(kept) BY <1>1, <1>2, AnswersFit
  <2>2. pc' = "touch" BY <2>1 DEF Answering
  <2> QED BY <2>1, <2>2
<1>3. CASE Touch \/ Rescore
  <2>1. CASE Touch BY <2>1 DEF Touch, Answered, arms
  <2>2. CASE Rescore BY <2>2 DEF Rescore, Answered
  <2> QED BY <1>3, <2>1, <2>2
<1>4. CASE Begin \/ Fuse BY <1>4 DEF Begin, Fuse, Answered
<1>5. CASE Retrieve
  <2>1. ~Answered /\ ~Answered' BY <1>5, RetrieveTyped
  <2>2. UNCHANGED <<answer, call>>
    BY <1>5 DEF Retrieve, Fetch, Widen, Ingest, Search, Lookup, Seed, Expand, Walk, GraphFails
  <2> QED BY <2>1, <2>2 DEF Answered
<1>6. CASE Others BY <1>6 DEF Others, Write, Answered, arms
<1>7. CASE UNCHANGED vars BY <1>7 DEF vars, Answered, arms
<1> QED BY <1>2, <1>3, <1>4, <1>5, <1>6, <1>7 DEF Next, Respond, Over

LEMMA FinishAnswer ==
  ASSUME Typed, Finish
  PROVE  /\ pc = "touch" /\ pc' = "done" /\ UNCHANGED <<call, fused>>
         /\ answer' = IF call.tool = "assemble"
                      THEN [answer EXCEPT !.assembled =
                              FirstOf(NormalizeK(call.k), Selected(answer.kept, fused.score))]
                      ELSE answer
         /\ answer'.kept = answer.kept
         /\ answer'.candidates = answer.candidates /\ answer'.byScope = answer.byScope
         /\ answer'.byStatus = answer.byStatus /\ answer'.byK = answer.byK
         /\ answer'.byBudget = answer.byBudget
<1>1. answer \in Answers BY DEF Typed, TypeOK
<1>2. /\ pc = "touch" /\ pc' = "done" /\ UNCHANGED <<call, fused>>
      /\ answer' = IF call.tool = "assemble"
                   THEN [answer EXCEPT !.assembled =
                           FirstOf(NormalizeK(call.k), Selected(answer.kept, fused.score))]
                   ELSE answer
  BY DEF Finish, arms
<1>3. PICK x : answer' = answer \/ answer' = [answer EXCEPT !.assembled = x] BY <1>2
<1> QED BY <1>1, <1>2, <1>3 DEF Answers

(* The budget is a matter of what is kept for the call.                    *)
LEMMA BudgetStep ==
  ASSUME Typed, BudgetHeld, [Next]_vars
  PROVE  BudgetHeld'
<1>1. CASE pc = "compose" /\ pc' = "touch" /\ \E kept : Fits(kept) /\ Answering(kept)
  <2>1. PICK kept : Fits(kept) /\ Answering(kept) BY <1>1
  <2>2. answer'.kept = kept /\ UNCHANGED call BY <2>1 DEF Answering
  <2>3. K' = K /\ Primary' = Primary BY <2>2 DEF K, Primary
  <2> QED BY <2>1, <2>2, <2>3 DEF Fits, BudgetHeld, KeptIds
<1>2. CASE Finish
  <2>1. answer'.kept = answer.kept /\ UNCHANGED call BY <1>2, FinishAnswer
  <2>2. K' = K /\ Primary' = Primary BY <2>1 DEF K, Primary
  <2> QED BY <2>1, <2>2 DEF BudgetHeld, KeptIds
<1>3. CASE UNCHANGED <<answer, call>>
  <2>1. K' = K /\ Primary' = Primary BY <1>3 DEF K, Primary
  <2> QED BY <1>3, <2>1 DEF BudgetHeld, KeptIds
<1> QED BY <1>1, <1>2, <1>3, AnswerSteps

LEMMA BudgetInit == Init => BudgetHeld
<1> SUFFICES ASSUME Init PROVE BudgetHeld OBVIOUS
<1>1. Fits(<<>>) BY TypeInit, NothingFits
<1>2. answer.kept = <<>> BY DEF Init, NoAnswer
<1> QED BY <1>1, <1>2 DEF Fits, BudgetHeld, KeptIds

(* G6 of composer.py, for every configuration of the slots and every store:*)
(* the working set holds its slots and its total cap, whatever the slots   *)
(* together may hold, and has at most k crystals.                          *)
THEOREM WorkingSetInBudget == Spec => []BudgetHeld
<1>1. Typed /\ BudgetHeld /\ [Next]_vars => BudgetHeld' BY BudgetStep
<1> QED BY <1>1, TypedInit, TypedStep, BudgetInit, PTL DEF Spec

(* The slice of the selection leaves out only what comes after it.         *)
LEMMA SlicedWithinBands ==
  ASSUME NEW kept \in Seq(Ids), NEW score, \A i \in ItemsOf(kept) : score[i] \in Nat,
         NEW n \in Nat, NEW chosen, chosen = FirstOf(n, Selected(kept, score))
  PROVE  /\ Len(chosen) <= n
         /\ \A i \in ItemsOf(chosen), j \in ItemsOf(kept) \ ItemsOf(chosen) :
              score[i] * 10 >= score[j] * 9
<1>1. PICK sel : sel = Selected(kept, score) OBVIOUS
<1>2. /\ sel \in Seq(Ids) /\ ItemsOf(sel) = ItemsOf(kept)
      /\ \A a, b \in 1..Len(sel) : a < b => score[sel[a]] * 10 >= score[sel[b]] * 9
  BY <1>1, SelectedWithinBands
<1>3. /\ chosen \in Seq(Ids) /\ Len(chosen) = IF n < Len(sel) THEN n ELSE Len(sel)
      /\ \A i \in 1..Len(chosen) : chosen[i] = sel[i]
  BY <1>1, <1>2, FirstOfItems
<1>4. Len(sel) \in Nat /\ Len(chosen) \in Nat BY <1>2, <1>3, LenProperties
<1>5. Len(chosen) <= n /\ Len(chosen) <= Len(sel) BY <1>3, <1>4
<1>6. ASSUME NEW i \in ItemsOf(chosen), NEW j \in ItemsOf(kept) \ ItemsOf(chosen)
      PROVE  score[i] * 10 >= score[j] * 9
  <2>1. PICK a \in 1..Len(chosen) : i = chosen[a] BY <1>3, ItemsOfSeq
  <2>2. PICK b \in 1..Len(sel) : j = sel[b] BY <1>2, ItemsOfSeq
  <2>3. ~(b <= Len(chosen))
    <3> SUFFICES ASSUME b <= Len(chosen) PROVE FALSE OBVIOUS
    <3>1. b \in 1..Len(chosen) BY <1>4
    <3>2. j = chosen[b] BY <1>3, <2>2, <3>1
    <3>3. j \in ItemsOf(chosen) BY <1>3, <3>1, <3>2, ItemsOfSeq
    <3> QED BY <1>6, <3>3
  <2>4. a < b /\ a \in 1..Len(sel) BY <1>4, <1>5, <2>3
  <2>5. i = sel[a] BY <1>3, <2>1
  <2> QED BY <1>2, <2>2, <2>4, <2>5
<1> QED BY <1>5, <1>6

LEMMA BandsStep ==
  ASSUME Typed, AssembledWithinBands, [Next]_vars
  PROVE  AssembledWithinBands'
<1>1. call \in Requests /\ NormalizeK(call.k) \in Nat BY CallTypes DEF Typed, TypeOK
<1>2. CASE pc = "compose" /\ pc' = "touch" /\ \E kept : Fits(kept) /\ Answering(kept)
  <2>1. answer'.assembled = <<>> /\ UNCHANGED call BY <1>2 DEF Answering
  <2>2. Len(<<>>) = 0 OBVIOUS
  <2>3. Len(answer'.assembled) <= NormalizeK(call.k)
    <3> HIDE DEF NormalizeK
    <3> QED BY <1>1, <2>1, <2>2
  <2> QED BY <1>2, <2>1, <2>3 DEF AssembledWithinBands
<1>3. CASE Finish
  <2>1. /\ pc' = "done" /\ UNCHANGED <<call, fused>> /\ answer'.kept = answer.kept
        /\ pc = "touch"
        /\ answer' = IF call.tool = "assemble"
                     THEN [answer EXCEPT !.assembled =
                             FirstOf(NormalizeK(call.k), Selected(answer.kept, fused.score))]
                     ELSE answer
    BY <1>3, FinishAnswer
  <2>2. answer \in Answers /\ answer.kept \in Seq(Ids) BY DEF Typed, TypeOK, Answers
  <2>3. CASE call.tool # "assemble"
    <3>1. answer' = answer BY <2>1, <2>3
    <3> QED BY <2>1, <2>3, <3>1 DEF AssembledWithinBands
  <2>4. CASE call.tool = "assemble"
    <3>1. answer'.assembled = FirstOf(NormalizeK(call.k), Selected(answer.kept, fused.score))
      BY <2>1, <2>2, <2>4 DEF Answers
    <3>2. \A i \in ItemsOf(answer.kept) : fused.score[i] \in Nat
      BY <2>1 DEF Typed, AnswerOK, FusedOK, Answered, KeptIds
    <3>3. PICK kept \in Seq(Ids) : kept = answer.kept BY <2>2
    <3>4. PICK score : score = fused.score OBVIOUS
    <3>5. PICK n \in Nat : n = NormalizeK(call.k) BY <1>1
    <3>6. PICK chosen : chosen = FirstOf(n, Selected(kept, score)) OBVIOUS
    <3>7. /\ Len(chosen) <= n
          /\ \A i \in ItemsOf(chosen), j \in ItemsOf(kept) \ ItemsOf(chosen) :
               score[i] * 10 >= score[j] * 9
      BY <3>2, <3>3, <3>4, <3>6, SlicedWithinBands
    <3>8. answer'.assembled = chosen BY <3>1, <3>3, <3>4, <3>5, <3>6
    <3> QED BY <2>1, <3>3, <3>4, <3>5, <3>7, <3>8 DEF AssembledWithinBands, KeptIds
  <2> QED BY <2>3, <2>4
<1>4. CASE UNCHANGED <<answer, call>> /\ (Answered' => Answered /\ UNCHANGED fused)
             /\ (pc' = "done" => pc = "done")
  BY <1>4 DEF AssembledWithinBands, Answered, KeptIds
<1> QED BY <1>2, <1>3, <1>4, AnswerSteps

LEMMA BandsInit == Init => AssembledWithinBands
<1> SUFFICES ASSUME Init PROVE AssembledWithinBands OBVIOUS
<1>1. call \in Requests /\ NormalizeK(call.k) \in Nat BY CallTypes DEF Init
<1>2. answer.assembled = <<>> /\ pc = "idle" BY DEF Init, NoAnswer
<1>3. Len(<<>>) = 0 OBVIOUS
<1>4. Len(answer.assembled) <= NormalizeK(call.k)
  <2> HIDE DEF NormalizeK
  <2> QED BY <1>1, <1>2, <1>3
<1> QED BY <1>2, <1>4 DEF AssembledWithinBands

(* assemble_context (assembly.py, select_records) puts a short fix before  *)
(* a longer record only within the band: for every answer, nothing it      *)
(* leaves out scores more than a tenth above what it gives, and it gives   *)
(* no more than were asked for.                                            *)
THEOREM AssemblyKeepsBands == Spec => []AssembledWithinBands
<1>1. Typed /\ AssembledWithinBands /\ [Next]_vars => AssembledWithinBands' BY BandsStep
<1> QED BY <1>1, TypedInit, TypedStep, BandsInit, PTL DEF Spec

-------------------------------------------------------------------------------
(* The diagnosis: each candidate once, under one reason.                   *)

LEMMA WhereOnce ==
  ASSUME NEW S, NEW s, Enumerates(s, S), NEW T
  PROVE  Len(Where(s, T)) = Cardinality(S \cap T)
<1>1. s \in Seq(S) /\ ItemsOf(s) = S /\ \A m, n \in 1..Len(s) : s[m] = s[n] => m = n
  BY DEF Enumerates
<1>2. Len(s) \in Nat /\ S = {s[n] : n \in 1..Len(s)} BY <1>1, LenProperties, ItemsOfSeq
<1> DEFINE D == {n \in 1..Len(s) : s[n] \in T}
           f == [n \in D |-> s[n]]
<1>3. Len(Where(s, T)) = Cardinality(D) BY <1>1, WhereItems
<1>4. f \in [D -> S \cap T] BY <1>2
<1>5. \A x, y \in D : f[x] = f[y] => x = y BY <1>1
<1>6. \A z \in S \cap T : \E x \in D : f[x] = z
  <2> TAKE z \in S \cap T
  <2>1. PICK n \in 1..Len(s) : z = s[n] BY <1>2
  <2>2. n \in D /\ f[n] = z BY <2>1
  <2> QED BY <2>2
<1>7. IsFiniteSet(D)
  <2>1. IsFiniteSet(1..Len(s)) /\ D \in SUBSET (1..Len(s)) BY <1>2, CountTo
  <2> QED BY <2>1, FS_Subset
<1> HIDE DEF D, f
<1>8. Cardinality(S \cap T) = Cardinality(D) BY <1>4, <1>5, <1>6, <1>7, OneToOne
<1> QED BY <1>3, <1>8

LEMMA CountApart ==
  ASSUME NEW A, IsFiniteSet(A), NEW B, IsFiniteSet(B), A \cap B = {}
  PROVE  /\ IsFiniteSet(A \cup B) /\ Cardinality(A \cup B) = Cardinality(A) + Cardinality(B)
         /\ Cardinality(A) \in Nat /\ Cardinality(B) \in Nat
<1>1. Cardinality(A) \in Nat /\ Cardinality(B) \in Nat BY FS_CardinalityType
<1>2. Cardinality(A \cap B) = 0 BY FS_EmptySet
<1>3. IsFiniteSet(A \cup B)
      /\ Cardinality(A \cup B) = Cardinality(A) + Cardinality(B) - Cardinality(A \cap B)
  BY FS_Union
<1> QED BY <1>1, <1>2, <1>3

(* A row is read for the sake of a hit, and the hit is ranked.             *)
FoundRanked == \A i \in Ids : found[i] # "none" => i \in Voted

LEMMA FoundRankedStep ==
  ASSUME Typed, FoundRanked, [Next]_vars
  PROVE  FoundRanked'
<1>1. /\ ranked \in [Arms -> Seq(Ids)] /\ found \in [Ids -> FoundRows] /\ batch \in Batches
  BY DEF Typed, TypeOK
<1>2. batch.hits \in Seq(Ids) BY <1>1 DEF Batches
<1>3. CASE Ingest
  <2>1. PICK c : c = InTargets(batch.hits) OBVIOUS
  <2>2. c \in Seq(Ids) BY <1>2, <2>1, InTargetsItems
  <2>3. /\ \A i \in Ids : found'[i] # "none" => i \in ItemsOf(c) \/ found[i] # "none"
        /\ ranked' = [ranked EXCEPT !.sparse = Joined(ranked.sparse, c)]
    BY <1>3, <2>1 DEF Ingest
  <2>4. ranked.sparse \in Seq(Ids) BY <1>1 DEF Arms
  <2>5. ItemsOf(Joined(ranked.sparse, c)) = ItemsOf(ranked.sparse) \cup ItemsOf(c)
    BY <2>2, <2>4, JoinedItems
  <2>6. ItemsOf(ranked'["sparse"]) = ItemsOf(ranked["sparse"]) \cup ItemsOf(c)
        /\ \A a \in Arms \ {"sparse"} : ranked'[a] = ranked[a]
    BY <1>1, <2>3, <2>5 DEF Arms
  <2>7. Voted \cup ItemsOf(c) \subseteq Voted' BY <2>6 DEF Voted, Arms
  <2> QED BY <2>3, <2>7 DEF FoundRanked
<1>4. CASE Lookup
  <2>1. CASE lookups = <<>>
    <3>1. UNCHANGED <<found, ranked>> BY <1>4, <2>1 DEF Lookup
    <3> QED BY <3>1 DEF FoundRanked, Voted
  <2>2. CASE lookups # <<>>
    <3>1. PICK i : i = Head(lookups) OBVIOUS
    <3>2. /\ found' = ReadRow(i) /\ pc \in {"dense", "graph", "completion"}
          /\ ranked' = IF pc = "completion" /\ found'[i] = "none" THEN ranked
                       ELSE [ranked EXCEPT ![pc] = Joined(@, <<i>>)]
      BY <1>4, <2>2, <3>1 DEF Lookup
    <3>3. lookups \in Seq(Ids) BY DEF Typed, TypeOK
    <3>4. i \in Ids
      <4>1. i \in ItemsOf(lookups) BY <2>2, <3>1, <3>3, HeadTailItems
      <4> QED BY <3>3, <4>1, ItemsOfSeq
    <3>5. \A j \in Ids : found'[j] # "none" => j = i \/ found[j] # "none"
      <4>1. found' = found \/ found' = [found EXCEPT ![i] = rows[i]] BY <3>2 DEF ReadRow
      <4> QED BY <1>1, <4>1
    <3>6. /\ pc \in Arms /\ ranked[pc] \in Seq(Ids) /\ <<i>> \in Seq(Ids)
      BY <1>1, <3>2, <3>4 DEF Arms
    <3>7. ItemsOf(Joined(ranked[pc], <<i>>)) = ItemsOf(ranked[pc]) \cup ItemsOf(<<i>>)
      BY <3>6, JoinedItems
    <3>8. i \in ItemsOf(<<i>>) BY DEF ItemsOf
    <3>9. CASE pc = "completion" /\ found'[i] = "none"
      <4>1. ranked' = ranked BY <3>2, <3>9
      <4>2. \A j \in Ids : found'[j] # "none" => found[j] # "none" BY <3>5, <3>9
      <4> QED BY <4>1, <4>2 DEF FoundRanked, Voted
    <3>10. CASE ~(pc = "completion" /\ found'[i] = "none")
      <4>1. ranked' = [ranked EXCEPT ![pc] = Joined(ranked[pc], <<i>>)] BY <3>2, <3>10
      <4>2. ItemsOf(ranked'[pc]) = ItemsOf(ranked[pc]) \cup ItemsOf(<<i>>)
            /\ \A a \in Arms \ {pc} : ranked'[a] = ranked[a]
        BY <1>1, <3>6, <3>7, <4>1
      <4>3. \A a \in Arms : ItemsOf(ranked[a]) \subseteq ItemsOf(ranked'[a]) BY <4>2
      <4>4. i \in ItemsOf(ranked'[pc]) BY <3>8, <4>2
      <4>5. Voted \cup {i} \subseteq Voted' BY <3>6, <4>3, <4>4 DEF Voted
      <4> QED BY <3>5, <4>5 DEF FoundRanked
    <3> QED BY <3>9, <3>10
  <2> QED BY <2>1, <2>2
<1>5. CASE UNCHANGED <<found, ranked>> BY <1>5 DEF FoundRanked, Voted
<1>6. CASE Begin \/ Fetch \/ Widen BY <1>5, <1>6 DEF Begin, Fetch, Widen
<1>7. CASE Quiet BY <1>5, <1>7, QuietSteps
<1>8. CASE Others BY <1>5, <1>8 DEF Others, Write, arms
<1> QED BY <1>3, <1>4, <1>5, <1>6, <1>7, <1>8, StepsOfNext

LEMMA FoundRankedInit == Init => FoundRanked BY DEF Init, FoundRanked

(* What the filters say of the fused ranking.                              *)
LEMMA Explained ==
  ASSUME TypeOK, FusedOK, FoundRanked, pc = "compose", NEW kept, Fits(kept), Answering(kept)
  PROVE  answer'.candidates = answer'.byScope + answer'.byStatus + answer'.byK
                                + answer'.byBudget + Len(answer'.kept)
<1> DEFINE C == {i \in Ids : found[i] # "none"}
           S == {i \in Ids : found[i] # "none" /\ ~InScope(i)}
           T == {i \in Ids : InScope(i) /\ ~Passes(i)}
           P == {i \in Ids : Passes(i)}
<1>1. Enumerates(fused.order, Voted) BY DEF FusedOK
<1>2. C \subseteq Voted /\ IsFiniteSet(Ids) BY IdsFinite DEF FoundRanked
<1>3. /\ C = (S \cup T) \cup P /\ S \cap T = {} /\ (S \cup T) \cap P = {}
      /\ S \subseteq Ids /\ T \subseteq Ids /\ P \subseteq Ids
  BY DEF Passes, InScope
<1>4. Filtered = Where(fused.order, P) BY DEF Filtered
<1>5. answer' = [kept |-> kept, assembled |-> <<>>,
        cut |-> ItemsOf(Filtered) \ ItemsOf(Gated),
        evicted |-> ItemsOf(Gated) \ ItemsOf(kept),
        candidates |-> Cardinality(C),
        byScope |-> Len(Where(fused.order, S)), byStatus |-> Len(Where(fused.order, T)),
        byK |-> Len(Filtered) - Len(Gated), byBudget |-> Len(Gated) - Len(kept)]
  BY DEF Answering, TruncatedBy
<1> HIDE DEF C, S, T, P
<1>6. IsFiniteSet(S) /\ IsFiniteSet(T) /\ IsFiniteSet(P) BY <1>2, <1>3, FS_Subset
<1>7. /\ IsFiniteSet(S \cup T) /\ Cardinality(S \cup T) = Cardinality(S) + Cardinality(T)
      /\ Cardinality(S) \in Nat /\ Cardinality(T) \in Nat
  BY <1>3, <1>6, CountApart
<1>8. /\ Cardinality(C) = Cardinality(S \cup T) + Cardinality(P) /\ Cardinality(P) \in Nat
  BY <1>3, <1>6, <1>7, CountApart
<1>9. /\ Voted \cap S = S /\ Voted \cap T = T /\ Voted \cap P = P BY <1>2, <1>3
<1>10. /\ Len(Where(fused.order, S)) = Cardinality(S)
       /\ Len(Where(fused.order, T)) = Cardinality(T)
       /\ Len(Filtered) = Cardinality(P)
  <2>1. PICK V, s : V = Voted /\ s = fused.order OBVIOUS
  <2>2. Enumerates(s, V) BY <1>1, <2>1
  <2>3. /\ Len(Where(s, S)) = Cardinality(V \cap S)
        /\ Len(Where(s, T)) = Cardinality(V \cap T)
        /\ Len(Where(s, P)) = Cardinality(V \cap P)
    BY <2>2, WhereOnce
  <2> QED BY <1>4, <1>9, <2>1, <2>3
<1>11. Gated \in Seq(Ids) /\ Len(Gated) \in Nat BY GatedTypes, LenProperties
<1>12. Len(kept) \in Nat BY LenProperties DEF Fits
<1>13. PICK cs \in Nat, ct \in Nat, cp \in Nat, lg \in Nat, lk \in Nat :
         /\ cs = Cardinality(S) /\ ct = Cardinality(T) /\ cp = Cardinality(P)
         /\ lg = Len(Gated) /\ lk = Len(kept)
  BY <1>7, <1>8, <1>11, <1>12
<1>14. /\ answer'.candidates = cs + ct + cp /\ answer'.byScope = cs /\ answer'.byStatus = ct
       /\ answer'.byK = cp - lg /\ answer'.byBudget = lg - lk /\ Len(answer'.kept) = lk
  BY <1>5, <1>7, <1>8, <1>10, <1>13
<1>15. cs + ct + cp = cs + ct + (cp - lg) + (lg - lk) + lk OBVIOUS
<1> QED BY <1>14, <1>15

LEMMA ExplainStep ==
  ASSUME Typed, FoundRanked, ExplainBalances, [Next]_vars
  PROVE  ExplainBalances'
<1>1. TypeOK /\ FusedOK BY DEF Typed
<1>2. CASE pc = "compose" /\ pc' = "touch" /\ \E kept : Fits(kept) /\ Answering(kept)
  <2>1. PICK kept : Fits(kept) /\ Answering(kept) BY <1>2
  <2>2. answer'.candidates = answer'.byScope + answer'.byStatus + answer'.byK
                               + answer'.byBudget + Len(answer'.kept)
    BY <1>1, <1>2, <2>1, Explained
  <2> QED BY <2>2 DEF ExplainBalances
<1>3. CASE Finish
  <2>1. Answered BY <1>3 DEF Finish, Answered
  <2>2. /\ answer'.kept = answer.kept
        /\ answer'.candidates = answer.candidates /\ answer'.byScope = answer.byScope
        /\ answer'.byStatus = answer.byStatus /\ answer'.byK = answer.byK
        /\ answer'.byBudget = answer.byBudget
    BY <1>3, FinishAnswer
  <2> QED BY <2>1, <2>2 DEF ExplainBalances
<1>4. CASE UNCHANGED answer /\ (Answered' => Answered) BY <1>4 DEF ExplainBalances
<1> QED BY <1>2, <1>3, <1>4, AnswerSteps

LEMMA ExplainInit == Init => ExplainBalances BY DEF Init, ExplainBalances, Answered

(* The diagnosis of a recall (explain, aetheryte/retrieve.py) adds up for  *)
(* every store, ranking and configuration: each candidate is answered, or  *)
(* was left out for exactly one of the four reasons.                       *)
THEOREM DiagnosisBalances == Spec => []ExplainBalances
<1>1. Typed /\ FoundRanked /\ [Next]_vars => FoundRanked' BY FoundRankedStep
<1>2. Typed /\ FoundRanked /\ ExplainBalances /\ [Next]_vars => ExplainBalances' BY ExplainStep
<1> QED BY <1>1, <1>2, TypedInit, TypedStep, FoundRankedInit, ExplainInit, PTL DEF Spec

-------------------------------------------------------------------------------
(* The fetches.                                                            *)

AskedCount == Cardinality(DOMAIN fetches \ Widenings)

(* What was asked, and what is still to be asked.                          *)
FetchPlan ==
  /\ todo \in Seq(Layers) \/ todo = <<"head">>
  /\ todo = <<"head">> => pc \in {"fetch", "fetched"}
  /\ pc = "idle" => fetches = <<>>
  /\ pc = "fetch" => IF todo = <<"head">> THEN fetches = <<>>
                     ELSE AskedCount + Len(todo) <= 1 + Len(TargetList)
  /\ pc = "fetched" =>
       /\ batch.label = Head(todo)
       /\ fetches # <<>>
       /\ fetches[Len(fetches)] = [label |-> batch.label, topup |-> batch.widened,
                                   width |-> batch.width, raw |-> batch.raw]
       /\ IF todo = <<"head">> THEN AskedCount = 1
          ELSE AskedCount + Len(todo) <= 2 + Len(TargetList)

LEMMA AskedTypes ==
  ASSUME TypeOK
  PROVE  AskedCount \in Nat /\ (fetches = <<>> => AskedCount = 0)
<1>1. fetches \in Seq(Asked) BY DEF TypeOK
<1>2. Len(fetches) \in Nat /\ DOMAIN fetches = 1..Len(fetches) BY <1>1, LenProperties
<1>3. IsFiniteSet(DOMAIN fetches) BY <1>2, CountTo
<1>4. IsFiniteSet(DOMAIN fetches \ Widenings) BY <1>3, FS_Subset
<1>5. AskedCount \in Nat BY <1>4, FS_CardinalityType DEF AskedCount
<1>6. ASSUME fetches = <<>> PROVE AskedCount = 0
  <2>1. DOMAIN fetches = {} BY <1>6
  <2>2. DOMAIN fetches \ Widenings = {} BY <2>1
  <2> QED BY <2>2, FS_EmptySet DEF AskedCount
<1> QED BY <1>5, <1>6

LEMMA OneMoreFetch ==
  ASSUME TypeOK, NEW r \in Asked, fetches' = Append(fetches, r)
  PROVE  /\ Len(fetches') = Len(fetches) + 1 /\ Len(fetches) \in Nat /\ fetches' # <<>>
         /\ DOMAIN fetches = 1..Len(fetches) /\ DOMAIN fetches' = 1..(Len(fetches) + 1)
         /\ \A n \in 1..Len(fetches) : fetches'[n] = fetches[n]
         /\ fetches'[Len(fetches) + 1] = r
         /\ r.topup = FALSE => Widenings' = Widenings /\ AskedCount' = AskedCount + 1
         /\ r.topup = TRUE => /\ Widenings' = Widenings \cup {Len(fetches) + 1}
                              /\ AskedCount' = AskedCount
<1> DEFINE N == Len(fetches)
           D == DOMAIN fetches
<1>1. fetches \in Seq(Asked) BY DEF TypeOK
<1>2. N \in Nat /\ D = 1..N BY <1>1, LenProperties
<1>3. /\ fetches' \in Seq(Asked) /\ Len(fetches') = N + 1
      /\ \A n \in 1..N : fetches'[n] = fetches[n]
      /\ fetches'[N + 1] = r
  BY <1>1, AppendProperties
<1>4. DOMAIN fetches' = 1..(N + 1) BY <1>3, LenProperties
<1>5. 1..(N + 1) = (1..N) \cup {N + 1} /\ N + 1 \notin 1..N BY <1>2
<1>6. fetches' # <<>>
  <2>1. N + 1 # 0 BY <1>2
  <2> QED BY <1>3, <2>1
<1>7. Widenings' = {n \in 1..(N + 1) : fetches'[n].topup} BY <1>4 DEF Widenings
<1>8. Widenings = {n \in 1..N : fetches[n].topup} BY <1>2 DEF Widenings
<1>9. AskedCount' = Cardinality((1..(N + 1)) \ Widenings') BY <1>4 DEF AskedCount
<1>10. IsFiniteSet((1..N) \ Widenings)
  <2>1. IsFiniteSet(1..N) BY <1>2, CountTo
  <2> QED BY <2>1, FS_Subset
<1>11. AskedCount = Cardinality((1..N) \ Widenings) BY <1>2 DEF AskedCount
<1> HIDE DEF N, D
<1>12. ASSUME r.topup = FALSE
       PROVE  Widenings' = Widenings /\ AskedCount' = AskedCount + 1
  <2>1. Widenings' = Widenings BY <1>3, <1>5, <1>7, <1>8, <1>12
  <2>2. (1..(N + 1)) \ Widenings' = ((1..N) \ Widenings) \cup {N + 1}
        /\ N + 1 \notin (1..N) \ Widenings
    BY <1>5, <1>8, <2>1
  <2>3. Cardinality(((1..N) \ Widenings) \cup {N + 1}) = Cardinality((1..N) \ Widenings) + 1
    BY <1>10, <2>2, FS_AddElement
  <2> QED BY <1>9, <1>11, <2>1, <2>2, <2>3
<1>13. ASSUME r.topup = TRUE
       PROVE  Widenings' = Widenings \cup {N + 1} /\ AskedCount' = AskedCount
  <2>1. Widenings' = Widenings \cup {N + 1} BY <1>3, <1>5, <1>7, <1>8, <1>13
  <2>2. (1..(N + 1)) \ Widenings' = (1..N) \ Widenings BY <1>5, <2>1
  <2> QED BY <1>9, <1>11, <2>1, <2>2
<1> QED BY <1>2, <1>3, <1>4, <1>6, <1>12, <1>13 DEF N, D

LEMMA OneLayer ==
  /\ <<"head">> \notin Seq(Layers) /\ <<"head">> # <<>> /\ Len(<<"head">>) = 1
  /\ Head(<<"head">>) = "head"
<1>1. "head" \notin Layers BY LayersListed
<1>2. ASSUME <<"head">> \in Seq(Layers) PROVE FALSE
  <2>1. ItemsOf(<<"head">>) \subseteq Layers BY <1>2, ItemsOfSeq
  <2>2. "head" \in ItemsOf(<<"head">>) BY DEF ItemsOf
  <2> QED BY <1>1, <2>1, <2>2
<1> QED BY <1>2

(* The label of the next fetch tells the head from the backstops.          *)
LEMMA NextLabel ==
  ASSUME FetchPlan, TypeOK, todo # <<>>
  PROVE  /\ Head(todo) = "head" <=> todo = <<"head">>
         /\ Head(todo) # "head" => /\ todo \in Seq(Layers) /\ Tail(todo) \in Seq(Layers)
                                   /\ Head(todo) \in Layers
                                   /\ Len(Tail(todo)) = Len(todo) - 1
                                   /\ Len(todo) \in Nat \ {0}
<1>1. todo \in Seq(Layers) \/ todo = <<"head">> BY DEF FetchPlan
<1>2. CASE todo = <<"head">> BY <1>2, OneLayer
<1>3. CASE todo \in Seq(Layers)
  <2>1. /\ Head(todo) \in ItemsOf(todo) /\ Tail(todo) \in Seq(Layers)
        /\ Len(Tail(todo)) = Len(todo) - 1
    BY <1>3, HeadTailItems
  <2>2. Head(todo) \in Layers BY <1>3, <2>1, ItemsOfSeq
  <2>3. Head(todo) # "head" /\ todo # <<"head">> BY <1>3, <2>2, LayersListed, OneLayer
  <2>4. Len(todo) \in Nat \ {0} BY <1>3, EmptySeq
  <2> QED BY <1>3, <2>1, <2>2, <2>3, <2>4
<1> QED BY <1>1, <1>2, <1>3

LEMMA NextFetchesPlanned ==
  ASSUME TypeOK, FetchPlan, NEW label, NEW c, NEW raw, NEW width,
         label # "head" => todo # <<>> /\ label = Head(todo)
  PROVE  NextFetches(label, c, raw, width) \in Seq(Layers)
<1>1. call \in Requests BY DEF TypeOK
<1>2. TargetList \in Seq(Layers) /\ <<>> \in Seq(Layers) BY <1>1, CallTypes, EmptySeq
<1>3. label # "head" => Tail(todo) \in Seq(Layers) BY NextLabel
<1> QED BY <1>2, <1>3 DEF NextFetches

LEMMA PlanBegin ==
  ASSUME TypeOK, FetchPlan, Begin
  PROVE  FetchPlan'
<1>1. pc = "idle" /\ fetches = <<>> BY DEF Begin, FetchPlan
<1>2. UNCHANGED <<fetches, batch, call>>
      /\ \/ pc' = "shut" /\ todo' = <<>>
         \/ pc' = "fetch" /\ todo' = <<"head">>
  BY DEF Begin
<1>3. <<>> \in Seq(Layers) /\ <<>> # <<"head">> BY EmptySeq, OneLayer
<1> QED BY <1>1, <1>2, <1>3 DEF FetchPlan

LEMMA PlanFetch ==
  ASSUME TypeOK, FetchPlan, FetchesBounded, Fetch
  PROVE  FetchPlan' /\ FetchesBounded'
<1>1. todo # <<>> /\ pc = "fetch" /\ call \in Requests BY DEF TypeOK, Fetch
<1>2. /\ pc' = "fetched" /\ UNCHANGED <<todo, call>> /\ Recorded(batch')
      /\ batch'.label = Head(todo) /\ batch'.widened = FALSE
  BY DEF Fetch
<1>3. batch' \in Batches /\ batch'.label \in Labels BY FetchTypes
<1>4. PICK r : r = [label |-> batch'.label, topup |-> batch'.widened,
                    width |-> batch'.width, raw |-> batch'.raw]
  OBVIOUS
<1>5. r \in Asked /\ r.topup = FALSE BY <1>2, <1>3, <1>4 DEF Batches, Asked
<1>6. fetches' = Append(fetches, r) BY <1>2, <1>4 DEF Recorded
<1>7. /\ Len(fetches') = Len(fetches) + 1 /\ Len(fetches) \in Nat /\ fetches' # <<>>
      /\ DOMAIN fetches = 1..Len(fetches) /\ DOMAIN fetches' = 1..(Len(fetches) + 1)
      /\ \A n \in 1..Len(fetches) : fetches'[n] = fetches[n]
      /\ fetches'[Len(fetches) + 1] = r
      /\ Widenings' = Widenings /\ AskedCount' = AskedCount + 1
  BY <1>5, <1>6, OneMoreFetch
<1>8. TargetList' = TargetList /\ Len(TargetList) \in Nat BY <1>1, <1>2, CallTypes DEF TargetList
<1>9. AskedCount \in Nat BY AskedTypes
<1>10. /\ IF todo = <<"head">> THEN AskedCount' = 1
          ELSE AskedCount' + Len(todo) <= 2 + Len(TargetList)
       /\ AskedCount' <= 1 + Len(TargetList)
  <2>1. CASE todo = <<"head">>
    <3>1. fetches = <<>> BY <1>1, <2>1 DEF FetchPlan
    <3>2. AskedCount' = 1 BY <1>7, <3>1, AskedTypes
    <3> QED BY <1>8, <2>1, <3>2
  <2>2. CASE todo # <<"head">>
    <3>1. Len(todo) \in Nat \ {0} BY <1>1, <2>2, NextLabel
    <3>2. AskedCount + Len(todo) <= 1 + Len(TargetList) BY <1>1, <2>2 DEF FetchPlan
    <3> QED BY <1>7, <1>8, <1>9, <2>2, <3>1, <3>2
  <2> QED BY <2>1, <2>2
<1>11. FetchPlan'
  <2>1. fetches'[Len(fetches')] = r BY <1>7
  <2>2. todo \in Seq(Layers) \/ todo = <<"head">> BY DEF FetchPlan
  <2> QED BY <1>2, <1>4, <1>7, <1>8, <1>10, <2>1, <2>2 DEF FetchPlan
<1>12. FetchesBounded'
  <2>1. ASSUME NEW n \in Widenings'
        PROVE  /\ n - 1 \in DOMAIN fetches' \ Widenings'
               /\ fetches'[n - 1].label = fetches'[n].label
               /\ fetches'[n].width > fetches'[n - 1].width /\ fetches'[n].width <= TopUpCeiling
    <3>1. n \in Widenings /\ n \in 1..Len(fetches) BY <1>7 DEF Widenings
    <3>2. /\ n - 1 \in DOMAIN fetches \ Widenings
          /\ fetches[n - 1].label = fetches[n].label
          /\ fetches[n].width > fetches[n - 1].width /\ fetches[n].width <= TopUpCeiling
      BY <3>1 DEF FetchesBounded
    <3>3. n - 1 \in 1..Len(fetches) /\ n - 1 \in 1..(Len(fetches) + 1) BY <1>7, <3>2
    <3>4. fetches'[n] = fetches[n] /\ fetches'[n - 1] = fetches[n - 1] BY <1>7, <3>1, <3>3
    <3> QED BY <1>7, <3>2, <3>3, <3>4
  <2>2. Cardinality(DOMAIN fetches' \ Widenings') <= 1 + Len(TargetList')
    BY <1>8, <1>10 DEF AskedCount
  <2> QED BY <2>1, <2>2 DEF FetchesBounded
<1> QED BY <1>11, <1>12

LEMMA PlanWiden ==
  ASSUME TypeOK, FetchPlan, FetchesBounded, Widen
  PROVE  FetchPlan' /\ FetchesBounded'
<1>1. todo # <<>> /\ pc = "fetched" /\ call \in Requests /\ batch \in Batches
  BY DEF TypeOK, Widen
<1>2. /\ UNCHANGED <<pc, todo, call>> /\ Recorded(batch')
      /\ batch'.label = batch.label /\ batch'.widened = TRUE /\ batch'.width = WiderThan(batch)
  BY DEF Widen
<1>3. batch' \in Batches /\ batch'.label \in Labels BY WidenTypes
<1>4. PICK r : r = [label |-> batch'.label, topup |-> batch'.widened,
                    width |-> batch'.width, raw |-> batch'.raw]
  OBVIOUS
<1>5. r \in Asked /\ r.topup = TRUE BY <1>2, <1>3, <1>4 DEF Batches, Asked
<1>6. fetches' = Append(fetches, r) BY <1>2, <1>4 DEF Recorded
<1>7. /\ Len(fetches') = Len(fetches) + 1 /\ Len(fetches) \in Nat /\ fetches' # <<>>
      /\ DOMAIN fetches = 1..Len(fetches) /\ DOMAIN fetches' = 1..(Len(fetches) + 1)
      /\ \A n \in 1..Len(fetches) : fetches'[n] = fetches[n]
      /\ fetches'[Len(fetches) + 1] = r
      /\ Widenings' = Widenings \cup {Len(fetches) + 1} /\ AskedCount' = AskedCount
  BY <1>5, <1>6, OneMoreFetch
<1>8. TargetList' = TargetList BY <1>2 DEF TargetList
<1>9. /\ batch.label = Head(todo) /\ fetches # <<>>
      /\ fetches[Len(fetches)] = [label |-> batch.label, topup |-> batch.widened,
                                  width |-> batch.width, raw |-> batch.raw]
      /\ IF todo = <<"head">> THEN AskedCount = 1
         ELSE AskedCount + Len(todo) <= 2 + Len(TargetList)
  BY <1>1 DEF FetchPlan
<1>10. FetchPlan'
  <2>1. fetches'[Len(fetches')] = r BY <1>7
  <2>2. todo \in Seq(Layers) \/ todo = <<"head">> BY DEF FetchPlan
  <2> QED BY <1>1, <1>2, <1>4, <1>7, <1>8, <1>9, <2>1, <2>2 DEF FetchPlan
<1>11. Len(fetches) \in 1..Len(fetches) /\ Len(fetches) \notin Widenings
  <2>1. Len(fetches) # 0
    <3>1. fetches \in Seq(Asked) BY DEF TypeOK
    <3> QED BY <1>9, <3>1, EmptySeq
  <2>2. ~batch.widened BY DEF Widen, MustWiden
  <2> QED BY <1>7, <1>9, <2>1, <2>2 DEF Widenings
<1>12. /\ r.label = fetches[Len(fetches)].label /\ r.width > fetches[Len(fetches)].width
       /\ r.width <= TopUpCeiling
  <2>1. WiderThan(batch) > batch.width BY DEF Widen, MustWiden
  <2>2. WiderThan(batch) <= TopUpCeiling BY WiderTypes
  <2> QED BY <1>2, <1>4, <1>9, <2>1, <2>2
<1>13. FetchesBounded'
  <2>1. ASSUME NEW n \in Widenings'
        PROVE  /\ n - 1 \in DOMAIN fetches' \ Widenings'
               /\ fetches'[n - 1].label = fetches'[n].label
               /\ fetches'[n].width > fetches'[n - 1].width /\ fetches'[n].width <= TopUpCeiling
    <3>1. CASE n = Len(fetches) + 1
      <4>1. n - 1 = Len(fetches) /\ fetches'[n] = r /\ n - 1 # Len(fetches) + 1
            /\ Len(fetches) \in 1..(Len(fetches) + 1)
        <5>1. PICK N \in Nat : N = Len(fetches) BY <1>7
        <5>2. N \in 1..N BY <1>11, <5>1
        <5>3. n - 1 = N /\ n - 1 # N + 1 /\ N \in 1..(N + 1) BY <3>1, <5>1, <5>2
        <5>4. fetches'[n] = r BY <1>7, <3>1
        <5> QED BY <5>1, <5>3, <5>4
      <4>2. fetches'[n - 1] = fetches[Len(fetches)] BY <1>7, <1>11, <4>1
      <4>3. n - 1 \notin Widenings' BY <1>7, <1>11, <4>1
      <4> QED BY <1>7, <1>12, <4>1, <4>2, <4>3
    <3>2. CASE n # Len(fetches) + 1
      <4>1. n \in Widenings /\ n \in 1..Len(fetches) BY <1>7, <3>2 DEF Widenings
      <4>2. /\ n - 1 \in DOMAIN fetches \ Widenings
            /\ fetches[n - 1].label = fetches[n].label
            /\ fetches[n].width > fetches[n - 1].width /\ fetches[n].width <= TopUpCeiling
        BY <4>1 DEF FetchesBounded
      <4>3. n - 1 \in 1..Len(fetches) /\ n - 1 \in 1..(Len(fetches) + 1)
            /\ n - 1 # Len(fetches) + 1
        BY <1>7, <4>2
      <4>4. fetches'[n] = fetches[n] /\ fetches'[n - 1] = fetches[n - 1] BY <1>7, <4>1, <4>3
      <4> QED BY <1>7, <4>2, <4>3, <4>4
    <3> QED BY <3>1, <3>2
  <2>2. Cardinality(DOMAIN fetches' \ Widenings') <= 1 + Len(TargetList')
    <3>1. AskedCount <= 1 + Len(TargetList) BY DEF FetchesBounded, AskedCount
    <3> QED BY <1>7, <1>8, <3>1 DEF AskedCount
  <2> QED BY <2>1, <2>2 DEF FetchesBounded
<1> QED BY <1>10, <1>13

LEMMA PlanIngest ==
  ASSUME TypeOK, FetchPlan, Ingest
  PROVE  FetchPlan'
<1>1. todo # <<>> /\ pc = "fetched" /\ call \in Requests BY DEF TypeOK, Ingest
<1>2. batch.label = Head(todo) /\ UNCHANGED <<fetches, call>> BY <1>1 DEF Ingest, FetchPlan
<1>3. PICK c, raw, width : todo' = NextFetches(batch.label, c, raw, width) BY DEF Ingest
<1>4. todo' \in Seq(Layers) BY <1>1, <1>2, <1>3, NextFetchesPlanned
<1>5. todo' # <<"head">> BY <1>4, OneLayer
<1>6. pc' \in {"fetch", "search", "seed"} /\ (pc' = "fetch" => todo' # <<>>) BY DEF Ingest
<1>7. TargetList' = TargetList /\ AskedCount' = AskedCount /\ Len(TargetList) \in Nat
  BY <1>1, <1>2, CallTypes DEF TargetList, AskedCount, Widenings
<1>8. AskedCount \in Nat BY AskedTypes
<1>9. pc' = "fetch" => AskedCount + Len(todo') <= 1 + Len(TargetList)
  <2> SUFFICES ASSUME pc' = "fetch" PROVE AskedCount + Len(todo') <= 1 + Len(TargetList)
    OBVIOUS
  <2>1. CASE Head(todo) = "head"
    <3>1. todo = <<"head">> BY <1>1, <2>1, NextLabel
    <3>2. AskedCount = 1 BY <1>1, <3>1 DEF FetchPlan
    <3>3. todo' = TargetList BY <1>2, <1>3, <1>6, <2>1 DEF NextFetches
    <3> QED BY <1>7, <3>2, <3>3
  <2>2. CASE Head(todo) # "head"
    <3>1. todo' = Tail(todo) BY <1>2, <1>3, <2>2 DEF NextFetches
    <3>2. todo # <<"head">> /\ Len(Tail(todo)) = Len(todo) - 1 /\ Len(todo) \in Nat \ {0}
      BY <1>1, <2>2, NextLabel
    <3>3. AskedCount + Len(todo) <= 2 + Len(TargetList) BY <1>1, <3>2 DEF FetchPlan
    <3> QED BY <1>7, <1>8, <3>1, <3>2, <3>3
  <2> QED BY <2>1, <2>2
<1> QED BY <1>2, <1>4, <1>5, <1>6, <1>7, <1>9 DEF FetchPlan

LEMMA PlanQuiet ==
  ASSUME TypeOK, FetchPlan, Quiet
  PROVE  FetchPlan'
<1>1. pc \notin {"fetch", "fetched"} /\ pc' \notin {"idle", "fetch", "fetched"}
      /\ (~Search => UNCHANGED todo)
  BY QuietSteps
<1>2. todo \in Seq(Layers) BY <1>1 DEF FetchPlan
<1>3. todo' \in Seq(Layers)
  <2>1. CASE Search
    <3>1. PICK c, raw, width : todo' = NextFetches(Label, c, raw, width) BY <2>1 DEF Search
    <3>2. Label # "head" => todo # <<>> /\ Label = Head(todo) BY DEF Label
    <3> QED BY <3>1, <3>2, NextFetchesPlanned
  <2>2. CASE ~Search BY <1>1, <1>2, <2>2
  <2> QED BY <2>1, <2>2
<1>4. todo' # <<"head">> BY <1>3, OneLayer
<1> QED BY <1>1, <1>3, <1>4 DEF FetchPlan

LEMMA PlanStep ==
  ASSUME Typed, FetchPlan, FetchesBounded, [Next]_vars
  PROVE  FetchPlan' /\ FetchesBounded'
<1>1. TypeOK BY DEF Typed
<1>2. ASSUME UNCHANGED <<fetches, call>> PROVE FetchesBounded'
  <2>1. TargetList' = TargetList BY <1>2 DEF TargetList
  <2> QED BY <1>2, <2>1 DEF FetchesBounded, Widenings
<1>3. CASE Begin BY <1>1, <1>2, <1>3, PlanBegin DEF Begin
<1>4. CASE Fetch BY <1>1, <1>4, PlanFetch
<1>5. CASE Widen BY <1>1, <1>5, PlanWiden
<1>6. CASE Ingest BY <1>1, <1>2, <1>6, PlanIngest DEF Ingest
<1>7. CASE Lookup
  <2>1. pc \in {"dense", "graph", "completion"} /\ UNCHANGED <<todo, fetches, call>>
    BY <1>7 DEF Lookup
  <2>2. pc' \notin {"idle", "fetch", "fetched"}
    <3>1. AfterLookups \notin {"idle", "fetch", "fetched"} BY <2>1 DEF AfterLookups
    <3> QED BY <1>7, <2>1, <3>1 DEF Lookup
  <2>3. FetchPlan' BY <2>1, <2>2 DEF FetchPlan
  <2> QED BY <1>2, <2>1, <2>3
<1>8. CASE Quiet BY <1>1, <1>2, <1>8, PlanQuiet, QuietSteps
<1>9. ASSUME UNCHANGED <<pc, todo, batch, fetches, call>> PROVE FetchPlan'
  BY <1>9 DEF FetchPlan, AskedCount, Widenings, TargetList
<1>10. CASE Others BY <1>2, <1>9, <1>10 DEF Others, Write, arms
<1> QED BY <1>2, <1>3, <1>4, <1>5, <1>6, <1>7, <1>8, <1>9, <1>10, StepsOfNext

LEMMA PlanInit == Init => FetchPlan /\ FetchesBounded
<1> SUFFICES ASSUME Init PROVE FetchPlan /\ FetchesBounded OBVIOUS
<1>1. pc = "idle" /\ todo = <<>> /\ fetches = <<>> /\ call \in Requests BY DEF Init
<1>2. <<>> \in Seq(Layers) /\ <<>> # <<"head">> BY EmptySeq, OneLayer
<1>3. FetchPlan BY <1>1, <1>2 DEF FetchPlan
<1>4. AskedCount = 0 /\ Len(TargetList) \in Nat BY <1>1, TypeInit, AskedTypes, CallTypes
<1>5. Widenings = {} BY <1>1 DEF Widenings
<1> QED BY <1>3, <1>4, <1>5 DEF FetchesBounded, AskedCount

(* The full-text fetches of a recall come to an end (_topup_widen and the  *)
(* backstops, aetheryte/retrieve.py): for every store and call, there is   *)
(* the head and at most one fetch for each entry of the layers asked for,  *)
(* and each is widened at most once, within HARD_TOPUP_CEILING.            *)
THEOREM FetchesEnd == Spec => []FetchesBounded
<1>1. Typed /\ FetchPlan /\ FetchesBounded /\ [Next]_vars => FetchPlan' /\ FetchesBounded'
  BY PlanStep
<1> QED BY <1>1, TypedInit, TypedStep, PlanInit, PTL DEF Spec

-------------------------------------------------------------------------------
(* What the full-text arm brings of each layer.                            *)

(* The best matches of some layers, in a table.                            *)
BestOf(bm25, table, layers, n) ==
  FirstOf(n, Where(bm25, {i \in Ids : /\ table[i] \notin {"unwritten", "erased"}
                                      /\ Crystals[i].layer \in layers}))

LEMMA BestOfItems ==
  ASSUME NEW bm25 \in Seq(Ids), NEW table, NEW layers, NEW n \in Nat
  PROVE  /\ BestOf(bm25, table, layers, n) \in Seq(Ids)
         /\ Len(BestOf(bm25, table, layers, n)) \in Nat
         /\ \A i \in ItemsOf(BestOf(bm25, table, layers, n)) :
              i \in Ids /\ Crystals[i].layer \in layers
         /\ Len(BestOf(bm25, table, layers, n)) < n =>
              ItemsOf(BestOf(bm25, table, layers, n)) =
                {i \in ItemsOf(bm25) : /\ table[i] \notin {"unwritten", "erased"}
                                       /\ Crystals[i].layer \in layers}
<1> DEFINE T == {i \in Ids : table[i] \notin {"unwritten", "erased"} /\ Crystals[i].layer \in layers}
<1>1. PICK s : s = Where(bm25, T) OBVIOUS
<1>2. s \in Seq(Ids) /\ ItemsOf(s) = ItemsOf(bm25) \cap T
  <2> HIDE DEF T
  <2> QED BY <1>1, WhereItems
<1>3. BestOf(bm25, table, layers, n) = FirstOf(n, s) BY <1>1 DEF BestOf
<1>4. /\ FirstOf(n, s) \in Seq(Ids) /\ ItemsOf(FirstOf(n, s)) \subseteq ItemsOf(s)
      /\ Len(FirstOf(n, s)) < n => FirstOf(n, s) = s
  BY <1>2, FirstOfItems
<1>5. Len(FirstOf(n, s)) \in Nat BY <1>4, LenProperties
<1>6. ItemsOf(bm25) \subseteq Ids BY ItemsOfSeq
<1>7. ItemsOf(bm25) \cap T = {i \in ItemsOf(bm25) : /\ table[i] \notin {"unwritten", "erased"}
                                                     /\ Crystals[i].layer \in layers}
  BY <1>6
<1>8. \A i \in ItemsOf(FirstOf(n, s)) : i \in Ids /\ Crystals[i].layer \in layers
  BY <1>2, <1>4
<1> QED BY <1>2, <1>3, <1>4, <1>5, <1>7, <1>8

(* A wider window holds what a narrower one held.                          *)
LEMMA WiderHolds ==
  ASSUME NEW bm25 \in Seq(Ids), NEW table, NEW layers, NEW n \in Nat, NEW m \in Nat, n <= m
  PROVE  ItemsOf(BestOf(bm25, table, layers, n)) \subseteq ItemsOf(BestOf(bm25, table, layers, m))
<1> DEFINE T == {i \in Ids : table[i] \notin {"unwritten", "erased"} /\ Crystals[i].layer \in layers}
<1>1. PICK s : s = Where(bm25, T) OBVIOUS
<1>2. s \in Seq(Ids)
  <2> HIDE DEF T
  <2> QED BY <1>1, WhereItems
<1>3. PICK a, b : a = FirstOf(n, s) /\ b = FirstOf(m, s) OBVIOUS
<1>4. BestOf(bm25, table, layers, n) = a /\ BestOf(bm25, table, layers, m) = b
  BY <1>1, <1>3 DEF BestOf
<1>5. /\ a \in Seq(Ids) /\ Len(a) = IF n < Len(s) THEN n ELSE Len(s)
      /\ \A i \in 1..Len(a) : a[i] = s[i]
      /\ b \in Seq(Ids) /\ Len(b) = IF m < Len(s) THEN m ELSE Len(s)
      /\ \A i \in 1..Len(b) : b[i] = s[i]
  BY <1>2, <1>3, FirstOfItems
<1>6. Len(s) \in Nat BY <1>2, LenProperties
<1>7. Len(a) <= Len(b) /\ Len(a) \in Nat /\ Len(b) \in Nat BY <1>5, <1>6
<1>8. \A i \in 1..Len(a) : i \in 1..Len(b) /\ a[i] = b[i] BY <1>5, <1>7
<1>9. ItemsOf(a) = {a[i] : i \in 1..Len(a)} /\ ItemsOf(b) = {b[i] : i \in 1..Len(b)}
  BY <1>5, ItemsOfSeq
<1> QED BY <1>4, <1>8, <1>9

(* A search that did not meet its limit holds every match.                 *)
LEMMA UncensoredHolds ==
  ASSUME NEW bm25 \in Seq(Ids), NEW table, NEW few, NEW many, few \subseteq many,
         NEW n \in Nat, NEW m \in Nat, Len(BestOf(bm25, table, many, m)) < m
  PROVE  ItemsOf(BestOf(bm25, table, few, n)) \subseteq ItemsOf(BestOf(bm25, table, many, m))
<1> DEFINE F == {i \in Ids : table[i] \notin {"unwritten", "erased"} /\ Crystals[i].layer \in few}
<1>1. PICK s : s = Where(bm25, F) OBVIOUS
<1>2. s \in Seq(Ids) /\ ItemsOf(s) = ItemsOf(bm25) \cap F
  <2> HIDE DEF F
  <2> QED BY <1>1, WhereItems
<1>3. BestOf(bm25, table, few, n) = FirstOf(n, s) BY <1>1 DEF BestOf
<1>4. ItemsOf(FirstOf(n, s)) \subseteq ItemsOf(s) BY <1>2, FirstOfItems
<1>5. ItemsOf(BestOf(bm25, table, many, m)) =
        {i \in ItemsOf(bm25) : /\ table[i] \notin {"unwritten", "erased"}
                               /\ Crystals[i].layer \in many}
  BY BestOfItems
<1>6. ItemsOf(s) \subseteq {i \in ItemsOf(bm25) : /\ table[i] \notin {"unwritten", "erased"}
                                                  /\ Crystals[i].layer \in many}
  BY <1>2
<1> QED BY <1>3, <1>4, <1>5, <1>6

LEMMA Searches ==
  /\ \A label, n : Bm25(label, n) = BestOf(world.bm25, rows, LayerFilter(label), n)
  /\ \A layer : BestMatches(layer) = BestOf(world.bm25, rows, {layer}, CandidateK)
<1>1. ASSUME NEW label, NEW n
      PROVE  Bm25(label, n) = BestOf(world.bm25, rows, LayerFilter(label), n)
  <2>1. PICK L : L = LayerFilter(label) OBVIOUS
  <2>2. {i \in Stored : Crystals[i].layer \in L} =
          {i \in Ids : rows[i] \notin {"unwritten", "erased"} /\ Crystals[i].layer \in L}
    BY DEF Stored
  <2> QED BY <2>1, <2>2 DEF Bm25, BestOf
<1>2. ASSUME NEW layer
      PROVE  BestMatches(layer) = BestOf(world.bm25, rows, {layer}, CandidateK)
  <2>1. {i \in Stored : Crystals[i].layer = layer} =
          {i \in Ids : rows[i] \notin {"unwritten", "erased"} /\ Crystals[i].layer \in {layer}}
    BY DEF Stored
  <2> QED BY <2>1 DEF BestMatches, BestOf
<1> QED BY <1>1, <1>2

(* Before any fetch the arm is empty.                                      *)
HeadFirst == pc = "idle" \/ todo = <<"head">> => ranked.sparse = <<>>

(* With no writer about, a batch holds what its window shows.              *)
BatchFull ==
  pc = "fetched" /\ writes = 0 =>
    LET best == BestOf(world.bm25, rows, LayerFilter(batch.label), batch.width)
    IN  /\ batch.width >= Width(batch.label) /\ batch.raw = Len(best)
        /\ ItemsOf(best) \subseteq ItemsOf(batch.hits) /\ Len(batch.hits) >= batch.raw

(* The layers whose best matches are still to be fetched.                  *)
ToCover ==
  IF pc \in {"idle", "shut"} THEN Targets
  ELSE IF pc \in {"fetch", "fetched"}
       THEN IF todo = <<"head">> THEN Targets ELSE ItemsOf(todo)
       ELSE {}

Covered(layer) ==
  ItemsOf(BestOf(world.bm25, rows, {layer}, CandidateK)) \subseteq ItemsOf(ranked.sparse)

Plenty == Len(ranked.sparse) >= CandidateK * Cardinality(Targets)

Coverage == writes = 0 => Plenty \/ \A layer \in Targets \ ToCover : Covered(layer)

LEMMA FetchFills ==
  ASSUME TypeOK, Fetch
  PROVE  BatchFull'
<1>1. PICK l, w, hits : l = Head(todo) /\ w = Width(l) /\ hits = Bm25(l, w) OBVIOUS
<1>2. /\ batch'.label = l /\ batch'.width = w /\ batch'.raw = Len(hits) /\ batch'.hits = hits
      /\ UNCHANGED <<world, rows, call>>
  BY <1>1 DEF Fetch, store
<1>3. hits = BestOf(world.bm25, rows, LayerFilter(l), w) BY <1>1, Searches
<1>4. world \in Worlds /\ call \in Requests BY DEF TypeOK
<1>5. w \in Nat BY <1>1, <1>4, Widths
<1>6. Len(hits) \in Nat BY <1>1, <1>4, <1>5, SearchTypes
<1>7. LayerFilter(batch.label)' = LayerFilter(l)
  BY <1>2 DEF LayerFilter, Whole, Subset, Targets, TargetList
<1>8. Width(batch.label)' = w
  BY <1>1, <1>2 DEF Width, Whole, Subset, Targets, TargetList, CandidateK, K
<1>9. w >= w /\ Len(hits) >= Len(hits) BY <1>5, <1>6
<1> QED BY <1>2, <1>3, <1>7, <1>8, <1>9 DEF BatchFull

LEMMA WidenFills ==
  ASSUME TypeOK, BatchFull, Widen
  PROVE  BatchFull'
<1>1. PICK l, w, hits : l = batch.label /\ w = WiderThan(batch) /\ hits = Bm25(l, w) OBVIOUS
<1>2. /\ batch'.label = l /\ batch'.width = w /\ batch'.raw = Len(hits)
      /\ batch'.hits = Joined(hits, batch.hits) /\ UNCHANGED <<world, rows, call, writes>>
      /\ pc = "fetched" /\ w > batch.width
  BY <1>1 DEF Widen, store, MustWiden
<1>3. hits = BestOf(world.bm25, rows, LayerFilter(l), w) BY <1>1, Searches
<1>4. world \in Worlds /\ call \in Requests /\ batch \in Batches BY DEF TypeOK
<1>5. w \in Nat /\ batch.width \in Nat /\ batch.hits \in Seq(Ids)
  BY <1>1, <1>4, WiderTypes DEF Batches
<1>6. hits \in Seq(Ids) /\ Len(hits) \in Nat BY <1>1, <1>4, <1>5, SearchTypes
<1>7. PICK b : b = batch.hits OBVIOUS
<1>8. /\ Joined(hits, b) \in Seq(Ids) /\ ItemsOf(hits) \subseteq ItemsOf(Joined(hits, b))
      /\ Len(Joined(hits, b)) >= Len(hits)
  BY <1>5, <1>6, <1>7, JoinedItems
<1>9. LayerFilter(batch.label)' = LayerFilter(l)
  BY <1>2 DEF LayerFilter, Whole, Subset, Targets, TargetList
<1>10. Width(batch.label)' = Width(l)
  BY <1>1, <1>2 DEF Width, Whole, Subset, Targets, TargetList, CandidateK, K
<1>11. ASSUME writes = 0 PROVE w >= Width(l)
  <2>1. batch.width >= Width(l) BY <1>1, <1>2, <1>11 DEF BatchFull
  <2>2. Width(l) \in Nat BY <1>4, Widths
  <2> QED BY <1>2, <1>5, <2>1, <2>2
<1> QED BY <1>2, <1>3, <1>7, <1>8, <1>9, <1>10, <1>11 DEF BatchFull

LEMMA Products == \A a, b, c \in Nat : b <= c => a * b <= a * c
<1> TAKE a, b, c \in Nat
<1> HAVE b <= c
<1>1. PICK d \in Nat : c = b + d
  <2>1. c - b \in Nat /\ c = b + (c - b) OBVIOUS
  <2> QED BY <2>1
<1>2. a * c = a * b + a * d BY <1>1
<1>3. a * b \in Nat /\ a * d \in Nat OBVIOUS
<1> QED BY <1>2, <1>3

(* The number of layers asked for.                                         *)
LEMMA TargetsCounted ==
  ASSUME TypeOK
  PROVE  /\ Cardinality(Targets) \in Nat /\ Len(LayerOrder) \in Nat
         /\ CandidateK * Cardinality(Targets) \in Nat
         /\ CandidateK * Cardinality(Targets) <= CandidateK * Len(TargetList)
         /\ Whole => CandidateK * Cardinality(Targets) <= CandidateK * Len(LayerOrder)
<1>1. call \in Requests BY DEF TypeOK
<1>2. TargetList \in Seq(Layers) /\ Len(TargetList) \in Nat /\ CandidateK \in Nat
  BY <1>1, CallTypes
<1>3. /\ IsFiniteSet(Targets) /\ Cardinality(Targets) <= Len(TargetList)
  BY <1>2, ItemsOfSeq DEF Targets
<1>4. Cardinality(Targets) \in Nat BY <1>3, FS_CardinalityType
<1>5. LayerOrder \in Seq(Layers) /\ Len(LayerOrder) \in Nat BY LayersListed
<1>6. Cardinality(Layers) <= Len(LayerOrder) BY <1>5, ItemsOfSeq DEF Layers
<1>7. Whole => Cardinality(Targets) <= Len(LayerOrder) BY <1>6 DEF Whole
<1>8. PICK k \in Nat, t \in Nat, n \in Nat, o \in Nat :
        k = CandidateK /\ t = Cardinality(Targets) /\ n = Len(TargetList) /\ o = Len(LayerOrder)
  BY <1>2, <1>4, <1>5
<1>9. k * t \in Nat /\ k * t <= k * n BY <1>3, <1>8, Products
<1>10. t <= o => k * t <= k * o BY Products
<1> QED BY <1>4, <1>5, <1>7, <1>8, <1>9, <1>10

(* The head brings enough, or the best of every layer asked for, unless    *)
(* backstops are called for.                                               *)
LEMMA HeadCovers ==
  ASSUME TypeOK, BatchFull, pc = "fetched", writes = 0, batch.label = "head",
         NEW c, c = InTargets(batch.hits), ~Starved(c, batch.raw, batch.width)
  PROVE  \/ Len(c) >= CandidateK * Cardinality(Targets)
         \/ \A layer \in Targets :
              ItemsOf(BestOf(world.bm25, rows, {layer}, CandidateK)) \subseteq ItemsOf(c)
<1>1. call \in Requests /\ batch \in Batches /\ world \in Worlds BY DEF TypeOK
<1>2. /\ TargetList \in Seq(Layers) /\ Len(TargetList) \in Nat /\ CandidateK \in Nat
      /\ Targets \subseteq Layers
  BY <1>1, CallTypes
<1>3. batch.hits \in Seq(Ids) /\ batch.width \in Nat /\ batch.raw \in Nat
      /\ Len(batch.hits) \in Nat
  BY <1>1, LenProperties DEF Batches
<1>4. /\ c \in Seq(Ids) /\ Len(c) \in Nat
      /\ ItemsOf(c) = {i \in ItemsOf(batch.hits) : Crystals[i].layer \in Targets}
  BY <1>3, InTargetsItems, LenProperties
<1>5. world.bm25 \in Seq(Ids) BY <1>1, WorldTypes
<1>6. /\ \E table, many : table = rows /\ many = LayerFilter("head")
      /\ \E bm25 \in Seq(Ids), w \in Nat, few \in Nat :
           bm25 = world.bm25 /\ w = batch.width /\ few = CandidateK
  BY <1>2, <1>3, <1>5
<1> PICK table, many : table = rows /\ many = LayerFilter("head") BY <1>6
<1> PICK bm25 \in Seq(Ids), w \in Nat, few \in Nat :
      bm25 = world.bm25 /\ w = batch.width /\ few = CandidateK
  BY <1>6
<1> DEFINE best == BestOf(bm25, table, many, w)
<1>7. /\ w >= Width("head") /\ batch.raw = Len(best)
      /\ ItemsOf(best) \subseteq ItemsOf(batch.hits) /\ Len(batch.hits) >= batch.raw
  BY <1>6 DEF BatchFull
<1>8. many = IF Whole \/ Subset THEN Layers ELSE Targets BY <1>6 DEF LayerFilter
<1> HIDE DEF best
<1>9. ASSUME NEW layer \in Targets,
             ItemsOf(BestOf(bm25, table, {layer}, few)) \subseteq ItemsOf(best)
      PROVE  ItemsOf(BestOf(bm25, table, {layer}, few)) \subseteq ItemsOf(c)
  <2>1. \A i \in ItemsOf(BestOf(bm25, table, {layer}, few)) : Crystals[i].layer \in {layer}
    BY BestOfItems
  <2> QED BY <1>4, <1>7, <1>9, <2>1
<1>10. CASE batch.raw < w
  <2>1. ASSUME NEW layer \in Targets
        PROVE  ItemsOf(BestOf(bm25, table, {layer}, few)) \subseteq ItemsOf(c)
    <3>1. {layer} \subseteq many BY <1>2, <1>8
    <3>2. Len(BestOf(bm25, table, many, w)) < w BY <1>7, <1>10 DEF best
    <3>3. ItemsOf(BestOf(bm25, table, {layer}, few)) \subseteq ItemsOf(BestOf(bm25, table, many, w))
      BY <3>1, <3>2, UncensoredHolds
    <3> QED BY <1>9, <3>3 DEF best
  <2> QED BY <1>6, <2>1
<1>11. CASE ~(batch.raw < w)
  <2>1. Censored(batch.raw, batch.width) BY <1>3, <1>6, <1>11 DEF Censored
  <2>2. PICK t \in Nat : t = CandidateK * Cardinality(Targets) BY TargetsCounted
  <2>3. CASE Subset
    <3>1. ~(Len(c) < CandidateK * Len(TargetList)) BY <2>1, <2>3 DEF Starved
    <3>2. PICK n \in Nat : n = CandidateK * Len(TargetList) BY <1>2
    <3>3. t <= n BY <2>2, <3>2, TargetsCounted
    <3>4. Len(c) >= t BY <1>4, <3>1, <3>2, <3>3
    <3> QED BY <2>2, <3>4
  <2>4. CASE Whole
    <3>1. PICK n \in Nat : n = CandidateK * Len(LayerOrder)
      BY <1>2, LayersListed
    <3>2. Width("head") = n BY <2>4, <3>1 DEF Width
    <3>3. t <= n BY <2>2, <2>4, <3>1, TargetsCounted
    <3>4. Len(c) = Len(batch.hits)
      <4> DEFINE T == {i \in Ids : Crystals[i].layer \in Targets}
      <4>1. ItemsOf(batch.hits) \subseteq Ids BY <1>3, ItemsOfSeq
      <4>2. \A i \in Ids : Crystals[i].layer \in Layers
        <5>1. \A i \in Ids : Crystals[i] \in
                [layer : Layers, mine : BOOLEAN, executive : BOOLEAN, tokens : Nat,
                 importance : Int, lastAccess : Int, cue : BOOLEAN]
          BY RecallAssumption
        <5> QED BY <5>1
      <4>3. ItemsOf(batch.hits) \subseteq T BY <2>4, <4>1, <4>2 DEF Whole
      <4>4. c = Where(batch.hits, T) BY DEF InTargets
      <4> HIDE DEF T
      <4>5. PICK s \in Seq(Ids) : s = batch.hits BY <1>3
      <4>6. Len(Where(s, T)) = Len(s) BY <4>3, <4>5, WhereAll
      <4> QED BY <4>4, <4>5, <4>6
    <3>5. PICK r \in Nat, h \in Nat : r = batch.raw /\ h = Len(batch.hits) BY <1>3
    <3>6. r >= w /\ w >= n /\ h >= r BY <1>7, <1>11, <3>2, <3>5
    <3>7. h >= t BY <3>3, <3>6
    <3> QED BY <2>2, <3>4, <3>5, <3>7
  <2>5. CASE ~Subset /\ ~Whole
    <3>1. many = Targets /\ Width("head") = few BY <1>6, <1>8, <2>5 DEF Width
    <3>2. ~(Len(TargetList) > 1) BY <2>5 DEF Subset
    <3>3. Targets = {TargetList[n] : n \in 1..Len(TargetList)} BY <1>2, ItemsOfSeq DEF Targets
    <3>4. \A n \in 1..Len(TargetList) : n = 1 BY <1>2, <3>2
    <3>5. ASSUME NEW layer \in Targets
          PROVE  ItemsOf(BestOf(bm25, table, {layer}, few)) \subseteq ItemsOf(c)
      <4>1. Targets = {layer} BY <3>3, <3>4
      <4>2. many = {layer} BY <3>1, <4>1
      <4>3. few <= w BY <1>7, <3>1
      <4>4. ItemsOf(BestOf(bm25, table, {layer}, few)) \subseteq ItemsOf(BestOf(bm25, table, {layer}, w))
        BY <4>3, WiderHolds
      <4> QED BY <1>9, <4>2, <4>4 DEF best
    <3> QED BY <1>6, <3>5
  <2> QED BY <2>3, <2>4, <2>5
<1> QED BY <1>3, <1>6, <1>10, <1>11

(* A backstop brings the best of its layer.                                *)
LEMMA BackstopCovers ==
  ASSUME TypeOK, BatchFull, pc = "fetched", writes = 0, batch.label # "head",
         batch.label \in Targets, NEW c, c = InTargets(batch.hits)
  PROVE  ItemsOf(BestOf(world.bm25, rows, {batch.label}, CandidateK)) \subseteq ItemsOf(c)
<1>1. call \in Requests /\ batch \in Batches /\ world \in Worlds BY DEF TypeOK
<1>2. CandidateK \in Nat BY <1>1, CallTypes
<1>3. batch.hits \in Seq(Ids) /\ batch.width \in Nat BY <1>1 DEF Batches
<1>4. ItemsOf(c) = {i \in ItemsOf(batch.hits) : Crystals[i].layer \in Targets}
  BY <1>3, InTargetsItems
<1>5. world.bm25 \in Seq(Ids) BY <1>1, WorldTypes
<1>6. /\ \E table, l : table = rows /\ l = batch.label
      /\ \E bm25 \in Seq(Ids), w \in Nat, few \in Nat :
           bm25 = world.bm25 /\ w = batch.width /\ few = CandidateK
  BY <1>2, <1>3, <1>5
<1> PICK table, l : table = rows /\ l = batch.label BY <1>6
<1> PICK bm25 \in Seq(Ids), w \in Nat, few \in Nat :
      bm25 = world.bm25 /\ w = batch.width /\ few = CandidateK
  BY <1>6
<1>7. LayerFilter(batch.label) = {l} /\ Width(batch.label) = few
  BY <1>6 DEF LayerFilter, Width
<1>8. w >= few /\ ItemsOf(BestOf(bm25, table, {l}, w)) \subseteq ItemsOf(batch.hits)
  BY <1>6, <1>7 DEF BatchFull
<1>9. ItemsOf(BestOf(bm25, table, {l}, few)) \subseteq ItemsOf(BestOf(bm25, table, {l}, w))
  BY <1>8, WiderHolds
<1>10. \A i \in ItemsOf(BestOf(bm25, table, {l}, few)) : Crystals[i].layer \in {l}
  BY BestOfItems
<1>11. ItemsOf(BestOf(bm25, table, {l}, few)) \subseteq ItemsOf(c)
  BY <1>4, <1>6, <1>8, <1>9, <1>10
<1> QED BY <1>6, <1>11

LEMMA IngestCovers ==
  ASSUME TypeOK, FetchPlan, HeadFirst, BatchFull, Coverage, Ingest
  PROVE  HeadFirst' /\ BatchFull' /\ Coverage'
<1>1. /\ todo # <<>> /\ pc = "fetched" /\ call \in Requests /\ batch \in Batches
      /\ ranked \in [Arms -> Seq(Ids)]
  BY DEF TypeOK, Ingest
<1>2. PICK c : c = InTargets(batch.hits) OBVIOUS
<1>3. /\ ranked' = [ranked EXCEPT !.sparse = Joined(ranked.sparse, c)]
      /\ todo' = NextFetches(batch.label, c, batch.raw, batch.width)
      /\ pc' = IF todo' # <<>> THEN "fetch" ELSE IF call.vector THEN "search" ELSE "seed"
      /\ UNCHANGED <<world, rows, call, writes>>
  BY <1>2 DEF Ingest, store
<1>4. batch.hits \in Seq(Ids) /\ ranked.sparse \in Seq(Ids) BY <1>1 DEF Batches, Arms
<1>5. c \in Seq(Ids) /\ Len(c) \in Nat BY <1>2, <1>4, InTargetsItems, LenProperties
<1>6. PICK s \in Seq(Ids) : s = ranked.sparse BY <1>4
<1>7. /\ ranked'.sparse = Joined(s, c)
      /\ ItemsOf(Joined(s, c)) = ItemsOf(s) \cup ItemsOf(c) /\ Len(Joined(s, c)) >= Len(s)
      /\ Len(Joined(s, c)) \in Nat /\ Len(s) \in Nat
  <2>1. ranked'.sparse = Joined(s, c) BY <1>1, <1>3, <1>6 DEF Arms
  <2>2. Joined(s, c) \in Seq(Ids) BY <1>5, JoinedItems
  <2> QED BY <1>5, <2>1, <2>2, JoinedItems, LenProperties
<1>8. batch.label = Head(todo) BY <1>1 DEF FetchPlan
<1>9. todo' \in Seq(Layers) /\ todo' # <<"head">>
  BY <1>3, <1>8, <1>1, NextFetchesPlanned, OneLayer
<1>10. HeadFirst' BY <1>3, <1>9 DEF HeadFirst
<1>11. BatchFull' BY <1>3 DEF BatchFull
<1>12. Targets' = Targets /\ CandidateK' = CandidateK
  BY <1>3 DEF Targets, TargetList, CandidateK, K
<1>13. ToCover' = ItemsOf(todo')
  <2>1. CASE todo' = <<>> BY <1>3, <2>1, NoItems DEF ToCover
  <2>2. CASE todo' # <<>> BY <1>3, <1>9, <2>2 DEF ToCover
  <2> QED BY <2>1, <2>2
<1>14. PICK t \in Nat : t = CandidateK * Cardinality(Targets) BY TargetsCounted
<1> DEFINE Best(layer) == ItemsOf(BestOf(world.bm25, rows, {layer}, CandidateK))
<1>15. Coverage' <=> (writes = 0 => \/ Len(Joined(s, c)) >= t
                                    \/ \A layer \in Targets \ ItemsOf(todo') :
                                         Best(layer) \subseteq ItemsOf(s) \cup ItemsOf(c))
  <2>1. Plenty' <=> Len(Joined(s, c)) >= t BY <1>7, <1>12, <1>14 DEF Plenty
  <2>2. \A layer : Covered(layer)' <=> Best(layer) \subseteq ItemsOf(s) \cup ItemsOf(c)
    BY <1>3, <1>7, <1>12 DEF Covered
  <2> QED BY <1>3, <1>12, <1>13, <2>1, <2>2 DEF Coverage
<1> SUFFICES ASSUME writes = 0
             PROVE  \/ Len(Joined(s, c)) >= t
                    \/ \A layer \in Targets \ ItemsOf(todo') :
                         Best(layer) \subseteq ItemsOf(s) \cup ItemsOf(c)
  BY <1>10, <1>11, <1>15
<1> HIDE DEF Best
<1>16. CASE batch.label = "head"
  <2>1. todo = <<"head">> BY <1>1, <1>8, <1>16, NextLabel
  <2>2. s = <<>> BY <1>6, <2>1 DEF HeadFirst
  <2>3. CASE Starved(c, batch.raw, batch.width)
    <3>1. todo' = TargetList BY <1>3, <1>16, <2>3 DEF NextFetches
    <3>2. Targets \ ItemsOf(todo') = {} BY <3>1 DEF Targets
    <3> QED BY <3>2
  <2>4. CASE ~Starved(c, batch.raw, batch.width)
    <3>1. \/ Len(c) >= t
          \/ \A layer \in Targets : Best(layer) \subseteq ItemsOf(c)
      BY <1>1, <1>2, <1>14, <1>16, <2>4, HeadCovers DEF Best
    <3>2. Len(Joined(s, c)) = Len(c)
      <4> DEFINE T == Ids \ ItemsOf(s)
      <4>1. ItemsOf(c) \subseteq T BY <1>5, <2>2, NoItems, ItemsOfSeq
      <4>2. Joined(s, c) = s \o Where(c, T) BY DEF Joined
      <4> HIDE DEF T
      <4>3. Where(c, T) \in Seq(Ids) /\ Len(Where(c, T)) = Len(c)
        BY <1>5, <4>1, WhereItems, WhereAll
      <4>4. Len(s \o Where(c, T)) = Len(s) + Len(Where(c, T)) BY <4>3, ConcatItems
      <4>5. Len(s) = 0 BY <2>2
      <4> QED BY <1>5, <4>2, <4>3, <4>4, <4>5
    <3> QED BY <3>1, <3>2
  <2> QED BY <2>3, <2>4
<1>17. CASE batch.label # "head"
  <2>1. todo' = Tail(todo) BY <1>3, <1>17 DEF NextFetches
  <2>2. todo \in Seq(Layers) BY <1>1, <1>8, <1>17, NextLabel
  <2>3. ItemsOf(todo) = {batch.label} \cup ItemsOf(todo') BY <1>1, <1>8, <2>1, <2>2, HeadTailItems
  <2>4. todo # <<"head">> BY <2>2, OneLayer
  <2>5. ToCover = ItemsOf(todo) BY <1>1, <2>4 DEF ToCover
  <2>6. \/ Len(s) >= t
        \/ \A layer \in Targets \ ItemsOf(todo) : Best(layer) \subseteq ItemsOf(s)
    BY <1>6, <1>14, <2>5 DEF Coverage, Plenty, Covered, Best
  <2>7. CASE Len(s) >= t BY <1>7, <2>7
  <2>8. CASE \A layer \in Targets \ ItemsOf(todo) : Best(layer) \subseteq ItemsOf(s)
    <3>1. batch.label \in Targets => Best(batch.label) \subseteq ItemsOf(c)
      BY <1>1, <1>2, <1>17, BackstopCovers DEF Best
    <3>2. \A layer \in Targets \ ItemsOf(todo') :
            layer = batch.label \/ layer \in Targets \ ItemsOf(todo)
      BY <2>3
    <3> QED BY <2>8, <3>1, <3>2
  <2> QED BY <2>6, <2>7, <2>8
<1> QED BY <1>16, <1>17

(* The other steps leave the arm as it is.                                 *)
LEMMA CoverageStays ==
  ASSUME Coverage, UNCHANGED <<world, rows, call, writes>>, ranked'.sparse = ranked.sparse,
         Targets \cap ToCover \subseteq ToCover'
  PROVE  Coverage'
<1>1. Targets' = Targets /\ CandidateK' = CandidateK
  BY DEF Targets, TargetList, CandidateK, K
<1>2. Plenty' <=> Plenty BY <1>1 DEF Plenty
<1>3. \A layer : Covered(layer)' <=> Covered(layer) BY <1>1 DEF Covered
<1> QED BY <1>1, <1>2, <1>3 DEF Coverage

LEMMA CoverageStep ==
  ASSUME Typed, FetchPlan, HeadFirst, BatchFull, Coverage, [Next]_vars
  PROVE  HeadFirst' /\ BatchFull' /\ Coverage'
<1>1. TypeOK BY DEF Typed
<1>2. CASE Begin
  <2>1. /\ pc = "idle" /\ UNCHANGED <<world, rows, call, writes, ranked>>
        /\ \/ pc' = "shut" /\ todo' = <<>>
           \/ pc' = "fetch" /\ todo' = <<"head">>
    BY <1>2 DEF Begin, store
  <2>2. Targets' = Targets BY <2>1 DEF Targets, TargetList
  <2>3. ToCover' = Targets BY <2>1, <2>2 DEF ToCover
  <2>4. Coverage' BY <2>1, <2>3, CoverageStays
  <2>5. HeadFirst' /\ BatchFull' BY <2>1 DEF HeadFirst, BatchFull
  <2> QED BY <2>4, <2>5
<1>3. CASE Fetch
  <2>1. /\ pc = "fetch" /\ pc' = "fetched"
        /\ UNCHANGED <<world, rows, call, writes, ranked, todo>>
    BY <1>3 DEF Fetch, store
  <2>2. Targets' = Targets BY <2>1 DEF Targets, TargetList
  <2>3. ToCover' = ToCover BY <2>1, <2>2 DEF ToCover
  <2>4. Coverage' BY <2>1, <2>3, CoverageStays
  <2>5. HeadFirst' BY <2>1 DEF HeadFirst
  <2> QED BY <1>1, <1>3, <2>4, <2>5, FetchFills
<1>4. CASE Widen
  <2>1. pc = "fetched" /\ UNCHANGED <<world, rows, call, writes, ranked, todo, pc>>
    BY <1>4 DEF Widen, store
  <2>2. Targets' = Targets BY <2>1 DEF Targets, TargetList
  <2>3. ToCover' = ToCover BY <2>1, <2>2 DEF ToCover
  <2>4. Coverage' BY <2>1, <2>3, CoverageStays
  <2>5. HeadFirst' BY <2>1 DEF HeadFirst
  <2> QED BY <1>1, <1>4, <2>4, <2>5, WidenFills
<1>5. CASE Ingest BY <1>1, <1>5, IngestCovers
<1>6. CASE Lookup
  <2>1. /\ pc \in {"dense", "graph", "completion"} /\ UNCHANGED <<world, rows, call, writes, todo>>
    BY <1>6 DEF Lookup, store
  <2>2. pc' \notin {"idle", "fetch", "fetched", "shut"}
    <3>1. AfterLookups \notin {"idle", "fetch", "fetched", "shut"} BY <2>1 DEF AfterLookups
    <3> QED BY <1>6, <2>1, <3>1 DEF Lookup
  <2>3. ranked'.sparse = ranked.sparse
    <3>1. ranked \in [Arms -> Seq(Ids)] BY <1>1 DEF TypeOK
    <3>2. ranked' = ranked \/ \E x : ranked' = [ranked EXCEPT ![pc] = x] BY <1>6 DEF Lookup
    <3>3. "sparse" \in Arms /\ pc # "sparse" BY <2>1 DEF Arms
    <3> QED BY <3>1, <3>2, <3>3
  <2>4. ToCover = {} BY <2>1 DEF ToCover
  <2>5. Coverage' BY <2>1, <2>3, <2>4, CoverageStays
  <2>6. todo # <<"head">> BY <2>1 DEF FetchPlan
  <2>7. HeadFirst' /\ BatchFull' BY <2>1, <2>2, <2>6 DEF HeadFirst, BatchFull
  <2> QED BY <2>5, <2>7
<1>7. CASE Quiet
  <2>1. /\ UNCHANGED <<world, rows, call, ranked, writes>>
        /\ pc \notin {"idle", "fetch", "fetched", "shut"}
        /\ pc' \notin {"idle", "fetch", "fetched", "shut"}
    BY <1>7, QuietSteps
  <2>2. ToCover = {} BY <2>1 DEF ToCover
  <2>3. Coverage' BY <2>1, <2>2, CoverageStays
  <2>4. FetchPlan' BY <1>1, <1>7, PlanQuiet
  <2>5. todo' # <<"head">> BY <2>1, <2>4 DEF FetchPlan
  <2>6. HeadFirst' /\ BatchFull' BY <2>1, <2>5 DEF HeadFirst, BatchFull
  <2> QED BY <2>3, <2>6
<1>8. CASE Others
  <2>1. UNCHANGED <<pc, todo, ranked>> /\ writes' = writes + 1 /\ writes \in Nat
    BY <1>1, <1>8 DEF Others, Write, arms, TypeOK
  <2>2. writes' # 0 BY <2>1
  <2> QED BY <2>1, <2>2 DEF HeadFirst, BatchFull, Coverage
<1>9. CASE UNCHANGED <<world, rows, embedded, touches, scored, pc, call, todo, batch, fetches,
                       lookups, found, ranked, signal, weight, seeds, fused, answer, writes, live>>
  <2>1. Targets' = Targets BY <1>9 DEF Targets, TargetList
  <2>2. ToCover' = ToCover BY <1>9, <2>1 DEF ToCover
  <2>3. Coverage' BY <1>9, <2>2, CoverageStays
  <2>4. HeadFirst' BY <1>9 DEF HeadFirst
  <2>5. LayerFilter(batch.label)' = LayerFilter(batch.label)
        /\ Width(batch.label)' = Width(batch.label)
    BY <1>9, <2>1 DEF LayerFilter, Width, Whole, Subset, Targets, TargetList, CandidateK, K
  <2>6. BatchFull' BY <1>9, <2>5 DEF BatchFull
  <2> QED BY <2>3, <2>4, <2>6
<1> QED BY <1>2, <1>3, <1>4, <1>5, <1>6, <1>7, <1>8, <1>9, StepsOfNext

LEMMA CoverageInit == Init => HeadFirst /\ BatchFull /\ Coverage
<1> SUFFICES ASSUME Init PROVE HeadFirst /\ BatchFull /\ Coverage OBVIOUS
<1>1. pc = "idle" /\ ranked = [a \in Arms |-> <<>>] BY DEF Init
<1>2. ranked.sparse = <<>> BY <1>1 DEF Arms
<1> QED BY <1>1, <1>2 DEF HeadFirst, BatchFull, Coverage, ToCover

LEMMA CoverageServes == Coverage => LayersNotStarved
<1> SUFFICES ASSUME Coverage, Answered, writes = 0
             PROVE  \/ Len(ranked.sparse) >= CandidateK * Cardinality(Targets)
                    \/ \A layer \in Targets : ItemsOf(BestMatches(layer)) \subseteq ItemsOf(ranked.sparse)
  BY DEF LayersNotStarved
<1>1. ToCover = {} BY DEF ToCover, Answered
<1> QED BY <1>1, Searches DEF Coverage, Plenty, Covered

(* The layers that were not asked for cannot starve those that were (the   *)
(* backstops of aetheryte/retrieve.py), for every store, query and list of *)
(* layers: with no writer about, the full-text arm brought as many         *)
(* candidates as a fetch per layer would have had room for, or the best    *)
(* matches of every layer asked for.                                       *)
THEOREM NoLayerStarves == Spec => []LayersNotStarved
<1>1. Typed /\ FetchPlan /\ FetchesBounded /\ [Next]_vars => FetchPlan' /\ FetchesBounded'
  BY PlanStep
<1>2. Typed /\ FetchPlan /\ HeadFirst /\ BatchFull /\ Coverage /\ [Next]_vars
        => HeadFirst' /\ BatchFull' /\ Coverage'
  BY CoverageStep
<1> QED BY <1>1, <1>2, TypedInit, TypedStep, PlanInit, CoverageInit, CoverageServes, PTL DEF Spec

===============================================================================
