-------------------------- MODULE GraphExportProofs ---------------------------
(***************************************************************************)
(* Theorems about GraphExport, for any number of crystals, any profiles    *)
(* and requests, and any number of transactions between the reads of an    *)
(* export. Nothing is assumed but what that module assumes.                *)
(*                                                                         *)
(* What makes the export right although its reads contradict each other:   *)
(* a row that was listed stays fit to be shown or is gone (NodesSound), a  *)
(* successor is set to an id that was never one before (SuccessorsSound),  *)
(* and the hygiene does with the edges, in whatever order they come, what  *)
(* its counters say (the lemmas about Merged).                             *)
(***************************************************************************)
EXTENDS GraphExport, TLAPS, FiniteSetTheorems, SequenceTheorems, WellFoundedInduction

-------------------------------------------------------------------------------
(* Induction and recursion over numbers. An induction is over a set, the   *)
(* set of the numbers of which the statement holds.                        *)

LEMMA NatSetInduction ==
  ASSUME NEW T, 0 \in T, \A n \in Nat : n \in T => n + 1 \in T
  PROVE  Nat \subseteq T
<1> DEFINE bad == {n \in Nat : n \notin T}
<1> SUFFICES ASSUME bad # {} PROVE FALSE OBVIOUS
<1>1. PICK n \in bad : \A m \in bad : ~ (<<m, n>> \in OpToRel(<, Nat))
  <2>1. bad \subseteq Nat OBVIOUS
  <2> HIDE DEF bad
  <2> QED BY <2>1, WFMin, NatLessThanWellFounded
<1>2. n \in Nat /\ n # 0 /\ n - 1 \in Nat OBVIOUS
<1>3. n - 1 \in T
  <2> SUFFICES ASSUME n - 1 \in bad PROVE FALSE BY <1>2
  <2>1. <<n - 1, n>> \in Nat \X Nat /\ n - 1 < n BY <1>2
  <2>2. <<n - 1, n>> \in OpToRel(<, Nat) BY <2>1 DEF OpToRel
  <2> QED BY <2>2, <1>1
<1> QED BY <1>2, <1>3

LEMMA RangeInduction ==
  ASSUME NEW max \in Nat, NEW T, 0 \in T,
         \A n \in 0..(max - 1) : n \in T => n + 1 \in T
  PROVE  0..max \subseteq T
<1> DEFINE U == {n \in Nat : n <= max => n \in T}
<1>1. 0 \in U OBVIOUS
<1>2. \A n \in Nat : n \in U => n + 1 \in U OBVIOUS
<1>3. Nat \subseteq U
  <2> HIDE DEF U
  <2> QED BY <1>1, <1>2, NatSetInduction
<1> QED BY <1>3

(* A function that is defined from its value at the number before.         *)
Runs(f, A, max, a, step) ==
  /\ f \in [0..max -> A]
  /\ f[0] = a /\ \A n \in 1..max : f[n] = step[<<n, f[n - 1]>>]

LEMMA Recursion ==
  ASSUME NEW A, NEW max \in Nat, NEW a \in A, NEW step \in [(1..max) \X A -> A]
  PROVE  \E f : Runs(f, A, max, a, step)
<1> DEFINE T == {m \in Nat : \E f : Runs(f, A, m, a, step)}
<1>1. 0 \in T
  <2> DEFINE f == [n \in 0..0 |-> a]
  <2>1. Runs(f, A, 0, a, step) BY DEF Runs
  <2> QED BY <2>1
<1>2. ASSUME NEW m \in 0..(max - 1), m \in T PROVE m + 1 \in T
  <2>1. PICK f : Runs(f, A, m, a, step) BY <1>2
  <2> DEFINE g == [n \in 0..(m + 1) |-> IF n <= m THEN f[n] ELSE step[<<m + 1, f[m]>>]]
  <2>2. f[m] \in A BY <2>1 DEF Runs
  <2>3. <<m + 1, f[m]>> \in (1..max) \X A BY <2>2
  <2>4. step[<<m + 1, f[m]>>] \in A BY <2>3
  <2>5. g \in [0..(m + 1) -> A] BY <2>1, <2>4 DEF Runs
  <2>6. g[0] = a BY <2>1 DEF Runs
  <2>7. ASSUME NEW n \in 1..(m + 1) PROVE g[n] = step[<<n, g[n - 1]>>]
    <3>1. CASE n <= m
      <4>1. n \in 1..m /\ n \in 0..(m + 1) /\ n - 1 \in 0..(m + 1) /\ n - 1 <= m BY <3>1
      <4>2. g[n] = f[n] /\ g[n - 1] = f[n - 1] BY <3>1, <4>1
      <4>3. f[n] = step[<<n, f[n - 1]>>] BY <4>1, <2>1 DEF Runs
      <4> QED BY <4>2, <4>3
    <3>2. CASE n = m + 1
      <4>1. n - 1 = m /\ ~(n <= m) /\ n \in 0..(m + 1) /\ m \in 0..(m + 1) /\ m <= m BY <3>2
      <4>2. g[n] = step[<<m + 1, f[m]>>] /\ g[m] = f[m] BY <4>1
      <4> QED BY <3>2, <4>1, <4>2
    <3> QED BY <3>1, <3>2
  <2>8. Runs(g, A, m + 1, a, step)
    <3> HIDE DEF g
    <3> QED BY <2>5, <2>6, <2>7 DEF Runs
  <2>9. m + 1 \in Nat OBVIOUS
  <2> HIDE DEF g
  <2> QED BY <2>8, <2>9
<1>3. max \in T
  <2>1. \A n \in 0..(max - 1) : n \in T => n + 1 \in T BY <1>2
  <2> HIDE DEF T
  <2>2. 0..max \subseteq T BY <1>1, <2>1, RangeInduction
  <2> QED BY <2>2
<1> QED BY <1>3

-------------------------------------------------------------------------------
(* Sets of numbers, and sets as sequences.                                 *)

LEMMA IdsFinite == IsFiniteSet(Ids) /\ Ids \subseteq Nat \ {0}
<1>1. MaxId \in Nat BY ExportAssumption
<1>2. IsFiniteSet(1..MaxId) BY <1>1, FS_Interval
<1> QED BY <1>1, <1>2 DEF Ids

LEMMA MaxOf ==
  ASSUME NEW S \in SUBSET Ids, S # {}
  PROVE  Max(S) \in S /\ \A y \in S : Max(S) >= y
<1>1. MaxId \in Nat /\ \A y \in S : y \in 1..MaxId BY ExportAssumption DEF Ids
<1>2. \E x \in S : \A y \in S : x >= y
  <2> SUFFICES ASSUME \A x \in S : \E y \in S : ~(x >= y) PROVE FALSE OBVIOUS
  <2> DEFINE T == {n \in 0..MaxId : \E y \in S : y > n}
  <2>1. 0 \in T BY <1>1
  <2>2. \A n \in 0..(MaxId - 1) : n \in T => n + 1 \in T
    <3> SUFFICES ASSUME NEW n \in 0..(MaxId - 1), n \in T PROVE \E y \in S : y > n + 1
      BY <1>1
    <3>1. PICK y \in S : y > n OBVIOUS
    <3>2. PICK z \in S : ~(y >= z) OBVIOUS
    <3>3. y \in Nat /\ z \in Nat BY <1>1
    <3> QED BY <3>1, <3>2, <3>3
  <2>3. 0..MaxId \subseteq T
    <3> HIDE DEF T
    <3> QED BY <1>1, <2>1, <2>2, RangeInduction
  <2>4. MaxId \in T BY <1>1, <2>3
  <2> QED BY <1>1, <2>4
<1> QED BY <1>2 DEF Max

LEMMA FreshIsFresh ==
  /\ Fresh \notin Committed
  /\ Fresh \in Nat \ {0}
<1>1. Committed \in SUBSET Ids BY DEF Committed
<1>2. CASE Committed = {} BY <1>2 DEF Fresh
<1>3. CASE Committed # {}
  <2>1. Max(Committed) \in Committed /\ \A y \in Committed : Max(Committed) >= y
    BY <1>1, <1>3, MaxOf
  <2>2. \A y \in Committed : y \in Nat \ {0} BY <1>1, IdsFinite
  <2>3. Max(Committed) \in Nat BY <2>1, <2>2
  <2> QED BY <1>3, <2>1, <2>2, <2>3 DEF Fresh
<1> QED BY <1>2, <1>3

(* A finite set as a sequence has the members of the set.                  *)
LEMMA SetAsSeq ==
  ASSUME NEW S, IsFiniteSet(S)
  PROVE  /\ SetToSeq(S) \in Seq(S)
         /\ \A x \in S : \E k \in DOMAIN SetToSeq(S) : SetToSeq(S)[k] = x
<1> DEFINE n == Cardinality(S)
<1>1. n \in Nat /\ ExistsBijection(1..n, S) BY FS_CardinalityType
<1>2. PICK g \in Bijection(1..n, S) : TRUE BY <1>1 DEF ExistsBijection
<1>3. g \in [1..n -> S] /\ IsInjective(g)
  BY <1>2 DEF Bijection, Injection, IsInjective
<1> DEFINE f == SetToSeq(S)
<1>4. f \in [1..n -> S] /\ IsInjective(f) BY <1>3 DEF SetToSeq
<1> HIDE DEF f
<1>5. f \in Injection(1..n, S) BY <1>4 DEF Injection, IsInjective
<1>6. f \in Surjection(1..n, S)
  <2>1. Cardinality(1..n) = n /\ IsFiniteSet(1..n) BY <1>1, FS_Interval
  <2> HIDE DEF n
  <2> QED BY <1>5, <2>1, FS_Injection DEF n
<1>7. f \in Seq(S) BY <1>1, <1>4
<1>8. \A x \in S : \E k \in DOMAIN f : f[k] = x
  BY <1>4, <1>6 DEF Surjection
<1> QED BY <1>7, <1>8 DEF f

-------------------------------------------------------------------------------
(* The types. A row is "gone" once it was forgotten.                       *)
Projects == {p.project : p \in Profiles}
Audiences == {p.audience : p \in Profiles} \cup {""}
Everyone == Authors \cup {p.author : p \in Profiles} \cup {""}

Row == [status : Statuses \ {"candidate"}, until : Validity, by : Ids \cup {0},
        project : Projects \cup {"", "gone"}, audience : Audiences, author : Everyone,
        quarantined : BOOLEAN, merged : SUBSET Everyone, corroboration : Nat]

Edges == [from : Ids, to : Ids, type : Relations]
RawEdges == [from : Ids, to : Ids, type : Relations \cup {"MERGED_FROM", "CONFLICTS_WITH"},
             weight : Nat]

Writers == [pc : {"mark", "insert", "record", "node", "recent", "link", "unlink"},
            kind : {"commit", "update", "forget"}, id : Nat, old : Ids \cup {0},
            todo : SUBSET Ids, row : Row]

Exports == [pc : {"count", "graph", "supersedes", "merged", "conflicts", "drifts", "clean",
                  "answered"},
            request : Requests, nodes : SUBSET Ids, beside : Nat,
            by : UNION {[S -> Ids \cup {0}] : S \in SUBSET Ids}, truncated : BOOLEAN,
            raw : Seq(RawEdges), edges : SUBSET RawEdges, deduped : Nat, dropped : Nat]

TypeOK ==
  /\ rows \in [Ids -> Row]
  /\ graph \in [nodes : SUBSET Ids, edges : SUBSET Edges]
  /\ conflicts \in Seq([winner : Ids, loser : Ids, project : Projects \cup {"", "gone"}])
  /\ drifts \in Seq([candidate : Ids, prior : Ids])
  /\ writer \in Writers \cup {NoWrite}
  /\ export \in Exports \cup {NoExport}
  /\ writes \in Nat

(* The crystals there are or were, and the one that a fact's update has    *)
(* named as a successor and not inserted yet.                              *)
Taken == Committed \cup (IF writer.pc = "insert" THEN {writer.id} ELSE {})

(* A row is there as long as it is of some project, and has no successor   *)
(* otherwise; a successor is another crystal that was committed, or is to  *)
(* be next.                                                                *)
RowsSound == \A i \in Ids :
  /\ Present(rows, i) <=> rows[i].project \in Projects
  /\ ~Present(rows, i) => rows[i].by = 0
  /\ rows[i].by # i
  /\ rows[i].by # 0 => rows[i].by \in Taken

(* The crystal a writer is about to name as a successor was never one.     *)
WriterSound ==
  /\ writer.pc \in {"mark", "record", "node", "recent", "link"} => writer.id \in Committed
  /\ writer.pc \in {"mark", "record"} => writer.old \in Ids
  /\ writer.pc = "mark" => /\ writer.old # writer.id
                           /\ \A i \in Ids : rows[i].by # writer.id
  /\ writer.pc = "insert" =>
       /\ writer.id \in Ids \ Committed
       /\ writer.row.status = "active" /\ writer.row.by = 0
       /\ writer.row.project \in Projects

(* What was listed stays fit to be shown, or is gone.                      *)
NodesSound == export.pc # "idle" =>
  /\ DOMAIN export.by = export.nodes
  /\ \A i \in export.nodes :
       /\ i \in Committed /\ MayBeSeen(i, export.request)
       /\ export.by[i] # 0 => export.by[i] \in Taken
       /\ writer.pc = "mark" => export.by[i] # writer.id

(* Once they are derived, the supersessions of the nodes are all there: a  *)
(* successor that is replaced does not come back.                          *)
Superseding(i) == <<export.by[i], i, "SUPERSEDES">>

SuccessorsSound == export.pc \in {"merged", "conflicts", "drifts", "clean"} =>
  \A i \in export.nodes :
    export.by[i] \in export.nodes /\ rows[i].by = export.by[i] =>
      \E k \in DOMAIN export.raw : Key(export.raw[k]) = Superseding(i)

ExportInv == TypeOK /\ RowsSound /\ WriterSound /\ NodesSound /\ SuccessorsSound
             /\ NothingHidden /\ HygieneAccounts /\ LineageComplete

-------------------------------------------------------------------------------
(* The hygiene: what is made of the edges at the places S of raw. One edge *)
(* per key, with a weight no less than any of them; and every edge is one  *)
(* of the answer or counted as a duplicate.                                *)

LEMMA MaxOfTwo ==
  ASSUME NEW a \in Nat, NEW b \in Nat
  PROVE  Max({a, b}) \in Nat /\ a <= Max({a, b}) /\ b <= Max({a, b})
<1> DEFINE m == IF a >= b THEN a ELSE b
<1>1. m \in {a, b} /\ \A y \in {a, b} : m >= y OBVIOUS
<1>2. Max({a, b}) \in {a, b} /\ \A y \in {a, b} : Max({a, b}) >= y
  <2> HIDE DEF m
  <2> QED BY <1>1 DEF Max
<1> QED BY <1>2

Deduping == [edges : SUBSET RawEdges, count : Nat]

OneEach(edges) == \A d, e \in edges : Key(d) = Key(e) => d = e

Accounts(done, raw, S) ==
  /\ done \in Deduping /\ IsFiniteSet(done.edges) /\ OneEach(done.edges)
  /\ Cardinality(done.edges) + done.count = Cardinality(S)
  /\ \A k \in S : \E c \in done.edges : Key(c) = Key(raw[k]) /\ raw[k].weight <= c.weight
  /\ \A c \in done.edges : \E k \in S : Key(c) = Key(raw[k])

(* A first edge of its key is added, a second one only raises the weight.  *)
LEMMA DedupedFirst ==
  ASSUME NEW done \in Deduping, NEW e, ~ \E d \in done.edges : Key(d) = Key(e)
  PROVE  Deduped(done, e) = [edges |-> done.edges \cup {e}, count |-> done.count]
BY DEF Deduped, Deduping

LEMMA DedupedAgain ==
  ASSUME NEW done \in Deduping, NEW e \in RawEdges, \E d \in done.edges : Key(d) = Key(e)
  PROVE  \E old \in done.edges, new \in RawEdges :
           /\ Key(old) = Key(e) /\ Key(new) = Key(e)
           /\ old.weight <= new.weight /\ e.weight <= new.weight
           /\ Deduped(done, e) = [edges |-> (done.edges \ {old}) \cup {new},
                                  count |-> done.count + 1]
<1> DEFINE old == CHOOSE d \in done.edges : Key(d) = Key(e)
           new == [old EXCEPT !.weight = Max({old.weight, e.weight})]
<1>1. old \in done.edges /\ Key(old) = Key(e) OBVIOUS
<1>2. Deduped(done, e) = [edges |-> (done.edges \ {old}) \cup {new},
                          count |-> done.count + 1]
  BY DEF Deduped
<1> HIDE DEF old
<1>3. old \in RawEdges /\ old.weight \in Nat /\ e.weight \in Nat
  BY <1>1 DEF Deduping, RawEdges
<1>4. /\ Max({old.weight, e.weight}) \in Nat
      /\ old.weight <= Max({old.weight, e.weight}) /\ e.weight <= Max({old.weight, e.weight})
  BY <1>3, MaxOfTwo
<1>5. /\ new \in RawEdges /\ Key(new) = Key(old)
      /\ new.weight = Max({old.weight, e.weight})
  BY <1>3, <1>4 DEF RawEdges, Key
<1> HIDE DEF new
<1> QED BY <1>1, <1>2, <1>4, <1>5

LEMMA AccountsNext ==
  ASSUME NEW raw \in Seq(RawEdges), NEW done, NEW S \in SUBSET DOMAIN raw, IsFiniteSet(S),
         Accounts(done, raw, S),
         NEW k \in DOMAIN raw, k \notin S
  PROVE  Accounts(Deduped(done, raw[k]), raw, S \cup {k})
<1> DEFINE e == raw[k]
           T == S \cup {k}
<1>1. e \in RawEdges /\ e.weight \in Nat
  <2>1. e \in RawEdges BY ElementOfSeq
  <2> HIDE DEF e
  <2> QED BY <2>1 DEF RawEdges
<1>2. done \in Deduping /\ IsFiniteSet(done.edges) /\ done.edges \subseteq RawEdges
      /\ done.count \in Nat /\ OneEach(done.edges)
  BY DEF Accounts, Deduping
<1>3. Cardinality(T) = Cardinality(S) + 1 /\ Cardinality(S) \in Nat
  BY FS_AddElement, FS_CardinalityType
<1>4. Cardinality(done.edges) \in Nat BY <1>2, FS_CardinalityType
<1>5. Cardinality(done.edges) + done.count = Cardinality(S) BY DEF Accounts
<1>6. /\ \A i \in S : \E c \in done.edges : Key(c) = Key(raw[i]) /\ raw[i].weight <= c.weight
      /\ \A c \in done.edges : \E i \in S : Key(c) = Key(raw[i])
  BY DEF Accounts
<1>7. \A i \in T : raw[i] \in RawEdges OBVIOUS
<1>8. CASE ~ \E d \in done.edges : Key(d) = Key(e)
  <2> DEFINE edges == done.edges \cup {e}
  <2>1. Deduped(done, e) = [edges |-> edges, count |-> done.count]
    BY <1>2, <1>8, DedupedFirst
  <2>2. e \notin done.edges BY <1>8
  <2>3. IsFiniteSet(edges) /\ Cardinality(edges) = Cardinality(done.edges) + 1
    BY <1>2, <2>2, FS_AddElement
  <2>4. OneEach(edges) BY <1>2, <1>8 DEF OneEach
  <2>5. edges \in SUBSET RawEdges BY <1>1, <1>2
  <2>6. e.weight <= e.weight BY <1>1
  <2>7. \A i \in T : \E c \in edges : Key(c) = Key(raw[i]) /\ raw[i].weight <= c.weight
    BY <1>6, <2>6
  <2>8. \A c \in edges : \E i \in T : Key(c) = Key(raw[i]) BY <1>6
  <2>9. Cardinality(edges) + done.count = Cardinality(T)
    BY <1>2, <1>3, <1>4, <1>5, <2>3
  <2> HIDE DEF edges, T
  <2>10. Accounts([edges |-> edges, count |-> done.count], raw, T)
    BY <1>2, <2>3, <2>4, <2>5, <2>7, <2>8, <2>9 DEF Accounts, Deduping
  <2> QED BY <2>1, <2>10 DEF T
<1>9. CASE \E d \in done.edges : Key(d) = Key(e)
  <2>1. PICK old \in done.edges, new \in RawEdges :
           /\ Key(old) = Key(e) /\ Key(new) = Key(e)
           /\ old.weight <= new.weight /\ e.weight <= new.weight
           /\ Deduped(done, e) = [edges |-> (done.edges \ {old}) \cup {new},
                                  count |-> done.count + 1]
    BY <1>1, <1>2, <1>9, DedupedAgain
  <2> DEFINE rest == done.edges \ {old}
             edges == rest \cup {new}
  <2>2. \A d \in rest : Key(d) # Key(e) BY <1>2, <2>1 DEF OneEach
  <2>3. new \notin rest BY <2>1, <2>2
  <2>4. /\ IsFiniteSet(rest) /\ Cardinality(rest) = Cardinality(done.edges) - 1
    BY <1>2, FS_RemoveElement
  <2>5. IsFiniteSet(edges) /\ Cardinality(edges) = Cardinality(rest) + 1
    <3> HIDE DEF rest
    <3> QED BY <2>3, <2>4, FS_AddElement
  <2>6. OneEach(edges) BY <1>2, <2>1, <2>2 DEF OneEach
  <2>7. edges \in SUBSET RawEdges BY <1>2
  <2>8. \A i \in T : raw[i] \in RawEdges BY <1>7
  <2>9. ASSUME NEW i \in T
        PROVE  \E c \in edges : Key(c) = Key(raw[i]) /\ raw[i].weight <= c.weight
    <3>1. CASE i = k BY <3>1, <2>1
    <3>2. CASE i \in S
      <4>1. PICK c \in done.edges : Key(c) = Key(raw[i]) /\ raw[i].weight <= c.weight
        BY <1>6, <3>2
      <4>2. CASE c # old BY <4>1, <4>2
      <4>3. CASE c = old
        <5>1. Key(new) = Key(raw[i]) BY <2>1, <4>1, <4>3
        <5>2. raw[i].weight <= old.weight BY <4>1, <4>3
        <5>3. raw[i].weight \in Nat /\ old.weight \in Nat /\ new.weight \in Nat
          BY <1>2, <3>2, <2>8 DEF RawEdges
        <5>4. raw[i].weight <= new.weight BY <2>1, <5>2, <5>3
        <5> QED BY <5>1, <5>4
      <4> QED BY <4>2, <4>3
    <3> QED BY <3>1, <3>2
  <2>10. \A c \in edges : \E i \in T : Key(c) = Key(raw[i]) BY <1>6, <2>1
  <2>11. Cardinality(edges) + (done.count + 1) = Cardinality(T) /\ done.count + 1 \in Nat
    BY <1>2, <1>3, <1>4, <1>5, <2>4, <2>5
  <2> HIDE DEF edges, T
  <2>12. Accounts([edges |-> edges, count |-> done.count + 1], raw, T)
    BY <2>5, <2>6, <2>7, <2>9, <2>10, <2>11 DEF Accounts, Deduping
  <2> QED BY <2>1, <2>12 DEF edges, T
<1> QED BY <1>8, <1>9

(* Merged goes through the places one by one.                              *)
LEMMA Merging ==
  ASSUME NEW raw \in Seq(RawEdges), NEW kept
  PROVE  \E f : /\ f[0] = [edges |-> {}, count |-> 0] /\ Merged(raw, kept) = f[Len(raw)]
                /\ \A n \in 1..Len(raw) :
                     f[n] = IF n \in kept THEN Deduped(f[n - 1], raw[n]) ELSE f[n - 1]
<1> DEFINE none == [edges |-> {}, count |-> 0]
           Merges(g) ==
             g = [n \in 0..Len(raw) |->
                    IF n = 0 THEN none
                    ELSE IF n \in kept THEN Deduped(g[n - 1], raw[n]) ELSE g[n - 1]]
           f == CHOOSE g : Merges(g)
           step == [p \in (1..Len(raw)) \X Deduping |->
                      IF p[1] \in kept THEN Deduped(p[2], raw[p[1]]) ELSE p[2]]
<1>1. /\ Len(raw) \in Nat /\ none \in Deduping
      /\ \A n \in 1..Len(raw) : raw[n] \in RawEdges
  BY LenProperties, ElementOfSeq DEF Deduping
<1>2. step \in [(1..Len(raw)) \X Deduping -> Deduping]
  <2> SUFFICES ASSUME NEW p \in (1..Len(raw)) \X Deduping
               PROVE  (IF p[1] \in kept THEN Deduped(p[2], raw[p[1]]) ELSE p[2]) \in Deduping
    OBVIOUS
  <2> DEFINE d == p[2]
             e == raw[p[1]]
  <2>1. d \in Deduping /\ e \in RawEdges BY <1>1
  <2> HIDE DEF d, e
  <2>2. CASE ~ \E c \in d.edges : Key(c) = Key(e)
    <3>1. Deduped(d, e) = [edges |-> d.edges \cup {e}, count |-> d.count]
      BY <2>1, <2>2, DedupedFirst
    <3>2. Deduped(d, e) \in Deduping BY <2>1, <3>1 DEF Deduping
    <3> QED BY <2>1, <3>2 DEF d, e
  <2>3. CASE \E c \in d.edges : Key(c) = Key(e)
    <3>1. PICK old \in d.edges, new \in RawEdges :
             Deduped(d, e) = [edges |-> (d.edges \ {old}) \cup {new}, count |-> d.count + 1]
      BY <2>1, <2>3, DedupedAgain
    <3>2. Deduped(d, e) \in Deduping BY <2>1, <3>1 DEF Deduping
    <3> QED BY <2>1, <3>2 DEF d, e
  <2> QED BY <2>2, <2>3
<1>3. PICK h : Runs(h, Deduping, Len(raw), none, step)
  <2> HIDE DEF step, none
  <2> QED BY <1>1, <1>2, Recursion
<1>4. Merges(h)
  <2>1. ASSUME NEW n \in 1..Len(raw)
        PROVE  h[n] = IF n \in kept THEN Deduped(h[n - 1], raw[n]) ELSE h[n - 1]
    <3>1. n - 1 \in 0..Len(raw) BY <1>1
    <3>2. h[n - 1] \in Deduping BY <3>1, <1>3 DEF Runs
    <3>3. <<n, h[n - 1]>> \in (1..Len(raw)) \X Deduping BY <3>2
    <3>4. h[n] = step[<<n, h[n - 1]>>] BY <1>3 DEF Runs
    <3> QED BY <3>3, <3>4
  <2>2. \A n \in 0..Len(raw) : n = 0 \/ n \in 1..Len(raw) BY <1>1
  <2>3. \A n \in 0..Len(raw) : h[n] = IF n = 0 THEN none
             ELSE IF n \in kept THEN Deduped(h[n - 1], raw[n]) ELSE h[n - 1]
    BY <2>1, <2>2, <1>3 DEF Runs
  <2>4. h = [n \in 0..Len(raw) |-> h[n]] BY <1>3 DEF Runs
  <2> HIDE DEF none
  <2> QED BY <2>3, <2>4
<1>5. Merges(f) BY <1>4
<1>6. Merged(raw, kept) = f[Len(raw)] BY DEF Merged
<1> HIDE DEF f
<1>7. f[0] = none BY <1>1, <1>5
<1>8. \A n \in 1..Len(raw) :
        f[n] = IF n \in kept THEN Deduped(f[n - 1], raw[n]) ELSE f[n - 1]
  <2>1. \A n \in 1..Len(raw) : n \in 0..Len(raw) /\ n # 0 BY <1>1
  <2> QED BY <2>1, <1>5
<1> QED BY <1>6, <1>7, <1>8

LEMMA MergedAccounts ==
  ASSUME NEW raw \in Seq(RawEdges), NEW kept \in SUBSET DOMAIN raw
  PROVE  Accounts(Merged(raw, kept), raw, kept)
<1>1. Len(raw) \in Nat /\ DOMAIN raw = 1..Len(raw) BY LenProperties
<1>2. PICK f : /\ f[0] = [edges |-> {}, count |-> 0] /\ Merged(raw, kept) = f[Len(raw)]
               /\ \A n \in 1..Len(raw) :
                    f[n] = IF n \in kept THEN Deduped(f[n - 1], raw[n]) ELSE f[n - 1]
  BY Merging
<1> DEFINE upTo(n) == {k \in kept : k <= n}
           T == {n \in 0..Len(raw) : Accounts(f[n], raw, upTo(n))}
<1>3. 0 \in T
  <2>1. upTo(0) = {} BY <1>1
  <2>2. IsFiniteSet({}) /\ Cardinality({}) = 0 BY FS_EmptySet
  <2>3. Accounts([edges |-> {}, count |-> 0], raw, {})
    BY <2>2 DEF Accounts, Deduping, OneEach
  <2>4. Accounts(f[0], raw, upTo(0))
    <3> HIDE DEF upTo
    <3> QED BY <1>2, <2>1, <2>3
  <2> QED BY <1>1, <2>4
<1>4. ASSUME NEW n \in 0..(Len(raw) - 1), n \in T PROVE n + 1 \in T
  <2>1. n + 1 \in 1..Len(raw) /\ n + 1 - 1 = n /\ n + 1 \in 0..Len(raw) BY <1>1
  <2>2. f[n + 1] = IF n + 1 \in kept THEN Deduped(f[n], raw[n + 1]) ELSE f[n]
    BY <1>2, <2>1
  <2>3. Accounts(f[n], raw, upTo(n)) BY <1>4
  <2>4. CASE n + 1 \notin kept
    <3>1. upTo(n + 1) = upTo(n) BY <1>1, <2>4
    <3> QED BY <2>1, <2>2, <2>3, <2>4, <3>1
  <2>5. CASE n + 1 \in kept
    <3>1. upTo(n + 1) = upTo(n) \cup {n + 1} /\ n + 1 \notin upTo(n) BY <1>1, <2>5
    <3>2. IsFiniteSet(upTo(n)) /\ upTo(n) \in SUBSET DOMAIN raw
      <4>1. IsFiniteSet(1..Len(raw)) BY <1>1, FS_Interval
      <4>2. upTo(n) \subseteq 1..Len(raw) BY <1>1
      <4> HIDE DEF upTo
      <4> QED BY <1>1, <4>1, <4>2, FS_Subset
    <3>3. n + 1 \in DOMAIN raw BY <1>1, <2>1
    <3>4. Accounts(Deduped(f[n], raw[n + 1]), raw, upTo(n) \cup {n + 1})
      <4> DEFINE k == n + 1
                 S == upTo(n)
                 done == f[n]
      <4>1. k \in DOMAIN raw /\ k \notin S /\ IsFiniteSet(S) /\ S \in SUBSET DOMAIN raw
            /\ Accounts(done, raw, S)
        BY <2>3, <3>1, <3>2, <3>3
      <4> HIDE DEF k, S, done
      <4>2. Accounts(Deduped(done, raw[k]), raw, S \cup {k}) BY <4>1, AccountsNext
      <4> QED BY <4>2 DEF k, S, done
    <3> QED BY <2>1, <2>2, <2>5, <3>1, <3>4
  <2> QED BY <2>4, <2>5
<1>5. Len(raw) \in T
  <2>1. \A n \in 0..(Len(raw) - 1) : n \in T => n + 1 \in T BY <1>4
  <2> HIDE DEF T
  <2>2. 0..Len(raw) \subseteq T BY <1>1, <1>3, <2>1, RangeInduction
  <2> QED BY <1>1, <2>2
<1>6. upTo(Len(raw)) = kept BY <1>1
<1> QED BY <1>2, <1>5, <1>6

-------------------------------------------------------------------------------
(* What goes on beside an export. Every transaction writes one row at most. *)

(* A row that is fit to be at i.                                           *)
RowFits(i, r) ==
  /\ r \in Row /\ r.project # "" /\ r.by # i
  /\ r.status # "absent" <=> r.project \in Projects
  /\ r.status = "absent" => r.by = 0

(* Who writes the row i next: an insert that is under way goes on, unless  *)
(* this is it.                                                             *)
Pending(i) == writer.pc = "insert" => writer' = writer \/ i = writer.id

LEMMA OneRow ==
  ASSUME TypeOK, RowsSound, NEW i \in Ids, NEW r, RowFits(i, r), Pending(i),
         \/ r.by = 0 \/ r.by \in Committed
         \/ writer.pc = "insert" /\ writer' = writer /\ r.by = writer.id
         \/ writer'.pc = "insert" /\ r.by = writer'.id,
         rows' = [rows EXCEPT ![i] = r]
  PROVE  /\ rows' \in [Ids -> Row] /\ RowsSound' /\ Committed' = Committed \cup {i}
         /\ Taken \subseteq Taken'
<1>1. rows' \in [Ids -> Row] BY DEF TypeOK, RowFits
<1>2. Committed' = Committed \cup {i} BY DEF TypeOK, RowFits, Committed
<1>3. Taken \subseteq Taken' BY <1>2 DEF Taken, Pending
<1>4. r.by # 0 => r.by \in Taken' BY <1>2 DEF Taken
<1>5. RowsSound'
  <2> SUFFICES ASSUME NEW j \in Ids
               PROVE  /\ Present(rows', j) <=> rows'[j].project \in Projects
                      /\ ~Present(rows', j) => rows'[j].by = 0
                      /\ rows'[j].by # j
                      /\ rows'[j].by # 0 => rows'[j].by \in Taken'
    BY DEF RowsSound, Projects
  <2>1. CASE j = i
    <3>1. rows'[j] = r BY <2>1 DEF TypeOK
    <3>2. Present(rows', j) <=> r.status # "absent" BY <3>1 DEF Present
    <3>3. r.by # j /\ (r.by # 0 => r.by \in Taken') BY <2>1, <1>4 DEF RowFits
    <3>4. r.status # "absent" <=> r.project \in Projects BY DEF RowFits
    <3>5. r.status = "absent" => r.by = 0 BY DEF RowFits
    <3> QED BY <3>1, <3>2, <3>3, <3>4, <3>5
  <2>2. CASE j # i
    <3>1. rows'[j] = rows[j] BY <2>2 DEF TypeOK
    <3>2. rows[j].by # 0 => rows[j].by \in Taken' BY <1>3 DEF RowsSound
    <3> QED BY <3>1, <3>2 DEF RowsSound, Present
  <2> QED BY <2>1, <2>2
<1> QED BY <1>1, <1>2, <1>3, <1>5

LEMMA NoRowTyped == NoRow \in Row
BY DEF NoRow, Row, Statuses, Validity, Audiences, Everyone

(* A writer that begins its work.                                          *)
LEMMA WritesTyped ==
  ASSUME NEW kind \in {"commit", "update", "forget"}, NEW old \in Ids \cup {0}
  PROVE  /\ Writes(kind, old) \in Writers
         /\ Writes(kind, old).pc = IF old = 0 THEN "node" ELSE "mark"
         /\ Writes(kind, old).id = Fresh /\ Writes(kind, old).old = old
<1>1. Fresh \in Nat /\ NoRow \in Row BY FreshIsFresh, NoRowTyped
<1> HIDE DEF NoRow
<1> QED BY <1>1 DEF Writes, Writers

(* What becomes of a row that was committed: it is gone, or fit to be     *)
(* shown to whom it was, and gets no successor but that of the writer, or  *)
(* a new one.                                                              *)
RowsAge == \A i \in Committed :
  /\ \/ rows'[i].project = "gone"
     \/ /\ rows'[i].project = rows[i].project /\ rows'[i].audience = rows[i].audience
        /\ rows'[i].quarantined => rows[i].quarantined
  /\ \/ rows'[i].by \in {rows[i].by, 0}
     \/ writer.pc = "mark" /\ rows'[i].by = writer.id
     \/ rows'[i].by \notin Taken

(* Whom a writer is going to name as a successor is new.                   *)
WriterAge == writer'.pc = "mark" => writer' = writer \/ writer'.id \notin Taken

Beside == TypeOK' /\ RowsSound' /\ WriterSound' /\ RowsAge /\ WriterAge
          /\ Taken \subseteq Taken'

LEMMA SameRows ==
  ASSUME UNCHANGED rows, writer.pc = "insert" => writer' = writer
  PROVE  RowsAge /\ (RowsSound => RowsSound') /\ Committed' = Committed
         /\ Taken \subseteq Taken'
<1>1. Committed' = Committed BY DEF Committed
<1>2. Taken \subseteq Taken' BY <1>1 DEF Taken
<1>3. RowsAge BY DEF RowsAge
<1>4. RowsSound => RowsSound' BY <1>2 DEF RowsSound, Present, Projects
<1> QED BY <1>1, <1>2, <1>3, <1>4

(* The export under way is the same but for the bound.                     *)
SameExport ==
  /\ export.pc = "idle" => export' = export
  /\ export.pc # "idle" =>
       /\ export \in Exports /\ export' \in Exports /\ export'.pc = export.pc
       /\ export'.nodes = export.nodes /\ export'.by = export.by
       /\ export'.request = export.request /\ export'.raw = export.raw

LEMMA DisturbedTypes ==
  ASSUME TypeOK, Disturbed
  PROVE  export' \in Exports \cup {NoExport} /\ SameExport
<1>1. CASE export = NoExport BY <1>1 DEF Disturbed, NoExport, SameExport
<1>2. CASE export \in Exports
  <2>1. export.pc # "idle" /\ export.beside + 1 \in Nat BY <1>2 DEF Exports
  <2>2. export' = [export EXCEPT !.beside = export.beside + 1] BY <2>1 DEF Disturbed
  <2> QED BY <1>2, <2>1, <2>2 DEF Exports, SameExport
<1> QED BY <1>1, <1>2 DEF TypeOK

LEMMA WriterTypes ==
  ASSUME TypeOK
  PROVE  /\ writer.pc # "idle" => writer \in Writers
         /\ writer.id \in Committed => writer.id \in Ids
<1>1. writer \in Writers \cup {NoWrite} BY DEF TypeOK
<1>2. writer.pc # "idle" => writer \in Writers BY <1>1 DEF NoWrite
<1>3. Committed \subseteq Ids BY DEF Committed
<1> QED BY <1>2, <1>3

LEMMA CommitBeside ==
  ASSUME TypeOK, RowsSound, WriterSound, Commit
  PROVE  Beside
<1>1. PICK profile \in Profiles :
        /\ rows' = WithRow(rows, Fresh, NewRow(profile))
        /\ \E old \in {0} \cup {i \in Ids : /\ rows[i].status = "active"
                                          /\ rows[i].project = profile.project} :
             writer' = Writes("commit", old)
  BY DEF Commit
<1>2. PICK old \in {0} \cup {i \in Ids : /\ rows[i].status = "active"
                                       /\ rows[i].project = profile.project} :
             writer' = Writes("commit", old)
  BY <1>1
<1>3. Fresh \in Ids /\ Fresh \notin Committed /\ Fresh # 0
  BY FreshIsFresh DEF Commit
<1>4. profile.project \in Projects /\ profile.project \notin {"", "gone"}
      /\ profile.audience \in Audiences /\ profile.author \in Everyone
      /\ profile.quarantined \in BOOLEAN
  BY ExportAssumption DEF Projects, Audiences, Everyone
<1>5. RowFits(Fresh, NewRow(profile))
  BY <1>3, <1>4 DEF RowFits, NewRow, NoRow, Row, Statuses, Validity, Projects
<1>6. rows' = [rows EXCEPT ![Fresh] = NewRow(profile)] BY <1>1 DEF WithRow
<1>7. /\ writer.pc = "idle" /\ Pending(Fresh) /\ Taken = Committed
      /\ NewRow(profile).by = 0
  BY DEF Commit, Pending, Taken, NewRow, NoRow
<1>8. /\ rows' \in [Ids -> Row] /\ RowsSound' /\ Committed' = Committed \cup {Fresh}
      /\ Taken \subseteq Taken'
  BY <1>3, <1>5, <1>6, <1>7, OneRow
<1>9. /\ \A i \in Ids : i # Fresh => rows'[i] = rows[i]
      /\ rows'[Fresh].by = 0
  BY <1>3, <1>6, <1>7 DEF TypeOK
<1>10. RowsAge BY <1>3, <1>9 DEF RowsAge, Committed
<1>11. old # 0 => old \in Committed
  BY <1>4 DEF Committed
<1>12. /\ writer' \in Writers /\ writer'.pc \in {"node", "mark"} /\ writer'.id = Fresh
       /\ writer'.old = old /\ (old = 0 => writer'.pc = "node")
  BY <1>2, WritesTyped
<1>13. WriterSound'
  <2>1. \A i \in Ids : rows'[i].by # Fresh
    BY <1>3, <1>7, <1>9 DEF RowsSound
  <2> QED BY <1>2, <1>3, <1>8, <1>11, <1>12, <2>1 DEF WriterSound
<1>14. WriterAge BY <1>3, <1>7, <1>12 DEF WriterAge
<1>15. export' \in Exports \cup {NoExport} BY DisturbedTypes DEF Commit
<1>16. TypeOK' BY <1>8, <1>12, <1>15 DEF TypeOK, Commit
<1> QED BY <1>8, <1>10, <1>13, <1>14, <1>16 DEF Beside

(* The copy that an update makes.                                          *)
LEMMA RevisedFits ==
  ASSUME TypeOK, RowsSound, NEW old \in Ids, Present(rows, old),
         NEW scope \in Profiles \cup {rows[old]}, NEW quarantined \in BOOLEAN
  PROVE  /\ Revised(rows[old], scope, quarantined) \in Row
         /\ Revised(rows[old], scope, quarantined).status = "active"
         /\ Revised(rows[old], scope, quarantined).by = 0
         /\ Revised(rows[old], scope, quarantined).project \in Projects
<1>1. rows[old] \in Row /\ rows[old].project \in Projects BY DEF TypeOK, RowsSound
<1>2. PICK project \in Projects, audience \in Audiences :
        project = scope.project /\ audience = scope.audience
  BY <1>1 DEF Row, Projects, Audiences
<1>3. Revised(rows[old], scope, quarantined) =
        [rows[old] EXCEPT !.status = "active", !.until = "open", !.by = 0,
                          !.project = project, !.audience = audience,
                          !.quarantined = quarantined]
  BY <1>2 DEF Revised
<1> QED BY <1>1, <1>2, <1>3 DEF Row, Statuses, Validity

LEMMA UpdateBeside ==
  ASSUME TypeOK, RowsSound, WriterSound, NEW old \in Ids, Update(old)
  PROVE  Beside
<1>1. PICK scope \in Profiles \cup {rows[old]},
           quarantined \in {TRUE, rows[old].quarantined} :
        rows' = WithRow(rows, Fresh, Revised(rows[old], scope, quarantined))
  BY DEF Update
<1>2. PICK copy : copy = Revised(rows[old], scope, quarantined) OBVIOUS
<1>3. copy \in Row /\ copy.status = "active" /\ copy.by = 0 /\ copy.project \in Projects
  <2>1. quarantined \in BOOLEAN BY DEF TypeOK, Row
  <2> QED BY <1>2, <2>1, RevisedFits DEF Update
<1>4. Fresh \in Ids /\ Fresh \notin Committed /\ Fresh # 0 /\ old # 0
  BY FreshIsFresh, IdsFinite DEF Update
<1>5. old \in Committed
  <2>1. rows[old].project \in Projects BY DEF Update, RowsSound
  <2> QED BY <2>1, ExportAssumption DEF Committed, Projects
<1>6. RowFits(Fresh, copy)
  <2>1. copy.project # "" BY <1>3, ExportAssumption DEF Projects
  <2> QED BY <1>3, <1>4, <2>1 DEF RowFits
<1>7. rows' = [rows EXCEPT ![Fresh] = copy] BY <1>1, <1>2 DEF WithRow
<1>8. writer.pc = "idle" /\ Pending(Fresh) /\ Taken = Committed
  BY DEF Update, Pending, Taken
<1>9. /\ rows' \in [Ids -> Row] /\ RowsSound' /\ Committed' = Committed \cup {Fresh}
      /\ Taken \subseteq Taken'
  BY <1>3, <1>4, <1>6, <1>7, <1>8, OneRow
<1>10. /\ \A i \in Ids : i # Fresh => rows'[i] = rows[i]
       /\ rows'[Fresh].by = 0
  BY <1>3, <1>4, <1>7 DEF TypeOK
<1>11. RowsAge BY <1>4, <1>10 DEF RowsAge, Committed
<1>12. /\ writer' \in Writers /\ writer'.pc = "mark" /\ writer'.id = Fresh
       /\ writer'.old = old
  BY <1>4, WritesTyped DEF Update
<1>13. WriterSound'
  <2>1. \A i \in Ids : rows'[i].by # Fresh
    BY <1>4, <1>8, <1>10 DEF RowsSound
  <2> QED BY <1>4, <1>5, <1>9, <1>12, <2>1 DEF WriterSound
<1>14. WriterAge BY <1>4, <1>8, <1>12 DEF WriterAge
<1>15. export' \in Exports \cup {NoExport} BY DisturbedTypes DEF Update
<1>16. TypeOK' BY <1>9, <1>12, <1>15 DEF TypeOK, Update
<1> QED BY <1>9, <1>11, <1>13, <1>14, <1>16 DEF Beside

(* A row that gets a successor stays what it is otherwise.                 *)
LEMMA SuccessorFits ==
  ASSUME TypeOK, RowsSound, NEW old \in Ids, Present(rows, old), NEW new \in Ids, new # old
  PROVE  \E r : /\ WithSuccessor(rows, old, new) = [rows EXCEPT ![old] = r]
                /\ RowFits(old, r) /\ r.by = new
                /\ r.project = rows[old].project /\ r.audience = rows[old].audience
                /\ r.quarantined = rows[old].quarantined
<1> DEFINE r == [rows[old] EXCEPT !.until = "closed", !.by = new]
<1>1. rows[old] \in Row /\ rows[old].project \in Projects /\ rows[old].status # "absent"
  BY DEF TypeOK, RowsSound, Present
<1>2. WithSuccessor(rows, old, new) = [rows EXCEPT ![old] = r]
  BY <1>1 DEF WithSuccessor, TypeOK
<1>3. \A p \in Projects : p # "" BY ExportAssumption DEF Projects
<1>4. /\ r \in Row /\ r.by = new /\ r.status = rows[old].status
      /\ r.project = rows[old].project /\ r.audience = rows[old].audience
      /\ r.quarantined = rows[old].quarantined
  BY <1>1 DEF Row, Validity
<1> HIDE DEF r
<1>5. RowFits(old, r) BY <1>1, <1>3, <1>4 DEF RowFits
<1> QED BY <1>2, <1>4, <1>5

LEMMA UpdateFactBeside ==
  ASSUME TypeOK, RowsSound, WriterSound, NEW old \in Ids, UpdateFact(old)
  PROVE  Beside
<1>1. PICK scope \in Profiles \cup {rows[old]},
           quarantined \in {FALSE, rows[old].quarantined} :
        writer' = [Writes("update", old) EXCEPT !.pc = "insert",
                     !.row = Revised(rows[old], scope, quarantined)]
  BY DEF UpdateFact
<1>2. PICK copy : copy = Revised(rows[old], scope, quarantined) OBVIOUS
<1>3. copy \in Row /\ copy.status = "active" /\ copy.by = 0 /\ copy.project \in Projects
  <2>1. quarantined \in BOOLEAN BY DEF TypeOK, Row
  <2> QED BY <1>2, <2>1, RevisedFits DEF UpdateFact
<1>4. Fresh \in Ids /\ Fresh \notin Committed /\ Fresh # 0 /\ old # 0
  BY FreshIsFresh, IdsFinite DEF UpdateFact
<1>5. old \in Committed /\ old # Fresh
  <2>1. rows[old].project \in Projects BY DEF UpdateFact, RowsSound
  <2> QED BY <1>4, <2>1, ExportAssumption DEF Committed, Projects
<1>6. /\ writer' \in Writers /\ writer'.pc = "insert" /\ writer'.id = Fresh
      /\ writer'.old = old /\ writer'.row = copy
  <2>1. PICK w : w = Writes("update", old) OBVIOUS
  <2>2. w \in Writers /\ w.id = Fresh /\ w.old = old BY <1>4, <2>1, WritesTyped
  <2>3. writer' = [w EXCEPT !.pc = "insert", !.row = copy] BY <1>1, <1>2, <2>1
  <2> QED BY <1>3, <2>2, <2>3 DEF Writers
<1>7. writer.pc = "idle" /\ Pending(old) /\ Taken = Committed
  BY DEF UpdateFact, Pending, Taken
<1>8. PICK r : /\ rows' = [rows EXCEPT ![old] = r]
               /\ RowFits(old, r) /\ r.by = Fresh
               /\ r.project = rows[old].project /\ r.audience = rows[old].audience
               /\ r.quarantined = rows[old].quarantined
  <2>1. PICK new \in Ids : new = Fresh BY <1>4
  <2>2. \E r : /\ WithSuccessor(rows, old, new) = [rows EXCEPT ![old] = r]
               /\ RowFits(old, r) /\ r.by = new
               /\ r.project = rows[old].project /\ r.audience = rows[old].audience
               /\ r.quarantined = rows[old].quarantined
    BY <1>5, <2>1, SuccessorFits DEF UpdateFact
  <2> QED BY <2>1, <2>2 DEF UpdateFact
<1>9. /\ rows' \in [Ids -> Row] /\ RowsSound' /\ Committed' = Committed
      /\ Taken \subseteq Taken'
  <2>1. /\ rows' \in [Ids -> Row] /\ RowsSound' /\ Committed' = Committed \cup {old}
        /\ Taken \subseteq Taken'
    BY <1>6, <1>7, <1>8, OneRow
  <2> QED BY <1>5, <2>1
<1>10. RowsAge
  <2>1. \A i \in Ids : rows'[i] = IF i = old THEN r ELSE rows[i] BY <1>8 DEF TypeOK
  <2>2. r.by \notin Taken BY <1>4, <1>7, <1>8
  <2> SUFFICES ASSUME NEW i \in Committed
               PROVE  /\ /\ rows'[i].project = rows[i].project
                         /\ rows'[i].audience = rows[i].audience
                         /\ rows'[i].quarantined => rows[i].quarantined
                      /\ rows'[i].by = rows[i].by \/ rows'[i].by \notin Taken
    BY DEF RowsAge
  <2>3. CASE i = old
    <3>1. rows'[i] = r BY <2>1, <2>3
    <3> QED BY <1>8, <2>2, <2>3, <3>1
  <2>4. CASE i # old
    <3>1. rows'[i] = rows[i] BY <2>1, <2>4 DEF Committed
    <3> QED BY <3>1
  <2> QED BY <2>3, <2>4
<1>11. WriterSound' BY <1>3, <1>4, <1>6, <1>9 DEF WriterSound, Projects
<1>12. WriterAge BY <1>4, <1>6, <1>7 DEF WriterAge
<1>13. export' \in Exports \cup {NoExport} BY DisturbedTypes DEF UpdateFact
<1>14. TypeOK' BY <1>6, <1>9, <1>13 DEF TypeOK, UpdateFact
<1> QED BY <1>9, <1>10, <1>11, <1>12, <1>14 DEF Beside

LEMMA InsertFactBeside ==
  ASSUME TypeOK, RowsSound, WriterSound, InsertFact
  PROVE  Beside
<1>1. /\ writer \in Writers /\ writer.pc = "insert" /\ writer.id \in Ids \ Committed
      /\ writer.row.status = "active" /\ writer.row.by = 0
      /\ writer.row.project \in Projects
  BY WriterTypes DEF InsertFact, WriterSound
<1>2. PICK i \in Ids, r \in Row : i = writer.id /\ r = writer.row BY <1>1 DEF Writers
<1>3. RowFits(i, r)
  <2>1. i # 0 /\ r.project # "" BY <1>1, <1>2, IdsFinite, ExportAssumption DEF Projects
  <2> QED BY <1>1, <1>2, <2>1 DEF RowFits
<1>4. Pending(i) /\ r.by = 0 BY <1>1, <1>2 DEF Pending
<1>5. rows' = [rows EXCEPT ![i] = r] BY <1>2 DEF InsertFact, WithRow
<1>6. /\ rows' \in [Ids -> Row] /\ RowsSound' /\ Committed' = Committed \cup {i}
      /\ Taken \subseteq Taken'
  BY <1>3, <1>4, <1>5, OneRow
<1>7. RowsAge
  <2>1. \A j \in Ids : j # i => rows'[j] = rows[j] BY <1>5 DEF TypeOK
  <2> QED BY <1>1, <1>2, <2>1 DEF RowsAge, Committed
<1>8. writer' = NoWrite /\ writer'.pc = "idle" BY DEF InsertFact, NoWrite
<1>9. WriterSound' BY <1>8 DEF WriterSound
<1>10. WriterAge BY <1>8 DEF WriterAge
<1>11. export' \in Exports \cup {NoExport} BY DisturbedTypes DEF InsertFact
<1>12. TypeOK' BY <1>6, <1>8, <1>11 DEF TypeOK, InsertFact
<1> QED BY <1>6, <1>7, <1>9, <1>10, <1>12 DEF Beside

LEMMA MarkBeside ==
  ASSUME TypeOK, RowsSound, WriterSound, Mark
  PROVE  Beside
<1>1. /\ writer \in Writers /\ writer.pc = "mark"
      /\ writer.id \in Committed /\ writer.id \in Ids /\ writer.old \in Ids
      /\ writer.old # writer.id /\ \A i \in Ids : rows[i].by # writer.id
  BY WriterTypes DEF Mark, WriterSound
<1>2. writer' = NoWrite \/ \E pc \in {"record", "node"} : writer' = [writer EXCEPT !.pc = pc]
  BY DEF Mark
<1>3. writer' \in Writers \cup {NoWrite} BY <1>1, <1>2 DEF Writers
<1>4. export' \in Exports \cup {NoExport} BY DisturbedTypes DEF Mark
<1>5. WriterAge BY <1>1, <1>2 DEF WriterAge, NoWrite, Writers
<1>6. CASE ~Present(rows, writer.old)
  <2>1. UNCHANGED rows BY <1>6 DEF Mark
  <2>2. RowsAge /\ RowsSound' /\ Committed' = Committed /\ Taken \subseteq Taken'
    BY <1>1, <2>1, SameRows
  <2>3. WriterSound' BY <1>1, <1>2, <2>2 DEF WriterSound, NoWrite, Writers
  <2>4. TypeOK' BY <1>3, <1>4, <2>1 DEF TypeOK, Mark
  <2> QED BY <1>5, <2>2, <2>3, <2>4 DEF Beside
<1>7. CASE Present(rows, writer.old)
  <2>1. PICK old \in Ids, new \in Ids : old = writer.old /\ new = writer.id BY <1>1
  <2>2. PICK r : /\ rows' = [rows EXCEPT ![old] = r]
                 /\ RowFits(old, r) /\ r.by = new
                 /\ r.project = rows[old].project /\ r.audience = rows[old].audience
                 /\ r.quarantined = rows[old].quarantined
    <3>1. \E r : /\ WithSuccessor(rows, old, new) = [rows EXCEPT ![old] = r]
                 /\ RowFits(old, r) /\ r.by = new
                 /\ r.project = rows[old].project /\ r.audience = rows[old].audience
                 /\ r.quarantined = rows[old].quarantined
      BY <1>1, <1>7, <2>1, SuccessorFits
    <3> QED BY <1>7, <2>1, <3>1 DEF Mark
  <2>3. old \in Committed
    <3>1. rows[old].project \in Projects BY <1>7, <2>1 DEF RowsSound
    <3> QED BY <3>1, ExportAssumption DEF Committed, Projects
  <2>4. Pending(old) BY <1>1 DEF Pending
  <2>5. /\ rows' \in [Ids -> Row] /\ RowsSound' /\ Committed' = Committed
        /\ Taken \subseteq Taken'
    <3>1. /\ rows' \in [Ids -> Row] /\ RowsSound' /\ Committed' = Committed \cup {old}
          /\ Taken \subseteq Taken'
      BY <1>1, <2>1, <2>2, <2>4, OneRow
    <3> QED BY <2>3, <3>1
  <2>6. RowsAge
    <3>1. \A i \in Ids : rows'[i] = IF i = old THEN r ELSE rows[i]
      BY <2>2 DEF TypeOK
    <3> QED BY <1>1, <2>1, <2>2, <3>1 DEF RowsAge, Committed
  <2>7. WriterSound' BY <1>1, <1>2, <2>5 DEF WriterSound, NoWrite, Writers
  <2>8. TypeOK' BY <1>3, <1>4, <2>5 DEF TypeOK, Mark
  <2> QED BY <1>5, <2>5, <2>6, <2>7, <2>8 DEF Beside
<1> QED BY <1>6, <1>7

(* The steps of a writer after its mark: no row changes.                   *)
LEMMA LaterBeside ==
  ASSUME TypeOK, RowsSound, WriterSound, UNCHANGED rows, Disturbed,
         graph' \in [nodes : SUBSET Ids, edges : SUBSET Edges],
         conflicts' \in Seq([winner : Ids, loser : Ids, project : Projects \cup {"", "gone"}]),
         drifts' \in Seq([candidate : Ids, prior : Ids]), writes' \in Nat,
         writer.pc = "insert" => writer' = writer,
         \/ writer' = writer \/ writer' = NoWrite
         \/ /\ writer' \in Writers
            /\ writer'.id \in Committed /\ writer'.old = writer.old
            /\ writer'.pc \in {"node", "recent", "link"}
  PROVE  Beside
<1>1. RowsAge /\ RowsSound' /\ Committed' = Committed /\ Taken \subseteq Taken'
  BY SameRows
<1>2. \/ writer' = writer
      \/ writer'.pc = "idle"
      \/ writer'.pc \in {"node", "recent", "link"} /\ writer'.id \in Committed
  <2>1. NoWrite.pc = "idle" BY DEF NoWrite
  <2> QED BY <2>1
<1>3. WriterSound'
  <2>1. CASE writer' = writer BY <1>1, <2>1 DEF WriterSound
  <2>2. CASE writer'.pc = "idle" BY <2>2 DEF WriterSound
  <2>3. CASE writer'.pc \in {"node", "recent", "link"} /\ writer'.id \in Committed
    BY <1>1, <2>3 DEF WriterSound
  <2> QED BY <1>2, <2>1, <2>2, <2>3
<1>4. WriterAge BY <1>2 DEF WriterAge
<1>5. export' \in Exports \cup {NoExport} BY DisturbedTypes
<1>6. TypeOK' BY <1>5 DEF TypeOK
<1> QED BY <1>1, <1>3, <1>4, <1>6 DEF Beside

LEMMA RecordConflictBeside ==
  ASSUME TypeOK, RowsSound, WriterSound, RecordConflict
  PROVE  Beside
<1>1. /\ writer \in Writers /\ writer.id \in Committed /\ writer.id \in Ids
      /\ writer.old \in Ids
  BY WriterTypes DEF RecordConflict, WriterSound
<1> DEFINE c == [winner |-> writer.id, loser |-> writer.old, project |-> rows[writer.id].project]
           C == [winner : Ids, loser : Ids, project : Projects \cup {"", "gone"}]
<1>2. c \in C BY <1>1 DEF TypeOK, Row
<1>3. conflicts \in Seq(C) BY DEF TypeOK
<1>4. conflicts' \in Seq(C)
  <2> HIDE DEF c, C
  <2>1. Append(conflicts, c) \in Seq(C) BY <1>2, <1>3, AppendProperties
  <2> QED BY <2>1 DEF RecordConflict, c
<1>5. /\ writer' \in Writers /\ writer'.id \in Committed /\ writer'.old = writer.old
      /\ writer'.pc = "node"
  BY <1>1 DEF RecordConflict, Writers
<1> QED BY <1>4, <1>5, LaterBeside DEF RecordConflict, TypeOK

LEMMA AddNodeBeside ==
  ASSUME TypeOK, RowsSound, WriterSound, AddNode
  PROVE  Beside
<1>1. /\ writer \in Writers /\ writer.id \in Committed /\ writer.id \in Ids
  BY WriterTypes DEF AddNode, WriterSound
<1>2. graph' \in [nodes : SUBSET Ids, edges : SUBSET Edges]
  BY <1>1 DEF AddNode, WithNode, TypeOK
<1>3. /\ writer' \in Writers /\ writer'.id \in Committed /\ writer'.old = writer.old
      /\ writer'.pc = "recent"
  BY <1>1 DEF AddNode, Writers
<1> QED BY <1>2, <1>3, LaterBeside DEF AddNode, TypeOK

LEMMA RecentBeside ==
  ASSUME TypeOK, RowsSound, WriterSound, Recent
  PROVE  Beside
<1>1. /\ writer \in Writers /\ writer.id \in Committed
  BY WriterTypes DEF Recent, WriterSound
<1>2. PICK S \in SUBSET Ids : writer' = [writer EXCEPT !.pc = "link", !.todo = S]
  BY DEF Recent
<1>3. /\ writer' \in Writers /\ writer'.id \in Committed /\ writer'.old = writer.old
      /\ writer'.pc = "link"
  BY <1>1, <1>2 DEF Writers
<1> QED BY <1>3, LaterBeside DEF Recent, TypeOK

LEMMA LinkBeside ==
  ASSUME TypeOK, RowsSound, WriterSound, Link
  PROVE  Beside
<1>1. /\ writer \in Writers /\ writer.id \in Committed /\ writer.pc = "link"
  BY WriterTypes DEF Link, WriterSound
<1>2. CASE writer' = NoWrite /\ UNCHANGED graph
  BY <1>2, LaterBeside DEF Link, TypeOK
<1>3. CASE /\ CanLink(graph, writer.id, Max(writer.todo))
           /\ graph' = WithEdge(graph, writer.id, Max(writer.todo), "LINKS_TO")
           /\ writer' = [writer EXCEPT !.todo = @ \ {Max(@)}]
  <2>1. writer.id \in Ids /\ Max(writer.todo) \in Ids BY <1>3 DEF CanLink, TypeOK
  <2>2. Edge(writer.id, Max(writer.todo), "LINKS_TO") \in Edges
    BY <2>1 DEF Edge, Edges, Relations
  <2>3. graph' \in [nodes : SUBSET Ids, edges : SUBSET Edges]
    BY <1>3, <2>2 DEF WithEdge, TypeOK
  <2>4. /\ writer' \in Writers /\ writer'.id \in Committed /\ writer'.old = writer.old
        /\ writer'.pc = "link"
    BY <1>1, <1>3 DEF Writers
  <2> QED BY <2>3, <2>4, LaterBeside DEF Link, TypeOK
<1> QED BY <1>2, <1>3 DEF Link

LEMMA UnlinkBeside ==
  ASSUME TypeOK, RowsSound, WriterSound, Unlink
  PROVE  Beside
<1>1. graph \in [nodes : SUBSET Ids, edges : SUBSET Edges] BY DEF TypeOK
<1>2. WithoutNode(graph, writer.old) \in [nodes : SUBSET Ids, edges : SUBSET Edges]
  BY <1>1 DEF WithoutNode
<1>3. graph' \in [nodes : SUBSET Ids, edges : SUBSET Edges] BY <1>1, <1>2 DEF Unlink
<1> QED BY <1>3, LaterBeside DEF Unlink, TypeOK

LEMMA RecordDriftBeside ==
  ASSUME TypeOK, RowsSound, WriterSound, NEW i \in Ids, NEW j \in Ids, RecordDrift(i, j)
  PROVE  Beside
<1> DEFINE d == [candidate |-> i, prior |-> j]
           D == [candidate : Ids, prior : Ids]
<1>1. d \in D /\ drifts \in Seq(D) BY DEF TypeOK
<1>2. drifts' \in Seq(D)
  <2> HIDE DEF d, D
  <2>1. Append(drifts, d) \in Seq(D) BY <1>1, AppendProperties
  <2> QED BY <2>1 DEF RecordDrift, d
<1>3. writes' \in Nat
  <2>1. writes \in Nat BY DEF TypeOK
  <2> QED BY <2>1 DEF RecordDrift
<1> QED BY <1>2, <1>3, LaterBeside DEF RecordDrift, TypeOK

(* A row that was there is changed; the writer goes on.                    *)
LEMMA ChangeBeside ==
  ASSUME TypeOK, RowsSound, WriterSound, NEW i \in Ids, Change(i)
  PROVE  Beside
<1>1. rows[i] \in Row /\ rows[i].project \in Projects /\ rows[i].status # "absent"
      /\ rows[i].by # i /\ (rows[i].by # 0 => rows[i].by \in Taken)
  BY DEF TypeOK, RowsSound, Present, Change
<1>2. \A p \in Projects : p # "" BY ExportAssumption DEF Projects
<1>3. PICK r : /\ rows' = [rows EXCEPT ![i] = r]
               /\ r \in Row /\ r.status # "absent" /\ r.by = rows[i].by
               /\ r.project = rows[i].project /\ r.audience = rows[i].audience
               /\ r.quarantined => rows[i].quarantined
  <2>1. CASE \E author \in Authors : rows' = [rows EXCEPT ![i] = Corroborated(@, author)]
    <3>1. PICK author \in Authors : rows' = [rows EXCEPT ![i] = Corroborated(rows[i], author)]
      BY <2>1
    <3>2. author \in Everyone BY DEF Everyone
    <3> DEFINE r == Corroborated(rows[i], author)
    <3>3. /\ r \in Row /\ r.status = rows[i].status /\ r.by = rows[i].by
          /\ r.project = rows[i].project /\ r.audience = rows[i].audience
          /\ r.quarantined = rows[i].quarantined
      <4> DEFINE m == rows[i].merged \cup {rows[i].author, author}
                 n == rows[i].corroboration + 1
      <4>1. m \in SUBSET Everyone BY <1>1, <3>2 DEF Row
      <4>2. rows[i].corroboration \in Nat BY <1>1 DEF Row
      <4>3. n \in Nat BY <4>2
      <4>4. r = [rows[i] EXCEPT !.merged = m, !.corroboration = n] BY DEF Corroborated
      <4> HIDE DEF m, n, r
      <4> QED BY <1>1, <4>1, <4>3, <4>4 DEF Row
    <3> HIDE DEF r
    <3> QED BY <1>1, <3>1, <3>3 DEF r
  <2>2. CASE rows' = [rows EXCEPT ![i].quarantined = FALSE]
    <3> DEFINE r == [rows[i] EXCEPT !.quarantined = FALSE]
    <3>1. /\ r \in Row /\ r.status = rows[i].status /\ r.by = rows[i].by
          /\ r.project = rows[i].project /\ r.audience = rows[i].audience
          /\ r.quarantined = FALSE
      BY <1>1 DEF Row
    <3>2. rows' = [rows EXCEPT ![i] = r] BY <2>2
    <3> HIDE DEF r
    <3> QED BY <1>1, <3>1, <3>2
  <2>3. CASE rows' = WithStatus(rows, i, "deprecated")
    <3> DEFINE r == [rows[i] EXCEPT !.status = "deprecated"]
    <3>1. /\ r \in Row /\ r.status = "deprecated" /\ r.by = rows[i].by
          /\ r.project = rows[i].project /\ r.audience = rows[i].audience
          /\ r.quarantined = rows[i].quarantined
      BY <1>1 DEF Row, Statuses
    <3>2. rows' = [rows EXCEPT ![i] = r] BY <1>1, <2>3 DEF WithStatus, Present
    <3> HIDE DEF r
    <3> QED BY <1>1, <3>1, <3>2
  <2> QED BY <2>1, <2>2, <2>3 DEF Change
<1>4. RowFits(i, r) BY <1>1, <1>2, <1>3 DEF RowFits
<1>5. i \in Committed BY <1>1, <1>2 DEF Committed
<1>6. /\ rows' \in [Ids -> Row] /\ RowsSound' /\ Committed' = Committed
      /\ Taken \subseteq Taken'
  <2>1. writer' = writer /\ Pending(i) BY DEF Change, Pending
  <2>2. \/ r.by = 0 \/ r.by \in Committed
        \/ writer.pc = "insert" /\ writer' = writer /\ r.by = writer.id
    BY <1>1, <1>3, <2>1 DEF Taken
  <2>3. /\ rows' \in [Ids -> Row] /\ RowsSound' /\ Committed' = Committed \cup {i}
        /\ Taken \subseteq Taken'
    BY <1>3, <1>4, <2>1, <2>2, OneRow
  <2> QED BY <1>5, <2>3
<1>7. \A j \in Ids : rows'[j] = IF j = i THEN r ELSE rows[j] BY <1>3 DEF TypeOK
<1>8. RowsAge BY <1>3, <1>7 DEF RowsAge, Committed
<1>9. UNCHANGED writer /\ \A j \in Ids : rows'[j].by = rows[j].by
  BY <1>3, <1>7 DEF Change
<1>10. WriterSound' BY <1>6, <1>9 DEF WriterSound
<1>11. WriterAge BY <1>9 DEF WriterAge
<1>12. export' \in Exports \cup {NoExport} BY DisturbedTypes DEF Change
<1>13. writes' \in Nat
  <2>1. writes \in Nat BY DEF TypeOK
  <2> QED BY <2>1 DEF Change
<1>14. TypeOK' BY <1>6, <1>12, <1>13 DEF TypeOK, Change
<1> QED BY <1>6, <1>8, <1>10, <1>11, <1>14 DEF Beside

LEMMA TombstoneBeside ==
  ASSUME TypeOK, RowsSound, WriterSound, NEW i \in Ids, Tombstone(i)
  PROVE  Beside
<1> DEFINE r == [NoRow EXCEPT !.project = "gone"]
<1>1. rows' = [rows EXCEPT ![i] = r] BY DEF Tombstone
<1>2. \A p \in Projects : p \notin {"", "gone"} BY ExportAssumption DEF Projects
<1>3. r \in Row /\ r.project = "gone" /\ r.by = 0 /\ r.status = "absent"
  BY DEF NoRow, Row, Statuses, Validity, Audiences, Everyone
<1> HIDE DEF r
<1>4. RowFits(i, r) BY <1>2, <1>3, IdsFinite DEF RowFits
<1>5. rows[i].project \in Projects BY DEF Tombstone, RowsSound
<1>6. i \in Committed BY <1>2, <1>5 DEF Committed
<1>7. writer.pc = "idle" /\ Pending(i) BY DEF Tombstone, Pending
<1>8. /\ rows' \in [Ids -> Row] /\ RowsSound' /\ Committed' = Committed
      /\ Taken \subseteq Taken'
  <2>1. PICK s : s = r OBVIOUS
  <2>2. /\ rows' \in [Ids -> Row] /\ RowsSound' /\ Committed' = Committed \cup {i}
        /\ Taken \subseteq Taken'
    BY <1>1, <1>3, <1>4, <1>7, <2>1, OneRow
  <2> QED BY <1>6, <2>2
<1>9. \A j \in Ids : rows'[j] = IF j = i THEN r ELSE rows[j] BY <1>1 DEF TypeOK
<1>10. RowsAge BY <1>3, <1>9 DEF RowsAge, Committed
<1>11. writer' \in Writers /\ writer'.pc = "unlink"
  <2>1. PICK w : w = Writes("forget", i) OBVIOUS
  <2>2. w \in Writers BY <2>1, WritesTyped
  <2>3. writer' = [w EXCEPT !.pc = "unlink"] BY <2>1 DEF Tombstone
  <2> QED BY <2>2, <2>3 DEF Writers
<1>12. WriterSound' BY <1>11 DEF WriterSound
<1>13. WriterAge BY <1>11 DEF WriterAge
<1>14. export' \in Exports \cup {NoExport} BY DisturbedTypes DEF Tombstone
<1>15. writes' \in Nat
  <2>1. writes \in Nat BY DEF TypeOK
  <2> QED BY <2>1 DEF Tombstone
<1>16. TypeOK' BY <1>8, <1>11, <1>14, <1>15 DEF TypeOK, Tombstone
<1> QED BY <1>8, <1>10, <1>12, <1>13, <1>16 DEF Beside

LEMMA WritesBeside ==
  ASSUME TypeOK, RowsSound, WriterSound, WriteStep
  PROVE  Beside /\ Disturbed
<1>1. CASE Commit BY <1>1, CommitBeside DEF Commit
<1>2. CASE Mark BY <1>2, MarkBeside DEF Mark
<1>3. CASE RecordConflict BY <1>3, RecordConflictBeside DEF RecordConflict
<1>4. CASE AddNode BY <1>4, AddNodeBeside DEF AddNode
<1>5. CASE Recent BY <1>5, RecentBeside DEF Recent
<1>6. CASE Link BY <1>6, LinkBeside DEF Link
<1>7. CASE Unlink BY <1>7, UnlinkBeside DEF Unlink
<1>8. CASE \E i \in Ids : Update(i) BY <1>8, UpdateBeside DEF Update
<1>9. CASE \E i \in Ids : Change(i) BY <1>9, ChangeBeside DEF Change
<1>10. CASE \E i \in Ids : Tombstone(i) BY <1>10, TombstoneBeside DEF Tombstone
<1>11. CASE \E i, j \in Ids : i # j /\ RecordDrift(i, j)
  BY <1>11, RecordDriftBeside DEF RecordDrift
<1>12. CASE \E i \in Ids : UpdateFact(i) BY <1>12, UpdateFactBeside DEF UpdateFact
<1>13. CASE InsertFact BY <1>13, InsertFactBeside DEF InsertFact
<1> QED BY <1>1, <1>2, <1>3, <1>4, <1>5, <1>6, <1>7, <1>8, <1>9, <1>10, <1>11, <1>12, <1>13
        DEF WriteStep

-------------------------------------------------------------------------------
(* What a transaction beside an export does to what the export has listed. *)

LEMMA NodesBeside ==
  ASSUME TypeOK, NodesSound, SuccessorsSound, Beside, Disturbed
  PROVE  NodesSound' /\ SuccessorsSound'
<1>1. SameExport BY DisturbedTypes
<1>2. CASE export.pc = "idle"
  BY <1>1, <1>2 DEF SameExport, NodesSound, SuccessorsSound
<1>3. CASE export.pc # "idle"
  <2>1. /\ export \in Exports /\ export'.pc = export.pc
        /\ export'.nodes = export.nodes /\ export'.by = export.by
        /\ export'.request = export.request /\ export'.raw = export.raw
    BY <1>1, <1>3 DEF SameExport
  <2>2. ASSUME NEW i \in Committed PROVE i \in Committed'
    <3>1. rows[i].project # "" /\ rows'[i].project \in {"gone", rows[i].project}
      BY DEF Beside, RowsAge, Committed
    <3> QED BY <3>1 DEF Committed
  <2>3. /\ DOMAIN export.by = export.nodes
        /\ \A i \in export.nodes :
             /\ i \in Committed /\ MayBeSeen(i, export.request)
             /\ export.by[i] # 0 => export.by[i] \in Taken
             /\ writer.pc = "mark" => export.by[i] # writer.id
    BY <1>3 DEF NodesSound
  <2>4. ASSUME NEW i \in export.nodes
        PROVE  MayBeSeen(i, export.request)'
    <3>1. \/ rows'[i].project = "gone"
          \/ /\ rows'[i].project = rows[i].project /\ rows'[i].audience = rows[i].audience
             /\ rows'[i].quarantined => rows[i].quarantined
      BY <2>3 DEF Beside, RowsAge
    <3> QED BY <2>1, <2>3, <3>1 DEF MayBeSeen
  <2>5. ASSUME NEW i \in export.nodes, writer'.pc = "mark"
        PROVE  export.by[i] # writer'.id
    <3>1. writer' = writer \/ writer'.id \notin Taken BY <2>5 DEF Beside, WriterAge
    <3>2. CASE writer' = writer BY <2>3, <2>5, <3>2
    <3>3. CASE writer'.id \notin Taken
      <4>1. writer'.id # 0
        <5>1. writer'.id \in Committed' /\ 0 \notin Ids
          BY <2>5, IdsFinite DEF Beside, WriterSound
        <5> QED BY <5>1 DEF Committed
      <4> QED BY <2>3, <3>3, <4>1
    <3> QED BY <3>1, <3>2, <3>3
  <2>6. NodesSound'
    <3>1. ASSUME NEW i \in export'.nodes
          PROVE  /\ i \in Committed' /\ MayBeSeen(i, export.request)'
                 /\ export'.by[i] # 0 => export'.by[i] \in Taken'
                 /\ writer'.pc = "mark" => export'.by[i] # writer'.id
      BY <2>1, <2>2, <2>3, <2>4, <2>5 DEF Beside
    <3>2. DOMAIN export'.by = export'.nodes BY <2>1, <2>3
    <3> QED BY <3>1, <3>2 DEF NodesSound
  <2>7. SuccessorsSound'
    <3> SUFFICES ASSUME export.pc \in {"merged", "conflicts", "drifts", "clean"},
                        NEW i \in export.nodes, export.by[i] \in export.nodes,
                        rows'[i].by = export.by[i]
                 PROVE  \E k \in DOMAIN export.raw : Key(export.raw[k]) = Superseding(i)
      BY <2>1 DEF SuccessorsSound, Superseding
    <3>1. export.by[i] # 0 BY <2>1, IdsFinite DEF Exports
    <3>2. \/ rows'[i].by \in {rows[i].by, 0}
          \/ writer.pc = "mark" /\ rows'[i].by = writer.id
          \/ rows'[i].by \notin Taken
      BY <2>3 DEF Beside, RowsAge
    <3>3. rows[i].by = export.by[i] BY <2>3, <3>1, <3>2
    <3> QED BY <3>3 DEF SuccessorsSound
  <2> QED BY <2>6, <2>7
<1> QED BY <1>2, <1>3

-------------------------------------------------------------------------------
(* The reads of an export. What a read finds goes behind what is there.    *)

LEMMA InitInv == Init => ExportInv
<1> SUFFICES ASSUME Init PROVE ExportInv OBVIOUS
<1>1. TypeOK
  <2>1. NoRow \in Row
    BY DEF NoRow, Row, Statuses, Validity, Audiences, Everyone
  <2>2. graph \in [nodes : SUBSET Ids, edges : SUBSET Edges] BY DEF Init, NoLinks
  <2>3. <<>> \in Seq([winner : Ids, loser : Ids, project : Projects \cup {"", "gone"}])
        /\ <<>> \in Seq([candidate : Ids, prior : Ids])
    OBVIOUS
  <2> HIDE DEF NoRow
  <2> QED BY <2>1, <2>2, <2>3 DEF Init, TypeOK
<1>2. RowsSound
  <2>1. \A p \in Projects : p # "" BY ExportAssumption DEF Projects
  <2>2. \A i \in Ids : rows[i].status = "absent" /\ rows[i].project = "" /\ rows[i].by = 0
    BY DEF Init, NoRow
  <2> QED BY <2>1, <2>2, IdsFinite DEF RowsSound, Present
<1>3. writer.pc = "idle" /\ export.pc = "idle" BY DEF Init, NoWrite, NoExport
<1> QED BY <1>1, <1>2, <1>3
        DEF ExportInv, WriterSound, NodesSound, SuccessorsSound, NothingHidden,
            HygieneAccounts, LineageComplete, Answered

(* The sets that are read are finite.                                      *)
LEMMA ImageFinite ==
  ASSUME NEW S, IsFiniteSet(S), NEW T, NEW f \in [S -> T], \A t \in T : \E s \in S : f[s] = t
  PROVE  IsFiniteSet(T)
<1>1. f \in Surjection(S, T) BY DEF Surjection
<1> QED BY <1>1, FS_Surjection

LEMMA EdgesFinite == IsFiniteSet(Edges)
<1>1. IsFiniteSet(Relations)
  <2>1. IsFiniteSet({}) BY FS_EmptySet
  <2>2. IsFiniteSet({} \cup {"LINKS_TO"}) BY <2>1, FS_AddElement
  <2>3. IsFiniteSet(({} \cup {"LINKS_TO"}) \cup {"SUPERSEDES"}) BY <2>2, FS_AddElement
  <2>4. IsFiniteSet((({} \cup {"LINKS_TO"}) \cup {"SUPERSEDES"}) \cup {"CITES"})
    BY <2>3, FS_AddElement
  <2>5. Relations = (({} \cup {"LINKS_TO"}) \cup {"SUPERSEDES"}) \cup {"CITES"}
    BY DEF Relations
  <2> QED BY <2>4, <2>5
<1> DEFINE places == (Ids \X Ids) \X Relations
           f == [p \in places |-> [from |-> p[1][1], to |-> p[1][2], type |-> p[2]]]
<1>2. IsFiniteSet(places)
  <2>1. IsFiniteSet(Ids \X Ids) BY IdsFinite, FS_Product
  <2> QED BY <1>1, <2>1, FS_Product
<1>3. f \in [places -> Edges] BY DEF Edges
<1>4. ASSUME NEW e \in Edges PROVE \E p \in places : f[p] = e
  <2> DEFINE p == <<<<e.from, e.to>>, e.type>>
  <2>1. p \in places BY DEF Edges
  <2>2. f[p] = e BY <2>1 DEF Edges
  <2> QED BY <2>1, <2>2
<1> HIDE DEF places, f
<1> QED BY <1>2, <1>3, <1>4, ImageFinite

(* A finite set of edges as a list of them.                                *)
LEMMA ListOfEdges ==
  ASSUME NEW S, IsFiniteSet(S), NEW f \in [S -> RawEdges], NEW T,
         T \subseteq RawEdges, \A s \in S : f[s] \in T, \A t \in T : \E s \in S : f[s] = t
  PROVE  /\ SetToSeq(T) \in Seq(RawEdges)
         /\ \A t \in T : \E k \in DOMAIN SetToSeq(T) : SetToSeq(T)[k] = t
<1>1. f \in [S -> T] OBVIOUS
<1>2. IsFiniteSet(T) BY <1>1, ImageFinite
<1>3. SetToSeq(T) \in Seq(T) BY <1>2, SetAsSeq
<1>4. \A t \in T : \E k \in DOMAIN SetToSeq(T) : SetToSeq(T)[k] = t BY <1>2, SetAsSeq
<1>5. SetToSeq(T) \in Seq(RawEdges)
  <2> DEFINE s == SetToSeq(T)
  <2> HIDE DEF s
  <2>1. s \in Seq(T) BY <1>3 DEF s
  <2>2. s \in Seq(RawEdges) BY <2>1
  <2> QED BY <2>2 DEF s
<1> QED BY <1>4, <1>5

(* What was in a list is in the longer one, where it was.                  *)
Lengthens(all, old, more) ==
  /\ all \in Seq(RawEdges)
  /\ \A k \in DOMAIN old : k \in DOMAIN all /\ all[k] = old[k]
  /\ \A k \in DOMAIN more : \E n \in DOMAIN all : all[n] = more[k]

LEMMA Behind ==
  ASSUME NEW old \in Seq(RawEdges), NEW more \in Seq(RawEdges)
  PROVE  Lengthens(old \o more, old, more)
<1> DEFINE all == old \o more
<1>1. /\ all \in Seq(RawEdges) /\ Len(all) = Len(old) + Len(more)
      /\ \A i \in 1..(Len(old) + Len(more)) :
           all[i] = IF i <= Len(old) THEN old[i] ELSE more[i - Len(old)]
  BY ConcatProperties
<1>2. /\ Len(old) \in Nat /\ Len(more) \in Nat
      /\ DOMAIN old = 1..Len(old) /\ DOMAIN more = 1..Len(more)
  BY LenProperties
<1> HIDE DEF all
<1>3. DOMAIN all = 1..(Len(old) + Len(more)) BY <1>1, LenProperties
<1>4. \A k \in DOMAIN old : k \in DOMAIN all /\ all[k] = old[k] BY <1>1, <1>2, <1>3
<1>5. ASSUME NEW k \in DOMAIN more PROVE \E n \in DOMAIN all : all[n] = more[k]
  <2> DEFINE n == Len(old) + k
  <2>1. n \in DOMAIN all /\ ~(n <= Len(old)) /\ n - Len(old) = k BY <1>2, <1>3
  <2>2. all[n] = more[k] BY <1>1, <1>3, <2>1
  <2> QED BY <2>1, <2>2
<1>6. Lengthens(all, old, more) BY <1>1, <1>4, <1>5 DEF Lengthens
<1> QED BY <1>6 DEF all

Reading == {"graph", "supersedes", "merged", "conflicts", "drifts"}

LEMMA ReadsMore ==
  ASSUME TypeOK, RowsSound, WriterSound, NodesSound, NEW next, NEW edges \in Seq(RawEdges),
         export.pc \in Reading, next \in Reading \cup {"clean"},
         export' = [export EXCEPT !.pc = next, !.raw = export.raw \o edges],
         UNCHANGED <<rows, graph, conflicts, drifts, writer, writes>>
  PROVE  /\ TypeOK' /\ RowsSound' /\ WriterSound' /\ NodesSound'
         /\ export'.pc = next /\ export'.nodes = export.nodes /\ export'.by = export.by
         /\ export'.request = export.request
         /\ Lengthens(export'.raw, export.raw, edges)
<1>1. export \in Exports /\ export.raw \in Seq(RawEdges)
  <2>1. export \in Exports \cup {NoExport} BY DEF TypeOK
  <2>2. export \in Exports BY <2>1 DEF NoExport, Reading
  <2> QED BY <2>2 DEF Exports
<1>2. PICK old : old = export.raw OBVIOUS
<1>3. PICK all : all = old \o edges /\ Lengthens(all, old, edges)
  <2>1. old \in Seq(RawEdges) BY <1>1, <1>2
  <2>2. Lengthens(old \o edges, old, edges) BY <2>1, Behind
  <2> QED BY <2>2
<1>4. /\ export' \in Exports /\ export'.pc = next /\ export'.nodes = export.nodes
      /\ export'.by = export.by /\ export'.request = export.request
      /\ export'.raw = all
  <2>1. all \in Seq(RawEdges) BY <1>3 DEF Lengthens
  <2>2. export' = [export EXCEPT !.pc = next, !.raw = all] BY <1>2, <1>3
  <2> QED BY <1>1, <2>1, <2>2 DEF Exports, Reading
<1>5. TypeOK' BY <1>4 DEF TypeOK
<1>6. RowsSound' /\ Committed' = Committed /\ Taken \subseteq Taken' BY SameRows
<1>7. WriterSound' BY <1>6 DEF WriterSound
<1>8. NodesSound'
  <2>1. export.pc # "idle" BY DEF Reading
  <2> QED BY <1>4, <1>6, <2>1 DEF NodesSound, MayBeSeen
<1>9. Lengthens(export'.raw, export.raw, edges)
  <2>1. export'.raw = all /\ export.raw = old BY <1>2, <1>4
  <2>2. Lengthens(all, old, edges) BY <1>3
  <2> QED BY <2>1, <2>2, Zenon
<1> QED BY <1>4, <1>5, <1>6, <1>7, <1>8, <1>9

(* A supersession that was derived remains among the edges.                *)
LEMMA SuccessorsStay ==
  ASSUME SuccessorsSound, export.pc \in {"merged", "conflicts", "drifts"}, UNCHANGED rows,
         export'.nodes = export.nodes /\ export'.by = export.by,
         NEW edges, Lengthens(export'.raw, export.raw, edges)
  PROVE  SuccessorsSound'
<1> SUFFICES ASSUME NEW i \in export.nodes, export.by[i] \in export.nodes,
                    rows[i].by = export.by[i]
             PROVE  \E k \in DOMAIN export'.raw : Key(export'.raw[k]) = Superseding(i)
  BY DEF SuccessorsSound, Superseding
<1>1. PICK k \in DOMAIN export.raw : Key(export.raw[k]) = Superseding(i)
  BY DEF SuccessorsSound
<1> QED BY <1>1 DEF Lengthens

LEMMA NoAnswerYet ==
  ASSUME export'.pc # "answered"
  PROVE  NothingHidden' /\ HygieneAccounts' /\ LineageComplete'
BY DEF NothingHidden, HygieneAccounts, LineageComplete, Answered

LEMMA ListInv ==
  ASSUME ExportInv, NEW request \in Requests, List(request)
  PROVE  ExportInv'
<1> DEFINE nodes == Newest(Exportable(request), request.limit)
           by == [i \in nodes |-> rows[i].by]
<1>1. TypeOK /\ RowsSound /\ WriterSound BY DEF ExportInv
<1>2. /\ export' = [pc |-> "count", request |-> request, nodes |-> nodes, beside |-> 0,
                    by |-> by, truncated |-> FALSE, raw |-> <<>>,
                    edges |-> {}, deduped |-> 0, dropped |-> 0]
      /\ UNCHANGED <<rows, graph, conflicts, drifts, writer, writes>>
  BY DEF List
<1>3. \A i \in nodes : /\ i \in Ids /\ rows[i].project = request.project
                       /\ Selects(request, rows[i]) /\ InAudience(rows[i], request.audience)
  BY DEF Newest, Exportable, ListForExport
<1>4. \A i \in nodes : rows[i] \in Row BY <1>1, <1>3 DEF TypeOK
<1>5. ASSUME NEW i \in nodes
      PROVE  /\ i \in Committed /\ MayBeSeen(i, request)
             /\ rows[i].by # 0 => rows[i].by \in Taken
             /\ writer.pc = "mark" => rows[i].by # writer.id
  <2>1. Present(rows, i) BY <1>3 DEF Selects, Present
  <2>2. rows[i].project \in Projects BY <1>1, <1>3, <2>1 DEF RowsSound
  <2>3. i \in Committed BY <1>3, <2>2, ExportAssumption DEF Committed, Projects
  <2>4. MayBeSeen(i, request) BY <1>3 DEF MayBeSeen, Selects, InAudience
  <2>5. rows[i].by # 0 => rows[i].by \in Taken BY <1>1, <1>3 DEF RowsSound
  <2>6. writer.pc = "mark" => rows[i].by # writer.id BY <1>1, <1>3 DEF WriterSound
  <2> QED BY <2>3, <2>4, <2>5, <2>6
<1>6. nodes \in SUBSET Ids /\ by \in [nodes -> Ids \cup {0}]
  BY <1>3, <1>4 DEF Row
<1>7. DOMAIN by = nodes /\ \A i \in nodes : by[i] = rows[i].by OBVIOUS
<1> HIDE DEF nodes, by
<1>8. export' \in Exports BY <1>2, <1>6 DEF Exports
<1>9. TypeOK' BY <1>1, <1>2, <1>8 DEF TypeOK
<1>10. RowsSound' /\ Committed' = Committed /\ Taken \subseteq Taken'
  BY <1>1, <1>2, SameRows
<1>11. WriterSound' BY <1>1, <1>2, <1>10 DEF WriterSound
<1>12. NodesSound' BY <1>2, <1>5, <1>7, <1>10 DEF NodesSound, MayBeSeen
<1>13. export'.pc = "count" BY <1>2
<1>14. SuccessorsSound' BY <1>13 DEF SuccessorsSound
<1> QED BY <1>9, <1>10, <1>11, <1>12, <1>13, <1>14, NoAnswerYet DEF ExportInv

LEMMA CountInv ==
  ASSUME ExportInv, Count
  PROVE  ExportInv'
<1>1. TypeOK /\ RowsSound /\ WriterSound /\ NodesSound BY DEF ExportInv
<1>2. export \in Exports /\ export.pc = "count"
  <2>1. export.pc = "count" BY DEF Count
  <2>2. export \in Exports \cup {NoExport} BY <1>1 DEF TypeOK
  <2> QED BY <2>1, <2>2 DEF NoExport
<1>3. PICK b \in BOOLEAN : export' = [export EXCEPT !.pc = "graph", !.truncated = b]
  BY DEF Count, Truncated
<1>4. UNCHANGED <<rows, graph, conflicts, drifts, writer, writes>> BY DEF Count
<1>5. /\ export' \in Exports /\ export'.pc = "graph" /\ export'.nodes = export.nodes
      /\ export'.by = export.by /\ export'.request = export.request
  BY <1>2, <1>3 DEF Exports
<1>6. TypeOK' BY <1>1, <1>4, <1>5 DEF TypeOK
<1>7. RowsSound' /\ Committed' = Committed /\ Taken \subseteq Taken'
  BY <1>1, <1>4, SameRows
<1>8. WriterSound' BY <1>1, <1>4, <1>7 DEF WriterSound
<1>9. NodesSound' BY <1>1, <1>2, <1>4, <1>5, <1>7 DEF NodesSound, MayBeSeen
<1>10. SuccessorsSound' BY <1>5 DEF SuccessorsSound
<1> QED BY <1>5, <1>6, <1>7, <1>8, <1>9, <1>10, NoAnswerYet DEF ExportInv

LEMMA ReadGraphInv ==
  ASSUME ExportInv, ReadGraph \/ GraphUnread
  PROVE  ExportInv'
<1>1. TypeOK /\ RowsSound /\ WriterSound /\ NodesSound BY DEF ExportInv
<1> DEFINE S == {d \in graph.edges : d.type # "SUPERSEDES"}
           f == [e \in S |-> RawEdge(e.from, e.to, e.type, 100)]
           T == {RawEdge(e.from, e.to, e.type, 100) : e \in S}
<1>2. /\ export.pc = "graph"
      /\ \E edges \in {SetToSeq(T), <<>>} :
           export' = [export EXCEPT !.pc = "supersedes", !.raw = export.raw \o edges]
      /\ UNCHANGED <<rows, graph, conflicts, drifts, writer, writes>>
  BY DEF ReadGraph, GraphUnread, Reads
<1>3. SetToSeq(T) \in Seq(RawEdges)
  <2>1. S \in SUBSET Edges BY <1>1 DEF TypeOK
  <2>2. IsFiniteSet(S) BY <2>1, EdgesFinite, FS_Subset
  <2>3. f \in [S -> RawEdges] BY <2>1 DEF Edges, RawEdges, RawEdge
  <2>4. T \subseteq RawEdges BY <2>1 DEF Edges, RawEdges, RawEdge
  <2>5. (\A s \in S : f[s] \in T) /\ (\A t \in T : \E s \in S : f[s] = t) OBVIOUS
  <2>6. PICK S1, f1, T1 : S1 = S /\ f1 = f /\ T1 = T OBVIOUS
  <2> HIDE DEF S, f, T
  <2>7. SetToSeq(T1) \in Seq(RawEdges) BY <2>2, <2>3, <2>4, <2>5, <2>6, ListOfEdges
  <2> QED BY <2>6, <2>7
<1>4. <<>> \in Seq(RawEdges) OBVIOUS
<1> HIDE DEF S, f, T
<1>5. PICK edges \in Seq(RawEdges) :
        export' = [export EXCEPT !.pc = "supersedes", !.raw = export.raw \o edges]
  BY <1>2, <1>3, <1>4
<1>6. /\ TypeOK' /\ RowsSound' /\ WriterSound' /\ NodesSound'
      /\ export'.pc = "supersedes"
  BY <1>1, <1>2, <1>5, ReadsMore DEF Reading
<1>7. SuccessorsSound' BY <1>6 DEF SuccessorsSound
<1> QED BY <1>6, <1>7, NoAnswerYet DEF ExportInv

(* Whatever the list leaves out is not a successor: with the flags of      *)
(* Everything it has each row of the project that was superseded.          *)
LEMMA DeriveSupersedesInv ==
  ASSUME ExportInv, DeriveSupersedes
  PROVE  ExportInv'
<1>1. TypeOK /\ RowsSound /\ WriterSound /\ NodesSound BY DEF ExportInv
<1> DEFINE S == {i \in ListForExport(LineageFlags, export.request.project, "any") :
                   rows[i].by # 0}
           f == [i \in S |-> RawEdge(rows[i].by, i, "SUPERSEDES", 100)]
           T == {RawEdge(rows[i].by, i, "SUPERSEDES", 100) : i \in S}
<1>2. /\ export.pc = "supersedes"
      /\ export' = [export EXCEPT !.pc = "merged", !.raw = export.raw \o SetToSeq(T)]
      /\ UNCHANGED <<rows, graph, conflicts, drifts, writer, writes>>
  BY DEF DeriveSupersedes, Reads
<1>3. \A i \in S : i \in Ids /\ rows[i] \in Row /\ rows[i].by \in Ids
  BY <1>1 DEF ListForExport, TypeOK, Row
<1>4. /\ SetToSeq(T) \in Seq(RawEdges)
      /\ \A t \in T : \E k \in DOMAIN SetToSeq(T) : SetToSeq(T)[k] = t
  <2>1. S \in SUBSET Ids BY <1>3
  <2>2. IsFiniteSet(S) BY <2>1, IdsFinite, FS_Subset
  <2>3. f \in [S -> RawEdges] BY <1>3 DEF RawEdges, RawEdge, Relations
  <2>4. T \subseteq RawEdges BY <1>3 DEF RawEdges, RawEdge, Relations
  <2>5. (\A s \in S : f[s] \in T) /\ (\A t \in T : \E s \in S : f[s] = t) OBVIOUS
  <2>6. PICK S1, f1, T1 : S1 = S /\ f1 = f /\ T1 = T OBVIOUS
  <2> HIDE DEF S, f, T
  <2>7. /\ SetToSeq(T1) \in Seq(RawEdges)
        /\ \A t \in T1 : \E k \in DOMAIN SetToSeq(T1) : SetToSeq(T1)[k] = t
    BY <2>2, <2>3, <2>4, <2>5, <2>6, ListOfEdges
  <2> QED BY <2>6, <2>7
<1>5. PICK edges \in Seq(RawEdges) : edges = SetToSeq(T) BY <1>4
<1>6. export' = [export EXCEPT !.pc = "merged", !.raw = export.raw \o edges]
  <2> HIDE DEF T
  <2> QED BY <1>2, <1>5
<1>7. \A t \in T : \E k \in DOMAIN edges : edges[k] = t
  <2> HIDE DEF T
  <2> QED BY <1>4, <1>5
<1>8. ASSUME NEW i \in export.nodes, export.by[i] \in export.nodes,
             rows[i].by = export.by[i]
      PROVE  RawEdge(export.by[i], i, "SUPERSEDES", 100) \in T
  <2>1. /\ i \in Ids /\ export.by[i] \in Ids
        /\ rows[i].project = "gone" \/ rows[i].project = export.request.project
    BY <1>1, <1>2, <1>8 DEF NodesSound, MayBeSeen, Committed
  <2>2. rows[i].by # 0 BY <1>8, <2>1, IdsFinite
  <2>3. Present(rows, i) BY <1>1, <2>1, <2>2 DEF RowsSound
  <2>4. rows[i].project \in Projects BY <1>1, <2>1, <2>3 DEF RowsSound
  <2>5. rows[i].project = export.request.project
    BY <2>1, <2>4, ExportAssumption DEF Projects
  <2>6. rows[i].status \in {"active", "deprecated"}
    <3>1. Present(rows, i) => rows[i].status \in {"active", "deprecated"}
      BY <1>1, <2>1 DEF TypeOK, Row, Statuses, Present
    <3> QED BY <2>3, <3>1
  <2>7. i \in S
    BY <2>1, <2>2, <2>5, <2>6
       DEF ListForExport, Selects, InAudience, LineageFlags, Everything
  <2> QED BY <1>8, <2>7
<1> HIDE DEF S, f, T
<1>9. /\ TypeOK' /\ RowsSound' /\ WriterSound' /\ NodesSound'
      /\ export'.pc = "merged" /\ export'.nodes = export.nodes /\ export'.by = export.by
      /\ Lengthens(export'.raw, export.raw, edges)
  <2>1. export.pc \in Reading /\ "merged" \in Reading \cup {"clean"}
    BY <1>2 DEF Reading
  <2> QED BY <1>1, <1>2, <1>6, <2>1, ReadsMore
<1>10. SuccessorsSound'
  <2> SUFFICES ASSUME NEW i \in export.nodes, export.by[i] \in export.nodes,
                      rows[i].by = export.by[i]
               PROVE  \E n \in DOMAIN export'.raw : Key(export'.raw[n]) = Superseding(i)
    BY <1>2, <1>9 DEF SuccessorsSound, Superseding
  <2>1. PICK k \in DOMAIN edges : edges[k] = RawEdge(export.by[i], i, "SUPERSEDES", 100)
    BY <1>7, <1>8
  <2>2. PICK n \in DOMAIN export'.raw : export'.raw[n] = edges[k] BY <1>9 DEF Lengthens
  <2>3. Key(edges[k]) = Superseding(i) BY <2>1 DEF Key, RawEdge, Superseding
  <2> QED BY <2>2, <2>3
<1> QED BY <1>9, <1>10, NoAnswerYet DEF ExportInv

(* The three reads that are left add edges behind those.                   *)
LEMMA MoreInv ==
  ASSUME ExportInv, NEW next, NEW edges \in Seq(RawEdges),
         export.pc \in {"merged", "conflicts", "drifts"},
         next \in {"conflicts", "drifts", "clean"},
         export' = [export EXCEPT !.pc = next, !.raw = export.raw \o edges],
         UNCHANGED <<rows, graph, conflicts, drifts, writer, writes>>
  PROVE  ExportInv'
<1>1. TypeOK /\ RowsSound /\ WriterSound /\ NodesSound /\ SuccessorsSound BY DEF ExportInv
<1>2. export.pc \in Reading /\ next \in Reading \cup {"clean"} BY DEF Reading
<1>3. /\ TypeOK' /\ RowsSound' /\ WriterSound' /\ NodesSound'
      /\ export'.pc = next /\ export'.nodes = export.nodes /\ export'.by = export.by
      /\ Lengthens(export'.raw, export.raw, edges)
  BY <1>1, <1>2, ReadsMore
<1>4. SuccessorsSound' BY <1>1, <1>3, SuccessorsStay
<1>5. export'.pc # "answered" BY <1>3
<1> QED BY <1>3, <1>4, <1>5, NoAnswerYet DEF ExportInv

LEMMA DeriveMergedFromInv ==
  ASSUME ExportInv, DeriveMergedFrom
  PROVE  ExportInv'
<1> DEFINE list == ListForExport(Everything, export.request.project, "any")
           S == {p \in (list \cap export.nodes) \X list :
                   p[1] # p[2] /\ rows[p[2]].author \in rows[p[1]].merged}
           e(p) == RawEdge(p[1], p[2], "MERGED_FROM", 100 * rows[p[1]].corroboration)
           f == [p \in S |-> e(p)]
           T == {e(p) : p \in S}
<1>1. /\ export.pc = "merged"
      /\ export' = [export EXCEPT !.pc = "conflicts", !.raw = export.raw \o SetToSeq(T)]
      /\ UNCHANGED <<rows, graph, conflicts, drifts, writer, writes>>
  BY DEF DeriveMergedFrom, Reads
<1>2. S \in SUBSET (Ids \X Ids) BY DEF ListForExport
<1>3. SetToSeq(T) \in Seq(RawEdges)
  <2>1. IsFiniteSet(S)
    <3>1. IsFiniteSet(Ids \X Ids) BY IdsFinite, FS_Product
    <3> HIDE DEF S
    <3> QED BY <1>2, <3>1, FS_Subset
  <2>2. ASSUME NEW p \in Ids \X Ids PROVE e(p) \in RawEdges
    <3>1. p[1] \in Ids /\ p[2] \in Ids BY <2>2
    <3>2. rows[p[1]].corroboration \in Nat BY <3>1 DEF ExportInv, TypeOK, Row
    <3>3. 100 * rows[p[1]].corroboration \in Nat BY <3>2
    <3> QED BY <3>1, <3>3 DEF RawEdge, RawEdges
  <2> HIDE DEF e
  <2>3. f \in [S -> RawEdges] /\ T \subseteq RawEdges
    <3> HIDE DEF S
    <3> QED BY <1>2, <2>2
  <2>4. (\A s \in S : f[s] \in T) /\ (\A t \in T : \E s \in S : f[s] = t)
    <3> HIDE DEF S
    <3> QED OBVIOUS
  <2>5. PICK S1, f1, T1 : S1 = S /\ f1 = f /\ T1 = T OBVIOUS
  <2> HIDE DEF S, f, T
  <2>6. SetToSeq(T1) \in Seq(RawEdges) BY <2>1, <2>3, <2>4, <2>5, ListOfEdges
  <2> QED BY <2>5, <2>6
<1> HIDE DEF T
<1>4. PICK edges \in Seq(RawEdges) : edges = SetToSeq(T) BY <1>3
<1>5. export' = [export EXCEPT !.pc = "conflicts", !.raw = export.raw \o edges]
  BY <1>1, <1>4
<1> QED BY <1>1, <1>5, MoreInv

LEMMA DeriveConflictsInv ==
  ASSUME ExportInv, DeriveConflicts
  PROVE  ExportInv'
<1> DEFINE C == [winner : Ids, loser : Ids, project : Projects \cup {"", "gone"}]
           S == {k \in DOMAIN conflicts : conflicts[k].project = export.request.project}
           mine == SetToSeq(S)
           more == [n \in DOMAIN mine |->
                      RawEdge(conflicts[mine[n]].winner, conflicts[mine[n]].loser,
                              "CONFLICTS_WITH", Similarity)]
           next == IF export.request.drift THEN "drifts" ELSE "clean"
<1>1. /\ export.pc = "conflicts"
      /\ export' = [export EXCEPT !.pc = next, !.raw = export.raw \o more]
      /\ UNCHANGED <<rows, graph, conflicts, drifts, writer, writes>>
  BY DEF DeriveConflicts, Reads
<1>2. conflicts \in Seq(C) BY DEF ExportInv, TypeOK
<1>3. Len(conflicts) \in Nat /\ DOMAIN conflicts = 1..Len(conflicts)
  <2> HIDE DEF C
  <2> QED BY <1>2, LenProperties
<1>4. mine \in Seq(S)
  <2>1. IsFiniteSet(1..Len(conflicts)) BY <1>3, FS_Interval
  <2>2. S \in SUBSET (1..Len(conflicts)) BY <1>3
  <2> HIDE DEF S
  <2>3. IsFiniteSet(S) BY <2>1, <2>2, FS_Subset
  <2> QED BY <2>3, SetAsSeq
<1>5. \A k \in S : conflicts[k] \in C
  <2> HIDE DEF C
  <2> QED BY <1>2, ElementOfSeq
<1> HIDE DEF S, mine
<1>6. more \in Seq(RawEdges)
  <2>1. Len(mine) \in Nat /\ DOMAIN mine = 1..Len(mine) BY <1>4, LenProperties
  <2>2. \A n \in DOMAIN mine : mine[n] \in S BY <1>4, ElementOfSeq
  <2>3. Similarity \in Nat BY ExportAssumption
  <2>4. \A n \in DOMAIN mine :
          RawEdge(conflicts[mine[n]].winner, conflicts[mine[n]].loser,
                  "CONFLICTS_WITH", Similarity) \in RawEdges
    BY <1>5, <2>2, <2>3 DEF RawEdge, RawEdges
  <2>5. more \in [1..Len(mine) -> RawEdges] BY <2>1, <2>4
  <2> HIDE DEF more
  <2> QED BY <2>1, <2>5
<1> HIDE DEF more, next
<1>7. PICK edges \in Seq(RawEdges), pc \in {"drifts", "clean"} : edges = more /\ pc = next
  BY <1>6 DEF next
<1>8. export' = [export EXCEPT !.pc = pc, !.raw = export.raw \o edges]
  BY <1>1, <1>7
<1> QED BY <1>1, <1>8, MoreInv

LEMMA DeriveDriftsInv ==
  ASSUME ExportInv, DeriveDrifts
  PROVE  ExportInv'
<1> DEFINE D == [candidate : Ids, prior : Ids]
           more == [k \in DOMAIN drifts |-> RawEdge(drifts[k].candidate, drifts[k].prior,
                                                    "CONFLICTS_WITH", DriftSimilarity)]
<1>1. /\ export.pc = "drifts"
      /\ export' = [export EXCEPT !.pc = "clean", !.raw = export.raw \o more]
      /\ UNCHANGED <<rows, graph, conflicts, drifts, writer, writes>>
  BY DEF DeriveDrifts, Reads
<1>2. drifts \in Seq(D) BY DEF ExportInv, TypeOK
<1>3. more \in Seq(RawEdges)
  <2>1. /\ Len(drifts) \in Nat /\ DOMAIN drifts = 1..Len(drifts)
        /\ \A k \in DOMAIN drifts : drifts[k] \in D
    <3> HIDE DEF D
    <3> QED BY <1>2, LenProperties, ElementOfSeq
  <2>2. DriftSimilarity \in Nat BY ExportAssumption
  <2>3. \A k \in DOMAIN drifts : RawEdge(drifts[k].candidate, drifts[k].prior,
                                         "CONFLICTS_WITH", DriftSimilarity) \in RawEdges
    BY <2>1, <2>2 DEF RawEdge, RawEdges
  <2>4. more \in [1..Len(drifts) -> RawEdges] BY <2>1, <2>3
  <2> HIDE DEF more
  <2> QED BY <2>1, <2>4
<1> HIDE DEF more
<1>4. PICK edges \in Seq(RawEdges) : edges = more BY <1>3
<1>5. export' = [export EXCEPT !.pc = "clean", !.raw = export.raw \o edges]
  BY <1>1, <1>4
<1> QED BY <1>1, <1>5, MoreInv

-------------------------------------------------------------------------------
(* The answer.                                                             *)

LEMMA AnswerInv ==
  ASSUME ExportInv, Answer
  PROVE  ExportInv'
<1>1. TypeOK /\ RowsSound /\ WriterSound /\ NodesSound /\ SuccessorsSound BY DEF ExportInv
<1>2. export \in Exports /\ export.pc = "clean" /\ export.raw \in Seq(RawEdges)
      /\ export.nodes \in SUBSET Ids /\ export.request.dangling \in {"drop", "keep"}
  <2>1. export.pc = "clean" /\ export \in Exports \cup {NoExport}
    BY <1>1 DEF Answer, TypeOK
  <2>2. export \in Exports BY <2>1 DEF NoExport
  <2> QED BY <2>1, <2>2, ExportAssumption DEF Exports
<1>3. PICK raw, kept, done :
        /\ raw = export.raw
        /\ kept = Kept(raw, export.nodes, export.request.dangling)
        /\ done = Merged(raw, kept)
  OBVIOUS
<1>4. /\ export' = [export EXCEPT !.pc = "answered", !.edges = done.edges,
                                  !.deduped = done.count,
                                  !.dropped = Cardinality(Proper(raw) \ kept)]
      /\ UNCHANGED <<rows, graph, conflicts, drifts, writer, writes>>
  BY <1>3 DEF Answer
<1>5. raw \in Seq(RawEdges) /\ kept \subseteq Proper(raw) /\ Proper(raw) \subseteq DOMAIN raw
  BY <1>2, <1>3 DEF Kept, Proper
<1>6. Accounts(done, raw, kept) BY <1>3, <1>5, MergedAccounts
<1>7. /\ IsFiniteSet(Proper(raw)) /\ IsFiniteSet(kept)
      /\ Cardinality(Proper(raw) \ kept) \in Nat
      /\ Cardinality(kept) + Cardinality(Proper(raw) \ kept) = Cardinality(Proper(raw))
  <2>1. DOMAIN raw = 1..Len(raw) /\ Len(raw) \in Nat BY <1>5, LenProperties
  <2>2. IsFiniteSet(DOMAIN raw) BY <2>1, FS_Interval
  <2>3. IsFiniteSet(Proper(raw)) BY <1>5, <2>2, FS_Subset
  <2>4. IsFiniteSet(kept) BY <1>5, <2>3, FS_Subset
  <2>5. Proper(raw) \cap kept = kept BY <1>5
  <2>6. /\ IsFiniteSet(Proper(raw) \ kept)
        /\ Cardinality(Proper(raw) \ kept)
             = Cardinality(Proper(raw)) - Cardinality(Proper(raw) \cap kept)
    BY <2>3, FS_Difference
  <2>7. /\ Cardinality(Proper(raw)) \in Nat /\ Cardinality(kept) \in Nat
        /\ Cardinality(Proper(raw) \ kept) \in Nat
    BY <2>3, <2>4, <2>6, FS_CardinalityType
  <2> QED BY <2>3, <2>4, <2>5, <2>6, <2>7
<1>8. /\ done.edges \in SUBSET RawEdges /\ done.count \in Nat /\ IsFiniteSet(done.edges)
      /\ OneEach(done.edges)
      /\ Cardinality(done.edges) + done.count = Cardinality(kept)
      /\ \A k \in kept : \E c \in done.edges : Key(c) = Key(raw[k])
                                               /\ raw[k].weight <= c.weight
      /\ \A c \in done.edges : \E k \in kept : Key(c) = Key(raw[k])
  BY <1>6 DEF Accounts, Deduping
<1>9. /\ export' \in Exports /\ export'.pc = "answered" /\ export'.nodes = export.nodes
      /\ export'.by = export.by /\ export'.request = export.request
      /\ export'.raw = raw /\ export'.edges = done.edges /\ export'.deduped = done.count
      /\ export'.dropped = Cardinality(Proper(raw) \ kept)
  <2>1. PICK edges, count, dropped :
          edges = done.edges /\ count = done.count /\ dropped = Cardinality(Proper(raw) \ kept)
    OBVIOUS
  <2>2. edges \in SUBSET RawEdges /\ count \in Nat /\ dropped \in Nat BY <1>7, <1>8, <2>1
  <2>3. export' = [export EXCEPT !.pc = "answered", !.edges = edges, !.deduped = count,
                                 !.dropped = dropped]
    BY <1>4, <2>1
  <2>4. /\ export' \in Exports /\ export'.pc = "answered" /\ export'.nodes = export.nodes
        /\ export'.by = export.by /\ export'.request = export.request
        /\ export'.raw = export.raw /\ export'.edges = edges /\ export'.deduped = count
        /\ export'.dropped = dropped
    BY <1>2, <2>2, <2>3 DEF Exports
  <2> QED BY <1>3, <2>1, <2>4
<1>10. TypeOK' BY <1>1, <1>4, <1>9 DEF TypeOK
<1>11. RowsSound' /\ Committed' = Committed /\ Taken \subseteq Taken'
  BY <1>1, <1>4, SameRows
<1>12. WriterSound' BY <1>1, <1>4, <1>11 DEF WriterSound
<1>13. NodesSound' BY <1>1, <1>2, <1>4, <1>9, <1>11 DEF NodesSound, MayBeSeen
<1>14. SuccessorsSound' BY <1>9 DEF SuccessorsSound
<1>15. NothingHidden'
  <2>1. \A i \in export.nodes : MayBeSeen(i, export.request)'
    BY <1>9, <1>13 DEF NodesSound
  <2>2. ASSUME export.request.dangling # "keep", NEW e \in done.edges
        PROVE  e.from \in export.nodes /\ e.to \in export.nodes
    <3>1. PICK k \in kept : Key(e) = Key(raw[k]) BY <1>8
    <3>2. EndsIn(raw[k], export.nodes) BY <1>2, <1>3, <2>2 DEF Kept
    <3> QED BY <3>1, <3>2 DEF EndsIn, Key
  <2> DEFINE ends == IF export.request.dangling = "keep" THEN {}
                     ELSE UNION {{e.from, e.to} : e \in done.edges}
  <2>3. ends \subseteq export.nodes BY <2>2
  <2>4. \A i \in export.nodes \cup ends : MayBeSeen(i, export.request)'
    <3> HIDE DEF ends
    <3> QED BY <2>1, <2>3
  <2> QED BY <1>9, <2>4 DEF NothingHidden
<1>16. HygieneAccounts'
  <2>1. Cardinality(done.edges) + done.count + Cardinality(Proper(raw) \ kept)
          = Cardinality(Proper(raw))
    <3>1. Cardinality(done.edges) \in Nat BY <1>8, FS_CardinalityType
    <3> QED BY <1>7, <1>8, <3>1
  <2>2. \A d, e \in Cytoscape(export').edges : d.id = e.id => d = e
    <3> SUFFICES ASSUME NEW d \in done.edges, NEW e \in done.edges,
                        <<d.type, d.from, d.to>> = <<e.type, e.from, e.to>>
                 PROVE  d = e
      BY <1>9 DEF Cytoscape
    <3>1. Key(d) = Key(e) BY DEF Key
    <3> QED BY <1>8, <3>1 DEF OneEach
  <2>3. ASSUME NEW e \in done.edges, NEW k \in Proper(raw), Key(raw[k]) = Key(e)
        PROVE  raw[k].weight <= e.weight
    <3>1. PICK j \in kept : Key(e) = Key(raw[j]) BY <1>8
    <3>2. k \in kept BY <1>3, <2>3, <3>1 DEF Kept, EndsIn, Key
    <3>3. PICK c \in done.edges : Key(c) = Key(raw[k]) /\ raw[k].weight <= c.weight
      BY <1>8, <3>2
    <3>4. c = e BY <1>8, <2>3, <3>3 DEF OneEach
    <3> QED BY <3>3, <3>4
  <2> QED BY <1>9, <2>1, <2>2, <2>3 DEF HygieneAccounts
<1>17. LineageComplete'
  <2> SUFFICES ASSUME NEW i \in export.nodes, export.by[i] \in export.nodes,
                      rows[i].by = export.by[i]
               PROVE  \E e \in done.edges : Key(e) = <<export.by[i], i, "SUPERSEDES">>
    BY <1>4, <1>9 DEF LineageComplete
  <2>1. PICK k \in DOMAIN raw : Key(raw[k]) = <<export.by[i], i, "SUPERSEDES">>
    BY <1>1, <1>2, <1>3 DEF SuccessorsSound, Superseding
  <2>2. raw[k].from = export.by[i] /\ raw[k].to = i BY <2>1 DEF Key
  <2>3. export.by[i] # i BY <1>1, <1>2 DEF RowsSound
  <2>4. k \in kept BY <1>3, <2>2, <2>3 DEF Kept, Proper, EndsIn
  <2> QED BY <1>8, <2>1, <2>4
<1> QED BY <1>10, <1>11, <1>12, <1>13, <1>14, <1>15, <1>16, <1>17 DEF ExportInv

-------------------------------------------------------------------------------
(* The theorems.                                                           *)

LEMMA NextInv == ExportInv /\ [Next]_vars => ExportInv'
<1> SUFFICES ASSUME ExportInv, [Next]_vars PROVE ExportInv' OBVIOUS
<1>1. CASE UNCHANGED vars
  <2>1. UNCHANGED <<rows, graph, conflicts, drifts, writer, export, writes>>
    BY <1>1 DEF vars
  <2>2. TypeOK' BY <2>1 DEF ExportInv, TypeOK
  <2>3. RowsSound' /\ WriterSound'
    BY <2>1 DEF ExportInv, RowsSound, WriterSound, Present, Projects, Committed, Taken
  <2>4. NodesSound' BY <2>1 DEF ExportInv, NodesSound, MayBeSeen, Committed, Taken
  <2>5. SuccessorsSound' BY <2>1 DEF ExportInv, SuccessorsSound, Superseding
  <2>6. NothingHidden' BY <2>1 DEF ExportInv, NothingHidden, MayBeSeen, Answered
  <2>7. HygieneAccounts' BY <2>1 DEF ExportInv, HygieneAccounts, Answered
  <2>8. LineageComplete' BY <2>1 DEF ExportInv, LineageComplete, Answered
  <2> QED BY <2>2, <2>3, <2>4, <2>5, <2>6, <2>7, <2>8 DEF ExportInv
<1>2. CASE export.pc # "answered" /\ WriteStep
  <2>1. TypeOK /\ RowsSound /\ WriterSound /\ NodesSound /\ SuccessorsSound
    BY DEF ExportInv
  <2>2. Beside /\ Disturbed BY <1>2, <2>1, WritesBeside
  <2>3. NodesSound' /\ SuccessorsSound' BY <2>1, <2>2, NodesBeside
  <2>4. SameExport BY <2>1, <2>2, DisturbedTypes
  <2>5. export'.pc # "answered" BY <1>2, <2>4 DEF SameExport
  <2> QED BY <2>2, <2>3, <2>5, NoAnswerYet DEF ExportInv, Beside
<1>3. CASE \E request \in Requests : List(request) BY <1>3, ListInv
<1>4. CASE Count BY <1>4, CountInv
<1>5. CASE ReadGraph \/ GraphUnread BY <1>5, ReadGraphInv
<1>6. CASE DeriveSupersedes BY <1>6, DeriveSupersedesInv
<1>7. CASE DeriveMergedFrom BY <1>7, DeriveMergedFromInv
<1>8. CASE DeriveConflicts BY <1>8, DeriveConflictsInv
<1>9. CASE DeriveDrifts BY <1>9, DeriveDriftsInv
<1>10. CASE Answer BY <1>10, AnswerInv
<1> QED BY <1>1, <1>2, <1>3, <1>4, <1>5, <1>6, <1>7, <1>8, <1>9, <1>10 DEF Next, ExportStep

LEMMA ExportInvariant == Spec => []ExportInv
BY InitInv, NextInv, PTL DEF Spec

(* The state is always of its type: the tables and the graph that the      *)
(* commands and tools write, and the export that is put together of them.  *)
THEOREM TypeCorrect == Spec => []TypeOK
<1>1. ExportInv => TypeOK BY DEF ExportInv
<1> QED BY <1>1, ExportInvariant, PTL

(* No answer names a crystal, as a node or as the end of an edge it was    *)
(* not asked to keep dangling, that is of another project or audience or   *)
(* that a request without the quarantined must not see, whatever is        *)
(* committed, reviewed or forgotten between the reads of graph_export.     *)
THEOREM HiddenStaysHidden == Spec => []NothingHidden
<1>1. ExportInv => NothingHidden BY DEF ExportInv
<1> QED BY <1>1, ExportInvariant, PTL

(* _apply_hygiene accounts for every edge that was read, gives Cytoscape   *)
(* one edge per id and keeps the greatest weight, for a list of edges of   *)
(* any length and in any order.                                            *)
THEOREM HygieneBalances == Spec => []HygieneAccounts
<1>1. ExportInv => HygieneAccounts BY DEF ExportInv
<1> QED BY <1>1, ExportInvariant, PTL

(* An answer has the SUPERSEDES edge of each pair of its nodes of which    *)
(* the one is the successor of the other, and was when they were listed:   *)
(* _derive_supersedes reads the rows later, and past all the filters.      *)
THEOREM LineageIsComplete == Spec => []LineageComplete
<1>1. ExportInv => LineageComplete BY DEF ExportInv
<1> QED BY <1>1, ExportInvariant, PTL

===============================================================================
