--------------------------- MODULE PromotionsProofs ---------------------------
(***************************************************************************)
(* Theorems about Promotions for any number of processes, authors,         *)
(* crystals and crashes, any k_corroboration and any use of its options.   *)
(***************************************************************************)
EXTENDS Promotions, FiniteSetTheorems, TLAPS

-------------------------------------------------------------------------------
(* The plans, and what is left of them after each transaction *)

LEMMA PlanSteps ==
  /\ \A s \in Plans : s = Admission \/ s = Candidacy \/ s = Proposal
                      \/ s = Admitted \/ s = Deferral
  /\ Head(Admission) = "record" /\ Head(Candidacy) = "insert"
  /\ Head(Proposal) = "pend" /\ Head(Admitted) = "record" /\ Head(Deferral) = "pend"
  /\ Len(Admission) # 1 /\ Tail(Admission) = Candidacy
  /\ Len(Deferral) # 1 /\ Tail(Deferral) = Candidacy
  /\ Len(Candidacy) = 1 /\ Len(Proposal) = 1 /\ Len(Admitted) = 1
<1>1. Len(Admission) = 2 /\ Len(Deferral) = 2 /\ Len(Candidacy) = 1
      /\ Len(Proposal) = 1 /\ Len(Admitted) = 1
  BY DEF Admission, Candidacy, Proposal, Admitted, Deferral
<1>2. Tail(Admission) = Candidacy /\ Tail(Deferral) = Candidacy
  BY DEF Admission, Candidacy, Deferral
<1> QED BY <1>1, <1>2 DEF Plans, Admission, Candidacy, Proposal, Admitted, Deferral

(* Crystals that may not be in the table yet. *)
Records(p) == job[p].steps = Admission \/ job[p].steps = Admitted
Inserts(p) == \/ job[p].steps = Admission \/ job[p].steps = Candidacy
              \/ job[p].steps = Deferral

(* Every plan tells its steps from those of the others. *)
LEMMA PlansDiffer ==
  /\ Candidacy # Admission /\ Candidacy # Admitted /\ Candidacy # Deferral
  /\ Candidacy # Proposal /\ Admission # Admitted /\ Admission # Deferral
  /\ Admission # Proposal /\ Admitted # Deferral /\ Admitted # Proposal
  /\ Deferral # Proposal
<1>1. /\ Candidacy # Admission /\ Candidacy # Admitted /\ Candidacy # Deferral
      /\ Candidacy # Proposal /\ Admission # Deferral /\ Admission # Proposal
      /\ Admitted # Deferral /\ Admitted # Proposal
  BY PlanSteps
<1>2. Admission # Admitted /\ Deferral # Proposal
  BY PlanSteps
<1> QED BY <1>1, <1>2

-------------------------------------------------------------------------------
(* What the beginnings of the jobs have in common *)

Running(p) == job[p] # NoJob

BelievedRow(r) == r.layer = "semantic" \/ r.state = "validated"

(* A new job of p for the id just minted. *)
Begins(p, steps, row, gate) ==
  /\ Begin(p, steps, row, gate)
  /\ steps \in Plans /\ gate \in Layers
  /\ forced \subseteq forced' /\ forced' \subseteq forced \cup {NewId}

LEMMA NewIdTyped ==
  ASSUME TypeOK, Mint
  PROVE  /\ NewId \in Ids /\ minted' \in 0..MaxId
         /\ minted' = NewId /\ NewId = minted + 1 /\ minted \in Nat
  BY PromotionsAssumption DEF TypeOK, Mint, NewId, Ids

CommitBegins(s, steps, row, gate) ==
  /\ Begins(s, steps, row, gate)
  /\ row \in Row /\ row.layer = gate
  /\ steps \in {Admission, Candidacy, Proposal, Deferral}
  /\ steps = Admission => gate \in Gates /\ (window => NewId \in forced')
  /\ steps \in {Candidacy, Deferral} => ~BelievedRow(row)
  /\ UNCHANGED basis

Commits(s) == EpisodicCommit(s) \/ SemanticCommit(s) \/ ForcedCommit(s)
              \/ ProceduralCommit(s)

LEMMA NewRowTyped ==
  ASSUME NEW layer \in Layers, NEW tier \in Tiers, NEW author \in Authors,
         NEW state \in {"quarantined", "unverified", "candidate", "validated"},
         NEW status \in {"active", "candidate"}
  PROVE  /\ NewRow(layer, tier, author, state, status) \in Row
         /\ NewRow(layer, tier, author, state, status).layer = layer
         /\ NewRow(layer, tier, author, state, status).state = state
  BY DEF NewRow, Row

LEMMA CommitForm ==
  ASSUME TypeOK, NEW s \in Servers, Commits(s)
  PROVE  \E steps, row, gate : CommitBegins(s, steps, row, gate)
<1>1. CASE EpisodicCommit(s)
  <2>1. PICK tier \in Writers["episodic"], author \in Authors :
          Begin(s, Candidacy,
                NewRow("episodic", tier, author,
                       IF Quarantines(tier, "episodic") THEN "quarantined" ELSE "unverified",
                       "active"),
                "episodic")
    BY <1>1 DEF EpisodicCommit
  <2>2. tier \in Tiers
    BY DEF Writers, Tiers
  <2> DEFINE state == IF Quarantines(tier, "episodic") THEN "quarantined" ELSE "unverified"
             r == NewRow("episodic", tier, author, state, "active")
  <2>3. state \in {"quarantined", "unverified"}
    OBVIOUS
  <2>4. r \in Row /\ r.layer = "episodic" /\ r.state \in {"quarantined", "unverified"}
    BY <2>2, <2>3, NewRowTyped DEF Layers
  <2>5. CommitBegins(s, Candidacy, r, "episodic")
    BY <1>1, <2>1, <2>4, PlansDiffer
    DEF EpisodicCommit, CommitBegins, Begins, Plans, Layers, BelievedRow
  <2> QED BY <2>5
<1>2. CASE SemanticCommit(s)
  <2>1. PICK tier \in Writers["semantic"], author \in Authors, witnesses \in Witnesses :
          \/ /\ Admits(Cardinality(witnesses), K)
             /\ Begin(s, Admission, Fact(tier, author), "semantic")
          \/ Begin(s, Proposal, Fact(tier, author), "semantic")
    BY <1>2 DEF SemanticCommit
  <2>2. tier \in Tiers
    BY DEF Writers, Tiers
  <2>3. Fact(tier, author) \in Row /\ Fact(tier, author).layer = "semantic"
    BY <2>2, NewRowTyped DEF Fact, Layers
  <2>4. CASE /\ Admits(Cardinality(witnesses), K)
             /\ Begin(s, Admission, Fact(tier, author), "semantic")
    <3>1. CommitBegins(s, Admission, Fact(tier, author), "semantic")
      BY <1>2, <2>3, <2>4, PlansDiffer
      DEF SemanticCommit, CommitBegins, Begins, Plans, Layers, Gates, Admits
    <3> QED BY <3>1
  <2>5. CASE Begin(s, Proposal, Fact(tier, author), "semantic")
    <3>1. CommitBegins(s, Proposal, Fact(tier, author), "semantic")
      BY <1>2, <2>3, <2>5, PlansDiffer
      DEF SemanticCommit, CommitBegins, Begins, Plans, Layers
    <3> QED BY <3>1
  <2> QED BY <2>1, <2>4, <2>5
<1>3. CASE ForcedCommit(s)
  <2>1. PICK author \in Authors : Begin(s, Admission, Fact(0, author), "semantic")
    BY <1>3 DEF ForcedCommit
  <2>2. Fact(0, author) \in Row /\ Fact(0, author).layer = "semantic"
    BY NewRowTyped DEF Fact, Layers, Tiers
  <2>3. CommitBegins(s, Admission, Fact(0, author), "semantic")
    BY <1>3, <2>1, <2>2, PlansDiffer
    DEF ForcedCommit, CommitBegins, Begins, Plans, Layers, Gates
  <2> QED BY <2>3
<1>4. CASE ProceduralCommit(s)
  <2>1. PICK tier \in Writers["procedural"], author \in Authors :
          \/ Begin(s, Candidacy,
                   NewRow("procedural", tier, author, "candidate", "candidate"),
                   "procedural")
          \/ Begin(s, Deferral,
                   NewRow("procedural", tier, author, "candidate", "candidate"),
                   "procedural")
          \/ /\ ~window
             /\ Begin(s, Admission,
                      NewRow("procedural", tier, author, "validated", "active"),
                      "procedural")
    BY <1>4 DEF ProceduralCommit
  <2> DEFINE cand == NewRow("procedural", tier, author, "candidate", "candidate")
             skill == NewRow("procedural", tier, author, "validated", "active")
  <2>2. tier \in Tiers
    BY DEF Writers, Tiers
  <2>3. cand \in Row /\ cand.layer = "procedural" /\ cand.state = "candidate"
    BY <2>2, NewRowTyped DEF Layers
  <2>4. skill \in Row /\ skill.layer = "procedural"
    BY <2>2, NewRowTyped DEF Layers
  <2>5. CASE Begin(s, Candidacy, cand, "procedural")
    <3>1. CommitBegins(s, Candidacy, cand, "procedural")
      BY <1>4, <2>3, <2>5, PlansDiffer
      DEF ProceduralCommit, CommitBegins, Begins, Plans, Layers, BelievedRow
    <3> QED BY <3>1
  <2>6. CASE Begin(s, Deferral, cand, "procedural")
    <3>1. CommitBegins(s, Deferral, cand, "procedural")
      BY <1>4, <2>3, <2>6, PlansDiffer
      DEF ProceduralCommit, CommitBegins, Begins, Plans, Layers, BelievedRow
    <3> QED BY <3>1
  <2>7. CASE ~window /\ Begin(s, Admission, skill, "procedural")
    <3>1. CommitBegins(s, Admission, skill, "procedural")
      BY <1>4, <2>4, <2>7, PlansDiffer
      DEF ProceduralCommit, CommitBegins, Begins, Plans, Layers, Gates
    <3> QED BY <3>1
  <2> QED BY <2>1, <2>5, <2>6, <2>7
<1> QED BY <1>1, <1>2, <1>3, <1>4 DEF Commits

(* The least trusted of some tiers is one of them, and bounds the others.  *)
LEMMA MinTierBounds ==
  ASSUME NEW S \in SUBSET Tiers, S # {}
  PROVE  MinTier(S) \in S /\ \A u \in S : u <= MinTier(S)
<1>1. \E t \in S : \A u \in S : u <= t
  <2>1. \A u \in S : u = 0 \/ u = 1 \/ u = 2 \/ u = 3
    BY DEF Tiers
  <2>2. CASE 3 \in S
    BY <2>1, <2>2
  <2>3. CASE 3 \notin S /\ 2 \in S
    BY <2>1, <2>3
  <2>4. CASE 3 \notin S /\ 2 \notin S /\ 1 \in S
    BY <2>1, <2>4
  <2>5. CASE 3 \notin S /\ 2 \notin S /\ 1 \notin S
    BY <2>1, <2>5
  <2> QED BY <2>2, <2>3, <2>4, <2>5
<1> QED BY <1>1 DEF MinTier

Sources(c) == {rows[j].author : j \in c}

Enough(c) == Cardinality(Sources(c)) >= LowestBar(c)

LEMMA RowsTyped ==
  ASSUME TypeOK, NEW i \in Ids, Present(i)
  PROVE  rows[i] \in Row
  BY DEF TypeOK, Present, NoRow

LEMMA IndependentTyped ==
  ASSUME TypeOK, NEW c \in SUBSET Ids, \A i \in c : Present(i)
  PROVE  Cardinality(Sources(c)) \in Nat
<1>1. Sources(c) \in SUBSET Authors
  BY RowsTyped DEF Sources, Row
<1> QED BY <1>1, PromotionsAssumption, FS_Subset, FS_CardinalityType

DreamBegins(d, steps, c) ==
  /\ Begins(d, steps, NoRow, "semantic")
  /\ steps \in {Admitted, Proposal}
  /\ UNCHANGED forced
  /\ c \in SUBSET Ids /\ c # {}
  /\ basis' = [basis EXCEPT ![NewId] = c]
  /\ \A j \in c : Present(j) /\ rows[j].tier <= 1
  /\ steps = Admitted => ~window /\ Enough(c)

LEMMA ConsolidateForm ==
  ASSUME TypeOK, NEW d \in Dreamers, Consolidate(d)
  PROVE  \E steps, c : DreamBegins(d, steps, c)
<1>1. PICK c \in SUBSET Ids : \E k \in Bars(c) :
        /\ Cluster(c) /\ ~LowTrust(c)
        /\ basis' = [basis EXCEPT ![NewId] = c]
        /\ \/ Admits(Independent(c), k) /\ Begin(d, Admitted, NoRow, "semantic")
           \/ ~Admits(Independent(c), k) /\ Begin(d, Proposal, NoRow, "semantic")
  BY DEF Consolidate
<1>2. PICK k \in Bars(c) :
        \/ Admits(Independent(c), k) /\ Begin(d, Admitted, NoRow, "semantic")
        \/ ~Admits(Independent(c), k) /\ Begin(d, Proposal, NoRow, "semantic")
  BY <1>1
<1>3. c # {} /\ \A j \in c : Present(j) /\ rows[j] \in Row
  BY <1>1, RowsTyped DEF Cluster
<1>4. \A j \in c : rows[j].tier <= 1
  <2> DEFINE S == {rows[i].tier : i \in c}
  <2>1. S \in SUBSET Tiers /\ S # {}
    BY <1>3 DEF Row
  <2>2. MinTier(S) \in Tiers /\ \A u \in S : u <= MinTier(S)
    BY <2>1, MinTierBounds
  <2>3. MinTier(S) <= 1
    BY <1>1, <2>2 DEF LowTrust, WithinCeiling, Ceiling
  <2>4. ASSUME NEW j \in c PROVE rows[j].tier <= 1
    <3>1. rows[j].tier \in S OBVIOUS
    <3> HIDE DEF S
    <3>2. rows[j].tier \in Tiers /\ MinTier(S) \in Tiers BY <2>1, <2>2, <3>1
    <3>3. rows[j].tier <= MinTier(S) BY <2>2, <3>1
    <3> QED BY <2>3, <3>2, <3>3 DEF Tiers
  <2> QED BY <2>4
<1>5. ASSUME Admits(Independent(c), k) PROVE Enough(c)
  <2>1. Cardinality(Sources(c)) >= k /\ Cardinality(Sources(c)) \in Nat
    BY <1>3, <1>5, IndependentTyped DEF Admits, Independent, Sources
  <2>2. k = K \/ (k = Lowered /\ Stc /\ TwoEpisodes(c))
    BY DEF Bars
  <2>3. K \in Int /\ Lowered \in Int
    BY PromotionsAssumption DEF Lowered
  <2>4. LowestBar(c) <= k /\ LowestBar(c) \in Int
    BY <2>2, <2>3 DEF LowestBar
  <2> QED BY <2>1, <2>2, <2>3, <2>4 DEF Enough
<1>6. CASE Admits(Independent(c), k) /\ Begin(d, Admitted, NoRow, "semantic")
  <2>1. DreamBegins(d, Admitted, c)
    BY <1>1, <1>3, <1>4, <1>5, <1>6
    DEF DreamBegins, Begins, Plans, Layers, Admits, Consolidate
  <2> QED BY <2>1
<1>7. CASE Begin(d, Proposal, NoRow, "semantic")
  <2>1. DreamBegins(d, Proposal, c)
    BY <1>1, <1>3, <1>4, <1>7, PlansDiffer
    DEF DreamBegins, Begins, Plans, Layers, Consolidate
  <2> QED BY <2>1
<1> QED BY <1>2, <1>6, <1>7

-------------------------------------------------------------------------------
(* The inductive invariant *)

(* What holds of a job wherever it has got to: its crystal is not in the   *)
(* table yet; what it has still to record is forced in or was admitted     *)
(* outside the window, on enough sources if Dream proposes it; and what it *)
(* is about to insert is recorded, unless nobody has to believe it.        *)
JobSound(p) ==
  /\ job[p].id \in Ids /\ job[p].id <= minted
  /\ ~Present(job[p].id)
  /\ Inserts(p) => job[p].row \in Row /\ job[p].row.layer = job[p].gate
  /\ Records(p) => /\ job[p].gate \in Gates
                   /\ window => job[p].id \in forced
                   /\ basis[job[p].id] # {} => Enough(basis[job[p].id])
  /\ job[p].steps = Candidacy /\ BelievedRow(job[p].row)
       => <<job[p].id, job[p].gate>> \in ledger
  /\ job[p].steps = Deferral => ~BelievedRow(job[p].row)

JobsSound == \A p \in Procs : Running(p) => JobSound(p)

OneWriter ==
  \A p, q \in Procs : Running(p) /\ Running(q) /\ p # q => job[p].id # job[q].id

NothingAhead ==
  /\ \A i \in Ids : i > minted => ~Present(i) /\ basis[i] = {}
  /\ \A entry \in ledger : entry[1] <= minted

BasisSound ==
  \A i \in Ids : \A j \in basis[i] : Present(j) /\ rows[j].tier <= 1

LedgerSound ==
  /\ window => \A entry \in ledger : entry[1] \in forced
  /\ \A i \in Ids : <<i, "semantic">> \in ledger /\ basis[i] # {} => Enough(basis[i])

(* What a crystal descends from stays in the table. *)
RootsThere == \A i \in Ids : Present(i) => root[i] \in Ids /\ Present(root[i])

IInv == /\ TypeOK /\ JobsSound /\ OneWriter /\ NothingAhead /\ BasisSound
        /\ LedgerSound /\ RootsThere /\ AdmissionsLogged

LEMMA InitInv == Init => IInv
  BY PromotionsAssumption
  DEF Init, IInv, TypeOK, JobsSound, OneWriter, NothingAhead, BasisSound,
      LedgerSound, RootsThere, AdmissionsLogged, Running, Present, NoRow, Ids

-------------------------------------------------------------------------------
(* A job begins, of a commit (with no cluster) or of Dream *)

Opens(p, steps, row, gate, c) ==
  /\ Begins(p, steps, row, gate)
  /\ row \in Row \cup {NoRow}
  /\ steps \notin {Proposal, Admitted} => row \in Row /\ row.layer = gate
  /\ steps \in {Admission, Admitted} => /\ gate \in Gates
                                        /\ window => NewId \in forced'
                                        /\ c # {} => Enough(c)
  /\ steps \in {Candidacy, Deferral} => ~BelievedRow(row)
  /\ c \in SUBSET Ids
  /\ \A j \in c : Present(j) /\ rows[j].tier <= 1
  /\ basis' = [basis EXCEPT ![NewId] = c]

LEMMA CommitOpens ==
  ASSUME IInv, NEW s \in Servers, Commits(s)
  PROVE  \E steps, row, gate : Opens(s, steps, row, gate, {})
<1>1. PICK steps, row, gate : CommitBegins(s, steps, row, gate)
  BY CommitForm DEF IInv
<1>2. NewId \in Ids /\ NewId > minted
  BY <1>1, NewIdTyped DEF IInv, CommitBegins, Begins, Begin
<1>3. basis[NewId] = {} /\ basis \in [Ids -> SUBSET Ids]
  BY <1>2 DEF IInv, NothingAhead, TypeOK
<1>4. basis' = [basis EXCEPT ![NewId] = {}]
  BY <1>1, <1>2, <1>3 DEF CommitBegins
<1>5. Opens(s, steps, row, gate, {})
  BY <1>1, <1>4, PlansDiffer DEF CommitBegins, Opens
<1> QED BY <1>5

LEMMA DreamOpens ==
  ASSUME IInv, NEW d \in Dreamers, Consolidate(d)
  PROVE  \E steps, c : Opens(d, steps, NoRow, "semantic", c)
<1>1. PICK steps, c : DreamBegins(d, steps, c)
  BY ConsolidateForm DEF IInv
<1>2. Opens(d, steps, NoRow, "semantic", c)
  BY <1>1, PlansDiffer DEF DreamBegins, Opens, Gates
<1> QED BY <1>2

LEMMA OpensPreserves ==
  ASSUME IInv, NEW p \in Procs, NEW steps, NEW row, NEW gate, NEW c,
         Opens(p, steps, row, gate, c)
  PROVE  IInv'
<1>0. PICK n : n = NewId
  OBVIOUS
<1> DEFINE j == [steps |-> steps, id |-> n, row |-> row, gate |-> gate]
<1>1. /\ n \in Ids /\ minted' \in 0..MaxId /\ minted' = n
      /\ n = minted + 1 /\ minted \in Nat
  BY <1>0, NewIdTyped DEF IInv, Opens, Begins, Begin
<1>2. /\ job' = [job EXCEPT ![p] = j]
      /\ UNCHANGED <<rows, ledger, pending, window, crashes, root>>
      /\ steps \in Plans /\ gate \in Layers
      /\ forced \subseteq forced' /\ forced' \subseteq forced \cup {n}
  BY <1>0 DEF Opens, Begins, Begin, tables
<1>3. j \in [steps : Plans, id : Ids, row : Row \cup {NoRow}, gate : Layers]
  BY <1>1, <1>2 DEF Opens
<1>4. TypeOK'
  BY <1>1, <1>2, <1>3 DEF IInv, TypeOK, Opens
<1>5. \A i \in Ids : basis'[i] = IF i = n THEN c ELSE basis[i]
  BY <1>0 DEF IInv, TypeOK, Opens
<1>6. ASSUME NEW i \in Ids, Enough(basis'[i]) PROVE Enough(basis[i])'
  BY <1>2, <1>6 DEF Enough, Sources, LowestBar, TwoEpisodes
<1>7. \A q \in Procs : job'[q] = IF q = p THEN j ELSE job[q]
  BY <1>2 DEF IInv, TypeOK
<1>8. ~Present(n)
  BY <1>1 DEF IInv, NothingAhead
<1>9. JobsSound'
  <2> SUFFICES ASSUME NEW q \in Procs, Running(q)'
               PROVE  JobSound(q)'
    BY DEF JobsSound
  <2>1. CASE q = p
    <3>1. job'[q].steps = steps /\ job'[q].id = n /\ job'[q].row = row
          /\ job'[q].gate = gate
      BY <1>7, <2>1
    <3>2. basis'[n] = c
      BY <1>1, <1>5
    <3>3. Inserts(q)' => row \in Row /\ row.layer = gate
      BY <3>1, PlansDiffer DEF Opens, Inserts
    <3>4. Records(q)' => /\ gate \in Gates
                         /\ window => n \in forced'
                         /\ c # {} => Enough(c)
      BY <1>0, <3>1 DEF Opens, Records
    <3>5. steps \in {Candidacy, Deferral} => ~BelievedRow(row)
      BY DEF Opens
    <3>6. n \in Ids /\ n <= minted' /\ ~Present(n)'
      BY <1>1, <1>2, <1>8 DEF Present
    <3> QED BY <1>2, <1>6, <3>1, <3>2, <3>3, <3>4, <3>5, <3>6 DEF JobSound
  <2>2. CASE q # p
    <3>1. job'[q] = job[q] /\ JobSound(q)
      BY <1>7, <2>2 DEF IInv, JobsSound, Running
    <3>2. job[q].id \in Ids /\ job[q].id <= minted
      BY <3>1 DEF JobSound
    <3>3. job[q].id # n /\ job[q].id <= minted'
      BY <3>2, <1>1 DEF Ids
    <3>4. basis'[job[q].id] = basis[job[q].id]
      BY <3>2, <3>3, <1>5
    <3>5. (Inserts(q)' <=> Inserts(q)) /\ (Records(q)' <=> Records(q))
          /\ (Present(job[q].id)' <=> Present(job[q].id))
      BY <3>1, <1>2 DEF Inserts, Records, Present
    <3> QED BY <1>2, <1>6, <3>1, <3>2, <3>3, <3>4, <3>5 DEF JobSound
  <2> QED BY <2>1, <2>2
<1>10. OneWriter'
  <2> SUFFICES ASSUME NEW q \in Procs, NEW r \in Procs, Running(q)', Running(r)',
                      q # r
               PROVE  job'[q].id # job'[r].id
    BY DEF OneWriter
  <2>1. ASSUME NEW o \in Procs, o # p, Running(o)'
        PROVE  job'[o] = job[o] /\ Running(o) /\ job[o].id # n
    <3>1. job'[o] = job[o] /\ Running(o)
      BY <1>7, <2>1 DEF Running
    <3>2. job[o].id \in Ids /\ job[o].id <= minted
      BY <3>1 DEF IInv, JobsSound, JobSound
    <3> QED BY <3>1, <3>2, <1>1 DEF Ids
  <2>2. job'[p].id = n
    BY <1>7
  <2> QED BY <2>1, <2>2 DEF IInv, OneWriter
<1>11. NothingAhead'
  <2> SUFFICES ASSUME NEW i \in Ids, i > minted' PROVE ~Present(i)' /\ basis'[i] = {}
    <3>1. \A entry \in ledger' : entry[1] \in Nat /\ entry[1] <= minted'
      BY <1>1, <1>2 DEF IInv, TypeOK, NothingAhead, Ids
    <3> QED BY <3>1 DEF NothingAhead
  <2>1. i > minted /\ i # n
    BY <1>1 DEF Ids
  <2> QED BY <2>1, <1>2, <1>5 DEF IInv, NothingAhead, Present
<1>12. BasisSound'
  BY <1>2, <1>5 DEF IInv, BasisSound, Present, Opens
<1>13. LedgerSound'
  <2>1. window' => \A entry \in ledger' : entry[1] \in forced'
    BY <1>2 DEF IInv, LedgerSound
  <2>2. ASSUME NEW i \in Ids, <<i, "semantic">> \in ledger', basis'[i] # {}
        PROVE  Enough(basis[i])'
    <3>1. i <= minted
      BY <1>2, <2>2 DEF IInv, NothingAhead
    <3>2. i # n /\ basis'[i] = basis[i]
      BY <3>1, <1>1, <1>5 DEF Ids
    <3>3. Enough(basis[i])
      BY <1>2, <2>2, <3>2 DEF IInv, LedgerSound
    <3> QED BY <3>2, <3>3, <1>2 DEF Enough, Sources, LowestBar, TwoEpisodes
  <2> QED BY <2>1, <2>2 DEF LedgerSound
<1>14. RootsThere' /\ AdmissionsLogged'
  BY <1>2 DEF IInv, RootsThere, AdmissionsLogged, Present, Believed
<1> QED BY <1>4, <1>9, <1>10, <1>11, <1>12, <1>13, <1>14 DEF IInv

-------------------------------------------------------------------------------
(* The other steps: what consolidate reads of a crystal never changes, and *)
(* nobody begins anything.                                                 *)

RowsKept ==
  \A i \in Ids : Present(i) => /\ Present(i)'
                               /\ rows'[i].author = rows[i].author
                               /\ rows'[i].layer = rows[i].layer
                               /\ rows'[i].tier = rows[i].tier

LEMMA BasisPreserved ==
  ASSUME IInv, RowsKept, UNCHANGED basis
  PROVE  /\ BasisSound'
         /\ \A i \in Ids : Enough(basis[i]) => Enough(basis[i])'
<1>1. BasisSound'
  BY DEF IInv, TypeOK, BasisSound, RowsKept
<1>2. ASSUME NEW i \in Ids, Enough(basis[i]) PROVE Enough(basis[i])'
  <2>1. \A j \in basis[i] : j \in Ids /\ Present(j)
    BY DEF IInv, TypeOK, BasisSound
  <2>2. Sources(basis[i]) = {rows'[j].author : j \in basis[i]}
    BY <2>1 DEF RowsKept, Sources
  <2>3. {j \in basis[i] : rows[j].layer = "episodic"}
          = {j \in basis[i] : rows'[j].layer = "episodic"}
    BY <2>1 DEF RowsKept
  <2> QED BY <1>2, <2>2, <2>3 DEF Enough, Sources, LowestBar, TwoEpisodes
<1> QED BY <1>1, <1>2

(* A job that a step leaves alone stays sound. *)
LEMMA OtherJobSound ==
  ASSUME IInv, RowsKept, UNCHANGED <<basis, forced>>, minted <= minted',
         minted' \in Nat, ledger \subseteq ledger', window' => window,
         NEW q \in Procs, Running(q), job'[q] = job[q], ~Present(job[q].id)'
  PROVE  JobSound(q)'
<1>1. JobSound(q)
  BY DEF IInv, JobsSound
<1>2. job[q].id \in Ids /\ job[q].id <= minted'
  BY <1>1 DEF JobSound, Ids, IInv, TypeOK
<1>3. (Inserts(q)' <=> Inserts(q)) /\ (Records(q)' <=> Records(q))
  BY DEF Inserts, Records
<1>4. Enough(basis[job[q].id]) => Enough(basis[job[q].id])'
  BY <1>2, BasisPreserved
<1> QED BY <1>1, <1>2, <1>3, <1>4 DEF JobSound

(* The jobs after a step of p that ends its job. *)
LEMMA EndPreserves ==
  ASSUME IInv, NEW p \in Procs, RowsKept, UNCHANGED <<basis, forced, minted>>,
         ledger \subseteq ledger', window' => window,
         job' = [job EXCEPT ![p] = NoJob],
         \A q \in Procs \ {p} : Running(q) => ~Present(job[q].id)'
  PROVE  JobsSound' /\ OneWriter'
<1>1. \A q \in Procs : job'[q] = IF q = p THEN NoJob ELSE job[q]
  BY DEF IInv, TypeOK
<1>2. minted \in Nat
  BY PromotionsAssumption DEF IInv, TypeOK
<1>3. JobsSound'
  <2> SUFFICES ASSUME NEW q \in Procs, Running(q)' PROVE JobSound(q)'
    BY DEF JobsSound
  <2>1. q # p /\ job'[q] = job[q] /\ Running(q)
    BY <1>1 DEF Running
  <2> QED BY <2>1, <1>2, OtherJobSound
<1>4. OneWriter'
  BY <1>1 DEF IInv, OneWriter, Running
<1> QED BY <1>3, <1>4

LEMMA NothingNew ==
  ASSUME IInv, UNCHANGED <<rows, ledger, basis>>, minted' = minted
  PROVE  NothingAhead' /\ BasisSound' /\ RowsKept
BY DEF IInv, NothingAhead, BasisSound, RowsKept, Present

LEMMA CrashPreserves ==
  ASSUME IInv, NEW p \in Procs, Crash(p)
  PROVE  IInv'
<1>1. /\ UNCHANGED <<rows, ledger, pending, window, minted, root, forced, basis>>
      /\ job' = [job EXCEPT ![p] = NoJob]
  BY DEF Crash, tables, historyVars
<1>2. TypeOK'
  BY <1>1, PromotionsAssumption DEF Crash, IInv, TypeOK
<1>3. NothingAhead' /\ BasisSound' /\ RowsKept
  BY <1>1, NothingNew
<1>4. JobsSound' /\ OneWriter'
  <2>1. \A q \in Procs \ {p} : Running(q) => ~Present(job[q].id)'
    BY <1>1 DEF IInv, TypeOK, JobsSound, JobSound, Present
  <2> QED BY <1>1, <1>3, <2>1, EndPreserves
<1>5. LedgerSound' /\ RootsThere' /\ AdmissionsLogged'
  BY <1>1 DEF IInv, LedgerSound, RootsThere, AdmissionsLogged, Present, Believed, Enough,
              Sources, LowestBar, TwoEpisodes
<1> QED BY <1>2, <1>3, <1>4, <1>5 DEF IInv

LEMMA QuietPreserves ==
  ASSUME IInv, WindowEnds \/ (\E i \in Ids : Review(i)) \/ UNCHANGED vars
  PROVE  IInv'
<1>1. /\ UNCHANGED <<rows, ledger, job, minted, crashes, root, forced, basis>>
      /\ window' => window
  BY DEF WindowEnds, Review, vars, tables, historyVars
<1>2. TypeOK'
  BY <1>1 DEF WindowEnds, Review, Verdicts, vars, tables, IInv, TypeOK
<1>3. NothingAhead' /\ BasisSound' /\ RowsKept
  BY <1>1, NothingNew
<1>4. JobsSound'
  <2> SUFFICES ASSUME NEW q \in Procs, Running(q)' PROVE JobSound(q)'
    BY DEF JobsSound
  <2>1. Running(q) /\ job'[q] = job[q] /\ ~Present(job[q].id)'
    BY <1>1 DEF Running, IInv, JobsSound, JobSound, Present
  <2>2. minted \in Nat
    BY PromotionsAssumption DEF IInv, TypeOK
  <2> QED BY <1>1, <1>3, <2>1, <2>2, OtherJobSound
<1>5. OneWriter' /\ LedgerSound' /\ RootsThere' /\ AdmissionsLogged'
  BY <1>1 DEF IInv, OneWriter, Running, LedgerSound, RootsThere, AdmissionsLogged, Present,
              Believed, Enough, Sources, LowestBar, TwoEpisodes
<1> QED BY <1>2, <1>3, <1>4, <1>5 DEF IInv

-------------------------------------------------------------------------------
(* The transactions of a job *)

LEMMA RunningTyped ==
  ASSUME TypeOK, NEW p \in Procs, Running(p)
  PROVE  /\ job[p] \in [steps : Plans, id : Ids, row : Row \cup {NoRow}, gate : Layers]
         /\ job[p].steps \in Plans
  BY DEF TypeOK, Running

(* One transaction is left after the first of two: the insert. *)
Shorter(p) == [job[p] EXCEPT !.steps = Candidacy]

LEMMA ContinueForm ==
  ASSUME TypeOK, NEW p \in Procs, Running(p), Continue(p)
  PROVE  IF job[p].steps \in {Admission, Deferral}
           THEN job' = [job EXCEPT ![p] = Shorter(p)]
           ELSE job' = [job EXCEPT ![p] = NoJob]
<1>1. job[p].steps \in Plans /\ job \in [Procs -> [steps : Plans, id : Ids,
        row : Row \cup {NoRow}, gate : Layers] \cup {NoJob}]
  BY RunningTyped DEF TypeOK
<1>2. CASE job[p].steps \in {Admission, Deferral}
  <2>1. Len(job[p].steps) # 1 /\ Tail(job[p].steps) = Candidacy
    BY <1>2, PlanSteps
  <2>2. job' = [job EXCEPT ![p].steps = Tail(job[p].steps)]
    BY <2>1 DEF Continue
  <2> QED BY <1>1, <1>2, <2>1, <2>2 DEF Shorter
<1>3. CASE job[p].steps \notin {Admission, Deferral}
  <2>1. Len(job[p].steps) = 1
    BY <1>1, <1>3, PlanSteps
  <2> QED BY <1>1, <1>3, <2>1 DEF Continue
<1> QED BY <1>2, <1>3

LEMMA ContinueTyped ==
  ASSUME TypeOK, NEW p \in Procs, Running(p), Continue(p)
  PROVE  job' \in [Procs -> [steps : Plans, id : Ids, row : Row \cup {NoRow},
                             gate : Layers] \cup {NoJob}]
<1>1. Shorter(p) \in [steps : Plans, id : Ids, row : Row \cup {NoRow}, gate : Layers]
  BY RunningTyped DEF Shorter, Plans
<1> QED BY <1>1, ContinueForm DEF TypeOK

(* The jobs after a step of p that leaves the insert to do. *)
LEMMA ShorterPreserves ==
  ASSUME IInv, NEW p \in Procs, Running(p), UNCHANGED <<rows, basis, forced, minted>>,
         job[p].steps \in {Admission, Deferral},
         ledger \subseteq ledger', window' => window,
         job' = [job EXCEPT ![p] = Shorter(p)],
         job[p].steps = Admission => <<job[p].id, job[p].gate>> \in ledger'
  PROVE  JobsSound' /\ OneWriter'
<1>1. \A q \in Procs : job'[q] = IF q = p THEN Shorter(p) ELSE job[q]
  BY DEF IInv, TypeOK
<1>2. minted \in Nat /\ RowsKept
  BY PromotionsAssumption DEF IInv, TypeOK, RowsKept, Present
<1>3. /\ Shorter(p).id = job[p].id /\ Shorter(p).steps = Candidacy
      /\ Shorter(p).row = job[p].row /\ Shorter(p).gate = job[p].gate
  BY RunningTyped DEF Shorter, IInv
<1>4. JobsSound'
  <2> SUFFICES ASSUME NEW q \in Procs, Running(q)' PROVE JobSound(q)'
    BY DEF JobsSound
  <2>1. CASE q = p
    <3>1. JobSound(p)
      BY DEF IInv, JobsSound
    <3>2. job'[q] = Shorter(p)
      BY <1>1, <2>1
    <3>3. ~Records(q)' /\ job'[q].steps # Deferral
      BY <1>3, <3>2, PlansDiffer DEF Records
    <3>4. job[p].row \in Row /\ job[p].row.layer = job[p].gate
      BY <3>1 DEF JobSound, Inserts
    <3>5. BelievedRow(job[p].row) => <<job[p].id, job[p].gate>> \in ledger'
      BY <3>1 DEF JobSound
    <3>6. job[p].id \in Ids /\ job[p].id <= minted' /\ ~Present(job[q].id)'
      BY <3>1, <3>2, <1>3 DEF JobSound, Present
    <3> QED BY <1>3, <3>2, <3>3, <3>4, <3>5, <3>6 DEF JobSound
  <2>2. CASE q # p
    <3>1. Running(q) /\ job'[q] = job[q]
      BY <1>1, <2>2 DEF Running
    <3>2. ~Present(job[q].id)'
      BY <3>1 DEF IInv, JobsSound, JobSound, Present
    <3> QED BY <1>2, <3>1, <3>2, OtherJobSound
  <2> QED BY <2>1, <2>2
<1>5. OneWriter'
  <2>1. \A q \in Procs : Running(q)' => Running(q) /\ job'[q].id = job[q].id
    BY <1>1, <1>3 DEF Running
  <2> QED BY <2>1 DEF IInv, OneWriter
<1> QED BY <1>4, <1>5

LEMMA PendPreserves ==
  ASSUME IInv, NEW p \in Procs, Pend(p)
  PROVE  IInv'
<1>1. /\ UNCHANGED <<rows, ledger, window, minted, crashes, root, forced, basis>>
      /\ Running(p) /\ Continue(p) /\ Head(job[p].steps) = "pend"
      /\ pending' = [pending EXCEPT ![job[p].id] = "pending"]
  BY DEF Pend, At, Running, historyVars
<1>2. TypeOK'
  <2>1. job[p].id \in Ids
    BY <1>1, RunningTyped DEF IInv
  <2> QED BY <1>1, <2>1, ContinueTyped DEF IInv, TypeOK
<1>3. NothingAhead' /\ BasisSound' /\ RowsKept
  BY <1>1, NothingNew
<1>4. JobsSound' /\ OneWriter'
  <2>1. job[p].steps # Admission
    BY <1>1, PlanSteps
  <2>2. CASE job[p].steps = Deferral
    <3>1. job' = [job EXCEPT ![p] = Shorter(p)]
      BY <1>1, <2>2, ContinueForm DEF IInv
    <3> QED BY <1>1, <2>1, <2>2, <3>1, ShorterPreserves
  <2>3. CASE job[p].steps # Deferral
    <3>1. job' = [job EXCEPT ![p] = NoJob]
      BY <1>1, <2>1, <2>3, ContinueForm DEF IInv
    <3>2. \A q \in Procs \ {p} : Running(q) => ~Present(job[q].id)'
      BY <1>1, <3>1 DEF IInv, TypeOK, JobsSound, JobSound, Present
    <3> QED BY <1>1, <1>3, <3>1, <3>2, EndPreserves
  <2> QED BY <2>2, <2>3
<1>5. LedgerSound' /\ RootsThere' /\ AdmissionsLogged'
  BY <1>1 DEF IInv, LedgerSound, RootsThere, AdmissionsLogged, Present, Believed, Enough,
              Sources, LowestBar, TwoEpisodes
<1> QED BY <1>2, <1>3, <1>4, <1>5 DEF IInv

LEMMA RecordPreserves ==
  ASSUME IInv, NEW p \in Procs, Record(p)
  PROVE  IInv'
<1> DEFINE entry == <<job[p].id, job[p].gate>>
<1>1. /\ UNCHANGED <<rows, pending, window, minted, crashes, root, forced, basis>>
      /\ Running(p) /\ Continue(p) /\ Head(job[p].steps) = "record"
      /\ ledger' = ledger \cup {entry}
  BY DEF Record, At, Running, historyVars
<1>2. job[p].steps = Admission \/ job[p].steps = Admitted
  BY <1>1, PlanSteps, RunningTyped DEF IInv
<1>3. /\ job[p].id \in Ids /\ job[p].id <= minted /\ job[p].gate \in Gates
      /\ window => job[p].id \in forced
      /\ basis[job[p].id] # {} => Enough(basis[job[p].id])
  BY <1>1, <1>2 DEF IInv, JobsSound, JobSound, Records
<1>4. TypeOK'
  BY <1>1, <1>3, ContinueTyped DEF IInv, TypeOK
<1>5. NothingAhead' /\ BasisSound' /\ RowsKept
  BY <1>1, <1>3 DEF IInv, NothingAhead, BasisSound, RowsKept, Present
<1>6. JobsSound' /\ OneWriter'
  <2>1. CASE job[p].steps = Admission
    <3>1. job' = [job EXCEPT ![p] = Shorter(p)]
      BY <1>1, <2>1, ContinueForm DEF IInv
    <3> QED BY <1>1, <2>1, <3>1, ShorterPreserves
  <2>2. CASE job[p].steps = Admitted
    <3>1. job' = [job EXCEPT ![p] = NoJob]
      BY <1>1, <2>2, ContinueForm, PlansDiffer DEF IInv
    <3>2. \A q \in Procs \ {p} : Running(q) => ~Present(job[q].id)'
      BY <1>1, <3>1 DEF IInv, TypeOK, JobsSound, JobSound, Present
    <3> QED BY <1>1, <1>5, <3>1, <3>2, EndPreserves
  <2> QED BY <1>2, <2>1, <2>2
<1>7. LedgerSound'
  <2>1. window' => \A e \in ledger' : e[1] \in forced'
    BY <1>1, <1>3 DEF IInv, LedgerSound
  <2>2. ASSUME NEW i \in Ids, <<i, "semantic">> \in ledger', basis[i] # {}
        PROVE  Enough(basis[i])
    BY <1>1, <1>3, <2>2 DEF IInv, LedgerSound
  <2>3. \A i \in Ids : Enough(basis[i]) => Enough(basis[i])'
    BY <1>1, <1>5, BasisPreserved
  <2> QED BY <1>1, <2>1, <2>2, <2>3 DEF LedgerSound
<1>8. RootsThere' /\ AdmissionsLogged'
  BY <1>1 DEF IInv, RootsThere, AdmissionsLogged, Present, Believed
<1> QED BY <1>4, <1>5, <1>6, <1>7, <1>8 DEF IInv

LEMMA InsertPreserves ==
  ASSUME IInv, NEW p \in Procs, Insert(p)
  PROVE  IInv'
<1>0. PICK n, r : n = job[p].id /\ r = job[p].row
  OBVIOUS
<1>1. /\ UNCHANGED <<ledger, pending, window, minted, crashes, forced, basis>>
      /\ Running(p) /\ Continue(p) /\ Head(job[p].steps) = "insert"
      /\ rows' = [rows EXCEPT ![n] = r] /\ root' = [root EXCEPT ![n] = n]
  BY <1>0 DEF Insert, At, Running
<1>2. job[p].steps = Candidacy
  BY <1>1, PlanSteps, RunningTyped DEF IInv
<1>3. /\ n \in Ids /\ n <= minted /\ ~Present(n) /\ r \in Row
      /\ BelievedRow(r) => <<n, r.layer>> \in ledger
  BY <1>0, <1>1, <1>2 DEF IInv, JobsSound, JobSound, Inserts
<1>4. /\ \A i \in Ids : rows'[i] = IF i = n THEN r ELSE rows[i]
      /\ \A i \in Ids : root'[i] = IF i = n THEN n ELSE root[i]
  BY <1>1 DEF IInv, TypeOK
<1>5. TypeOK'
  BY <1>1, <1>3, ContinueTyped DEF IInv, TypeOK
<1>6. RowsKept
  BY <1>3, <1>4 DEF RowsKept, Present
<1>7. BasisSound' /\ \A i \in Ids : Enough(basis[i]) => Enough(basis[i])'
  BY <1>1, <1>6, BasisPreserved
<1>8. NothingAhead'
  BY <1>1, <1>3, <1>4 DEF IInv, TypeOK, NothingAhead, Present, Ids
<1>9. JobsSound' /\ OneWriter'
  <2>1. job' = [job EXCEPT ![p] = NoJob]
    BY <1>1, <1>2, ContinueForm, PlansDiffer DEF IInv
  <2>2. \A q \in Procs \ {p} : Running(q) => ~Present(job[q].id)'
    <3> SUFFICES ASSUME NEW q \in Procs \ {p}, Running(q)
                 PROVE  ~Present(job[q].id)'
      OBVIOUS
    <3>1. job'[q] = job[q]
      BY <2>1 DEF IInv, TypeOK
    <3>2. job[q].id \in Ids /\ ~Present(job[q].id) /\ job[q].id # n
      BY <1>0, <1>1 DEF IInv, OneWriter, JobsSound, JobSound
    <3> QED BY <1>4, <3>1, <3>2 DEF Present
  <2> QED BY <1>1, <1>6, <2>1, <2>2, EndPreserves
<1>10. LedgerSound'
  BY <1>1, <1>7 DEF IInv, LedgerSound
<1>11. RootsThere' /\ AdmissionsLogged'
  BY <1>1, <1>3, <1>4
  DEF IInv, RootsThere, AdmissionsLogged, Present, Believed, BelievedRow
<1> QED BY <1>5, <1>7, <1>8, <1>9, <1>10, <1>11 DEF IInv

-------------------------------------------------------------------------------
(* An update writes the row of an id nobody has used. *)

LEMMA RevisedTyped ==
  ASSUME NEW r \in Row, NEW tier \in Tiers, NEW patch \in [layer : Layers, author : Authors]
  PROVE  /\ Revised(r, tier, patch) \in Row
         /\ BelievedRow(Revised(r, tier, patch)) => BelievedRow(r)
  BY DEF Row, Revised, BelievedRow

LEMMA UpdatePreserves ==
  ASSUME IInv, NEW s \in Servers, Update(s)
  PROVE  IInv'
<1>0. PICK n : n = NewId
  OBVIOUS
<1>1. PICK i \in Ids, tier \in Tiers, patch \in [layer : Layers, author : Authors] :
        /\ Present(i)
        /\ rows' = [rows EXCEPT ![i].superseded = TRUE, ![n] = Revised(rows[i], tier, patch)]
        /\ root' = [root EXCEPT ![n] = root[i]]
  BY <1>0 DEF Update
<1>2. UNCHANGED <<ledger, pending, window, job, crashes, forced, basis>>
  BY DEF Update
<1>3. /\ n \in Ids /\ minted' \in 0..MaxId /\ minted' = n
      /\ n = minted + 1 /\ minted \in Nat
  BY <1>0, NewIdTyped DEF IInv, Update
<1>4. PICK r : r = Revised(rows[i], tier, patch)
  OBVIOUS
<1>5. rows[i] \in Row /\ r \in Row
      /\ (BelievedRow(r) => BelievedRow(rows[i]))
  BY <1>1, <1>4, RowsTyped, RevisedTyped DEF IInv
<1>6. ~Present(n) /\ n # i
  BY <1>1, <1>3 DEF IInv, NothingAhead
<1>7. PICK old : old = [rows[i] EXCEPT !.superseded = TRUE]
  OBVIOUS
<1>8. /\ old \in Row /\ old.layer = rows[i].layer /\ old.author = rows[i].author
      /\ old.tier = rows[i].tier /\ old.state = rows[i].state
      /\ old.status = rows[i].status
  BY <1>5, <1>7 DEF Row
<1>9. /\ \A j \in Ids : rows'[j] = IF j = n THEN r ELSE IF j = i THEN old ELSE rows[j]
      /\ \A j \in Ids : root'[j] = IF j = n THEN root[i] ELSE root[j]
      /\ rows' \in [Ids -> Row \cup {NoRow}]
  BY <1>1, <1>3, <1>4, <1>5, <1>6, <1>7, <1>8 DEF IInv, TypeOK
<1>10. TypeOK'
  BY <1>1, <1>2, <1>3, <1>9 DEF IInv, TypeOK
<1>11. RowsKept
  BY <1>6, <1>8, <1>9 DEF RowsKept, Present
<1>12. BasisSound' /\ \A j \in Ids : Enough(basis[j]) => Enough(basis[j])'
  BY <1>2, <1>11, BasisPreserved
<1>13. NothingAhead'
  <2>1. \A j \in Ids : j > minted' => j > minted /\ j # n /\ j # i
    BY <1>1, <1>3 DEF IInv, NothingAhead, Ids
  <2>2. \A j \in Ids : j > minted' => ~Present(j)' /\ basis'[j] = {}
    BY <1>2, <1>9, <2>1 DEF IInv, NothingAhead, Present
  <2>3. \A entry \in ledger' : entry[1] <= minted'
    BY <1>2, <1>3 DEF IInv, TypeOK, NothingAhead, Ids
  <2> QED BY <2>2, <2>3 DEF NothingAhead
<1>14. JobsSound'
  <2> SUFFICES ASSUME NEW q \in Procs, Running(q)' PROVE JobSound(q)'
    BY DEF JobsSound
  <2>1. Running(q) /\ job'[q] = job[q]
    BY <1>2 DEF Running
  <2>2. job[q].id \in Ids /\ job[q].id <= minted /\ ~Present(job[q].id)
    BY <2>1 DEF IInv, JobsSound, JobSound
  <2>3. job[q].id # n /\ job[q].id # i
    BY <1>1, <1>3, <2>2 DEF Ids
  <2>4. ~Present(job[q].id)'
    BY <1>9, <2>1, <2>2, <2>3 DEF Present
  <2> QED BY <1>2, <1>3, <1>11, <2>1, <2>4, OtherJobSound
<1>15. OneWriter'
  BY <1>2 DEF IInv, OneWriter, Running
<1>16. LedgerSound'
  BY <1>2, <1>12 DEF IInv, LedgerSound
<1>17. RootsThere' /\ AdmissionsLogged'
  <2>1. \A j \in Ids : Present(j) =>
          /\ root[j] \in Ids /\ Present(root[j]) /\ root[j] # n
          /\ rows'[root[j]].layer = rows[root[j]].layer
    BY <1>6, <1>8, <1>9 DEF IInv, RootsThere
  <2> SUFFICES ASSUME NEW j \in Ids, Present(j)'
               PROVE  /\ root'[j] \in Ids /\ rows'[root'[j]].status # "absent"
                      /\ Believed(j)' => <<root'[j], rows'[root'[j]].layer>> \in ledger'
    BY DEF RootsThere, AdmissionsLogged, Present
  <2>2. PICK k \in Ids : k = IF j = n THEN i ELSE j
    OBVIOUS
  <2>3. root'[j] = root[k] /\ Present(k) /\ (Believed(j)' => Believed(k))
    BY <1>1, <1>5, <1>6, <1>8, <1>9, <2>2 DEF Present, Believed, BelievedRow
  <2>4. /\ root[k] \in Ids /\ rows'[root[k]].layer = rows[root[k]].layer
        /\ rows'[root[k]].status # "absent"
    BY <1>11, <2>1, <2>3 DEF RowsKept, Present
  <2>5. Believed(k) => <<root[k], rows[root[k]].layer>> \in ledger
    BY <2>3 DEF IInv, AdmissionsLogged
  <2> QED BY <1>2, <2>3, <2>4, <2>5
<1> QED BY <1>10, <1>12, <1>13, <1>14, <1>15, <1>16, <1>17 DEF IInv

-------------------------------------------------------------------------------
LEMMA NextInv == IInv /\ [Next]_vars => IInv'
<1> SUFFICES ASSUME IInv, [Next]_vars PROVE IInv'
  OBVIOUS
<1>1. ASSUME NEW s \in Servers, Commits(s) PROVE IInv'
  <2>1. s \in Procs
    BY DEF Procs
  <2> QED BY <1>1, <2>1, CommitOpens, OpensPreserves
<1>2. ASSUME NEW s \in Servers, Update(s) PROVE IInv'
  BY <1>2, UpdatePreserves
<1>3. ASSUME NEW d \in Dreamers, Consolidate(d) PROVE IInv'
  <2>1. d \in Procs
    BY DEF Procs
  <2> QED BY <1>3, <2>1, DreamOpens, OpensPreserves
<1>4. ASSUME NEW p \in Procs, Step(p) PROVE IInv'
  BY <1>4, RecordPreserves, PendPreserves, InsertPreserves, CrashPreserves DEF Step
<1>5. CASE WindowEnds \/ (\E i \in Ids : Review(i)) \/ UNCHANGED vars
  BY <1>5, QuietPreserves
<1> QED BY <1>1, <1>2, <1>3, <1>4, <1>5 DEF Next, Call, Commits

THEOREM Invariance == Spec => []IInv
<1>1. Init => IInv
  BY InitInv
<1>2. IInv /\ [Next]_vars => IInv'
  BY NextInv
<1> QED BY <1>1, <1>2, PTL DEF Spec

(* Every variable keeps its type, whatever is interleaved and killed. *)
THEOREM TypeCorrect == Spec => []TypeOK
<1>1. IInv => TypeOK
  BY DEF IInv
<1> QED BY <1>1, Invariance, PTL

(* Nothing is believed whose admission is not in the ledger. *)
THEOREM BeliefIsLogged == Spec => []AdmissionsLogged
<1>1. IInv => AdmissionsLogged
  BY DEF IInv
<1> QED BY <1>1, Invariance, PTL

(* In the human-confirm window only what the operator forces is believed. *)
THEOREM WindowHolds == Spec => []WindowKeepsOut
<1>1. IInv => WindowKeepsOut
  BY DEF IInv, LedgerSound, AdmissionsLogged, WindowKeepsOut
<1> QED BY <1>1, Invariance, PTL

(* Dream's admissions rest on as many authors as the bar asks for. *)
THEOREM AdmissionsCorroborated == Spec => []IndependentSources
<1>1. IInv => IndependentSources
  BY DEF IInv, BasisSound, LedgerSound, IndependentSources, Enough, Sources
<1> QED BY <1>1, Invariance, PTL

(* Dream's proposals rest on crystals the semantic layer would have taken. *)
THEOREM TrustKept == Spec => []LeastTrust
<1>1. IInv => LeastTrust
  BY DEF IInv, BasisSound, LeastTrust, WithinCeiling, Ceiling
<1> QED BY <1>1, Invariance, PTL
===============================================================================
