---------------------------- MODULE AdmissionProofs ----------------------------
(***************************************************************************)
(* Theorems about Admission for any number of callers, operators, crystals *)
(* and events, and any layers, scopes and payloads.                        *)
(***************************************************************************)
EXTENDS Admission, TLAPS

-------------------------------------------------------------------------------
(* Tiers and rows *)

LEMMA PairTier ==
  ASSUME NEW a \in Tiers, NEW b \in Tiers
  PROVE  MinTier({a, b}) \in Tiers /\ a <= MinTier({a, b}) /\ b <= MinTier({a, b})
         /\ (MinTier({a, b}) = 0 => a = 0 /\ b = 0)
<1>1. \E t \in {a, b} : \A u \in {a, b} : u <= t
  BY DEF Tiers
<1>2. MinTier({a, b}) \in {a, b} /\ \A u \in {a, b} : u <= MinTier({a, b})
  BY <1>1 DEF MinTier
<1> QED BY <1>2 DEF Tiers

LEMMA CallerTiers ==
  ASSUME NEW who \in Callers
  PROVE  /\ who.identity \in Tiers /\ who.declared \in Tiers
         /\ CallerTier(who) \in Tiers /\ EnvelopeTier(who) \in Tiers
         /\ CallerTier(who) = 0 => who.identity = 0
         /\ EnvelopeTier(who) = 0 => who.identity = 0
<1>1. who.identity \in Tiers /\ who.declared \in Tiers
  BY AdmissionAssumption
<1> QED BY <1>1, PairTier DEF CallerTier, EnvelopeTier

LEMMA NoRowIsNone == NoRow \notin Row
  BY DEF NoRow, Row

LEMMA IdFacts == /\ Ids \subseteq Nat \ {0} /\ 0 \notin Ids
                 /\ \A n \in 0..MaxId : n < MaxId => n + 1 \in Ids /\ n + 1 \in 0..MaxId
  BY AdmissionAssumption DEF Ids

-------------------------------------------------------------------------------
(* How rows change once they are written *)

(* What no transaction touches. *)
Fixed(r, q) ==
  /\ q.layer = r.layer /\ q.tier = r.tier /\ q.repair = r.repair
  /\ q.project = r.project /\ q.audience = r.audience /\ q.sources = r.sources
  /\ q.protected = r.protected /\ q.asked = r.asked /\ q.author = r.author
  /\ q.prior = r.prior /\ q.origin = r.origin

(* A quarantine does not come back, nor does a retired or erased crystal. *)
RowAges(r, q) ==
  /\ q \in Row /\ Fixed(r, q)
  /\ r.validation # "quarantined" => q.validation # "quarantined"
  /\ r.status = "deprecated" => q.status \in {"deprecated", "absent"}
  /\ r.status = "absent" => q.status = "absent"

Aged(t, u) == \A i \in Ids : t[i] \in Row => RowAges(t[i], u[i])

(* No row is new, but for that of i. *)
NoneNewBut(i, t, u) == \A k \in Ids \ {i} : t[k] = NoRow => u[k] = NoRow

LEMMA RowKept == \A r \in Row : RowAges(r, r)
  BY DEF RowAges, Fixed

LEMMA PresentRow ==
  ASSUME TypeOK, NEW i \in Ids, Present(table, i)
  PROVE  table[i] \in Row
  BY DEF TypeOK, Present, NoRow

(* What a step does to a row that is there: close it, or change its status *)
(* or its validation.                                                      *)
LEMMA RowChanged ==
  ASSUME NEW r \in Row, r.status # "absent", NEW n \in Ids
  PROVE  /\ RowAges(r, [r EXCEPT !.until = "closed", !.by = n])
         /\ RowAges(r, [r EXCEPT !.status = "deprecated"])
         /\ RowAges(r, [r EXCEPT !.status = "absent"])
         /\ RowAges(r, [r EXCEPT !.validation = "unverified"])
<1>1. RowAges(r, [r EXCEPT !.until = "closed", !.by = n])
  BY DEF Row, RowAges, Fixed, Validity
<1>2. /\ RowAges(r, [r EXCEPT !.status = "deprecated"])
      /\ RowAges(r, [r EXCEPT !.status = "absent"])
  BY DEF Row, RowAges, Fixed, Statuses
<1>3. RowAges(r, [r EXCEPT !.validation = "unverified"]) BY DEF Row, RowAges, Fixed
<1> QED BY <1>1, <1>2, <1>3

(* One row changed, and only in a way that rows age. *)
LEMMA OneChanged ==
  ASSUME TypeOK, NEW i \in Ids, NEW q, table[i] \in Row, RowAges(table[i], q),
         table' = [table EXCEPT ![i] = q]
  PROVE  /\ Aged(table, table') /\ NoneNewBut(0, table, table')
         /\ table' \in [Ids -> Row \cup {NoRow}]
<1>1. table' \in [Ids -> Row \cup {NoRow}]
  BY DEF TypeOK, RowAges
<1>2. \A k \in Ids : table'[k] = IF k = i THEN q ELSE table[k]
  BY DEF TypeOK
<1>3. Aged(table, table')
  BY <1>2, RowKept DEF Aged
<1>4. NoneNewBut(0, table, table')
  BY <1>2, NoRowIsNone DEF NoneNewBut
<1> QED BY <1>1, <1>3, <1>4

LEMMA NoneChanged ==
  ASSUME TypeOK, UNCHANGED table
  PROVE  Aged(table, table') /\ NoneNewBut(0, table, table')
  BY RowKept DEF Aged, NoneNewBut

LEMMA RowClosed ==
  ASSUME TypeOK, NEW i \in Ids, NEW n \in Ids, Present(table, i),
         table' = WithSuccessor(table, i, n)
  PROVE  /\ Aged(table, table') /\ NoneNewBut(0, table, table')
         /\ table' \in [Ids -> Row \cup {NoRow}]
<1> DEFINE q == [table[i] EXCEPT !.until = "closed", !.by = n]
<1>1. table[i] \in Row /\ table[i].status # "absent"
  BY PresentRow DEF Present
<1>2. RowAges(table[i], q)
  BY <1>1, RowChanged
<1>3. table' = [table EXCEPT ![i] = q]
  BY DEF WithSuccessor, TypeOK
<1> QED BY <1>1, <1>2, <1>3, OneChanged

LEMMA RowStatus ==
  ASSUME TypeOK, NEW i \in Ids, Present(table, i),
         table' \in {WithStatus(table, i, "deprecated"), Erased(table, i),
                     [table EXCEPT ![i].validation = "unverified"]}
  PROVE  /\ Aged(table, table') /\ NoneNewBut(0, table, table')
         /\ table' \in [Ids -> Row \cup {NoRow}]
<1>1. table[i] \in Row /\ table[i].status # "absent"
  BY PresentRow DEF Present
<1>2. \E q \in Row : RowAges(table[i], q) /\ table' = [table EXCEPT ![i] = q]
  <2>1. PICK n \in Ids : n = i
    OBVIOUS
  <2>2. CASE table' = WithStatus(table, i, "deprecated")
    BY <1>1, <2>1, <2>2, RowChanged DEF WithStatus, RowAges, TypeOK
  <2>3. CASE table' = Erased(table, i)
    BY <1>1, <2>1, <2>3, RowChanged DEF Erased, RowAges, TypeOK
  <2>4. CASE table' = [table EXCEPT ![i].validation = "unverified"]
    BY <1>1, <2>1, <2>4, RowChanged DEF RowAges, TypeOK
  <2> QED BY <2>2, <2>3, <2>4
<1> QED BY <1>1, <1>2, OneChanged

(* A row is written where there was none. *)
LEMMA RowWritten ==
  ASSUME TypeOK, NEW i \in Ids, NEW r \in Row, table[i] = NoRow,
         table' = WithRow(table, i, r)
  PROVE  /\ Aged(table, table') /\ NoneNewBut(i, table, table')
         /\ table' \in [Ids -> Row \cup {NoRow}] /\ table'[i] = r
<1>1. /\ table' \in [Ids -> Row \cup {NoRow}]
      /\ \A k \in Ids : table'[k] = IF k = i THEN r ELSE table[k]
  BY DEF TypeOK, WithRow
<1>2. Aged(table, table')
  BY <1>1, RowKept, NoRowIsNone DEF Aged
<1> QED BY <1>1, <1>2 DEF NoneNewBut

-------------------------------------------------------------------------------
(* Drafts: what a call may set out to write *)

(* j can be a source of r, whose trust is tier. *)
Covers(r, j, tier) ==
  /\ table[j] \in Row /\ table[j].tier <= tier
  /\ table[j].project = r.project /\ table[j].audience \in {Everyone, r.audience}

(* Protection asked for or owed to the writer, inherited, or set by the    *)
(* update of a fact.                                                       *)
Warranted(d) ==
  d.protected =>
    \/ d.asked \/ d.author = 0
    \/ /\ d.prior # 0
       /\ table[d.prior].protected \/ (~d.repair /\ table[d.prior].layer = "semantic")

(* A draft, or a row, that has its todo left to resolve. *)
Sound(d, todo, tier) ==
  /\ Warranted(d)
  /\ ~d.repair => d.sources = {}
  /\ d.prior # 0 => /\ table[d.prior] \in Row
                    /\ table[d.prior].asked = d.asked /\ table[d.prior].author = d.author
                    /\ table[d.prior].sources \subseteq d.sources
                    /\ d.repair => table[d.prior].tier <= tier
  /\ d.origin # 0 => d.origin \in d.sources
  /\ \A j \in d.sources \ todo : Covers(d, j, tier)

RowsSound == \A i \in Ids : table[i] \in Row => Sound(table[i], {}, table[i].tier)

(* An opaque revision of an episode is as trusted as what it revises. *)
Copies(d) ==
  KeepsTrust(d) =>
    /\ table[d.prior].tier = d.tier
    /\ d.validation # "quarantined" => table[d.prior].validation # "quarantined"

ProposalsSound == \A p \in proposals : p.origin \in p.sources

LEMMA DraftChanged ==
  ASSUME NEW r \in Row
  PROVE  /\ \A b \in BOOLEAN : [r EXCEPT !.protected = b] \in Row
         /\ \A t \in Tiers, b \in BOOLEAN : [r EXCEPT !.tier = t, !.protected = b] \in Row
         /\ \A o \in Ids : [r EXCEPT !.origin = o] \in Row
  BY DEF Row

Asks(p) == /\ p.layer \in Layers /\ p.scope \in Scopes
           /\ p.repair \in BOOLEAN /\ p.asked \in BOOLEAN

LEMMA DraftTyped ==
  ASSUME NEW who \in Callers, NEW payload, Asks(payload), NEW sources \in SUBSET Ids
  PROVE  /\ Draft(who, payload, sources) \in Row
         /\ Draft(who, payload, sources).sources = sources
<1>1. payload.scope.project \in Projects /\ payload.scope.audience \in Audiences
  BY DEF Projects, Audiences, Asks
<1>2. who.identity \in Tiers /\ CallerTier(who) \in Tiers
  BY CallerTiers
<1> HIDE DEF Projects, Audiences, CallerTier, Tiers
<1> QED BY <1>1, <1>2, IdFacts DEF Draft, Row, Statuses, Validity, Asks

(* The drafts that Start is called with. *)
Begun(s, d, tier, ids) ==
  /\ Start(s, d, tier, ids) /\ Idle(s)
  /\ d \in Row /\ tier \in Tiers /\ ids \in SUBSET Ids
  /\ Sound(d, d.sources, tier) /\ Copies(d)

LEMMA NamedIds == ASSUME TypeOK PROVE Named \subseteq SUBSET Ids
  BY AdmissionAssumption DEF Named, TypeOK, Ids

LEMMA CommitBegun ==
  ASSUME TypeOK, NEW s \in Sessions, Commit(s)
  PROVE  \E d, tier, ids : Begun(s, d, tier, ids)
<1>1. PICK who \in Callers, payload \in Payloads, sources \in Named :
        Start(s, [Draft(who, payload, sources)
                    EXCEPT !.protected = payload.asked \/ Human(CallerTier(who))],
              CallerTier(who), {})
  BY DEF Commit
<1> DEFINE d == [Draft(who, payload, sources)
                   EXCEPT !.protected = payload.asked \/ Human(CallerTier(who))]
<1>2. Asks(payload) /\ sources \in SUBSET Ids
  BY AdmissionAssumption, NamedIds DEF Asks
<1>3. d \in Row
  <2>1. PICK b \in BOOLEAN : b = (payload.asked \/ Human(CallerTier(who)))
    OBVIOUS
  <2>2. d = [Draft(who, payload, sources) EXCEPT !.protected = b]
    BY <2>1
  <2> QED BY <1>2, <2>2, DraftTyped, DraftChanged
<1>4. Sound(d, d.sources, CallerTier(who)) /\ Copies(d)
  BY <1>1, CallerTiers DEF Sound, Warranted, Copies, KeepsTrust, Draft, Human, Start
<1>5. Begun(s, d, CallerTier(who), {})
  BY <1>1, <1>3, <1>4, CallerTiers DEF Begun, Commit, Free
<1> QED BY <1>5

LEMMA CommandCommitBegun ==
  ASSUME TypeOK, NEW s \in Sessions, CommandCommit(s)
  PROVE  \E d, tier, ids : Begun(s, d, tier, ids)
<1>1. PICK who \in Callers, payload \in Payloads :
        Start(s, Draft(who, payload, {}), CallerTier(who), {})
  BY DEF CommandCommit
<1> DEFINE d == Draft(who, payload, {})
<1>2. d \in Row
  BY AdmissionAssumption, DraftTyped DEF Asks
<1>3. Sound(d, d.sources, CallerTier(who)) /\ Copies(d)
  BY DEF Sound, Warranted, Copies, KeepsTrust, Draft
<1>4. Begun(s, d, CallerTier(who), {})
  BY <1>1, <1>2, <1>3, CallerTiers DEF Begun, CommandCommit, Free
<1> QED BY <1>4

LEMMA ArtifactAsks == \A repair \in BOOLEAN : Asks(Artifact(repair))
  BY AdmissionAssumption DEF Asks, Artifact

LEMMA CommandIndexBegun ==
  ASSUME TypeOK, NEW s \in Sessions, CommandIndex(s)
  PROVE  \E d, tier, ids : Begun(s, d, tier, ids)
<1> DEFINE who == [identity |-> 0, declared |-> 0]
           payload(scope) == [Artifact(FALSE) EXCEPT !.scope = scope]
           d(scope) == [Draft(who, payload(scope), {}) EXCEPT !.protected = TRUE]
<1>1. PICK scope \in Scopes : Start(s, d(scope), 0, {})
  BY DEF CommandIndex
<1>2. d(scope) \in Row
  <2>1. /\ payload(scope).layer \in Layers /\ payload(scope).repair = FALSE
        /\ payload(scope).asked = FALSE /\ payload(scope).scope = scope
    BY AdmissionAssumption DEF Artifact
  <2>2. scope.project \in Projects /\ scope.audience \in Audiences
    BY DEF Projects, Audiences
  <2>3. CallerTier(who) \in Tiers
    BY PairTier DEF CallerTier, Tiers
  <2> HIDE DEF payload, who
  <2>4. who.identity \in Tiers
    BY DEF who, Tiers
  <2> HIDE DEF Projects, Audiences, CallerTier, Tiers
  <2>5. Draft(who, payload(scope), {}) \in Row
    BY <2>1, <2>2, <2>3, <2>4, IdFacts DEF Draft, Row, Statuses, Validity
  <2> QED BY <2>5, DraftChanged
<1>3. Sound(d(scope), d(scope).sources, 0) /\ Copies(d(scope))
  BY DEF Sound, Warranted, Copies, KeepsTrust, Draft
<1>4. Begun(s, d(scope), 0, {})
  BY <1>1, <1>2, <1>3 DEF Begun, CommandIndex, Free, Tiers
<1> QED BY <1>4

LEMMA IngestBegun ==
  ASSUME TypeOK, NEW s \in Sessions, Ingest(s)
  PROVE  \E d, tier, ids : Begun(s, d, tier, ids)
<1>1. PICK who \in Callers, sources \in Named, ids \in Named :
        Start(s, [Draft(who, Artifact(sources # {}), sources)
                    EXCEPT !.tier = EnvelopeTier(who), !.protected = Human(EnvelopeTier(who))],
              EnvelopeTier(who), IF FixSpans /\ Extractor THEN ids ELSE {})
  BY DEF Ingest
<1> DEFINE tier == EnvelopeTier(who)
           d == [Draft(who, Artifact(sources # {}), sources)
                   EXCEPT !.tier = tier, !.protected = Human(tier)]
           all == IF FixSpans /\ Extractor THEN ids ELSE {}
<1>2. PICK repair \in BOOLEAN, b \in BOOLEAN : repair = (sources # {}) /\ b = Human(tier)
  BY DEF Human
<1>3. d = [Draft(who, Artifact(repair), sources) EXCEPT !.tier = tier, !.protected = b]
  BY <1>2
<1>4. sources \in SUBSET Ids /\ all \in SUBSET Ids
  BY NamedIds
<1>5. tier \in Tiers /\ (tier = 0 => who.identity = 0)
  BY CallerTiers
<1>6. d \in Row
  BY <1>2, <1>3, <1>4, <1>5, ArtifactAsks, DraftTyped, DraftChanged
<1>7. Sound(d, d.sources, tier) /\ Copies(d)
  BY <1>1, <1>5 DEF Sound, Warranted, Copies, KeepsTrust, Draft, Human, Start
<1>8. Begun(s, d, tier, all)
  BY <1>1, <1>4, <1>5, <1>6, <1>7 DEF Begun, Ingest, Free
<1> QED BY <1>8

LEMMA CommitProposalBegun ==
  ASSUME TypeOK, ProposalsSound, NEW s \in Sessions, CommitProposal(s)
  PROVE  \E d, tier, ids : Begun(s, d, tier, ids)
<1>1. PICK who \in Callers, p \in proposals :
        Start(s, [Draft(who, Artifact(TRUE), p.sources) EXCEPT !.origin = p.origin],
              CallerTier(who), {})
  BY DEF CommitProposal
<1> DEFINE d == [Draft(who, Artifact(TRUE), p.sources) EXCEPT !.origin = p.origin]
<1>2. p.sources \in SUBSET Ids /\ p.origin \in Ids /\ p.origin \in p.sources
  BY DEF TypeOK, Proposal, ProposalsSound
<1>3. d \in Row
  BY <1>2, ArtifactAsks, DraftTyped, DraftChanged
<1>4. Sound(d, d.sources, CallerTier(who)) /\ Copies(d)
  BY <1>2 DEF Sound, Warranted, Copies, KeepsTrust, Draft, Artifact
<1>5. Begun(s, d, CallerTier(who), {})
  BY <1>1, <1>3, <1>4, CallerTiers DEF Begun, CommitProposal, Free
<1> QED BY <1>5

LEMMA UpdateBegun ==
  ASSUME TypeOK, RowsSound, NEW s \in Sessions, Update(s)
  PROVE  \E d, tier, ids : Begun(s, d, tier, ids)
<1>1. PICK who \in Callers, i \in Ids, patch \in Patches, repair \in BOOLEAN,
           sources \in Named :
        /\ Present(table, i) /\ (table[i].repair => repair)
        /\ KeepsFields(i, patch, repair)
        /\ Start(s, Revision(i, patch, repair, sources),
                 IF repair THEN MinTier({CallerTier(who), table[i].tier})
                           ELSE CallerTier(who), {})
  BY DEF Update
<1> DEFINE d == Revision(i, patch, repair, sources)
           tier == IF repair THEN MinTier({CallerTier(who), table[i].tier})
                             ELSE CallerTier(who)
<1>2. table[i] \in Row /\ Sound(table[i], {}, table[i].tier)
  BY <1>1, PresentRow DEF RowsSound
<1>3. sources \in SUBSET Ids
  BY NamedIds
<1>4. tier \in Tiers /\ (repair => table[i].tier <= tier)
  BY <1>2, CallerTiers, PairTier DEF Row
<1>5. d \in Row /\ d.prior = i /\ d.origin = 0 /\ d.repair = repair
      /\ table[i].sources \subseteq d.sources
      /\ d.protected = patch.protected /\ d.asked = table[i].asked
      /\ d.author = table[i].author /\ d.tier = table[i].tier
      /\ d.validation = table[i].validation
  <2>1. /\ patch.scope.project \in Projects /\ patch.scope.audience \in Audiences
        /\ patch.layer \in Layers /\ patch.protected \in BOOLEAN
    BY DEF Patches, Projects, Audiences
  <2> HIDE DEF Projects, Audiences
  <2> QED BY <1>2, <1>3, <2>1 DEF Revision, RevisedSources, Row, Statuses, Validity
<1>6. Sound(d, d.sources, tier) /\ Copies(d)
  <2>1. i # 0
    BY IdFacts
  <2>2. Warranted(d)
    <3>1. ~patch.protected \/ table[i].protected
            \/ (~repair /\ table[i].layer = "semantic")
      BY <1>1 DEF KeepsFields
    <3> HIDE DEF d
    <3> QED BY <1>5, <2>1, <3>1 DEF Warranted
  <2> HIDE DEF d, tier
  <2> QED BY <1>1, <1>2, <1>4, <1>5, <2>1, <2>2 DEF Sound, Copies, KeepsTrust, Start, d, tier
<1>7. Begun(s, d, tier, {})
  BY <1>1, <1>4, <1>5, <1>6 DEF Begun, Update, Free
<1> QED BY <1>7

-------------------------------------------------------------------------------
(* The inductive invariant *)

(* A decision shows in the row, unless the row is gone. *)
Decided(i, action) ==
  Present(table, i) => IF action = "accept" THEN table[i].validation # "quarantined"
                                            ELSE table[i].status = "deprecated"

(* What a session in the middle of j can count on. *)
JobOK(j) ==
  /\ j.stage \in {"resolving", "writing", "inserting"} =>
       j.draft \in Row /\ Sound(j.draft, j.todo, j.tier) /\ Copies(j.draft)
  /\ j.stage \in {"writing", "inserting"} => j.todo = {}
  /\ j.stage = "marking" => j.draft \in Row /\ j.draft.prior # 0 /\ j.id \in Ids
  /\ j.stage = "proposing" =>
       j.draft \in Row /\ j.id \in Ids /\ j.id \in j.draft.sources
  /\ j.stage = "inserting" =>
       /\ j.draft.prior # 0 /\ j.id \in Ids /\ j.id <= minted
       /\ table[j.id] = NoRow
  /\ j.stage \in {"reviewing", "auditing"} => j.id \in Ids /\ table[j.id] \in Row
  /\ j.stage = "auditing" =>
       j.action \in {"accept", "reject"} /\ Decided(j.id, j.action)

JobsSound == \A s \in Procs : job[s] # NoJob => JobOK(job[s])

(* No id is inserted twice. *)
OneInserter ==
  \A s, t \in Procs :
    At(s, "inserting") /\ At(t, "inserting") /\ job[s].id = job[t].id => s = t

MintedFirst == \A i \in Ids : i > minted => table[i] = NoRow

AuditSound == \A a \in audit : table[a[1]] \in Row /\ Decided(a[1], a[2])

IInv == /\ TypeOK /\ MintedFirst /\ RowsSound /\ ProposalsSound
        /\ AuditSound /\ JobsSound /\ OneInserter

LEMMA InitInv == Init => IInv
<1> SUFFICES ASSUME Init PROVE IInv
  OBVIOUS
<1>1. TypeOK
  BY AdmissionAssumption DEF Init, TypeOK
<1>2. RowsSound
  BY NoRowIsNone DEF Init, RowsSound
<1> QED
  BY <1>1, <1>2 DEF Init, IInv, MintedFirst, ProposalsSound, AuditSound,
                    JobsSound, OneInserter, At, Idle

(* What is sound stays so while the rows it rests on age. *)
LEMMA SoundLater ==
  ASSUME NEW d \in Row, NEW todo, NEW tier, Aged(table, table'), Sound(d, todo, tier)
  PROVE  Sound(d, todo, tier)'
<1>1. d.sources \subseteq Ids /\ (d.prior # 0 => d.prior \in Ids)
  BY DEF Row
<1>2. ASSUME d.prior # 0
      PROVE  /\ table'[d.prior] \in Row
             /\ table'[d.prior].sources \subseteq d.sources
             /\ table'[d.prior].asked = d.asked /\ table'[d.prior].author = d.author
             /\ d.repair => table'[d.prior].tier <= tier
             /\ table'[d.prior].protected = table[d.prior].protected
             /\ table'[d.prior].layer = table[d.prior].layer
  BY <1>1, <1>2 DEF Aged, RowAges, Fixed, Sound
<1>3. ASSUME NEW k \in d.sources \ todo PROVE Covers(d, k, tier)'
  <2>1. Covers(d, k, tier)
    BY <1>3 DEF Sound
  <2>2. RowAges(table[k], table'[k])
    BY <1>1, <2>1 DEF Aged, Covers
  <2> QED BY <2>1, <2>2 DEF Covers, RowAges, Fixed
<1> QED BY <1>2, <1>3 DEF Sound, Warranted

LEMMA CopiesLater ==
  ASSUME NEW d \in Row, Aged(table, table'), Copies(d), d.prior # 0 => table[d.prior] \in Row
  PROVE  Copies(d)'
<1> SUFFICES ASSUME KeepsTrust(d)' PROVE Copies(d)'
  BY DEF Copies
<1>1. d.prior \in Ids /\ table[d.prior] \in Row
  BY DEF KeepsTrust, Row
<1>2. RowAges(table[d.prior], table'[d.prior])
  BY <1>1 DEF Aged
<1>3. KeepsTrust(d)
  BY <1>2 DEF KeepsTrust, RevisesFact, RulingLayer, RowAges, Fixed
<1> QED BY <1>2, <1>3 DEF Copies, RowAges, Fixed

LEMMA DecidedLater ==
  ASSUME NEW i \in Ids, NEW a, Aged(table, table'), table[i] \in Row, Decided(i, a)
  PROVE  table'[i] \in Row /\ Decided(i, a)'
<1>1. RowAges(table[i], table'[i])
  BY DEF Aged
<1> QED BY <1>1 DEF RowAges, Decided, Present

LEMMA JobLater ==
  ASSUME TypeOK, NEW j \in Jobs, JobOK(j), Aged(table, table'),
         minted' \in Nat, minted <= minted',
         j.stage = "inserting" => table'[j.id] = NoRow
  PROVE  JobOK(j)'
<1>1. j.stage \in {"resolving", "writing", "inserting"} =>
        j.draft \in Row /\ Sound(j.draft, j.todo, j.tier)' /\ Copies(j.draft)'
  <2> SUFFICES ASSUME j.stage \in {"resolving", "writing", "inserting"}
               PROVE  j.draft \in Row /\ Sound(j.draft, j.todo, j.tier)' /\ Copies(j.draft)'
    OBVIOUS
  <2>1. j.draft \in Row /\ Sound(j.draft, j.todo, j.tier) /\ Copies(j.draft)
    BY DEF JobOK
  <2>2. j.draft.prior # 0 => table[j.draft.prior] \in Row
    BY <2>1 DEF Sound
  <2> QED BY <2>1, <2>2, SoundLater, CopiesLater
<1>2. j.stage = "inserting" => j.id \in Ids /\ j.id <= minted'
  <2>1. j.stage = "inserting" => j.id \in Ids /\ j.id <= minted
    BY DEF JobOK
  <2>2. minted \in Nat
    BY AdmissionAssumption DEF TypeOK
  <2>3. \A n \in Nat : n <= minted => n <= minted'
    BY <2>2
  <2> QED BY <2>1, <2>3, IdFacts
<1>3. j.stage \in {"reviewing", "auditing"} => j.id \in Ids /\ table'[j.id] \in Row
  BY DEF JobOK, Aged, RowAges
<1>4. j.stage = "auditing" => Decided(j.id, j.action)'
  BY DecidedLater DEF JobOK
<1> QED BY <1>1, <1>2, <1>3, <1>4 DEF JobOK

LEMMA RowSoundLater ==
  ASSUME TypeOK, RowsSound, Aged(table, table'), NEW i \in Ids, table[i] \in Row
  PROVE  table'[i] \in Row /\ Sound(table[i], {}, table[i].tier)'
<1>1. PICK r \in Row : r = table[i]
  OBVIOUS
<1>2. PICK q \in Row : q = table'[i] /\ Fixed(r, q)
  BY <1>1 DEF Aged, RowAges
<1>3. Sound(r, {}, r.tier)
  BY <1>1 DEF RowsSound
<1>4. Sound(r, {}, r.tier)'
  BY <1>3, SoundLater
<1>5. Sound(q, {}, q.tier)'
  BY <1>2, <1>4 DEF Sound, Warranted, Covers, Fixed
<1> QED BY <1>2, <1>5 DEF Sound, Warranted, Covers

(* A step that leaves at most one row behind it where there was none, that *)
(* of new, and moves at most one job, that of p to j.                      *)
LEMMA StepKept ==
  ASSUME IInv, NEW new \in Ids \cup {0}, NEW r, NEW p, NEW j \in Jobs \cup {NoJob},
         TypeOK', minted <= minted', Aged(table, table'), NoneNewBut(new, table, table'),
         new # 0 => /\ r \in Row /\ table'[new] = r /\ Sound(r, {}, r.tier)'
                    /\ table[new] = NoRow /\ new <= minted'
                    /\ \A t \in Procs \ {p} : At(t, "inserting") => job[t].id # new,
         \A t \in Procs : t # p => job'[t] = job[t],
         p \in Procs => job'[p] = j,
         j # NoJob => JobOK(j)',
         j # NoJob /\ j.stage = "inserting" =>
           \A t \in Procs \ {p} : At(t, "inserting") => job[t].id # j.id,
         ProposalsSound',
         audit' = audit \/ AuditSound'
  PROVE  IInv'
<1>0. /\ TypeOK /\ MintedFirst /\ RowsSound /\ ProposalsSound
      /\ AuditSound /\ JobsSound /\ OneInserter
  BY DEF IInv
<1>1. MintedFirst'
  <2> SUFFICES ASSUME NEW i \in Ids, i > minted' PROVE table'[i] = NoRow
    BY DEF MintedFirst
  <2>1. i \in Nat /\ minted \in Nat /\ minted' \in Nat /\ i > minted
    BY <1>0, IdFacts, AdmissionAssumption DEF TypeOK
  <2>2. table[i] = NoRow
    BY <1>0, <2>1 DEF MintedFirst
  <2>3. i # new
    BY <2>1, IdFacts
  <2> QED BY <2>2, <2>3 DEF NoneNewBut
<1>2. RowsSound'
  <2> SUFFICES ASSUME NEW i \in Ids, table'[i] \in Row
               PROVE  Sound(table[i], {}, table[i].tier)'
    BY DEF RowsSound
  <2>1. CASE table[i] \in Row
    BY <1>0, <2>1, RowSoundLater
  <2>2. CASE table[i] \notin Row
    <3>1. table[i] = NoRow
      BY <1>0, <2>2 DEF TypeOK
    <3>2. new = i /\ new # 0
      BY <3>1, NoRowIsNone, IdFacts DEF NoneNewBut
    <3>3. table'[i] = r /\ Sound(r, {}, r.tier)'
      BY <3>2
    <3> QED BY <3>3 DEF Sound, Warranted, Covers
  <2> QED BY <2>1, <2>2
<1>3. AuditSound'
  <2> SUFFICES ASSUME audit' = audit PROVE AuditSound'
    OBVIOUS
  <2> SUFFICES ASSUME NEW a \in audit
               PROVE  table'[a[1]] \in Row /\ Decided(a[1], a[2])'
    BY DEF AuditSound
  <2>1. a[1] \in Ids /\ table[a[1]] \in Row /\ Decided(a[1], a[2])
    BY <1>0 DEF TypeOK, AuditSound
  <2> QED BY <2>1, DecidedLater
<1>4. \A t \in Procs : At(t, "inserting") => /\ job[t] \in Jobs /\ JobOK(job[t])
                                            /\ job[t].id \in Ids
                                            /\ table[job[t].id] = NoRow
  BY <1>0 DEF At, Idle, TypeOK, JobsSound, JobOK
<1>5. JobsSound'
  <2> SUFFICES ASSUME NEW t \in Procs, job'[t] # NoJob PROVE JobOK(job[t])'
    BY DEF JobsSound
  <2>1. CASE t = p
    BY <2>1 DEF JobOK, Sound, Warranted, Copies, KeepsTrust, RevisesFact,
                       RulingLayer, Covers, Decided
  <2>2. CASE t # p
    <3>1. PICK k \in Jobs : k = job[t] /\ k # NoJob
      BY <1>0, <2>2 DEF TypeOK
    <3>2. JobOK(k)
      BY <1>0, <3>1 DEF JobsSound
    <3>3. k.stage = "inserting" => table'[k.id] = NoRow
      <4> SUFFICES ASSUME k.stage = "inserting" PROVE table'[k.id] = NoRow
        OBVIOUS
      <4>1. At(t, "inserting")
        BY <3>1 DEF At, Idle
      <4>2. k.id \in Ids /\ table[k.id] = NoRow
        BY <1>4, <3>1, <4>1
      <4>3. k.id # new
        BY <2>2, <3>1, <4>1, <4>2, IdFacts
      <4> QED BY <4>2, <4>3 DEF NoneNewBut
    <3>4. minted' \in Nat
      BY AdmissionAssumption DEF TypeOK
    <3>5. JobOK(k)'
      BY <1>0, <3>2, <3>3, <3>4, JobLater
    <3>6. job'[t] = k
      BY <2>2, <3>1
    <3> QED BY <3>5, <3>6 DEF JobOK, Sound, Warranted, Copies, KeepsTrust, RevisesFact,
                       RulingLayer, Covers, Decided
  <2> QED BY <2>1, <2>2
<1>6. OneInserter'
  <2> SUFFICES ASSUME NEW s \in Procs, NEW t \in Procs,
                      job'[s] # NoJob, job'[s].stage = "inserting",
                      job'[t] # NoJob, job'[t].stage = "inserting",
                      job'[s].id = job'[t].id, s # t
               PROVE  FALSE
    BY DEF OneInserter, At, Idle
  <2>1. CASE s # p /\ t # p
    BY <1>0, <2>1 DEF OneInserter, At, Idle
  <2>2. CASE s = p
    BY <2>2 DEF At, Idle
  <2>3. CASE t = p
    BY <2>3 DEF At, Idle
  <2> QED BY <2>1, <2>2, <2>3
<1> QED BY <1>1, <1>2, <1>3, <1>5, <1>6 DEF IInv

(* A step that writes no new row. *)
LEMMA NoRowKept ==
  ASSUME IInv, NEW p, NEW j \in Jobs \cup {NoJob},
         TypeOK', minted <= minted', Aged(table, table'), NoneNewBut(0, table, table'),
         \A t \in Procs : t # p => job'[t] = job[t],
         p \in Procs => job'[p] = j,
         j # NoJob => JobOK(j)',
         j # NoJob /\ j.stage = "inserting" =>
           \A t \in Procs \ {p} : At(t, "inserting") => job[t].id # j.id,
         ProposalsSound',
         audit' = audit \/ AuditSound'
  PROVE  IInv'
<1>1. 0 \in Ids \cup {0}
  OBVIOUS
<1> QED BY <1>1, StepKept, Zenon

LEMMA JobMoved ==
  ASSUME TypeOK, NEW p \in Procs, NEW j \in Jobs \cup {NoJob}, Goto(p, j)
  PROVE  /\ job' \in [Procs -> Jobs \cup {NoJob}] /\ job'[p] = j
         /\ \A t \in Procs : t # p => job'[t] = job[t]
  BY DEF TypeOK, Goto

(* The job of a session that is not idle. *)
LEMMA JobOf ==
  ASSUME IInv, NEW s \in Procs, ~Idle(s)
  PROVE  job[s] \in Jobs /\ JobOK(job[s]) /\ job[s] # NoJob
  BY DEF IInv, TypeOK, JobsSound, Idle

LEMMA NoJobIsNone == NoJob \notin Jobs
  BY DEF NoJob, Jobs

LEMMA MintedLater ==
  ASSUME TypeOK, minted' = minted
  PROVE  minted <= minted'
  BY AdmissionAssumption DEF TypeOK

(* A step of one session that changes nothing but its job. *)
LEMMA JobKept ==
  ASSUME IInv, NEW p \in Procs, NEW j \in Jobs \cup {NoJob}, Goto(p, j),
         UNCHANGED <<table, minted, audit, cleared>>, events' \in 0..MaxEvents,
         proposals' \subseteq Proposal, ProposalsSound',
         j # NoJob => JobOK(j) /\ j.stage # "inserting"
  PROVE  IInv'
<1>0. TypeOK
  BY DEF IInv
<1>1. /\ job' \in [Procs -> Jobs \cup {NoJob}] /\ job'[p] = j
      /\ \A t \in Procs : t # p => job'[t] = job[t]
  BY <1>0, JobMoved
<1>2. TypeOK'
  BY <1>0, <1>1 DEF TypeOK
<1>3. Aged(table, table') /\ NoneNewBut(0, table, table') /\ minted <= minted'
  BY <1>0, NoneChanged, MintedLater
<1>4. j # NoJob => JobOK(j)'
  BY DEF JobOK, Sound, Warranted, Copies, KeepsTrust, RevisesFact, RulingLayer,
         Covers, Decided, Present
<1>5. j # NoJob /\ j.stage = "inserting" =>
        \A t \in Procs \ {p} : At(t, "inserting") => job[t].id # j.id
  OBVIOUS
<1>6. audit' = audit
  OBVIOUS
<1> QED BY <1>1, <1>2, <1>3, <1>4, <1>5, <1>6, NoRowKept

LEMMA StartKept ==
  ASSUME IInv, NEW s \in Procs, NEW d, NEW tier, NEW ids, Begun(s, d, tier, ids)
  PROVE  IInv'
<1> DEFINE j == [stage |-> IF d.sources = {} THEN "writing" ELSE "resolving",
                 draft |-> d, tier |-> tier, todo |-> d.sources, id |-> 0,
                 ids |-> ids, action |-> "none"]
<1>1. d \in Row /\ tier \in Tiers /\ ids \in SUBSET Ids /\ d.sources \in SUBSET Ids
      /\ Sound(d, d.sources, tier) /\ Copies(d)
  BY DEF Begun, Row
<1>2. j \in Jobs
  BY <1>1 DEF Jobs, Stages
<1>3. JobOK(j) /\ j.stage # "inserting"
  BY <1>1 DEF JobOK
<1>4. Goto(s, j) /\ UNCHANGED <<table, minted, proposals, audit, events, cleared>>
  BY DEF Begun, Start
<1>5. ProposalsSound' /\ proposals' \subseteq Proposal /\ events' \in 0..MaxEvents
  BY <1>4 DEF IInv, TypeOK, ProposalsSound
<1> HIDE DEF j
<1> QED BY <1>2, <1>3, <1>4, <1>5, JobKept

LEMMA AbandonKept ==
  ASSUME IInv, NEW s \in Procs, Abandon(s)
  PROVE  IInv'
<1>1. Goto(s, NoJob) /\ UNCHANGED <<table, minted, proposals, audit, events, cleared>>
  BY DEF Abandon
<1>2. ProposalsSound' /\ proposals' \subseteq Proposal /\ events' \in 0..MaxEvents
  BY <1>1 DEF IInv, TypeOK, ProposalsSound
<1> QED BY <1>1, <1>2, JobKept

LEMMA ResolveKept ==
  ASSUME IInv, NEW s \in Procs, Resolve(s)
  PROVE  IInv'
<1>1. ~Idle(s)
  BY DEF Resolve, At
<1>2. job[s] \in Jobs /\ JobOK(job[s]) /\ job[s] # NoJob
  BY <1>1, JobOf
<1>3. PICK k \in Jobs : k = job[s] /\ JobOK(k)
  BY <1>2
<1>4. PICK i \in k.todo :
        /\ Usable(i, k.draft)
        /\ Goto(s, [k EXCEPT
                     !.tier  = MinTier({k.tier, table[i].tier}),
                     !.todo  = k.todo \ {i},
                     !.stage = IF k.todo \ {i} = {} /\ k.stage = "resolving"
                                 THEN "writing" ELSE k.stage])
  BY <1>3 DEF Resolve
<1> DEFINE tier == MinTier({k.tier, table[i].tier})
           left == k.todo \ {i}
           j == [k EXCEPT !.tier = tier, !.todo = left,
                          !.stage = IF left = {} /\ k.stage = "resolving"
                                      THEN "writing" ELSE k.stage]
<1>5. k.stage \in {"resolving", "proposing"} /\ k.todo \in SUBSET Ids /\ i \in Ids
      /\ k.tier \in Tiers
  BY <1>3 DEF Resolve, At, Jobs
<1>6. table[i] \in Row
  BY <1>4, <1>5 DEF Usable, IInv, TypeOK, NoRow
<1>7. tier \in Tiers /\ k.tier <= tier /\ table[i].tier <= tier
  BY <1>5, <1>6, PairTier DEF Row
<1>8. j \in Jobs
  <2> HIDE DEF tier
  <2> QED BY <1>5, <1>7 DEF Jobs, Stages
<1>9. JobOK(j) /\ j.stage # "inserting"
  <2>1. /\ j.draft = k.draft /\ j.id = k.id /\ j.tier = tier /\ j.todo = left
        /\ k.stage = "resolving" => j.stage \in {"resolving", "writing"}
        /\ k.stage = "proposing" => j.stage = "proposing"
        /\ j.stage = "writing" => left = {}
    BY <1>5 DEF Jobs
  <2>2. CASE k.stage = "proposing"
    BY <1>3, <2>1, <2>2 DEF JobOK
  <2>3. CASE k.stage = "resolving"
    <3>1. k.draft \in Row /\ Sound(k.draft, k.todo, k.tier) /\ Copies(k.draft)
      BY <1>3, <2>3 DEF JobOK
    <3>2. Covers(k.draft, i, tier)
      BY <1>4, <1>6, <1>7 DEF Covers, Usable
    <3>3. \A n \in Ids : table[n] \in Row /\ table[n].tier <= k.tier => table[n].tier <= tier
      BY <1>5, <1>7 DEF Row, Tiers
    <3>4. \A n \in k.draft.sources \ left : Covers(k.draft, n, tier)
      <4> SUFFICES ASSUME NEW n \in k.draft.sources \ left, n # i
                   PROVE  Covers(k.draft, n, tier)
        BY <3>2
      <4>1. Covers(k.draft, n, k.tier) /\ n \in Ids
        BY <3>1 DEF Sound, Row
      <4> QED BY <3>3, <4>1 DEF Covers
    <3>5. k.draft.prior # 0 /\ k.draft.repair => table[k.draft.prior].tier <= tier
      BY <3>1, <3>3 DEF Sound, Row
    <3>6. Sound(k.draft, left, tier)
      BY <3>1, <3>4, <3>5 DEF Sound
    <3> HIDE DEF tier, left, j
    <3> QED BY <2>1, <2>3, <3>1, <3>6 DEF JobOK
  <2> QED BY <1>5, <2>2, <2>3
<1>10. Goto(s, j) /\ UNCHANGED <<table, minted, proposals, audit, events, cleared>>
  BY <1>4 DEF Resolve
<1>11. ProposalsSound' /\ proposals' \subseteq Proposal /\ events' \in 0..MaxEvents
  BY <1>10 DEF IInv, TypeOK, ProposalsSound
<1> HIDE DEF j
<1> QED BY <1>8, <1>9, <1>10, <1>11, JobKept

LEMMA ProposeKept ==
  ASSUME IInv, NEW s \in Procs, Propose(s)
  PROVE  IInv'
<1>1. job[s] \in Jobs /\ JobOK(job[s]) /\ job[s].stage = "proposing"
  BY JobOf DEF Propose, At
<1> DEFINE p == [sources |-> job[s].draft.sources, origin |-> job[s].id]
<1>2. p \in Proposal /\ p.origin \in p.sources
  BY <1>1 DEF JobOK, Proposal, Row
<1>3. proposals' = proposals \cup {p} /\ Goto(s, NoJob)
      /\ UNCHANGED <<table, minted, audit, events, cleared>>
  BY DEF Propose
<1> HIDE DEF p
<1>4. ProposalsSound' /\ proposals' \subseteq Proposal /\ events' \in 0..MaxEvents
  BY <1>2, <1>3 DEF IInv, TypeOK, ProposalsSound
<1> QED BY <1>3, <1>4, JobKept

LEMMA ReviewKept ==
  ASSUME IInv, NEW s \in Procs, Review(s)
  PROVE  IInv'
<1>1. PICK i \in Ids :
        /\ Present(table, i)
        /\ Goto(s, [stage |-> "reviewing", draft |-> NoRow, tier |-> 0, todo |-> {},
                    id |-> i, ids |-> {}, action |-> "none"])
  BY DEF Review
<1> DEFINE j == [stage |-> "reviewing", draft |-> NoRow, tier |-> 0, todo |-> {},
                 id |-> i, ids |-> {}, action |-> "none"]
<1>2. j \in Jobs
  BY DEF Jobs, Stages, Tiers
<1>3. JobOK(j) /\ j.stage # "inserting"
  BY <1>1, PresentRow DEF JobOK, IInv
<1>4. UNCHANGED <<table, minted, proposals, audit, cleared>>
      /\ events < MaxEvents /\ events' = events + 1
  BY DEF Review
<1>5. ProposalsSound' /\ proposals' \subseteq Proposal /\ events' \in 0..MaxEvents
  BY <1>4, AdmissionAssumption DEF IInv, TypeOK, ProposalsSound
<1>6. Goto(s, j)
  BY <1>1
<1> HIDE DEF j
<1> QED BY <1>2, <1>3, <1>4, <1>5, <1>6, JobKept

LEMMA AuditKept ==
  ASSUME IInv, NEW s \in Procs, Audit(s)
  PROVE  IInv'
<1>1. job[s] \in Jobs /\ JobOK(job[s]) /\ job[s].stage = "auditing"
  BY JobOf DEF Audit, At
<1>2. PICK i \in Ids, a \in {"accept", "reject"} : i = job[s].id /\ a = job[s].action
  BY <1>1 DEF JobOK
<1>3. table[i] \in Row /\ Decided(i, a)
  BY <1>1, <1>2 DEF JobOK
<1>4. audit' = audit \cup {<<i, a>>} /\ Goto(s, NoJob)
      /\ UNCHANGED <<table, minted, proposals, events, cleared>>
  BY <1>2 DEF Audit
<1>5. AuditSound'
  <2> SUFFICES ASSUME NEW b \in audit' PROVE table[b[1]] \in Row /\ Decided(b[1], b[2])
    BY <1>4 DEF AuditSound, Decided, Present
  <2>1. CASE b \in audit
    BY <2>1 DEF IInv, AuditSound
  <2>2. CASE b = <<i, a>>
    BY <1>3, <2>2
  <2> QED BY <1>4, <2>1, <2>2
<1>6. /\ job' \in [Procs -> Jobs \cup {NoJob}] /\ job'[s] = NoJob
      /\ \A t \in Procs : t # s => job'[t] = job[t]
  BY <1>4, JobMoved DEF IInv
<1>7. TypeOK' /\ ProposalsSound'
  BY <1>4, <1>6 DEF IInv, TypeOK, ProposalsSound
<1>8. Aged(table, table') /\ NoneNewBut(0, table, table') /\ minted <= minted'
  BY <1>4, NoneChanged, MintedLater DEF IInv
<1> QED BY <1>5, <1>6, <1>7, <1>8, NoRowKept

LEMMA DecideKept ==
  ASSUME IInv, NEW s \in Procs, Decide(s)
  PROVE  IInv'
<1>1. PICK k \in Jobs : k = job[s] /\ JobOK(k) /\ k.stage = "reviewing"
  BY JobOf DEF Decide, At
<1>2. PICK a \in {"accept", "reject"} :
        /\ table' = Reviewed(k.id, a)
        /\ cleared' = IF a = "accept" THEN cleared \cup {k.id} ELSE cleared
        /\ Goto(s, [k EXCEPT !.stage = "auditing", !.action = a])
  BY <1>1 DEF Decide
<1>3. k.id \in Ids /\ table[k.id] \in Row
  BY <1>1 DEF JobOK
<1> DEFINE j == [k EXCEPT !.stage = "auditing", !.action = a]
<1>4. j \in Jobs /\ j.stage = "auditing" /\ j.id = k.id /\ j.action = a
  BY DEF Jobs, Stages
<1>5. UNCHANGED <<minted, proposals, audit, events>>
  BY DEF Decide
<1>6. /\ Aged(table, table') /\ NoneNewBut(0, table, table')
      /\ table' \in [Ids -> Row \cup {NoRow}]
  <2>1. CASE Present(table, k.id)
    BY <1>2, <1>3, <2>1, RowStatus DEF IInv, Reviewed
  <2>2. CASE ~Present(table, k.id)
    BY <1>2, <2>2, NoneChanged DEF IInv, Reviewed, WithStatus, TypeOK
  <2> QED BY <2>1, <2>2
<1>7. Decided(k.id, a)'
  <2> SUFFICES ASSUME Present(table', k.id)
               PROVE  IF a = "accept" THEN table'[k.id].validation # "quarantined"
                                      ELSE table'[k.id].status = "deprecated"
    BY DEF Decided
  <2>1. Present(table, k.id)
    BY <1>2, <1>3 DEF Reviewed, WithStatus, Present
  <2>2. CASE a = "accept"
    BY <1>2, <1>3, <2>1, <2>2 DEF Reviewed, IInv, TypeOK, Row
  <2>3. CASE a = "reject"
    BY <1>2, <1>3, <2>1, <2>3 DEF Reviewed, WithStatus, IInv, TypeOK, Row
  <2> QED BY <2>2, <2>3
<1>8. JobOK(j)'
  <2>1. table'[k.id] \in Row
    BY <1>3, <1>6 DEF Aged, RowAges
  <2> HIDE DEF j
  <2> QED BY <1>3, <1>4, <1>7, <2>1 DEF JobOK
<1>9. Goto(s, j)
  BY <1>2
<1>10. cleared' \subseteq Ids
  BY <1>2, <1>3 DEF IInv, TypeOK
<1> HIDE DEF j
<1>11. /\ job' \in [Procs -> Jobs \cup {NoJob}] /\ job'[s] = j
       /\ \A t \in Procs : t # s => job'[t] = job[t]
  BY <1>4, <1>9, JobMoved DEF IInv
<1>12. TypeOK' /\ ProposalsSound' /\ minted <= minted'
  BY <1>5, <1>6, <1>10, <1>11, MintedLater DEF IInv, TypeOK, ProposalsSound
<1>13. j.stage # "inserting" /\ j \in Jobs
  BY <1>4
<1>14. audit' = audit
  BY <1>5
<1> QED BY <1>6, <1>8, <1>11, <1>12, <1>13, <1>14, NoRowKept

LEMMA LoseKept ==
  ASSUME IInv, NEW i \in Ids, Lose(i)
  PROVE  IInv'
<1>1. /\ Present(table, i) /\ events < MaxEvents /\ events' = events + 1
      /\ table' \in {WithStatus(table, i, "deprecated"), Erased(table, i)}
      /\ UNCHANGED <<minted, job, proposals, audit, cleared>>
  BY DEF Lose
<1>2. /\ Aged(table, table') /\ NoneNewBut(0, table, table')
      /\ table' \in [Ids -> Row \cup {NoRow}]
  BY <1>1, RowStatus DEF IInv
<1>3. TypeOK' /\ ProposalsSound' /\ minted <= minted'
  BY <1>1, <1>2, AdmissionAssumption, MintedLater DEF IInv, TypeOK, ProposalsSound
<1>4. PICK p : p \notin Procs
  BY NoSetContainsEverything
<1>5. /\ \A t \in Procs : t # p => job'[t] = job[t]
      /\ p \in Procs => job'[p] = NoJob
  BY <1>1, <1>4
<1>6. audit' = audit
  BY <1>1
<1> QED BY <1>2, <1>3, <1>5, <1>6, NoRowKept

LEMMA MarkKept ==
  ASSUME IInv, NEW s \in Procs, Mark(s)
  PROVE  IInv'
<1>1. PICK k \in Jobs : k = job[s] /\ JobOK(k) /\ k.stage \in {"marking", "writing"}
  BY JobOf DEF Mark, At
<1> DEFINE first == k.stage = "writing"
<1>0. PICK new \in Ids : new = IF first THEN minted + 1 ELSE k.id
  <2>1. CASE first
    <3>1. minted < MaxId /\ minted \in 0..MaxId
      BY <1>1, <2>1 DEF Mark, At, IInv, TypeOK
    <3> QED BY <2>1, <3>1, IdFacts
  <2>2. CASE ~first
    BY <1>1, <2>2 DEF JobOK
  <2> QED BY <2>1, <2>2
<1> DEFINE j == IF first THEN [k EXCEPT !.stage = "inserting", !.id = new] ELSE NoJob
<1>2. /\ minted' = IF first THEN new ELSE minted
      /\ table' = IF Present(table, k.draft.prior)
                    THEN WithSuccessor(table, k.draft.prior, new) ELSE table
      /\ Goto(s, j)
      /\ UNCHANGED <<proposals, audit, events, cleared>>
      /\ first => minted < MaxId /\ RevisesFact(k.draft)
  BY <1>0, <1>1 DEF Mark, At
<1>3. minted \in Nat /\ minted \in 0..MaxId /\ (first => minted + 1 \in Ids)
  BY <1>2, IdFacts, AdmissionAssumption DEF IInv, TypeOK
<1>4. k.draft \in Row /\ k.draft.prior # 0
  BY <1>1, <1>2 DEF JobOK, RevisesFact
<1>5. new \in Ids /\ k.draft.prior \in Ids
  BY <1>1, <1>3, <1>4 DEF JobOK, Row
<1>6. j \in Jobs \cup {NoJob} /\ (j # NoJob => j \in Jobs /\ first /\ j.id = new
        /\ j.stage = "inserting" /\ j.draft = k.draft /\ j.todo = k.todo /\ j.tier = k.tier)
  BY <1>5 DEF Jobs, Stages
<1>7. /\ Aged(table, table') /\ NoneNewBut(0, table, table')
      /\ table' \in [Ids -> Row \cup {NoRow}]
  <2>1. CASE Present(table, k.draft.prior)
    BY <1>2, <1>5, <2>1, RowClosed DEF IInv
  <2>2. CASE ~Present(table, k.draft.prior)
    BY <1>2, <2>2, NoneChanged DEF IInv, TypeOK
  <2> QED BY <2>1, <2>2
<1>8. minted' \in 0..MaxId /\ minted' \in Nat /\ minted <= minted'
      /\ (first => minted' = new /\ new = minted + 1)
  BY <1>0, <1>2, <1>3, AdmissionAssumption DEF Ids
<1>9. /\ job' \in [Procs -> Jobs \cup {NoJob}] /\ job'[s] = j
      /\ \A t \in Procs : t # s => job'[t] = job[t]
  BY <1>2, <1>6, JobMoved DEF IInv
<1>10. TypeOK' /\ ProposalsSound'
  BY <1>2, <1>7, <1>8, <1>9 DEF IInv, TypeOK, ProposalsSound
<1>11. j # NoJob => JobOK(j)'
  <2> SUFFICES ASSUME j # NoJob PROVE JobOK(j)'
    OBVIOUS
  <2>1. Sound(k.draft, k.todo, k.tier) /\ k.todo = {} /\ Copies(k.draft)
        /\ table[k.draft.prior] \in Row
    BY <1>1, <1>4, <1>6 DEF JobOK, Sound
  <2>2. Sound(k.draft, k.todo, k.tier)' /\ Copies(k.draft)'
    BY <1>4, <1>7, <2>1, SoundLater, CopiesLater
  <2>3. table[new] = NoRow
    BY <1>3, <1>5, <1>6, <1>8 DEF IInv, MintedFirst
  <2>4. table'[new] = NoRow /\ new <= minted'
    BY <1>5, <1>6, <1>7, <1>8, <2>3, IdFacts DEF NoneNewBut
  <2> HIDE DEF j, first
  <2> QED BY <1>4, <1>5, <1>6, <2>1, <2>2, <2>4 DEF JobOK
<1>12. j # NoJob /\ j.stage = "inserting" =>
         \A t \in Procs \ {s} : At(t, "inserting") => job[t].id # j.id
  <2> SUFFICES ASSUME j # NoJob, NEW t \in Procs, At(t, "inserting")
               PROVE  job[t].id # j.id
    OBVIOUS
  <2>1. job[t].id \in Ids /\ job[t].id <= minted
    BY JobOf DEF At, JobOK
  <2>2. j.id = minted + 1
    BY <1>6, <1>8
  <2> QED BY <1>3, <2>1, <2>2, IdFacts
<1>13. audit' = audit
  BY <1>2
<1> HIDE DEF j
<1> QED BY <1>6, <1>7, <1>8, <1>9, <1>10, <1>11, <1>12, <1>13, NoRowKept

(* What a draft whose sources are all resolved becomes. *)
LEMMA FiledSound ==
  ASSUME NEW d \in Row, NEW tier \in Tiers, Sound(d, {}, tier)
  PROVE  /\ Filed(d, tier) \in Row
         /\ Sound(Filed(d, tier), {}, Filed(d, tier).tier)
<1>1. CASE KeepsTrust(d)
  <2>1. Filed(d, tier) = d /\ ~d.repair
    BY <1>1 DEF Filed, KeepsTrust
  <2> QED BY <2>1 DEF Sound
<1>2. CASE ~KeepsTrust(d)
  <2>1. \E v \in {"quarantined", "unverified", "validated"} :
          Filed(d, tier) = [d EXCEPT !.tier = tier, !.validation = v]
    <3>1. StateFor(d, tier) \in {"quarantined", "unverified", "validated"}
      BY DEF StateFor
    <3>2. d.validation \in {"quarantined", "unverified", "validated"}
      BY DEF Row
    <3> HIDE DEF Tiers
    <3> QED BY <1>2, <3>1, <3>2 DEF Filed
  <2>2. PICK v \in {"quarantined", "unverified", "validated"} :
          Filed(d, tier) = [d EXCEPT !.tier = tier, !.validation = v]
    BY <2>1
  <2> DEFINE e == [d EXCEPT !.tier = tier, !.validation = v]
  <2>3. e \in Row /\ e.tier = tier
    BY DEF Row
  <2>4. Sound(e, {}, tier)
    BY DEF Sound, Warranted, Covers, Row
  <2> HIDE DEF e
  <2>5. Filed(d, tier) = e
    BY <2>2 DEF e
  <2> QED BY <2>3, <2>4, <2>5
<1> QED BY <1>1, <1>2

LEMMA InsertKept ==
  ASSUME IInv, NEW s \in Procs, Insert(s)
  PROVE  IInv'
<1>1. PICK k \in Jobs : k = job[s] /\ JobOK(k) /\ k.stage \in {"writing", "inserting"}
  BY JobOf DEF Insert, At
<1> DEFINE late == k.stage = "inserting"
<1>2. PICK new \in Ids : new = IF late THEN k.id ELSE minted + 1
  <2>1. CASE late
    BY <1>1, <2>1 DEF JobOK
  <2>2. CASE ~late
    <3>1. minted < MaxId /\ minted \in 0..MaxId
      BY <1>1, <2>2 DEF Insert, At, IInv, TypeOK
    <3> QED BY <2>2, <3>1, IdFacts
  <2> QED BY <2>1, <2>2
<1> DEFINE named == ProposedSources(k.ids, new)
           marked == [k EXCEPT !.stage = "marking", !.id = new]
           proposed == [k EXCEPT !.stage = "proposing", !.id = new, !.todo = named,
                                 !.draft.sources = named, !.ids = {}]
           j == CASE k.stage = "writing" /\ k.draft.prior # 0 -> marked
                  [] k.draft.prior = 0 /\ k.ids # {} -> proposed
                  [] OTHER -> NoJob
<1>3. /\ minted' = IF late THEN minted ELSE new
      /\ table' = WithRow(table, new, Filed(k.draft, k.tier))
      /\ UNCHANGED <<proposals, audit, events, cleared>>
  BY <1>1, <1>2 DEF Insert
<1>4. /\ k.draft \in Row /\ k.tier \in Tiers /\ k.ids \in SUBSET Ids
      /\ Sound(k.draft, {}, k.tier)
  BY <1>1 DEF JobOK, Jobs
<1>5. minted \in Nat /\ minted \in 0..MaxId /\ minted' \in 0..MaxId /\ minted' \in Nat
      /\ minted <= minted' /\ new <= minted'
  <2>1. minted \in Nat /\ minted \in 0..MaxId /\ MaxId \in Nat
    BY AdmissionAssumption DEF IInv, TypeOK
  <2>2. CASE late
    BY <1>1, <1>2, <1>3, <2>1, <2>2 DEF JobOK
  <2>3. CASE ~late
    BY <1>2, <1>3, <2>1, <2>3 DEF Ids
  <2> QED BY <2>2, <2>3
<1>6. table[new] = NoRow
  <2>1. CASE late
    BY <1>1, <1>2, <2>1 DEF JobOK
  <2>2. CASE ~late
    BY <1>2, <1>5, <2>2 DEF IInv, MintedFirst
  <2> QED BY <2>1, <2>2
<1>7. PICK r \in Row : r = Filed(k.draft, k.tier) /\ Sound(r, {}, r.tier)
  BY <1>4, FiledSound
<1>8. /\ Aged(table, table') /\ NoneNewBut(new, table, table')
      /\ table' \in [Ids -> Row \cup {NoRow}] /\ table'[new] = r
  BY <1>3, <1>6, <1>7, RowWritten DEF IInv
<1>9. Sound(r, {}, r.tier)'
  BY <1>7, <1>8, SoundLater
<1>10. \A t \in Procs \ {s} : At(t, "inserting") => job[t].id # new
  <2> SUFFICES ASSUME NEW t \in Procs, t # s, At(t, "inserting")
               PROVE  job[t].id # new
    OBVIOUS
  <2>1. CASE late
    BY <1>1, <1>2, <2>1 DEF IInv, OneInserter, At, Idle, NoJob, Jobs
  <2>2. CASE ~late
    <3>1. job[t].id \in Ids /\ job[t].id <= minted
      BY JobOf DEF At, JobOK
    <3> QED BY <1>2, <1>5, <2>2, <3>1, IdFacts
  <2> QED BY <2>1, <2>2
<1>11. k.draft.prior # 0 => marked \in Jobs /\ JobOK(marked)' /\ marked.stage = "marking"
  <2>1. marked \in Jobs /\ marked.stage = "marking" /\ marked.id = new /\ marked.draft = k.draft
    BY DEF Jobs, Stages
  <2> HIDE DEF marked
  <2> QED BY <1>4, <2>1 DEF JobOK
<1>12. proposed \in Jobs /\ JobOK(proposed)' /\ proposed.stage = "proposing"
  <2>1. named \in SUBSET Ids /\ new \in named
    BY <1>4 DEF ProposedSources
  <2> HIDE DEF named
  <2>2. [k.draft EXCEPT !.sources = named] \in Row
    BY <1>4, <2>1 DEF Row
  <2>3. proposed.draft = [k.draft EXCEPT !.sources = named]
    BY DEF Jobs
  <2>4. proposed.draft.sources = named
    BY <1>4, <2>3 DEF Row
  <2>5. proposed \in Jobs /\ proposed.stage = "proposing" /\ proposed.id = new
    BY <2>1, <2>2 DEF Jobs, Stages
  <2> HIDE DEF proposed
  <2> QED BY <2>1, <2>2, <2>3, <2>4, <2>5 DEF JobOK
<1> HIDE DEF marked, proposed, named
<1>13. /\ j \in Jobs \cup {NoJob} /\ (j # NoJob => JobOK(j)')
       /\ j # NoJob => j.stage # "inserting"
  <2>1. CASE k.stage = "writing" /\ k.draft.prior # 0
    BY <1>11, <2>1
  <2>2. CASE k.draft.prior = 0 /\ k.ids # {}
    BY <1>12, <2>2
  <2>3. CASE /\ ~(k.stage = "writing" /\ k.draft.prior # 0)
                /\ ~(k.draft.prior = 0 /\ k.ids # {})
    BY <2>3
  <2> QED BY <2>1, <2>2, <2>3
<1>14. Goto(s, j)
  BY <1>1, <1>2 DEF Insert, marked, proposed, named
<1> HIDE DEF j
<1>15. /\ job' \in [Procs -> Jobs \cup {NoJob}] /\ job'[s] = j
       /\ \A t \in Procs : t # s => job'[t] = job[t]
  BY <1>13, <1>14, JobMoved DEF IInv
<1>16. TypeOK' /\ ProposalsSound'
  BY <1>3, <1>5, <1>8, <1>15 DEF IInv, TypeOK, ProposalsSound
<1>17. /\ new # 0 /\ audit' = audit
       /\ j # NoJob /\ j.stage = "inserting" =>
            \A t \in Procs \ {s} : At(t, "inserting") => job[t].id # j.id
  BY <1>3, <1>13, IdFacts
<1> QED
  BY <1>5, <1>6, <1>8, <1>9, <1>10, <1>13, <1>15, <1>16, <1>17, StepKept

-------------------------------------------------------------------------------
(* The theorems *)

LEMMA NextInv == IInv /\ [Next]_vars => IInv'
<1> SUFFICES ASSUME IInv, [Next]_vars PROVE IInv'
  OBVIOUS
<1>0. TypeOK /\ RowsSound /\ ProposalsSound
  BY DEF IInv
<1>1. ASSUME NEW s \in Sessions,
             Commit(s) \/ CommandCommit(s) \/ CommandIndex(s)
               \/ Ingest(s) \/ CommitProposal(s) \/ Update(s)
      PROVE  IInv'
  <2>1. \E d, tier, ids : Begun(s, d, tier, ids)
    BY <1>0, <1>1, CommitBegun, CommandCommitBegun, CommandIndexBegun,
       IngestBegun, CommitProposalBegun, UpdateBegun
  <2> QED BY <2>1, StartKept DEF Procs
<1>2. ASSUME NEW s \in Sessions, Resolve(s) \/ Insert(s) \/ Mark(s) \/ Propose(s)
      PROVE  IInv'
  BY <1>2, ResolveKept, InsertKept, MarkKept, ProposeKept DEF Procs
<1>3. ASSUME NEW o \in Operators, Review(o) \/ Decide(o) \/ Audit(o)
      PROVE  IInv'
  BY <1>3, ReviewKept, DecideKept, AuditKept DEF Procs
<1>4. ASSUME NEW p \in Procs, Abandon(p) PROVE IInv'
  BY <1>4, AbandonKept
<1>5. ASSUME NEW i \in Ids, Lose(i) PROVE IInv'
  BY <1>5, LoseKept
<1>6. CASE UNCHANGED vars
  <2>1. PICK p : p \notin Procs
    BY NoSetContainsEverything
  <2>2. /\ \A t \in Procs : t # p => job'[t] = job[t]
        /\ p \in Procs => job'[p] = NoJob
    BY <1>6, <2>1 DEF vars
  <2>3. TypeOK' /\ ProposalsSound' /\ audit' = audit /\ minted <= minted'
    BY <1>0, <1>6, MintedLater DEF vars, TypeOK, ProposalsSound
  <2>4. Aged(table, table') /\ NoneNewBut(0, table, table')
    BY <1>0, <1>6, NoneChanged DEF vars
  <2> QED BY <2>2, <2>3, <2>4, NoRowKept
<1> QED BY <1>1, <1>2, <1>3, <1>4, <1>5, <1>6 DEF Next

LEMMA AlwaysInv == Spec => []IInv
BY InitInv, NextInv, PTL DEF Spec

(* The variables always have the values that the tables and the handlers   *)
(* of the code can hold.                                                   *)
THEOREM TypeCorrect == Spec => []TypeOK
<1>1. IInv => TypeOK
  BY DEF IInv
<1> QED BY AlwaysInv, <1>1, PTL

LEMMA SourcesFound ==
  ASSUME IInv, NEW i \in Ids, Present(table, i), table[i].repair,
         NEW k \in table[i].sources
  PROVE  Covers(table[i], k, table[i].tier)
<1>1. table[i] \in Row /\ Sound(table[i], {}, table[i].tier)
  BY PresentRow DEF IInv, RowsSound
<1> QED BY <1>1 DEF Sound

(* A repair is never trusted more than a source it names, than the artifact *)
(* it was proposed from, or than the revision it replaces: the sources only *)
(* lower the tier, and what they were read as never changes.                *)
THEOREM RepairsLeastTrusted == Spec => []LeastTrust
<1>1. IInv => LeastTrust
  <2> SUFFICES ASSUME IInv, NEW i \in Ids, Present(table, i), table[i].repair,
                      NEW k \in table[i].sources
                             \cup ({table[i].origin, table[i].prior} \ {0})
               PROVE  table[k].tier <= table[i].tier
    BY DEF LeastTrust
  <2>1. table[i] \in Row /\ Sound(table[i], {}, table[i].tier)
    BY PresentRow DEF IInv, RowsSound
  <2> QED BY <2>1, SourcesFound DEF Sound, Covers
<1> QED BY AlwaysInv, <1>1, PTL

(* A repair rests on crystals of its project that its audience may see, and *)
(* keeps every source of the revision it replaces.                          *)
THEOREM AudiencesKept == Spec => []AudienceKept
<1>1. IInv => AudienceKept
  <2> SUFFICES ASSUME IInv, NEW i \in Ids, Present(table, i), table[i].repair
               PROVE  /\ \A k \in table[i].sources :
                           /\ table[k].project = table[i].project
                           /\ table[k].audience \in {Everyone, table[i].audience}
                      /\ table[i].prior # 0 =>
                           table[table[i].prior].sources \subseteq table[i].sources
    BY DEF AudienceKept
  <2>1. table[i] \in Row /\ Sound(table[i], {}, table[i].tier)
    BY PresentRow DEF IInv, RowsSound
  <2> QED BY <2>1, SourcesFound DEF Sound, Covers
<1> QED BY AlwaysInv, <1>1, PTL

-------------------------------------------------------------------------------
(* The quarantine, through the revisions *)

Cleared(i) == Lineage(i) \cap cleared # {}

(* QuarantineHeld, of erased crystals too. *)
Held == \A i \in Ids : table[i] \in Row /\ table[i].tier = 3 =>
          table[i].validation = "quarantined" \/ Cleared(i)

LEMMA OwnLineage == \A i \in Ids : i \in Lineage(i)
  BY DEF Lineage

(* Old rows keep what they revise, so that no lineage gets shorter. *)
LEMMA LineageLater ==
  ASSUME TypeOK, Aged(table, table'), NEW i \in Ids
  PROVE  Lineage(i) \subseteq Lineage(i)'
<1> SUFFICES ASSUME NEW k \in Lineage(i), NEW S \in SUBSET Ids, i \in S, HoldsPriors(S)'
             PROVE  k \in S
  BY DEF Lineage
<1>1. HoldsPriors(S)
  <2> SUFFICES ASSUME NEW n \in S, table[n] # NoRow, table[n].prior # 0
               PROVE  table[n].prior \in S
    BY DEF HoldsPriors
  <2>1. table[n] \in Row /\ RowAges(table[n], table'[n])
    BY DEF TypeOK, Aged
  <2>2. table'[n] # NoRow /\ table'[n].prior = table[n].prior
    BY <2>1, NoRowIsNone DEF RowAges, Fixed
  <2> QED BY <2>2 DEF HoldsPriors
<1> QED BY <1>1 DEF Lineage

LEMMA ClearedLater ==
  ASSUME TypeOK, Aged(table, table'), cleared \subseteq cleared',
         NEW i \in Ids, Cleared(i)
  PROVE  Cleared(i)'
  BY LineageLater DEF Cleared

(* A step that files no new row, and lifts a quarantine only by accepting. *)
LEMMA HeldKept ==
  ASSUME TypeOK, Held, Aged(table, table'), NoneNewBut(0, table, table'), TypeOK',
         cleared \subseteq cleared',
         \A i \in Ids : table[i] \in Row /\ table[i].validation = "quarantined" =>
           table'[i].validation = "quarantined" \/ i \in cleared'
  PROVE  Held'
<1> SUFFICES ASSUME NEW i \in Ids, table'[i] \in Row, table'[i].tier = 3,
                    table'[i].validation # "quarantined"
             PROVE  Cleared(i)'
  BY DEF Held
<1>1. table[i] \in Row
  BY NoRowIsNone, IdFacts DEF TypeOK, NoneNewBut
<1>2. table[i].tier = 3
  BY <1>1 DEF Aged, RowAges, Fixed
<1>3. CASE table[i].validation = "quarantined"
  <2>1. i \in cleared' /\ i \in Lineage(i)'
    BY <1>1, <1>3, OwnLineage, LineageLater
  <2> QED BY <2>1 DEF Cleared
<1>4. CASE table[i].validation # "quarantined"
  BY <1>1, <1>2, <1>4, ClearedLater DEF Held
<1> QED BY <1>3, <1>4

(* What the insert of a row leaves behind. *)
LEMMA InsertWrites ==
  ASSUME IInv, NEW s \in Procs, Insert(s)
  PROVE  \E k \in Jobs, new \in Ids, r \in Row :
           /\ k.draft \in Row /\ k.tier \in Tiers /\ Sound(k.draft, {}, k.tier)
           /\ Copies(k.draft)
           /\ r = Filed(k.draft, k.tier) /\ Admitted(k.draft, k.tier)
           /\ table[new] = NoRow /\ table'[new] = r
           /\ Aged(table, table') /\ NoneNewBut(new, table, table')
           /\ \A i \in Ids \ {new} : table'[i] = table[i]
           /\ cleared' = cleared
<1>1. PICK k \in Jobs : k = job[s] /\ JobOK(k) /\ k.stage \in {"writing", "inserting"}
  BY JobOf DEF Insert, At
<1>2. PICK new \in Ids : new = IF k.stage = "inserting" THEN k.id ELSE minted + 1
  <2>1. CASE k.stage = "inserting"
    BY <1>1, <2>1 DEF JobOK
  <2>2. CASE k.stage # "inserting"
    <3>1. minted < MaxId /\ minted \in 0..MaxId
      BY <1>1, <2>2 DEF Insert, At, IInv, TypeOK
    <3> QED BY <2>2, <3>1, IdFacts
  <2> QED BY <2>1, <2>2
<1>3. /\ table' = WithRow(table, new, Filed(k.draft, k.tier)) /\ cleared' = cleared
      /\ Admitted(k.draft, k.tier)
  BY <1>1, <1>2 DEF Insert
<1>4. /\ k.draft \in Row /\ k.tier \in Tiers /\ Sound(k.draft, {}, k.tier)
      /\ Copies(k.draft)
  BY <1>1 DEF JobOK, Jobs
<1>5. table[new] = NoRow
  <2>1. CASE k.stage = "inserting"
    BY <1>1, <1>2, <2>1 DEF JobOK
  <2>2. CASE k.stage # "inserting"
    <3>1. minted \in 0..MaxId /\ MaxId \in Nat
      BY AdmissionAssumption DEF IInv, TypeOK
    <3>2. new > minted
      BY <1>2, <2>2, <3>1
    <3> QED BY <3>2 DEF IInv, MintedFirst
  <2> QED BY <2>1, <2>2
<1>6. PICK r \in Row : r = Filed(k.draft, k.tier)
  BY <1>4, FiledSound
<1>7. /\ Aged(table, table') /\ NoneNewBut(new, table, table') /\ table'[new] = r
      /\ \A i \in Ids \ {new} : table'[i] = table[i]
  BY <1>3, <1>5, <1>6, RowWritten DEF IInv, WithRow, TypeOK
<1> QED BY <1>3, <1>4, <1>5, <1>6, <1>7

LEMMA InsertHeld ==
  ASSUME IInv, Held, TypeOK', NEW s \in Procs, Insert(s)
  PROVE  Held'
<1>1. PICK k \in Jobs, new \in Ids, r \in Row :
        /\ k.draft \in Row /\ k.tier \in Tiers /\ Sound(k.draft, {}, k.tier)
        /\ Copies(k.draft)
        /\ r = Filed(k.draft, k.tier) /\ Admitted(k.draft, k.tier)
        /\ table[new] = NoRow /\ table'[new] = r
        /\ Aged(table, table') /\ NoneNewBut(new, table, table')
        /\ \A i \in Ids \ {new} : table'[i] = table[i]
        /\ cleared' = cleared
  BY InsertWrites
<1>8. r.tier = 3 /\ r.validation # "quarantined" => Cleared(new)'
  <2> SUFFICES ASSUME r.tier = 3, r.validation # "quarantined" PROVE Cleared(new)'
    OBVIOUS
  <2>1. CASE KeepsTrust(k.draft)
    <3>1. r = k.draft /\ r.prior \in Ids /\ r.prior # 0 /\ table[r.prior] \in Row
      BY <1>1, <2>1 DEF Filed, KeepsTrust, Sound, Row
    <3>2. table[r.prior].tier = 3 /\ table[r.prior].validation # "quarantined"
      BY <1>1, <2>1, <3>1 DEF Copies
    <3>3. Cleared(r.prior)
      BY <3>1, <3>2 DEF Held
    <3>4. Cleared(r.prior)'
      BY <1>1, <3>1, <3>3, ClearedLater DEF IInv
    <3>5. Lineage(r.prior)' \subseteq Lineage(new)'
      BY <1>1, <3>1, NoRowIsNone, IdFacts DEF Lineage, HoldsPriors
    <3> QED BY <3>4, <3>5 DEF Cleared
  <2>2. CASE ~KeepsTrust(k.draft)
    <3>1. r.tier = k.tier /\ r.validation = IF k.draft.prior = 0
                                              THEN StateFor(k.draft, k.tier)
                                              ELSE IF ~k.draft.repair THEN "validated"
                                              ELSE IF k.tier = 3 THEN "quarantined"
                                              ELSE k.draft.validation
      BY <1>1, <2>2 DEF Filed, Row
    <3>2. k.tier = 3 /\ RulingLayer(k.draft) # "semantic"
      BY <1>1, <3>1 DEF Admitted, Writers
    <3>3. k.draft.repair \/ k.draft.prior = 0
      BY <2>2, <3>2 DEF KeepsTrust, RevisesFact
    <3>4. k.draft.prior = 0 => k.draft.layer = "episodic"
      BY <1>1, <3>2, AdmissionAssumption DEF RulingLayer, Row
    <3> QED BY <3>1, <3>2, <3>3, <3>4 DEF StateFor, Quarantines
  <2> QED BY <2>1, <2>2
<1> SUFFICES ASSUME NEW i \in Ids, table'[i] \in Row, table'[i].tier = 3,
                    table'[i].validation # "quarantined"
             PROVE  Cleared(i)'
  BY DEF Held
<1>9. CASE i = new
  BY <1>1, <1>8, <1>9
<1>10. CASE i # new
  BY <1>1, <1>10, ClearedLater DEF IInv, Held
<1> QED BY <1>9, <1>10

(* Every step but an insert only ages the rows, and lifts a quarantine only *)
(* by accepting.                                                            *)
LEMMA OnlyInsertsAdd ==
  ASSUME IInv, [Next]_vars, ~\E s \in Sessions : Insert(s)
  PROVE  /\ Aged(table, table') /\ NoneNewBut(0, table, table')
         /\ cleared \subseteq cleared'
         /\ \A i \in Ids : table[i] \in Row =>
              table'[i].validation = table[i].validation \/ i \in cleared'
<1> DEFINE Quiet == /\ Aged(table, table') /\ NoneNewBut(0, table, table')
                    /\ cleared \subseteq cleared'
                    /\ \A i \in Ids : table[i] \in Row =>
                         table'[i].validation = table[i].validation \/ i \in cleared'
<1>0. TypeOK /\ RowsSound /\ ProposalsSound
  BY DEF IInv
<1>1. UNCHANGED <<table, cleared>> => Quiet
  BY <1>0, NoneChanged
<1>3. ASSUME NEW s \in Procs, Mark(s) PROVE Quiet
  <2>1. PICK k \in Jobs : k = job[s] /\ JobOK(k) /\ k.stage \in {"marking", "writing"}
    BY <1>3, JobOf DEF Mark, At
  <2>2. PICK new : /\ new = IF k.stage = "writing" THEN minted + 1 ELSE k.id
                   /\ table' = IF Present(table, k.draft.prior)
                                 THEN WithSuccessor(table, k.draft.prior, new) ELSE table
                   /\ cleared' = cleared
    BY <1>3, <2>1 DEF Mark
  <2>3. new \in Ids
    <3>1. CASE k.stage = "writing"
      <4>1. minted < MaxId /\ minted \in 0..MaxId
        BY <1>0, <1>3, <2>1, <3>1 DEF Mark, At, TypeOK
      <4> QED BY <2>2, <3>1, <4>1, IdFacts
    <3>2. CASE k.stage = "marking"
      BY <2>1, <2>2, <3>2 DEF JobOK
    <3> QED BY <2>1, <3>1, <3>2
  <2>4. CASE ~Present(table, k.draft.prior)
    BY <1>1, <2>2, <2>4
  <2>5. CASE Present(table, k.draft.prior)
    <3>1. k.draft \in Row /\ k.draft.prior \in Ids
      <4>1. k.draft \in Row /\ k.draft.prior # 0
        BY <1>3, <2>1 DEF JobOK, Mark, At, RevisesFact
      <4> QED BY <4>1 DEF Row
    <3>2. Aged(table, table') /\ NoneNewBut(0, table, table')
      BY <1>0, <2>2, <2>3, <2>5, <3>1, RowClosed
    <3>3. \A i \in Ids : table[i] \in Row => table'[i].validation = table[i].validation
      BY <1>0, <2>2, <2>5, <3>1 DEF WithSuccessor, TypeOK, Row
    <3> QED BY <2>2, <3>2, <3>3
  <2> QED BY <2>4, <2>5
<1>4. ASSUME NEW s \in Procs, Decide(s) PROVE Quiet
  <2>1. PICK k \in Jobs : k = job[s] /\ JobOK(k) /\ k.stage = "reviewing"
    BY <1>4, JobOf DEF Decide, At
  <2>2. PICK a \in {"accept", "reject"} :
          /\ table' = Reviewed(k.id, a)
          /\ cleared' = IF a = "accept" THEN cleared \cup {k.id} ELSE cleared
    BY <1>4, <2>1 DEF Decide
  <2>3. k.id \in Ids /\ cleared \subseteq cleared'
    BY <2>1, <2>2 DEF JobOK
  <2>4. Aged(table, table') /\ NoneNewBut(0, table, table')
    <3>1. CASE Present(table, k.id)
      BY <1>0, <2>2, <2>3, <3>1, RowStatus DEF Reviewed
    <3>2. CASE ~Present(table, k.id)
      BY <1>0, <2>2, <3>2, NoneChanged DEF Reviewed, WithStatus
    <3> QED BY <3>1, <3>2
  <2>5. \A i \in Ids : table[i] \in Row =>
          table'[i].validation = table[i].validation \/ i \in cleared'
    BY <1>0, <2>2, <2>3 DEF Reviewed, WithStatus, TypeOK, Row
  <2> QED BY <2>3, <2>4, <2>5
<1>5. ASSUME NEW i \in Ids, Lose(i) PROVE Quiet
  <2>1. /\ Present(table, i) /\ cleared' = cleared
        /\ table' \in {WithStatus(table, i, "deprecated"), Erased(table, i)}
    BY <1>5 DEF Lose
  <2>2. Aged(table, table') /\ NoneNewBut(0, table, table')
    BY <1>0, <2>1, RowStatus
  <2>3. \A n \in Ids : table[n] \in Row => table'[n].validation = table[n].validation
    BY <1>0, <2>1 DEF WithStatus, Erased, TypeOK, Row
  <2> QED BY <2>1, <2>2, <2>3
<1>6. ASSUME NEW s \in Procs,
             Resolve(s) \/ Propose(s) \/ Review(s) \/ Audit(s) \/ Abandon(s)
      PROVE  UNCHANGED <<table, cleared>>
  BY <1>6 DEF Resolve, Propose, Review, Audit, Abandon
<1>7. ASSUME NEW s \in Sessions,
             Commit(s) \/ CommandCommit(s) \/ CommandIndex(s)
               \/ Ingest(s) \/ CommitProposal(s) \/ Update(s)
      PROVE  UNCHANGED <<table, cleared>>
  <2>1. \E d, tier, ids : Begun(s, d, tier, ids)
    BY <1>0, <1>7, CommitBegun, CommandCommitBegun, CommandIndexBegun,
       IngestBegun, CommitProposalBegun, UpdateBegun DEF IInv
  <2> QED BY <2>1 DEF Begun, Start
<1>8. UNCHANGED vars => UNCHANGED <<table, cleared>>
  BY DEF vars
<1> HIDE DEF Quiet
<1>9. Quiet
  BY <1>1, <1>3, <1>4, <1>5, <1>6, <1>7, <1>8 DEF Next, Procs
<1> QED BY <1>9 DEF Quiet

LEMMA NextHeld == IInv /\ Held /\ [Next]_vars => Held'
<1> SUFFICES ASSUME IInv, Held, [Next]_vars PROVE Held'
  OBVIOUS
<1>1. TypeOK /\ TypeOK'
  BY NextInv DEF IInv
<1>2. CASE \E s \in Sessions : Insert(s)
  BY <1>1, <1>2, InsertHeld DEF Procs
<1>3. CASE ~\E s \in Sessions : Insert(s)
  BY <1>1, <1>3, OnlyInsertsAdd, HeldKept
<1> QED BY <1>2, <1>3

(* Ingested text stays quarantined through every update, until an operator *)
(* accepts it or a revision it descends from.                              *)
THEOREM QuarantinesHeld == Spec => []QuarantineHeld
<1>1. Init => Held
  BY NoRowIsNone DEF Init, Held
<1>2. IInv /\ Held => QuarantineHeld
  BY PresentRow DEF IInv, Held, QuarantineHeld, Cleared
<1> QED BY AlwaysInv, <1>1, NextHeld, <1>2, PTL DEF Spec

-------------------------------------------------------------------------------
(* Protection and reviews *)

(* ProtectionEarned, of erased crystals too. *)
Earned ==
  \A i \in Ids : table[i] \in Row /\ table[i].protected =>
    table[i].asked \/ table[i].author = 0 \/ \E k \in Lineage(i) : Granted(k)

(* What a written row descends from was written too. *)
LEMMA LineageRows ==
  ASSUME IInv, NEW i \in Ids, table[i] \in Row
  PROVE  \A k \in Lineage(i) : k \in Ids /\ table[k] \in Row
<1> DEFINE S == {n \in Ids : table[n] \in Row}
<1>1. HoldsPriors(S)
  BY DEF HoldsPriors, IInv, RowsSound, Sound, Row
<1>2. S \in SUBSET Ids /\ i \in S
  OBVIOUS
<1> QED BY <1>1, <1>2 DEF Lineage

LEMMA GrantedLater ==
  ASSUME IInv, Aged(table, table'), NEW k \in Ids, table[k] \in Row, Granted(k)
  PROVE  Granted(k)'
<1>1. table[k].prior \in Ids /\ table[table[k].prior] \in Row
  BY DEF Granted, IInv, RowsSound, Sound, Row
<1>2. /\ RowAges(table[k], table'[k])
      /\ RowAges(table[table[k].prior], table'[table[k].prior])
  BY <1>1 DEF Aged
<1> QED BY <1>1, <1>2 DEF Granted, RowAges, Fixed

(* A grant in the lineage of a crystal stays in the lineage of whatever    *)
(* descends from it.                                                       *)
LEMMA GrantLater ==
  ASSUME IInv, Aged(table, table'), NEW i \in Ids, table[i] \in Row,
         \E k \in Lineage(i) : Granted(k)
  PROVE  \E k \in Lineage(i)' : Granted(k)'
<1>1. PICK k \in Lineage(i) : Granted(k)
  OBVIOUS
<1>2. k \in Lineage(i)' /\ Granted(k)'
  BY <1>1, LineageRows, LineageLater, GrantedLater DEF IInv
<1> QED BY <1>2

(* A step that writes no new row. *)
LEMMA EarnedSame ==
  ASSUME IInv, IInv', Earned, Aged(table, table'), NoneNewBut(0, table, table')
  PROVE  Earned'
<1> SUFFICES ASSUME NEW i \in Ids, table'[i] \in Row, table'[i].protected,
                    ~table'[i].asked, table'[i].author # 0
             PROVE  \E k \in Lineage(i)' : Granted(k)'
  BY DEF Earned
<1>1. table[i] \in Row
  BY NoRowIsNone, IdFacts DEF IInv, TypeOK, NoneNewBut
<1>2. table[i].protected /\ ~table[i].asked /\ table[i].author # 0
  BY <1>1 DEF Aged, RowAges, Fixed
<1> QED BY <1>1, <1>2, GrantLater DEF Earned

LEMMA InsertEarned ==
  ASSUME IInv, Earned, NEW s \in Procs, Insert(s)
  PROVE  Earned'
<1>1. PICK k \in Jobs, new \in Ids, r \in Row :
        /\ k.draft \in Row /\ k.tier \in Tiers /\ Sound(k.draft, {}, k.tier)
        /\ r = Filed(k.draft, k.tier) /\ Admitted(k.draft, k.tier)
        /\ table[new] = NoRow /\ table'[new] = r
        /\ Aged(table, table') /\ NoneNewBut(new, table, table')
  BY InsertWrites
<1>2. /\ r.protected = k.draft.protected /\ r.asked = k.draft.asked
      /\ r.author = k.draft.author /\ r.prior = k.draft.prior
      /\ r.repair = k.draft.repair /\ (~KeepsTrust(k.draft) => r.tier = k.tier)
  BY <1>1 DEF Filed, Row
<1>3. ASSUME r.protected, ~r.asked, r.author # 0
      PROVE  \E n \in Lineage(new)' : Granted(n)'
  <2>1. /\ r.prior \in Ids /\ r.prior # 0 /\ table[r.prior] \in Row
        /\ table[r.prior].protected \/ (~r.repair /\ table[r.prior].layer = "semantic")
        /\ ~table[r.prior].asked /\ table[r.prior].author # 0
    BY <1>1, <1>2, <1>3 DEF Sound, Warranted, Row
  <2>2. CASE table[r.prior].protected
    <3>1. \E n \in Lineage(r.prior)' : Granted(n)'
      BY <1>1, <2>1, <2>2, GrantLater DEF Earned
    <3>2. Lineage(r.prior)' \subseteq Lineage(new)'
      BY <1>1, <2>1, NoRowIsNone, IdFacts DEF Lineage, HoldsPriors
    <3> QED BY <3>1, <3>2
  <2>3. CASE ~table[r.prior].protected
    <3>1. ~r.repair /\ table[r.prior].layer = "semantic"
      BY <2>1, <2>3
    <3>2. k.tier <= 1 /\ ~KeepsTrust(k.draft)
      BY <1>1, <1>2, <2>1, <3>1
      DEF Admitted, RulingLayer, KeepsTrust, RevisesFact, Writers
    <3>3. RowAges(table[r.prior], table'[r.prior])
      BY <1>1, <2>1 DEF Aged
    <3>4. Granted(new)'
      BY <1>1, <1>2, <1>3, <2>1, <2>3, <3>1, <3>2, <3>3 DEF Granted, RowAges, Fixed
    <3>5. new \in Lineage(new)'
      BY DEF Lineage
    <3> QED BY <3>4, <3>5
  <2> QED BY <2>2, <2>3
<1> SUFFICES ASSUME NEW i \in Ids, table'[i] \in Row, table'[i].protected,
                    ~table'[i].asked, table'[i].author # 0
             PROVE  \E n \in Lineage(i)' : Granted(n)'
  BY DEF Earned
<1>4. CASE i = new
  BY <1>1, <1>3, <1>4
<1>5. CASE i # new
  <2>1. table[i] \in Row
    BY <1>1, <1>5, NoRowIsNone DEF IInv, TypeOK, NoneNewBut
  <2>2. table[i].protected /\ ~table[i].asked /\ table[i].author # 0
    BY <1>1, <2>1 DEF Aged, RowAges, Fixed
  <2> QED BY <1>1, <2>1, <2>2, GrantLater DEF Earned
<1> QED BY <1>4, <1>5

LEMMA NextEarned == IInv /\ Earned /\ [Next]_vars => Earned'
<1> SUFFICES ASSUME IInv, Earned, [Next]_vars PROVE Earned'
  OBVIOUS
<1>1. IInv'
  BY NextInv
<1>2. CASE \E s \in Sessions : Insert(s)
  BY <1>2, InsertEarned DEF Procs
<1>3. CASE ~\E s \in Sessions : Insert(s)
  <2>1. Aged(table, table') /\ NoneNewBut(0, table, table')
    BY <1>3, OnlyInsertsAdd
  <2> QED BY <1>1, <2>1, EarnedSame
<1> QED BY <1>2, <1>3

(* Through any chain of updates, what is exempted from forgetting was so   *)
(* by a first writer who asked for it or was trusted, or by a T0 or T1     *)
(* caller's update of a fact it descends from.                             *)
THEOREM ProtectionsEarned == Spec => []ProtectionEarned
<1>1. Init => Earned
  BY NoRowIsNone DEF Init, Earned
<1>2. IInv /\ Earned => ProtectionEarned
  BY PresentRow DEF IInv, Earned, ProtectionEarned
<1> QED BY AlwaysInv, <1>1, NextEarned, <1>2, PTL DEF Spec

(* What the audit says was decided has been done, whatever other operators *)
(* and writers do to the crystal between the decision and its record.      *)
THEOREM ReviewsDone == Spec => []ReviewsTakeEffect
<1>1. IInv => ReviewsTakeEffect
  BY DEF IInv, AuditSound, Decided, ReviewsTakeEffect
<1> QED BY AlwaysInv, <1>1, PTL
===============================================================================
