------------------------------ MODULE Admission -------------------------------
(***************************************************************************)
(* What trust a crystal is written with, and what it takes to lift a       *)
(* quarantine: the tier of a caller (server.py) and of an ingested         *)
(* envelope (ingest_adapter.py), structured repairs - fix spans - and the  *)
(* crystals they name as their sources (enforcement.py), the proposals of  *)
(* repairs made from ingested artifacts (fix_span_proposal.py), updates    *)
(* of all of these, and the operator's "quarantine review".                *)
(*                                                                         *)
(* The sources of a repair are read one at a time before it is written,    *)
(* and a review is three transactions, so that writers, operators, forget  *)
(* and prune come between. The shape of an envelope, the caps and anchors  *)
(* of a repair, the gate of the semantic layer, the merge of a near        *)
(* duplicate and a rate limit decide nothing else than whether a call goes *)
(* on: Abandon is their refusal, as it is the end of a killed process.     *)
(* Skills and checkpoints are left to Promotions and Checkpoints.          *)
(***************************************************************************)
EXTENDS Trust, CrystalRows, FiniteSets

CONSTANTS Sessions,    \* callers of the tools
          Operators,   \* "crystalium quarantine review" processes
          Callers,     \* [identity, declared]: tiers a caller is known by and asks for
          Layers,      \* the layers in use
          Scopes,      \* [project, audience] a crystal may have
          Payloads,    \* what commits may say: [layer, scope, repair, asked]
          Canonical,   \* canonical_project_key()
          Everyone,    \* agent_class_visibility unset, or "all"
          FixSpans,    \* fix_span_enabled
          Extractor,   \* fix_span_extractor_enabled
          MaxId,       \* bound: crystals written
          MaxSources,  \* bound: crystals a caller names at once
          MaxEvents    \* bound: reviews begun, crystals forgotten or pruned

Ids   == 1..MaxId
Procs == Sessions \cup Operators

Projects  == {s.project : s \in Scopes}
Audiences == {s.audience : s \in Scopes}

ASSUME AdmissionAssumption ==
  /\ Callers \subseteq [identity : Tiers, declared : Tiers]
  /\ "episodic" \in Layers /\ Layers \subseteq {"episodic", "semantic"}
  /\ Sessions \cap Operators = {}
  /\ Payloads \subseteq [layer : Layers, scope : Scopes, repair : BOOLEAN, asked : BOOLEAN]
  /\ \A s \in Scopes : DOMAIN s = {"project", "audience"}
  /\ [project |-> Canonical, audience |-> Everyone] \in Scopes
  /\ FixSpans \in BOOLEAN /\ Extractor \in BOOLEAN
  /\ MaxId \in Nat /\ MaxSources \in Nat /\ MaxEvents \in Nat

VARIABLES
  table,      \* the table crystals
  minted,     \* ids minted so far
  job,        \* what each session is in the middle of
  proposals,  \* the repairs proposed to the callers of ingest
  audit,      \* the table quarantine_audit: <<id, action>>
  events,     \* reviews begun, crystals forgotten or pruned so far
  cleared     \* history: the crystals an operator accepted

vars == <<table, minted, job, proposals, audit, events, cleared>>

(* asked, author, prior and origin are history: whether the caller asked   *)
(* for protection, the tier of the identity that first wrote the crystal,  *)
(* the revision it replaces and the ingested crystal it was proposed from. *)
Row == [status : Statuses, until : Validity, by : Ids \cup {0}, layer : Layers,
        tier : Tiers, validation : {"quarantined", "unverified", "validated"},
        project : Projects, audience : Audiences, repair : BOOLEAN,
        sources : SUBSET Ids, protected : BOOLEAN, asked : BOOLEAN,
        author : Tiers, prior : Ids \cup {0}, origin : Ids \cup {0}]

NoRow == [status |-> "absent"]

Stages == {"resolving", "writing", "marking", "inserting", "proposing",
           "reviewing", "auditing"}

(* tier is the effective tier so far and todo the sources still to read;   *)
(* id is the crystal a stage is about, ids what a proposal will name.      *)
Jobs == [stage : Stages, draft : Row \cup {NoRow}, tier : Tiers, todo : SUBSET Ids,
         id : Ids \cup {0}, ids : SUBSET Ids, action : {"none", "accept", "reject"}]

NoJob == [stage |-> "idle"]
Idle(s) == job[s] = NoJob

Proposal == [sources : SUBSET Ids, origin : Ids]

TypeOK ==
  /\ table \in [Ids -> Row \cup {NoRow}]
  /\ minted \in 0..MaxId
  /\ job \in [Procs -> Jobs \cup {NoJob}]
  /\ proposals \subseteq Proposal
  /\ audit \subseteq Ids \X {"accept", "reject"}
  /\ events \in 0..MaxEvents
  /\ cleared \subseteq Ids

Init ==
  /\ table = [i \in Ids |-> NoRow]
  /\ minted = 0
  /\ job = [s \in Procs |-> NoJob]
  /\ proposals = {}
  /\ audit = {}
  /\ events = 0
  /\ cleared = {}

-------------------------------------------------------------------------------
(* Tiers *)

(* A declaration only lowers the trust that an identity earns. A caller    *)
(* that declares no tier, or none that parses, declares its identity's; a  *)
(* server with no name set has identity 0, and with nothing set at all it  *)
(* is as if it declared 2.                                                 *)
CallerTier(who) == MinTier({who.declared, who.identity})

(* For an envelope the identity is that of its sender. *)
EnvelopeTier(who) == MinTier({who.declared, who.identity})

(* The T0 rows of source_for_tier(): the source is "human". *)
Human(tier) == tier = 0

(* The quarantine decided by who writes, and not by what it is made from. *)
StateForAuthor(draft, tier) ==
  IF Quarantines(draft.author, draft.layer) THEN "quarantined"
  ELSE IF draft.layer = "episodic" THEN "unverified" ELSE "validated"

(* How the layers file a new crystal. *)
StateFor(draft, tier) ==
  IF Quarantines(tier, draft.layer) THEN "quarantined"
  ELSE IF draft.layer = "episodic" THEN "unverified" ELSE "validated"

(* The layer that decides about a draft is that of the row it revises,     *)
(* wherever a patch moves the revision.                                    *)
RulingLayer(draft) ==
  IF draft.prior = 0 THEN draft.layer ELSE table[draft.prior].layer

(* SemanticLayer.update() *)
RevisesFact(draft) == draft.prior # 0 /\ RulingLayer(draft) = "semantic"

(* The handler's own update of an opaque crystal, for the layers that have *)
(* none: the new revision has the trust of the old, whoever writes it.     *)
KeepsTrust(draft) == draft.prior # 0 /\ ~draft.repair /\ ~RevisesFact(draft)

(* The row that a draft becomes with the effective tier of its writer. *)
Filed(draft, tier) ==
  IF KeepsTrust(draft) THEN draft
  ELSE [draft EXCEPT
          !.tier = tier,
          !.validation = IF draft.prior = 0 THEN StateFor(draft, tier)
                         ELSE IF ~draft.repair THEN "validated"
                         ELSE IF tier = 3 THEN "quarantined" ELSE @]

Admitted(draft, tier) ==
  /\ tier \in Writers[RulingLayer(draft)]
  /\ draft.repair => FixSpans /\ WithinCeiling(tier, RulingLayer(draft))

-------------------------------------------------------------------------------
(* The sources of a repair *)

(* get_active_scoped_crystal() *)
Usable(i, scope) ==
  /\ table[i].status = "active"
  /\ table[i].by = 0 /\ table[i].until \in {"open", "ttl"}
  /\ table[i].project = scope.project
  /\ table[i].audience \in {Everyone, scope.audience}

(* A new crystal, written by who; asked is a flag, a [DECISION] tag, or a  *)
(* source declared to be human.                                            *)
Draft(who, payload, sources) ==
  [status |-> "active", until |-> "open", by |-> 0, layer |-> payload.layer, tier |-> CallerTier(who),
   validation |-> "unverified", project |-> payload.scope.project,
   audience |-> payload.scope.audience, repair |-> payload.repair,
   sources |-> sources, protected |-> payload.asked, asked |-> payload.asked,
   author |-> who.identity, prior |-> 0, origin |-> 0]

(* A revision that rests on the sources its patch names, and no others. *)
RevisedSourcesPatch(old, patch) == patch

(* A revision cannot drop a source of what it revises. *)
RevisedSources(old, patch) == old \cup patch

(* The revision of crystal i under a patch. *)
Revision(i, patch, repair, sources) ==
  [table[i] EXCEPT !.status = "active", !.until = "open", !.by = 0,
                   !.project = patch.scope.project, !.audience = patch.scope.audience,
                   !.layer = patch.layer, !.protected = patch.protected,
                   !.repair = repair, !.sources = RevisedSources(@, sources),
                   !.prior = i, !.origin = 0]

(* The sources a proposal names, as the sender of the artifact gave them. *)
ProposedSourcesAsSent(ids, ingested) == ids

(* The ingested crystal is a source too, whatever the artifact says. *)
ProposedSources(ids, ingested) == ids \cup {ingested}

At(s, stage) == ~Idle(s) /\ job[s].stage = stage
Goto(s, j)   == job' = [job EXCEPT ![s] = j]

Free(s) == Idle(s) /\ minted < MaxId

(* A draft that names sources has them resolved first; ids are the sources *)
(* of the repair that an ingested artifact proposes.                       *)
Start(s, draft, tier, ids) ==
  /\ draft.repair \/ draft.sources = {}
  /\ Goto(s, [stage |-> IF draft.sources = {} THEN "writing" ELSE "resolving",
              draft |-> draft, tier |-> tier, todo |-> draft.sources, id |-> 0,
              ids |-> ids, action |-> "none"])
  /\ UNCHANGED <<table, minted, proposals, audit, events, cleared>>

(* One source is read: the tier of the repair falls to that of the source. *)
Resolve(s) ==
  /\ At(s, "resolving") \/ At(s, "proposing")
  /\ job[s].draft.project = Canonical
  /\ \E i \in job[s].todo :
       /\ Usable(i, job[s].draft)
       /\ LET left == job[s].todo \ {i} IN
          Goto(s, [job[s] EXCEPT
                     !.tier  = MinTier({@, table[i].tier}),
                     !.todo  = left,
                     !.stage = IF left = {} /\ @ = "resolving" THEN "writing" ELSE @])
  /\ UNCHANGED <<table, minted, proposals, audit, events, cleared>>

-------------------------------------------------------------------------------
(* The handlers *)

Named == {S \in SUBSET (1..minted) : Cardinality(S) <= MaxSources}

(* commit: the server files it under its own project, with a source that   *)
(* the caller declares or else the one its tier stands for.                *)
Commit(s) ==
  /\ Free(s)
  /\ \E who \in Callers, payload \in Payloads, sources \in Named :
       /\ payload.scope.project = Canonical
       /\ LET tier == CallerTier(who) IN
          Start(s, [Draft(who, payload, sources)
                      EXCEPT !.protected = payload.asked \/ Human(tier)], tier, {})

(* "crystalium commit": the operator's word for its tier, an episode, and  *)
(* its project as it is given.                                             *)
CommandCommit(s) ==
  /\ Free(s)
  /\ \E who \in Callers, payload \in Payloads :
       /\ who.identity = 0 /\ payload.layer = "episodic" /\ ~payload.repair
       /\ Start(s, Draft(who, payload, {}), CallerTier(who), {})

(* How map_envelope_to_crystal() files an artifact: for everyone. *)
Artifact(repair) ==
  [layer |-> "episodic", scope |-> [project |-> Canonical, audience |-> Everyone],
   repair |-> repair, asked |-> FALSE]

(* "crystalium index": each file an episode like an artifact, but of a     *)
(* human source and in the project "default", the server's or not.         *)
CommandIndex(s) ==
  /\ Free(s)
  /\ \E scope \in Scopes :
       /\ scope.audience = Everyone
       /\ Start(s, [Draft([identity |-> 0, declared |-> 0],
                          [Artifact(FALSE) EXCEPT !.scope = scope], {})
                     EXCEPT !.protected = TRUE], 0, {})

(* ingest: of the source that its tier stands for. An artifact is a repair *)
(* with sources, or it is opaque and may propose one.                      *)
Ingest(s) ==
  /\ Free(s)
  /\ \E who \in Callers, sources \in Named, ids \in Named :
       LET tier == EnvelopeTier(who) IN
       /\ sources = {} \/ ids = {}
       /\ Start(s, [Draft(who, Artifact(sources # {}), sources)
                      EXCEPT !.tier = tier, !.protected = Human(tier)],
                tier, IF FixSpans /\ Extractor THEN ids ELSE {})

(* The caller of an ingest commits what was proposed to it. *)
CommitProposal(s) ==
  /\ Free(s)
  /\ \E who \in Callers, p \in proposals :
       Start(s, [Draft(who, Artifact(TRUE), p.sources) EXCEPT !.origin = p.origin],
             CallerTier(who), {})

Patches == [scope : Scopes, layer : Layers, protected : BOOLEAN]

(* A patch that is applied as it is sent. *)
KeepsFieldsOfRepairs(i, patch, repair) ==
  repair => patch.layer = table[i].layer /\ patch.protected = table[i].protected

(* What the handler and the check of a repair keep of the row, whatever    *)
(* the patch says; the update of the semantic layer keeps it of repairs    *)
(* only.                                                                   *)
KeepsFields(i, patch, repair) ==
  table[i].layer # "semantic" \/ repair =>
    patch.layer = table[i].layer /\ patch.protected = table[i].protected

(* update: the row is read, whatever its status. A repair stays one. *)
Update(s) ==
  /\ Free(s)
  /\ \E who \in Callers, i \in Ids, patch \in Patches, repair \in BOOLEAN,
        sources \in Named :
       /\ Present(table, i)
       /\ table[i].repair => repair
       /\ KeepsFields(i, patch, repair)
       /\ Start(s, Revision(i, patch, repair, sources),
                IF repair THEN MinTier({CallerTier(who), table[i].tier})
                          ELSE CallerTier(who), {})

(* The new row, unless the old one of a fact is to be invalidated first. *)
Insert(s) ==
  /\ \/ At(s, "writing") /\ ~RevisesFact(job[s].draft) /\ minted < MaxId
     \/ At(s, "inserting")
  /\ Admitted(job[s].draft, job[s].tier)
  /\ LET j   == job[s]
         new == IF j.stage = "inserting" THEN j.id ELSE minted + 1 IN
     /\ minted' = IF j.stage = "inserting" THEN minted ELSE new
     /\ table' = WithRow(table, new, Filed(j.draft, j.tier))
     /\ Goto(s, CASE j.stage = "writing" /\ j.draft.prior # 0 ->
                       [j EXCEPT !.stage = "marking", !.id = new]
                  [] j.draft.prior = 0 /\ j.ids # {} ->
                       LET named == ProposedSources(j.ids, new) IN
                       [j EXCEPT !.stage = "proposing", !.id = new, !.todo = named,
                                 !.draft.sources = named, !.ids = {}]
                  [] OTHER -> NoJob)
  /\ UNCHANGED <<proposals, audit, events, cleared>>

(* mark_superseded(), after the new row or, for a fact, before it. *)
Mark(s) ==
  /\ \/ At(s, "marking")
     \/ /\ At(s, "writing") /\ RevisesFact(job[s].draft) /\ minted < MaxId
        /\ Admitted(job[s].draft, job[s].tier)
  /\ LET j     == job[s]
         first == j.stage = "writing"
         new   == IF first THEN minted + 1 ELSE j.id IN
     /\ minted' = IF first THEN new ELSE minted
     /\ table' = IF Present(table, j.draft.prior)
                   THEN WithSuccessor(table, j.draft.prior, new) ELSE table
     /\ Goto(s, IF first THEN [j EXCEPT !.stage = "inserting", !.id = new] ELSE NoJob)
  /\ UNCHANGED <<proposals, audit, events, cleared>>

(* A proposal whose sources are all resolved is handed to the caller. *)
Propose(s) ==
  /\ At(s, "proposing") /\ job[s].todo = {}
  /\ proposals' = proposals \cup
                    {[sources |-> job[s].draft.sources, origin |-> job[s].id]}
  /\ Goto(s, NoJob)
  /\ UNCHANGED <<table, minted, audit, events, cleared>>

-------------------------------------------------------------------------------
(* "crystalium quarantine review": read, decide, record *)

Review(s) ==
  /\ Idle(s) /\ events < MaxEvents
  /\ events' = events + 1
  /\ \E i \in Ids :
       /\ Present(table, i) /\ table[i].validation = "quarantined"
       /\ Goto(s, [stage |-> "reviewing", draft |-> NoRow, tier |-> 0, todo |-> {},
                   id |-> i, ids |-> {}, action |-> "none"])
  /\ UNCHANGED <<table, minted, proposals, audit, cleared>>

(* A decision applied only to a crystal that is still quarantined. *)
ReviewedIfQuarantined(i, action) ==
  IF ~Present(table, i) \/ table[i].validation # "quarantined" THEN table
  ELSE IF action = "accept" THEN [table EXCEPT ![i].validation = "unverified"]
  ELSE WithStatus(table, i, "deprecated")

(* set_validation_state(), set_status(): no row, no effect. *)
Reviewed(i, action) ==
  IF action = "reject" THEN WithStatus(table, i, "deprecated")
  ELSE IF Present(table, i) THEN [table EXCEPT ![i].validation = "unverified"]
  ELSE table

Decide(s) ==
  /\ At(s, "reviewing")
  /\ \E action \in {"accept", "reject"} :
       /\ table' = Reviewed(job[s].id, action)
       /\ cleared' = IF action = "accept" THEN cleared \cup {job[s].id} ELSE cleared
       /\ Goto(s, [job[s] EXCEPT !.stage = "auditing", !.action = action])
  /\ UNCHANGED <<minted, proposals, audit, events>>

(* record_quarantine_review(), whatever became of the row. *)
Audit(s) ==
  /\ At(s, "auditing")
  /\ audit' = audit \cup {<<job[s].id, job[s].action>>}
  /\ Goto(s, NoJob)
  /\ UNCHANGED <<table, minted, proposals, events, cleared>>

-------------------------------------------------------------------------------
(* A call is refused, declined or fails, or its process is killed. *)
Abandon(s) ==
  /\ ~Idle(s)
  /\ Goto(s, NoJob)
  /\ UNCHANGED <<table, minted, proposals, audit, events, cleared>>

(* forget, and Dream's prune *)
Lose(i) ==
  /\ events < MaxEvents /\ Present(table, i)
  /\ events' = events + 1
  /\ \/ table' = Erased(table, i)
     \/ table[i].status = "active" /\ table' = WithStatus(table, i, "deprecated")
  /\ UNCHANGED <<minted, job, proposals, audit, cleared>>

Next ==
  \/ \E s \in Sessions :
       \/ Commit(s) \/ CommandCommit(s) \/ CommandIndex(s)
       \/ Ingest(s) \/ CommitProposal(s) \/ Update(s)
       \/ Resolve(s) \/ Insert(s) \/ Mark(s) \/ Propose(s)
  \/ \E o \in Operators : Review(o) \/ Decide(o) \/ Audit(o)
  \/ \E p \in Procs : Abandon(p)
  \/ \E i \in Ids : Lose(i)

Spec == Init /\ [][Next]_vars

-------------------------------------------------------------------------------
(* Properties *)

(* A repair is trusted no more than any source it names, than the ingested *)
(* artifact it was proposed from, or than the revision it replaces.        *)
LeastTrust ==
  \A i \in Ids : Present(table, i) /\ table[i].repair =>
    \A j \in table[i].sources \cup ({table[i].origin, table[i].prior} \ {0}) :
      table[j].tier <= table[i].tier

(* A repair rests only on crystals of its project that its own audience    *)
(* may see, and a revision of it gives none of them up, so that no chain   *)
(* of updates moves restricted knowledge to a wider audience.              *)
AudienceKept ==
  \A i \in Ids : Present(table, i) /\ table[i].repair =>
    /\ \A j \in table[i].sources : /\ table[j].project = table[i].project
                                   /\ table[j].audience \in {Everyone, table[i].audience}
    /\ table[i].prior # 0 => table[table[i].prior].sources \subseteq table[i].sources

HoldsPriors(S) ==
  \A i \in S : table[i] # NoRow /\ table[i].prior # 0 => table[i].prior \in S

(* The crystal and all the revisions it descends from. *)
Lineage(i) ==
  {k \in Ids : \A S \in SUBSET Ids : i \in S /\ HoldsPriors(S) => k \in S}

(* What ingested text says stays quarantined through every update, until   *)
(* an operator accepts it or a revision it descends from.                  *)
QuarantineHeld ==
  \A i \in Ids : Present(table, i) /\ table[i].tier = 3 =>
    table[i].validation = "quarantined" \/ Lineage(i) \cap cleared # {}

(* An update that a T0 or T1 caller made of a fact, and that protects it. *)
Granted(k) ==
  /\ table[k].prior # 0 /\ ~table[k].repair /\ table[k].tier <= 1
  /\ table[table[k].prior].layer = "semantic"
  /\ table[k].protected /\ ~table[table[k].prior].protected

(* What is exempted from forgetting was so by its first writer, that asked *)
(* for it or whose identity is the operator's or the host's, or else by a  *)
(* trusted caller's update of a fact somewhere in its lineage. An envelope *)
(* that calls itself T0 protects nothing, nor does any chain of updates    *)
(* that starts from it and stays out of the semantic layer.                *)
ProtectionEarned ==
  \A i \in Ids : Present(table, i) /\ table[i].protected =>
    \/ table[i].asked \/ table[i].author = 0
    \/ \E k \in Lineage(i) : Granted(k)

(* A decision that the audit shows was carried out, whoever else reviews,  *)
(* updates or forgets the crystal meanwhile.                               *)
ReviewsTakeEffect ==
  \A a \in audit : Present(table, a[1]) =>
    IF a[2] = "accept" THEN table[a[1]].validation # "quarantined"
                       ELSE table[a[1]].status = "deprecated"
===============================================================================
