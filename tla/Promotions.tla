------------------------------ MODULE Promotions ------------------------------
(***************************************************************************)
(* How a crystal comes to be believed: the promotion gate (gate.py) with   *)
(* its ledger, its queue of pending promotions and the human-confirm       *)
(* window; the commits that ask it; the consolidate phase of a Dream run,  *)
(* which only ever proposes; and the operator's "promote review".          *)
(*                                                                         *)
(* The ledger, the queue and the crystals are written in a transaction     *)
(* each, and any of them may be the last that a process performs. What     *)
(* becomes of a crystal once it is in is the subject of Revisions; here an *)
(* update is one step, and fix spans, near duplicates and write conflicts  *)
(* (merges into what is already in) are left out. So is the variable       *)
(* CRYSTALIUM_AUTO_CONFIRM, which tests set to close the window.           *)
(***************************************************************************)
EXTENDS Trust, Integers, FiniteSets, Sequences

CONSTANTS Servers,             \* processes whose callers commit and update
          Dreamers,            \* threads that execute Dream runs
          Authors,             \* pairs of provenance.author_agent and .source
          NoAuthor,            \* the author of a row that is not there
          K,                   \* k_corroboration
          Stc,                 \* dream_stc: salient episodes lower the bar
          CallersCorroborate,  \* TRUE if callers may bring witnesses, a verifier
                               \* result or force; the tools of the server do not
          MaxId,               \* bound: crystals named
          MaxCrashes           \* bound: processes killed in the middle of a job

Ids   == 1..MaxId
Procs == Servers \cup Dreamers

ASSUME PromotionsAssumption ==
  /\ Servers \cap Dreamers = {}
  /\ NoAuthor \notin Authors
  /\ IsFiniteSet(Authors)
  /\ K \in Int
  /\ Stc \in BOOLEAN /\ CallersCorroborate \in BOOLEAN
  /\ MaxId \in Nat /\ MaxCrashes \in Nat

VARIABLES
  rows,     \* the table crystals
  ledger,   \* the table promotions: <<crystal, gate>> of every admission
  pending,  \* pending_promotions.status of the proposal of each crystal id
  window,   \* human_confirm_active()
  job,      \* the transactions each process has still to perform
  minted,   \* ids minted so far
  crashes,  \* processes killed so far
  root,     \* history: the first revision of each crystal's lineage
  forced,   \* history: the crystals the operator forced in
  basis     \* history: the cluster that each proposal of Dream rests on

tables      == <<rows, ledger, pending>>
historyVars == <<root, forced, basis>>
vars == <<tables, window, job, minted, crashes, historyVars>>

Layers == {"episodic", "semantic", "procedural"}
Gates  == {"semantic", "procedural"}

Row == [layer : Layers, tier : Tiers, author : Authors,
        state : {"quarantined", "unverified", "candidate", "validated"},
        status : {"active", "candidate"}, superseded : BOOLEAN]

NoRow == [layer |-> "none", tier |-> 0, author |-> NoAuthor, state |-> "none",
          status |-> "absent", superseded |-> FALSE]

(* A job: the crystal it is about, its row, and the transactions to come.  *)
NoJob == [steps |-> <<>>, id |-> 0, row |-> NoRow, gate |-> "none"]

(* What the gate decides, as the transactions that follow from it: a row   *)
(* of the ledger, a row of the queue, the crystal itself.                  *)
AdmissionInsertedFirst == <<"insert", "record">>

Admission == <<"record", "insert">>
Candidacy == <<"insert">>
Proposal  == <<"pend">>
Admitted  == <<"record">>
Deferral  == <<"pend", "insert">>

Plans == {Admission, Candidacy, Proposal, Admitted, Deferral}

TypeOK ==
  /\ rows \in [Ids -> Row \cup {NoRow}]
  /\ ledger \subseteq Ids \X Gates
  /\ pending \in [Ids -> {"none", "pending", "accepted", "rejected"}]
  /\ window \in BOOLEAN
  /\ job \in [Procs -> [steps : Plans, id : Ids, row : Row \cup {NoRow},
                        gate : Layers] \cup {NoJob}]
  /\ minted \in 0..MaxId
  /\ crashes \in 0..MaxCrashes
  /\ root \in [Ids -> Ids \cup {0}]
  /\ forced \subseteq Ids
  /\ basis \in [Ids -> SUBSET Ids]

(* The window is open for some time after the installation, if it is known.*)
Init ==
  /\ rows = [i \in Ids |-> NoRow]
  /\ ledger = {}
  /\ pending = [i \in Ids |-> "none"]
  /\ window \in BOOLEAN
  /\ job = [p \in Procs |-> NoJob]
  /\ minted = 0
  /\ crashes = 0
  /\ root = [i \in Ids |-> 0]
  /\ forced = {}
  /\ basis = [i \in Ids |-> {}]

-------------------------------------------------------------------------------
Present(i) == rows[i].status # "absent"
NewId == minted + 1
Mint == minted < MaxId /\ minted' = minted + 1

Begin(p, steps, row, gate) ==
  /\ job[p] = NoJob
  /\ Mint
  /\ job' = [job EXCEPT ![p] =
               [steps |-> steps, id |-> NewId, row |-> row, gate |-> gate]]
  /\ UNCHANGED <<tables, window, crashes, root>>

NewRow(layer, tier, author, state, status) ==
  [layer |-> layer, tier |-> tier, author |-> author, state |-> state,
   status |-> status, superseded |-> FALSE]

-------------------------------------------------------------------------------
(* The gate *)

(* Counting references would let one author corroborate himself.           *)
CountingReferences(refs) == Cardinality(refs)

(* _count_independent_witnesses() over crystals. *)
Independent(refs) == Cardinality({rows[i].author : i \in refs})

(* Without the window, proposals would be admitted from the first day.     *)
AdmitsUnconfirmed(count, k) == count >= k

(* propose_semantic(): the witnesses suffice and nobody has to be asked.   *)
Admits(count, k) == ~window /\ count >= k

-------------------------------------------------------------------------------
(* Commits *)

EpisodicCommit(s) ==
  /\ \E tier \in Writers["episodic"], author \in Authors :
       Begin(s, Candidacy,
             NewRow("episodic", tier, author,
                    IF Quarantines(tier, "episodic") THEN "quarantined" ELSE "unverified",
                    "active"),
             "episodic")
  /\ UNCHANGED <<forced, basis>>

(* The witnesses are whatever references the caller passes. *)
Witnesses == IF CallersCorroborate THEN SUBSET Authors ELSE {{}}

Fact(tier, author) == NewRow("semantic", tier, author, "validated", "active")

SemanticCommit(s) ==
  /\ \E tier \in Writers["semantic"], author \in Authors, witnesses \in Witnesses :
       /\ WithinCeiling(tier, "semantic")
       /\ \/ /\ Admits(Cardinality(witnesses), K)
             /\ Begin(s, Admission, Fact(tier, author), "semantic")
          \/ /\ ~Admits(Cardinality(witnesses), K)
             /\ Begin(s, Proposal, Fact(tier, author), "semantic")
  /\ UNCHANGED <<forced, basis>>

(* force_promote: the operator only; a TierViolation for anyone else.      *)
ForcedCommit(s) ==
  /\ CallersCorroborate
  /\ \E author \in Authors : Begin(s, Admission, Fact(0, author), "semantic")
  /\ forced' = forced \cup {NewId}
  /\ UNCHANGED basis

(* propose_procedural(): only a verified skill of T0 or T1 is more than a  *)
(* candidate, and not before the window has closed.                        *)
ProceduralCommit(s) ==
  /\ \E tier \in Writers["procedural"], author \in Authors :
       LET Skill(state, status) == NewRow("procedural", tier, author, state, status)
           verified == CallersCorroborate /\ tier <= 1
       IN \/ Begin(s, Candidacy, Skill("candidate", "candidate"), "procedural")
          \/ /\ verified /\ window
             /\ Begin(s, Deferral, Skill("candidate", "candidate"), "procedural")
          \/ /\ verified /\ ~window
             /\ Begin(s, Admission, Skill("validated", "active"), "procedural")
  /\ UNCHANGED <<forced, basis>>

-------------------------------------------------------------------------------
(* A revision is active whatever the old one was; outside the semantic     *)
(* layer it keeps the tier and the validation state, and inside it takes   *)
(* the tier of the caller, and the patch as it is: the layer and the       *)
(* provenance too. The gate is not asked.                                  *)
Revised(row, tier, patch) ==
  IF row.layer = "semantic"
    THEN [row EXCEPT !.tier = tier, !.state = "validated", !.status = "active",
                     !.superseded = FALSE, !.layer = patch.layer,
                     !.author = patch.author]
    ELSE [row EXCEPT !.status = "active", !.superseded = FALSE]

Update(s) ==
  /\ job[s] = NoJob
  /\ Mint
  /\ \E i \in Ids : \E tier \in Tiers, patch \in [layer : Layers, author : Authors] :
       /\ Present(i)
       /\ tier \in Writers[rows[i].layer]
       /\ rows' = [rows EXCEPT ![i].superseded = TRUE,
                               ![NewId] = Revised(rows[i], tier, patch)]
       /\ root' = [root EXCEPT ![NewId] = root[i]]
  /\ UNCHANGED <<ledger, pending, window, job, crashes, forced, basis>>

-------------------------------------------------------------------------------
(* Dream: gather and consolidate *)

(* Active episodes with their neighbours in the graph, of any layer, and   *)
(* semantic facts mixed in; or superseded crystals that are still active.  *)
(* No step changes what consolidate reads of them, so that it does not     *)
(* matter when they were gathered.                                         *)
Cluster(c) ==
  /\ c # {} /\ \A i \in c : Present(i)
  /\ \/ \E i \in c : rows[i].layer = "episodic" /\ rows[i].status = "active"
     \/ \A i \in c : rows[i].superseded /\ rows[i].status = "active"

TwoEpisodes(c) == Cardinality({i \in c : rows[i].layer = "episodic"}) >= 2

(* _stc_k_override(): one less, but at least 1, if a salient episode of    *)
(* the cluster has another one nearby.                                     *)
Lowered == IF K - 1 > 1 THEN K - 1 ELSE 1

Bars(c) == {K} \cup (IF Stc /\ TwoEpisodes(c) THEN {Lowered} ELSE {})

LowTrust(c) == ~WithinCeiling(MinTier({rows[i].tier : i \in c}), "semantic")

(* Dream proposes as T0. An admission is recorded for the id it has made   *)
(* up, and the crystal is dropped; clusters of low trust are passed over.  *)
Consolidate(d) ==
  /\ \E c \in SUBSET Ids : \E k \in Bars(c) :
       /\ Cluster(c) /\ ~LowTrust(c)
       /\ basis' = [basis EXCEPT ![NewId] = c]
       /\ \/ Admits(Independent(c), k) /\ Begin(d, Admitted, NoRow, "semantic")
          \/ ~Admits(Independent(c), k) /\ Begin(d, Proposal, NoRow, "semantic")
  /\ UNCHANGED forced

-------------------------------------------------------------------------------
(* The transactions *)

At(p, step) == job[p] # NoJob /\ Head(job[p].steps) = step

Continue(p) ==
  job' = IF Len(job[p].steps) = 1 THEN [job EXCEPT ![p] = NoJob]
                                  ELSE [job EXCEPT ![p].steps = Tail(@)]

(* record_promotion *)
Record(p) ==
  /\ At(p, "record")
  /\ ledger' = ledger \cup {<<job[p].id, job[p].gate>>}
  /\ Continue(p)
  /\ UNCHANGED <<rows, pending, window, minted, crashes, historyVars>>

(* insert_pending_promotion *)
Pend(p) ==
  /\ At(p, "pend")
  /\ pending' = [pending EXCEPT ![job[p].id] = "pending"]
  /\ Continue(p)
  /\ UNCHANGED <<rows, ledger, window, minted, crashes, historyVars>>

Insert(p) ==
  /\ At(p, "insert")
  /\ rows' = [rows EXCEPT ![job[p].id] = job[p].row]
  /\ root' = [root EXCEPT ![job[p].id] = job[p].id]
  /\ Continue(p)
  /\ UNCHANGED <<ledger, pending, window, minted, crashes, forced, basis>>

Verdicts == {"accepted", "rejected"}

(* process_pending(): the status it finds is not asked for, and nothing    *)
(* else follows; an id that is not in the queue has no effect.             *)
Review(i) ==
  /\ pending[i] # "none"
  /\ \E verdict \in Verdicts : pending' = [pending EXCEPT ![i] = verdict]
  /\ UNCHANGED <<rows, ledger, window, job, minted, crashes, historyVars>>

WindowEnds ==
  /\ window
  /\ window' = FALSE
  /\ UNCHANGED <<tables, job, minted, crashes, historyVars>>

Crash(p) ==
  /\ crashes < MaxCrashes
  /\ job[p] # NoJob
  /\ crashes' = crashes + 1
  /\ job' = [job EXCEPT ![p] = NoJob]
  /\ UNCHANGED <<tables, window, minted, historyVars>>

-------------------------------------------------------------------------------
Call(s) == EpisodicCommit(s) \/ SemanticCommit(s) \/ ForcedCommit(s)
           \/ ProceduralCommit(s) \/ Update(s)

Step(p) == Record(p) \/ Pend(p) \/ Insert(p) \/ Crash(p)

Next ==
  \/ \E s \in Servers : Call(s)
  \/ \E d \in Dreamers : Consolidate(d)
  \/ \E p \in Procs : Step(p)
  \/ \E i \in Ids : Review(i)
  \/ WindowEnds

Spec == Init /\ [][Next]_vars

-------------------------------------------------------------------------------
(* Properties *)

(* "Every fact has a logged promotion step": wherever a process is killed, *)
(* each semantic fact and each validated skill in the table descends, over *)
(* any number of revisions and wherever they were moved, from a crystal    *)
(* whose admission to its layer is in the ledger.                          *)
Believed(i) == rows[i].layer = "semantic" \/ rows[i].state = "validated"

AdmissionsLogged ==
  \A i \in Ids : Present(i) /\ Believed(i) => <<root[i], rows[root[i]].layer>> \in ledger

(* While the human-confirm window lasts nothing is believed but what the   *)
(* operator forced in, and revisions of it - whoever corroborates, updates *)
(* or reviews what, and whatever was under way when the window was asked.  *)
WindowKeepsOut ==
  window => /\ \A entry \in ledger : entry[1] \in forced
            /\ \A i \in Ids : Present(i) /\ Believed(i) => root[i] \in forced

(* What Dream has admitted rests on enough crystals of different authors,  *)
(* which are all there; the bar is lower by one only where two episodes    *)
(* stand side by side, and is never 0 because of it.                       *)
LowestBar(c) == IF Stc /\ TwoEpisodes(c) /\ Lowered < K THEN Lowered ELSE K

IndependentSources ==
  \A i \in Ids : <<i, "semantic">> \in ledger /\ basis[i] # {} =>
    /\ \A j \in basis[i] : Present(j)
    /\ Cardinality({rows[j].author : j \in basis[i]}) >= LowestBar(basis[i])

(* Nothing Dream proposes as a fact, admitted or left to the operator, was *)
(* distilled from anything less trusted than the semantic layer takes.     *)
LeastTrust ==
  \A i \in Ids : \A j \in basis[i] : WithinCeiling(rows[j].tier, "semantic")
===============================================================================
