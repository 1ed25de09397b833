------------------------------ MODULE Forgetting ------------------------------
(***************************************************************************)
(* How crystals fade and are given up: the forgetting curve (fsrs.py), the *)
(* value of a crystal (evb.py), the access events of recalls               *)
(* (aetheryte/retrieve.py), the updates, which copy what has faded to a    *)
(* new revision (server.py), and three phases of a Dream run               *)
(* (dream/worker.py): spaced re-surfacing, the belief-drift check and the  *)
(* prune. All of them write the same JSON column, memory_dynamics, from    *)
(* several threads and processes, a key or two per transaction; a server's *)
(* Dream thread and the command "dream" may well run at the same time.     *)
(*                                                                         *)
(* Time runs in ticks of TickDays days, far longer than a call or a run:   *)
(* the clock stands while one of them is under way. A stability is in      *)
(* days; the exponential only ever meets a floor, so that R < floor is     *)
(* elapsed > ratio * stability, with ratio = ln(floor) / ln(0.9), in       *)
(* thousandths. The last-checkpoint guard of the prune is in Checkpoints;  *)
(* no crystal here is of the execution layer, and none is a repair.        *)
(***************************************************************************)
EXTENDS Integers, FiniteSets, Sequences, SequencesExt, FiniteSetsExt

CONSTANTS
  Ids,            \* crystals
  Servers,        \* server processes, each with one call at a time
  Dreamers,       \* processes that run Dream: servers and "dream" commands
  TierOf,         \* the trust tier of a crystal
  Similar,        \* pairs of crystals within the similarity band of drift
  Configs,        \* settings, with the layers and the protection of the crystals
  DynamicsPatches, UtilityPatches,         \* what a patch may put into a column
  Outcomes,       \* outcome_success_score, in hundredths, 50 if nobody scored it
  PruneLayers,    \* the layers in the order in which a prune visits them
  PruneThreshold, \* layer -> the value below which the legacy prune gives up
  EvbPercent,     \* evb_percentile
  FloorRatio, ResurfaceRatio,              \* r_floor and resurface_floor
  InitialStability, LapseStability, BoostFactor, MaxStability,
  TickDays, MaxAge,   \* a crystal that old gets no older
  MaxHits,            \* access_count saturates
  MaxBegun            \* bound on the calls, runs and forgets begun

Layers == DOMAIN PruneThreshold

(* The columns memory_dynamics and utility.                                *)
Dynamics == [stability : Nat, evb : Nat, flagged : BOOLEAN]
Utility  == [age : 0..MaxAge, hits : 0..MaxHits, outcome : Outcomes]

ASSUME ForgettingAssumption ==
  /\ IsFiniteSet(Ids)
  /\ TierOf \in [Ids -> 0..3]
  /\ Configs \subseteq [fsrs : BOOLEAN, evb : BOOLEAN, drift : BOOLEAN,
                         layer : [Ids -> Layers], protected : SUBSET Ids]
  /\ DynamicsPatches \subseteq Dynamics /\ UtilityPatches \subseteq Utility
  /\ Outcomes \subseteq 0..100 /\ 50 \in Outcomes
  /\ PruneLayers \in Seq(Layers) /\ IsInjective(PruneLayers)
  /\ EvbPercent \in 0..100
  /\ FloorRatio \in Nat /\ ResurfaceRatio \in Nat
  /\ BoostFactor \in Nat /\ MaxStability \in Nat
  /\ InitialStability \in 1..MaxStability
  /\ LapseStability \in 1..InitialStability
  /\ TickDays \in Nat /\ MaxAge \in Nat /\ MaxHits \in Nat /\ MaxBegun \in Nat

Unset == 0      \* a key memory_dynamics does not have

VARIABLES
  config,   \* forgetting_fsrs, evb_enabled, drift_detect; what the crystals will be
  rows,     \* the table crystals
  ledger,   \* the table drift_audit: <<candidate, prior, process that recorded it>>
  recall,   \* per server, the access event of a recall under way
  update,   \* per server, the update under way
  dream,    \* per process, the Dream run under way
  begun,    \* bound of the model: calls, runs and forgets begun
  lineage,  \* history: the crystals of which a crystal is a revision, and itself
  handmade, \* history: crystals whose memory_dynamics goes back to a patch
  steady    \* history: per process, what was valued at the cutoff of its prune and
            \* has not been valued anew by the run of another process since

history == <<lineage, handmade>>
vars == <<config, rows, ledger, recall, update, dream, begun, history, steady>>

(* A row, a row as a list of the run has it, and the access event of a     *)
(* recall; a run also keeps the pairs of the ledger that it has seen.      *)
Row      == [status : {"new", "active", "deprecated", "absent"},
             age : 0..MaxAge, hits : 0..MaxHits, outcome : Outcomes, dynamics : Dynamics]
Listing  == [age : 0..MaxAge, hits : 0..MaxHits, outcome : Outcomes,
             stability : Nat \ {0}, evb : Nat]
Lists    == UNION {[S -> Listing] : S \in SUBSET Ids}
Event    == [pc : {"dynamics", "boost", "access", "value", "persist"},
             id : Ids, age : 0..MaxAge, new : Nat]
Update   == [pc : {"insert"}, id : Ids, row : Row]
Run      == [pc : {"idle", "resurface cutoff", "resurface list", "resurface",
                   "drift list", "drift seen", "drift", "flag",
                   "prune cutoff", "prune list", "judge", "give up"},
             cutoff : Nat, valued : Nat,
             list : Lists,
             seen : SUBSET (Ids \X Ids), todo : SUBSET Ids, doomed : SUBSET Ids,
             layers : Seq(Layers),
             evicted : SUBSET Ids]

TypeOK ==
  /\ config \in Configs
  /\ rows \in [Ids -> Row]
  /\ ledger \in Seq(Ids \X Ids \X Dreamers)
  /\ recall \in [Servers -> Event \cup {[pc |-> "idle"]}]
  /\ update \in [Servers -> Update \cup {[pc |-> "idle"]}]
  /\ dream \in [Dreamers -> Run]
  /\ begun \in 0..MaxBegun
  /\ lineage \in [Ids -> SUBSET Ids] /\ handmade \in SUBSET Ids
  /\ steady \in [Dreamers -> SUBSET Ids]

Present(i) == rows[i].status \in {"active", "deprecated"}
Active(i) == rows[i].status = "active"
LayerOf(i) == config.layer[i]

(***************************************************************************)
(* The curve and the value.                                                *)
(***************************************************************************)
Elapsed(age) == age * TickDays

(* retrievability(stability, elapsed) < floor, and > floor. *)
Below(ratio, stability, age) == 1000 * Elapsed(age) > ratio * stability
Above(ratio, stability, age) == 1000 * Elapsed(age) < ratio * stability

BoostStability(stability) ==
  Min({stability * Max({1, BoostFactor}), MaxStability})

LapseReset == LapseStability

(* An alternative: the floor of the re-surfacing taken for that of a lapse. *)
OnRecallLapsesEarly(stability, age) ==
  IF stability = Unset THEN InitialStability
  ELSE IF Below(ResurfaceRatio, stability, age) THEN LapseReset
  ELSE BoostStability(stability)

OnRecall(stability, age) ==
  IF stability = Unset THEN InitialStability
  ELSE IF Below(FloorRatio, stability, age) THEN LapseReset
  ELSE BoostStability(stability)

(* What prune and resurface take for a stability that is not there. *)
Effective(stability) == IF stability = Unset THEN InitialStability ELSE stability

(* evb_score: gain times need, both higher with each access, the first     *)
(* with the outcome, the second lower with age. Only comparisons are made  *)
(* of it.                                                                  *)
Gain(hits, outcome) == 5 * (1 + 2 * hits) + outcome \div 10
Need(age, hits) == hits + (IF Elapsed(age) < 4 THEN 2 ELSE 1)
EvbScore(u) == Gain(u.hits, u.outcome) * Need(u.age, u.hits)

(* importance_score, in hundredths: 25 parts access frequency, 30 parts    *)
(* recency, 25 parts the outcome and 20 parts a novelty taken as neutral.  *)
(* The recency halves every 14 days, and falls evenly between.             *)
Frequency(hits) == Min({100, 15 * hits})
Recency(age) ==
  LET days == Elapsed(age)
  IN ((100 \div 2^(days \div 14)) * (28 - (days % 14))) \div 28
ImportanceScore(u) ==
  (25 * Frequency(u.hits) + 30 * Recency(u.age) + 25 * u.outcome + 20 * 50) \div 100

(* The one scorer that the prune, the composer and the layers are given.   *)
Score(u) == IF config.evb THEN EvbScore(u) ELSE ImportanceScore(u)

(***************************************************************************)
(* What one transaction of storage/relational.py does to a row.            *)
(***************************************************************************)
NoDynamics == [stability |-> Unset, evb |-> Unset, flagged |-> FALSE]

(* An alternative: the column is overwritten by the keys that are given.   *)
MergedOverwriting(dynamics, keys) ==
  [k \in DOMAIN dynamics |-> IF k \in DOMAIN keys THEN keys[k] ELSE NoDynamics[k]]

Merged(dynamics, keys) ==
  [k \in DOMAIN dynamics |-> IF k \in DOMAIN keys THEN keys[k] ELSE dynamics[k]]

UpdateDynamics(i, keys) ==
  rows' = IF Present(i) THEN [rows EXCEPT ![i].dynamics = Merged(@, keys)] ELSE rows

RecordAccess(i) ==
  rows' = IF Present(i)
          THEN [rows EXCEPT ![i].hits = Min({@ + 1, MaxHits}), ![i].age = 0]
          ELSE rows

RecordOutcome(i, outcome) ==
  rows' = IF Present(i)
          THEN [rows EXCEPT ![i].outcome = outcome, ![i].age = 0]
          ELSE rows

NewRow == [status |-> "new", age |-> 0, hits |-> 0, outcome |-> 50, dynamics |-> NoDynamics]

Idle == [pc |-> "idle"]

NoRun == [pc |-> "idle", cutoff |-> Unset, valued |-> 0, list |-> <<>>, seen |-> {},
          todo |-> {}, doomed |-> {}, layers |-> <<>>, evicted |-> {}]

Free(s) == recall[s].pc = "idle" /\ update[s].pc = "idle"
Quiet == (\A d \in Dreamers : dream[d].pc = "idle") /\ \A s \in Servers : Free(s)

(***************************************************************************)
(* Commits, the forget command and the clock.                              *)
(***************************************************************************)
Commit(i) ==
  /\ rows[i].status = "new"
  /\ rows' = [rows EXCEPT ![i].status = "active"]
  /\ UNCHANGED <<config, ledger, recall, update, dream, begun, history, steady>>

Forget(i) ==
  /\ Present(i) /\ begun < MaxBegun
  /\ begun' = begun + 1
  /\ rows' = [rows EXCEPT ![i] = [NewRow EXCEPT !.status = "absent"]]
  /\ UNCHANGED <<config, ledger, recall, update, dream, history, steady>>

Tick ==
  /\ Quiet
  /\ rows' = [i \in Ids |->
       IF Present(i) THEN [rows[i] EXCEPT !.age = Min({@ + 1, MaxAge})] ELSE rows[i]]
  /\ UNCHANGED <<config, ledger, recall, update, dream, begun, history, steady>>

(***************************************************************************)
(* A recall, from the read of a crystal it will answer with to the end of  *)
(* the access event of that crystal: up to five transactions. The age at   *)
(* the first read decides on a lapse, the stability is read later.         *)
(***************************************************************************)
RecallReads(s) ==
  /\ Free(s) /\ begun < MaxBegun
  /\ begun' = begun + 1
  /\ \E i \in Ids :
       /\ Active(i)
       /\ recall' = [recall EXCEPT ![s] =
            [pc |-> IF config.fsrs THEN "dynamics" ELSE "access",
             id |-> i, age |-> IF config.fsrs THEN rows[i].age ELSE 0, new |-> Unset]]
  /\ UNCHANGED <<config, rows, ledger, update, dream, history, steady>>

ReadDynamics(s) ==
  /\ recall[s].pc = "dynamics"
  /\ LET r == recall[s]
     IN recall' = [recall EXCEPT ![s].pc = "boost", ![s].age = 0,
                     ![s].new = OnRecall(rows[r.id].dynamics.stability, r.age)]
  /\ UNCHANGED <<config, rows, ledger, update, dream, begun, history, steady>>

BoostRecalled(s) ==
  /\ recall[s].pc = "boost"
  /\ UpdateDynamics(recall[s].id, [stability |-> recall[s].new])
  /\ recall' = [recall EXCEPT ![s].pc = "access", ![s].new = Unset]
  /\ UNCHANGED <<config, ledger, update, dream, begun, history, steady>>

Access(s) ==
  /\ recall[s].pc = "access"
  /\ RecordAccess(recall[s].id)
  /\ recall' = [recall EXCEPT ![s] = IF config.evb THEN [@ EXCEPT !.pc = "value"] ELSE Idle]
  /\ UNCHANGED <<config, ledger, update, dream, begun, history, steady>>

ReadValue(s) ==
  /\ recall[s].pc = "value"
  /\ LET i == recall[s].id
     IN recall' = [recall EXCEPT ![s] =
          IF Present(i)
          THEN [@ EXCEPT !.pc = "persist", !.new = EvbScore(rows[i])]
          ELSE Idle]
  /\ UNCHANGED <<config, rows, ledger, update, dream, begun, history, steady>>

PersistValue(s) ==
  /\ recall[s].pc = "persist"
  /\ UpdateDynamics(recall[s].id, [evb |-> recall[s].new])
  /\ recall' = [recall EXCEPT ![s] = Idle]
  /\ UNCHANGED <<config, ledger, update, dream, begun, history, steady>>

(* A step of an access event that raises is logged and the recall goes on; *)
(* a process that is killed does not: what was written stays.              *)
AccessEventFails(s) ==
  /\ recall[s].pc # "idle"
  /\ recall' = [recall EXCEPT ![s] = Idle]
  /\ UNCHANGED <<config, rows, ledger, update, dream, begun, history, steady>>

(***************************************************************************)
(* An update. One that only scores the outcome is recorded in place. Any   *)
(* other reads the crystal, whose layer decides on the way, and inserts    *)
(* what it has read as a new, active crystal: the columns utility and      *)
(* memory_dynamics come along unless the patch has them. A semantic        *)
(* revision counts as accessed now, has the tier of the caller, T0 or T1,  *)
(* and the layer and the protection that the patch may give it.            *)
(***************************************************************************)
ScoreOutcome(s) ==
  /\ Free(s) /\ begun < MaxBegun
  /\ begun' = begun + 1
  /\ \E i \in Ids, outcome \in Outcomes : Present(i) /\ RecordOutcome(i, outcome)
  /\ UNCHANGED <<config, ledger, recall, update, dream, history, steady>>

UpdateReads(s) ==
  /\ Free(s) /\ begun < MaxBegun
  /\ begun' = begun + 1
  /\ \E i \in Ids :
       /\ Present(i)
       /\ update' = [update EXCEPT ![s] = [pc |-> "insert", id |-> i, row |-> rows[i]]]
  /\ UNCHANGED <<config, rows, ledger, recall, dream, history, steady>>

(* The crystals that may come to be the revision of i.                     *)
Revisions(i) ==
  {j \in Ids :
     /\ rows[j].status = "new"
     /\ IF LayerOf(i) = "semantic" THEN TierOf[j] <= 1
        ELSE /\ LayerOf(j) = LayerOf(i) /\ TierOf[j] = TierOf[i]
             /\ j \in config.protected <=> i \in config.protected}

UtilityOf(row) == [age |-> row.age, hits |-> row.hits, outcome |-> row.outcome]

Revision(layer, utility, dynamics) ==
  [status |-> "active", age |-> IF layer = "semantic" THEN 0 ELSE utility.age,
   hits |-> utility.hits, outcome |-> utility.outcome, dynamics |-> dynamics]

InsertRevision(s) ==
  /\ update[s].pc = "insert"
  /\ LET i == update[s].id
         read == update[s].row
     IN \E j \in Revisions(i), utility \in {UtilityOf(read)} \cup UtilityPatches,
           dynamics \in {read.dynamics} \cup DynamicsPatches :
          /\ rows' = [rows EXCEPT ![j] = Revision(LayerOf(i), utility, dynamics)]
          /\ lineage' = [lineage EXCEPT ![j] = @ \cup lineage[i]]
          /\ handmade' = IF dynamics = read.dynamics /\ i \notin handmade
                         THEN handmade ELSE handmade \cup {j}
  /\ update' = [update EXCEPT ![s] = Idle]
  /\ UNCHANGED <<config, ledger, recall, dream, begun, steady>>

(* A refusal, the original forgotten meanwhile, or the kill of the process.*)
UpdateFails(s) ==
  /\ update[s].pc = "insert"
  /\ update' = [update EXCEPT ![s] = Idle]
  /\ UNCHANGED <<config, rows, ledger, recall, dream, begun, history, steady>>

(***************************************************************************)
(* A Dream run of the process d, phase 3b: re-surfacing. The cutoff and    *)
(* the list are two reads; the list is not read again.                     *)
(***************************************************************************)
Goes(d, run) == dream' = [dream EXCEPT ![d] = run]

Valued == {i \in Ids : Active(i) /\ rows[i].dynamics.evb # Unset}

(* The position of the cutoff among n values in ascending order, from 0.   *)
CutoffIndex(n) == Min({n - 1, (EvbPercent * n) \div 100})

EvbCutoff ==
  IF Valued = {} THEN Unset
  ELSE LET evb(i) == rows[i].dynamics.evb
           index == CutoffIndex(Cardinality(Valued))
       IN CHOOSE v \in {evb(i) : i \in Valued} :
            /\ Cardinality({i \in Valued : evb(i) < v}) <= index
            /\ index < Cardinality({i \in Valued : evb(i) <= v})

Listed(S) ==
  [i \in S |-> [age |-> rows[i].age, hits |-> rows[i].hits, outcome |-> rows[i].outcome,
                stability |-> Effective(rows[i].dynamics.stability),
                evb |-> rows[i].dynamics.evb]]

RunStarts(d) ==
  /\ dream[d].pc = "idle" /\ begun < MaxBegun
  /\ begun' = begun + 1
  /\ Goes(d, [NoRun EXCEPT !.pc = IF config.fsrs THEN "resurface cutoff"
                                  ELSE IF config.drift THEN "drift list"
                                  ELSE "prune cutoff"])
  /\ UNCHANGED <<config, rows, ledger, recall, update, history, steady>>

ResurfaceCutoff(d) ==
  /\ dream[d].pc = "resurface cutoff"
  /\ Goes(d, [dream[d] EXCEPT !.pc = "resurface list", !.cutoff = EvbCutoff])
  /\ UNCHANGED <<config, rows, ledger, recall, update, begun, history, steady>>

(* The rows of the list that are boosted: valued, aging, not yet faded.    *)
WorthResurfacing(list, cutoff) ==
  {i \in DOMAIN list :
     /\ i \notin config.protected
     /\ cutoff # Unset /\ list[i].evb # Unset /\ list[i].evb >= cutoff
     /\ Below(ResurfaceRatio, list[i].stability, list[i].age)
     /\ Above(FloorRatio, list[i].stability, list[i].age)}

ResurfaceList(d) ==
  /\ dream[d].pc = "resurface list"
  /\ LET list == Listed({i \in Ids : Active(i)})
         worth == WorthResurfacing(list, dream[d].cutoff)
     IN Goes(d, [dream[d] EXCEPT !.pc = "resurface", !.todo = worth,
                   !.list = [i \in worth |-> list[i]]])
  /\ UNCHANGED <<config, rows, ledger, recall, update, begun, history, steady>>

Resurface(d, i) ==
  /\ dream[d].pc = "resurface" /\ i \in dream[d].todo
  /\ UpdateDynamics(i, [stability |-> BoostStability(dream[d].list[i].stability)])
  /\ Goes(d, [dream[d] EXCEPT !.todo = @ \ {i}])
  /\ UNCHANGED <<config, ledger, recall, update, begun, history, steady>>

Resurfaced(d) ==
  /\ dream[d].pc = "resurface" /\ dream[d].todo = {}
  /\ Goes(d, [dream[d] EXCEPT !.pc = IF config.drift THEN "drift list" ELSE "prune cutoff",
                !.list = <<>>, !.cutoff = Unset])
  /\ UNCHANGED <<config, rows, ledger, recall, update, begun, history, steady>>

(***************************************************************************)
(* Phase 3c: the belief-drift check. A semantic crystal is flagged when it *)
(* is similar to a more trusted one; the ledger row and the mark on the    *)
(* crystal are two transactions. The pairs seen are read once.             *)
(***************************************************************************)
DriftList(d) ==
  /\ dream[d].pc = "drift list"
  /\ Goes(d, [dream[d] EXCEPT !.pc = "drift seen",
                !.todo = {i \in Ids : Active(i) /\ LayerOf(i) = "semantic"}])
  /\ UNCHANGED <<config, rows, ledger, recall, update, begun, history, steady>>

PairsIn(entries) == {<<e[1], e[2]>> : e \in ToSet(entries)}

DriftSeen(d) ==
  /\ dream[d].pc = "drift seen"
  /\ Goes(d, [dream[d] EXCEPT !.pc = "drift", !.seen = PairsIn(ledger)])
  /\ UNCHANGED <<config, rows, ledger, recall, update, begun, history, steady>>

(* An alternative: a prior that was recorded before is recorded again.     *)
DriftsFromAgain(i, seen) ==
  {p \in Ids : /\ <<i, p>> \in Similar /\ LayerOf(p) = "semantic"
               /\ Present(p) /\ TierOf[i] > TierOf[p]}

DriftsFrom(i, seen) ==
  {p \in Ids : /\ <<i, p>> \in Similar /\ LayerOf(p) = "semantic"
               /\ <<i, p>> \notin seen
               /\ Present(p) /\ TierOf[i] > TierOf[p]}

RecordDrift(d, i) ==
  /\ dream[d].pc = "drift" /\ i \in dream[d].todo
  /\ LET priors == DriftsFrom(i, dream[d].seen)
     IN IF priors = {}
        THEN /\ Goes(d, [dream[d] EXCEPT !.todo = @ \ {i}])
             /\ UNCHANGED ledger
        ELSE /\ \E p \in priors : ledger' = Append(ledger, <<i, p, d>>)
             /\ Goes(d, [dream[d] EXCEPT !.pc = "flag", !.doomed = {i}])
  /\ UNCHANGED <<config, rows, recall, update, begun, history, steady>>

Flag(d, i) ==
  /\ dream[d].pc = "flag" /\ i \in dream[d].doomed
  /\ UpdateDynamics(i, [flagged |-> TRUE])
  /\ Goes(d, [dream[d] EXCEPT !.pc = "drift", !.todo = @ \ {i}, !.doomed = {}])
  /\ UNCHANGED <<config, ledger, recall, update, begun, history, steady>>

DriftChecked(d) ==
  /\ dream[d].pc = "drift" /\ dream[d].todo = {}
  /\ Goes(d, [dream[d] EXCEPT !.pc = "prune cutoff", !.seen = {}])
  /\ UNCHANGED <<config, rows, ledger, recall, update, begun, history, steady>>

(***************************************************************************)
(* Phase 4: prune. One cutoff for the run; then per layer a list, which is *)
(* judged row by row while the recomputed values are persisted, and then   *)
(* the updates of those that are given up.                                 *)
(***************************************************************************)
PruneCutoff(d) ==
  /\ dream[d].pc = "prune cutoff"
  /\ LET valued == IF config.fsrs THEN Valued ELSE {}
     IN /\ Goes(d, [dream[d] EXCEPT !.pc = "prune list", !.layers = PruneLayers,
                      !.cutoff = IF config.fsrs THEN EvbCutoff ELSE Unset,
                      !.valued = Cardinality(valued)])
        /\ steady' = [steady EXCEPT ![d] = valued]
  /\ UNCHANGED <<config, rows, ledger, recall, update, begun, history>>

NextLayer(d) ==
  /\ Goes(d, [dream[d] EXCEPT !.pc = "prune list", !.layers = Tail(@),
                !.list = <<>>, !.todo = {}, !.doomed = {}])
  /\ UNCHANGED steady

NoFurther(d) == Goes(d, NoRun) /\ steady' = [steady EXCEPT ![d] = {}]

PruneList(d) ==
  /\ dream[d].pc = "prune list" /\ dream[d].layers # <<>>
  /\ LET layer == Head(dream[d].layers)
         read == {i \in Ids : Active(i) /\ LayerOf(i) = layer} \ config.protected
     IN Goes(d, [dream[d] EXCEPT !.pc = "judge", !.list = Listed(read), !.todo = read])
  /\ UNCHANGED <<config, rows, ledger, recall, update, begun, history, steady>>

(* An alternative: the value just computed is held against the cutoff.     *)
GivenUpOnNewValue(row, cutoff, layer) ==
  IF config.fsrs
  THEN Below(FloorRatio, row.stability, row.age) /\ Score(row) < cutoff
  ELSE Score(row) < PruneThreshold[layer]

(* With the curve: only what has faded and is of low value, by the value   *)
(* that was stored when the list was read. Without: by the threshold.      *)
GivenUp(row, cutoff, layer) ==
  IF config.fsrs
  THEN /\ Below(FloorRatio, row.stability, row.age)
       /\ row.evb # Unset /\ cutoff # Unset /\ row.evb < cutoff
  ELSE Score(row) < PruneThreshold[layer]

Judge(d, i) ==
  /\ dream[d].pc = "judge" /\ i \in dream[d].todo
  /\ LET row == dream[d].list[i]
     IN /\ IF config.evb
           THEN /\ UpdateDynamics(i, [evb |-> EvbScore(row)])
                /\ steady' = [e \in Dreamers |-> IF e = d THEN steady[e] ELSE steady[e] \ {i}]
           ELSE UNCHANGED <<rows, steady>>
        /\ Goes(d, [dream[d] EXCEPT !.todo = @ \ {i},
                      !.list = [j \in DOMAIN @ \ {i} |-> @[j]],
                      !.doomed = IF GivenUp(row, dream[d].cutoff, Head(dream[d].layers))
                                 THEN @ \cup {i} ELSE @])
  /\ UNCHANGED <<config, ledger, recall, update, begun, history>>

Judged(d) ==
  /\ dream[d].pc = "judge" /\ dream[d].todo = {}
  /\ Goes(d, [dream[d] EXCEPT !.pc = "give up"])
  /\ UNCHANGED <<config, rows, ledger, recall, update, begun, history, steady>>

GiveUp(d, i) ==
  /\ dream[d].pc = "give up" /\ i \in dream[d].doomed
  /\ rows' = IF Present(i) THEN [rows EXCEPT ![i].status = "deprecated"] ELSE rows
  /\ Goes(d, [dream[d] EXCEPT !.doomed = @ \ {i}, !.evicted = @ \cup {i}])
  /\ UNCHANGED <<config, ledger, recall, update, begun, history, steady>>

LayerPruned(d) ==
  /\ dream[d].pc = "give up" /\ dream[d].doomed = {}
  /\ NextLayer(d)
  /\ UNCHANGED <<config, rows, ledger, recall, update, begun, history>>

RunEnds(d) ==
  /\ dream[d].pc = "prune list" /\ dream[d].layers = <<>>
  /\ NoFurther(d)
  /\ UNCHANGED <<config, rows, ledger, recall, update, begun, history>>

(* A statement that raises ends the run, or, in the prune, the layer; the  *)
(* kill of its process ends the run wherever it is.                        *)
RunFails(d) ==
  /\ dream[d].pc # "idle"
  /\ \/ NoFurther(d)
     \/ /\ dream[d].pc \in {"prune list", "judge", "give up"} /\ dream[d].layers # <<>>
        /\ NextLayer(d)
  /\ UNCHANGED <<config, rows, ledger, recall, update, begun, history>>

Init ==
  /\ config \in Configs
  /\ rows = [i \in Ids |-> NewRow]
  /\ ledger = <<>>
  /\ recall = [s \in Servers |-> Idle] /\ update = [s \in Servers |-> Idle]
  /\ dream = [d \in Dreamers |-> NoRun]
  /\ begun = 0
  /\ lineage = [i \in Ids |-> {i}] /\ handmade = {}
  /\ steady = [d \in Dreamers |-> {}]

RecallStep(s) ==
  \/ RecallReads(s) \/ ReadDynamics(s) \/ BoostRecalled(s) \/ Access(s)
  \/ ReadValue(s) \/ PersistValue(s) \/ AccessEventFails(s)

UpdateStep(s) ==
  \/ ScoreOutcome(s) \/ UpdateReads(s) \/ InsertRevision(s) \/ UpdateFails(s)

RunStep(d) ==
  \/ RunStarts(d)
  \/ ResurfaceCutoff(d) \/ ResurfaceList(d) \/ Resurfaced(d)
  \/ DriftList(d) \/ DriftSeen(d) \/ DriftChecked(d)
  \/ PruneCutoff(d) \/ PruneList(d) \/ Judged(d) \/ LayerPruned(d) \/ RunEnds(d)
  \/ \E i \in Ids : Resurface(d, i) \/ RecordDrift(d, i) \/ Flag(d, i)
                    \/ Judge(d, i) \/ GiveUp(d, i)
  \/ RunFails(d)

Next ==
  \/ \E i \in Ids : Commit(i) \/ Forget(i)
  \/ Tick
  \/ \E s \in Servers : RecallStep(s) \/ UpdateStep(s)
  \/ \E d \in Dreamers : RunStep(d)

Spec == Init /\ [][Next]_vars

(***************************************************************************)
(* Properties.                                                             *)
(***************************************************************************)

(* Only the passage of time makes a crystal fade. No access event, half    *)
(* done or racing another one, no outcome, no re-surfacing from a list     *)
(* that is out of date or beside that of another run, and no kill between  *)
(* two transactions takes a crystal that is there below the floor under    *)
(* which a prune may give it up; the stability of a crystal whose          *)
(* memory_dynamics a caller has written may be anything.                   *)
Faded(i) ==
  Present(i) /\ Below(FloorRatio, Effective(rows[i].dynamics.stability), rows[i].age)

OnlyTimeForgets ==
  [][\A i \in Ids \ handmade : Present(i) /\ Faded(i)' =>
       Faded(i) \/ rows'[i].age > rows[i].age]_vars

(* With the curve on, a run gives up at most the share evb_percentile of   *)
(* what had a value when its cutoff was taken, although it goes on         *)
(* persisting lower values layer by layer while it judges, and recalls     *)
(* persist others. Neither what another run has valued anew since then nor *)
(* the revisions that updates have made since is held to that share.       *)
ValuableSurvive ==
  \A d \in Dreamers : config.fsrs =>
    100 * Cardinality(dream[d].evicted \cap steady[d]) <= EvbPercent * dream[d].valued

(* Writers of different keys of memory_dynamics do not undo each other: a  *)
(* drift mark, a value and a stability, once there, stay for as long as    *)
(* the row does.                                                           *)
KeysKept ==
  [][\A i \in Ids : Present(i) /\ Present(i)' =>
       \A k \in DOMAIN NoDynamics :
         rows[i].dynamics[k] # NoDynamics[k] => rows'[i].dynamics[k] # NoDynamics[k]]_vars

(* No process enters a pair into the drift ledger twice, however many runs *)
(* it makes, wherever they are cut off and whatever others enter           *)
(* meanwhile; and a mark, on a crystal or on the revisions that copied it, *)
(* can be traced to the ledger, unless a caller wrote it.                  *)
DriftAccounted ==
  /\ IsInjective(ledger)
  /\ \A i \in Ids \ handmade : rows[i].dynamics.flagged =>
       \E n \in DOMAIN ledger : ledger[n][1] \in lineage[i]
===============================================================================
