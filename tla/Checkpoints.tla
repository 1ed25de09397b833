----------------------------- MODULE Checkpoints ------------------------------
(***************************************************************************)
(* The execution layer: plan checkpoints with a time to live, replans that *)
(* supersede them, updates of them, and the prune phase of Dream, whose    *)
(* guard is to leave every plan a checkpoint (layers/execution.py, the     *)
(* fallback branch of server._handle_update, DreamWorker._prune).          *)
(*                                                                         *)
(* The rows are those of the layer "execution"; every one is of the same   *)
(* project, as normalize_write_scope() makes sure. The importance of a row *)
(* is left open: prune may find any active row below the threshold.        *)
(***************************************************************************)
EXTENDS CrystalRows, FiniteSets

CONSTANTS Servers,    \* server processes on the same database
          Pruners,    \* threads that execute Dream runs, in any process
          Plans,      \* values of scope.plan
          NoPlan,     \* scope.plan of a checkpoint that names no plan
          MaxId,      \* bound: checkpoints written
          MaxCrashes  \* bound: processes killed in the middle of something

Ids == 1..MaxId

ASSUME CheckpointsAssumption ==
  /\ Servers \cap Pruners = {}
  /\ NoPlan \notin Plans
  /\ MaxId \in Nat /\ MaxCrashes \in Nat

VARIABLES
  rows,     \* the execution rows of the table crystals
  job,      \* the update or replan each server is in the middle of
  phase,    \* where each pruner is in _prune
  doomed,   \* to_deprecate of each pruner, less what it has dealt with
  chosen,   \* the row a pruner is about to deprecate
  minted,   \* ids minted so far
  crashes   \* processes killed so far

checkpointsVars == <<rows, job, phase, doomed, chosen, minted, crashes>>
pruneVars == <<phase, doomed, chosen>>

Row == [status : Statuses, until : Validity, by : Ids \cup {0},
        plan : Plans \cup {NoPlan}]

NoRow == [status |-> "absent", until |-> "open", by |-> 0, plan |-> NoPlan]

NoJob == [at |-> "idle", old |-> 0, new |-> 0, row |-> NoRow]

(* A replan marks and then inserts, an update inserts and then marks. *)
Jobs == [at : {"mark, insert", "insert", "insert, mark", "mark"},
         old : Ids, new : Ids, row : Row] \cup {NoJob}

CheckpointsTypeOK ==
  /\ rows \in [Ids -> Row]
  /\ job \in [Servers -> Jobs]
  /\ phase \in [Pruners -> {"idle", "judge", "write"}]
  /\ doomed \in [Pruners -> SUBSET Ids]
  /\ chosen \in [Pruners -> Ids \cup {0}]
  /\ minted \in 0..MaxId
  /\ crashes \in 0..MaxCrashes

CheckpointsInit ==
  /\ rows = [i \in Ids |-> NoRow]
  /\ job = [s \in Servers |-> NoJob]
  /\ phase = [d \in Pruners |-> "idle"]
  /\ doomed = [d \in Pruners |-> {}]
  /\ chosen = [d \in Pruners |-> 0]
  /\ minted = 0
  /\ crashes = 0

-------------------------------------------------------------------------------
(* Writing checkpoints *)

(* What checkpoint() and replan() write: active, until the end of its TTL. *)
NewCheckpoint(plan) ==
  [status |-> "active", until |-> "ttl", by |-> 0, plan |-> plan]

NewId == minted + 1
Mint == minted < MaxId /\ minted' = minted + 1

(* plan_checkpoint, commit to the execution layer, and a replan that       *)
(* supersedes nothing, or an id that is not there: one INSERT.             *)
Checkpoint(s) ==
  /\ job[s] = NoJob
  /\ Mint
  /\ \E plan \in Plans \cup {NoPlan} :
       rows' = WithRow(rows, NewId, NewCheckpoint(plan))
  /\ UNCHANGED <<job, pruneVars, crashes>>

Begin(s, at, old, row) ==
  /\ job[s] = NoJob
  /\ Mint
  /\ job' = [job EXCEPT ![s] = [at |-> at, old |-> old, new |-> NewId, row |-> row]]
  /\ UNCHANGED <<rows, pruneVars, crashes>>

(* plan_replan with supersedes_id: the scope is that of the diff. *)
Replan(s) ==
  \E i \in Ids, plan \in Plans \cup {NoPlan} :
    Present(rows, i) /\ Begin(s, "mark, insert", i, NewCheckpoint(plan))

(* update() of a checkpoint: the copy loses t_valid_to and becomes active. *)
Update(s) ==
  \E i \in Ids :
    /\ Present(rows, i)
    /\ Begin(s, "insert, mark", i,
             [rows[i] EXCEPT !.status = "active", !.until = "open", !.by = 0])

Proceed(s, at) == job' = [job EXCEPT ![s].at = at]
Done(s) == job' = [job EXCEPT ![s] = NoJob]

InsertRow(s) ==
  /\ rows' = WithRow(rows, job[s].new, job[s].row)
  /\ \/ job[s].at = "insert" /\ Done(s)
     \/ job[s].at = "insert, mark" /\ Proceed(s, "mark")
  /\ UNCHANGED <<pruneVars, minted, crashes>>

MarkOld(s) ==
  /\ rows' = WithSuccessor(rows, job[s].old, job[s].new)
  /\ \/ job[s].at = "mark" /\ Done(s)
     \/ job[s].at = "mark, insert" /\ Proceed(s, "insert")
  /\ UNCHANGED <<pruneVars, minted, crashes>>

(* The time to live of a checkpoint ends; nothing is written. *)
Expire(i) ==
  /\ rows[i].status # "absent" /\ rows[i].until = "ttl"
  /\ rows' = [rows EXCEPT ![i].until = "past"]
  /\ UNCHANGED <<job, pruneVars, minted, crashes>>

-------------------------------------------------------------------------------
(* The prune phase of a Dream run, layer "execution" *)

ActiveIds == {i \in Ids : rows[i].status = "active"}

(* One SELECT; the rows whose score is below the threshold are set aside.  *)
(* Superseded and expired rows are active, if they were not deprecated.    *)
PruneRead(d) ==
  /\ phase[d] = "idle"
  /\ phase' = [phase EXCEPT ![d] = "judge"]
  /\ \E low \in SUBSET ActiveIds : doomed' = [doomed EXCEPT ![d] = low]
  /\ UNCHANGED <<rows, job, chosen, minted, crashes>>

(* count_active_by_scope_key without "id != ?". *)
OthersAndItself(i) ==
  IF rows[i].plan = NoPlan THEN ActiveIds
  ELSE {j \in ActiveIds : rows[j].plan = rows[i].plan}

(* count_active_by_scope_key: the active rows of the same plan, or of the  *)
(* same project where i names no plan.                                     *)
Others(i) ==
  IF rows[i].plan = NoPlan THEN ActiveIds \ {i}
  ELSE {j \in ActiveIds : rows[j].plan = rows[i].plan} \ {i}

IsLastActiveCheckpoint(i) == Others(i) = {}

PruneSpare(d) ==
  /\ phase[d] = "judge"
  /\ \E i \in doomed[d] : /\ IsLastActiveCheckpoint(i)
                          /\ doomed' = [doomed EXCEPT ![d] = @ \ {i}]
  /\ UNCHANGED <<rows, job, phase, chosen, minted, crashes>>

PruneChoose(d) ==
  /\ phase[d] = "judge"
  /\ \E i \in doomed[d] : /\ ~IsLastActiveCheckpoint(i)
                          /\ doomed' = [doomed EXCEPT ![d] = @ \ {i}]
                          /\ chosen' = [chosen EXCEPT ![d] = i]
  /\ phase' = [phase EXCEPT ![d] = "write"]
  /\ UNCHANGED <<rows, job, minted, crashes>>

(* The UPDATE, a transaction of its own. *)
PruneWrite(d) ==
  /\ phase[d] = "write"
  /\ rows' = WithStatus(rows, chosen[d], "deprecated")
  /\ chosen' = [chosen EXCEPT ![d] = 0]
  /\ phase' = [phase EXCEPT ![d] = "judge"]
  /\ UNCHANGED <<job, doomed, minted, crashes>>

PruneEnd(d) ==
  /\ phase[d] = "judge"
  /\ doomed[d] = {}
  /\ phase' = [phase EXCEPT ![d] = "idle"]
  /\ UNCHANGED <<rows, job, doomed, chosen, minted, crashes>>

-------------------------------------------------------------------------------
(* A process dies and is started again. *)
Crash ==
  /\ crashes < MaxCrashes
  /\ crashes' = crashes + 1
  /\ \/ /\ \E s \in Servers : job[s] # NoJob /\ Done(s)
        /\ UNCHANGED pruneVars
     \/ /\ \E d \in Pruners :
             /\ phase[d] # "idle"
             /\ phase' = [phase EXCEPT ![d] = "idle"]
             /\ doomed' = [doomed EXCEPT ![d] = {}]
             /\ chosen' = [chosen EXCEPT ![d] = 0]
        /\ UNCHANGED job
  /\ UNCHANGED <<rows, minted>>

Prune(d) == PruneRead(d) \/ PruneSpare(d) \/ PruneChoose(d) \/ PruneWrite(d)
            \/ PruneEnd(d)

CheckpointsNext ==
  \/ \E s \in Servers : Checkpoint(s) \/ Replan(s) \/ Update(s) \/ InsertRow(s)
                        \/ MarkOld(s)
  \/ \E i \in Ids : Expire(i)
  \/ \E d \in Pruners : Prune(d)
  \/ Crash

CheckpointsSpec == CheckpointsInit /\ [][CheckpointsNext]_checkpointsVars

-------------------------------------------------------------------------------
(* Properties *)

(* The guard of prune: whatever scores low, and although rows are judged   *)
(* one by one against a table that servers go on writing to, a plan that   *)
(* was ever checkpointed has an active checkpoint - as long as one thread  *)
(* executes Dream runs.                                                    *)
PlanKeepsCheckpoint ==
  \A i \in Ids : Present(rows, i) /\ rows[i].plan # NoPlan =>
    \E j \in ActiveIds : rows[j].plan = rows[i].plan

(* The project as a whole never loses its last active checkpoint either,   *)
(* plans or no plans, although checkpoints without a plan are counted      *)
(* against those of every plan.                                            *)
ProjectKeepsCheckpoint ==
  (\E i \in Ids : Present(rows, i)) => ActiveIds # {}

===============================================================================
