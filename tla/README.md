# Verification of CRYSTALIUM

CRYSTALIUM is a memory server for agents: an MCP server (`mcp-server/src/crystalium`)
that commits *crystals* (facts, skills, checkpoints) to four layers, recalls them,
revises them, and now and then "dreams" - consolidates and prunes - in the background.
This directory holds TLA+ models of its stateful core, TLC configurations that check
them on small instances, and TLAPS proofs of the properties that matter most. Paths
below are relative to `mcp-server/src/crystalium/` unless they start with `skills/`,
`methodology/`, `roadmap-v1/` or `tests/`.

## 1. Inventory

### Processes and threads

| Actor | What it runs | Where |
|---|---|---|
| event loop of the MCP server | tool handlers, one at a time: they are `async` but never await in the middle | `server.py:864` |
| APScheduler daemon thread | the idle poll (`_tick`) and the Dream runs it drains, one job at a time | `dream/scheduler.py:243` |
| other server processes | the same, on the same data directory | - |
| commands | `crystalium dream`, `forget`, `promote review`, `quarantine review`: short processes on the same data | `__main__.py` |

The event loop and the daemon thread share one scheduler object (guarded by a lock) and the
database; everything else shares only the files on disk. SQLite makes each transaction
atomic; nothing makes two transactions, or two stores, atomic together. That is
where the hard behaviour of this program is.

### Components

| Component | State | Operations | Talks to | What makes it correct |
|---|---|---|---|---|
| Dream scheduler | pending slot, time of last run, time of last activity | record_activity, session_end, enqueue, tick, record_dream_completed | worker, dispatcher | one pending run at most; the slot is always given back; the idle poll keeps the gap |
| Dream worker, run loop | table `dream_runs` | enqueue, run_pending, mark started/finished | scheduler (callback) | every pending run is executed, once |
| Dream worker, prune | status of crystals | score, guard, UPDATE | relational store | a plan keeps a checkpoint; nothing is deleted |
| Dream worker, gather/consolidate/resurface/drift | clusters of superseded or co-retrieved crystals, proposals | propose to the gate | gate, stores | a proposal rests on what its tier and its sources allow |
| Layers episodic, semantic, procedural | rows, blobs, vectors, graph nodes | commit (or merge into a near duplicate), update, invoke | four stores, gate | content behind every pointer; one current revision of a fact |
| Layer execution | rows with a time to live | checkpoint, replan | relational store | see prune |
| Promotion gate | the ledger (table `promotions`), the queue (table `pending_promotions`), the confirm window | propose, record, queue, accept, reject | layers, Dream, CLI | k independent sources or a human |
| Trust tiers | none | ceilings, minimum, caller matrix | gate, layers | nothing is trusted more than its inputs |
| Relational store | SQLite: crystals, edges, forget_audit, quarantine_audit, drift_audit, conflicts, dream_runs, promotions, pending_promotions, audit_log | one transaction per statement | - | each statement all or nothing |
| Blob, vector and graph stores | files; external engines | put, get, upsert, delete, walk | - | follow the rows, however late |
| Server dispatch | rate window, cache, identity of the caller | the tool calls | all of the above | limits hold; answers are not stale |
| Recall | none of its own; writes access events | full-text and vector search with top-ups and backstops, two walks of the graph, fusion, filters, cut at k, composition | stores, cache, composer, forgetting | answers were current and the caller's; the diagnosis adds up; the fetches end |
| Recall cache | LRU map | get, put, invalidate | recall, commit, ingest | no answer outlives a write it should reflect |
| Composer | none | slots, eviction, total budget | recall | no slot and no total exceeded |
| Assembly | none | gate, recall, bands, cut | recall | a short fix displaces nothing that matters clearly more |
| Forgetting (`fsrs.py`, `evb.py`, `importance.py`) | the columns `memory_dynamics`, `utility` | boost, lapse, value, threshold; an update copies both | recall, update, Dream | only time makes a crystal fade |
| Fix spans | structured repairs and the crystals they name as sources | resolve, revise, propose | ingest, commit, update | no repair is trusted more, or seen by more, than what it rests on |
| Ingest, ECL | none shared | map an envelope to a commit | layers | ingested text stays quarantined |
| Export | none | seven reads, derived edges, hygiene | stores | nothing left out shows in an edge; no lineage is lost |
| Commands | none | commit, index, ingest, recall, export, forget, promote review, quarantine review, dream | the stores | the same promises as the server's |
| Redaction, quality, telemetry, schemas, config | none shared | conversions | - | not modelled |

`PROJECT.json` lists the components one by one with what is modelled of each, and the hazards,
each at the line where it bites.

### What is hard here

* *Interleaving.* A trigger on the event loop and one on the daemon thread; a
  command that drains the table the server is draining; two servers revising one
  crystal; a prune that judges rows while servers supersede them; two operators who
  review one crystal; a recall or an export whose reads fall between other processes' writes.
* *Atomicity.* The slot is taken under a lock and the row inserted outside it; an
  update writes one row and then closes another; a commit writes a blob, a row
  and a vector; the access event of a recall is five transactions on one JSON column that
  Dream writes too, and that an update copies to another row.
* *Crash.* Slot and clocks live in memory, rows survive; a kill between two
  writes leaves half an operation.
* *Stale reads.* The row an update copies, the gap a trigger read, the content
  reference `forget` read before it asked the operator, the lists a prune and a
  re-surfacing work off, the sources of a repair.
* *Liveness.* A run that does not report its end would close the gate for good.

## 2. Modules

| Module | Models | State <-> code | Composes |
|---|---|---|---|
| `SerialRuns` | abstract specification: Dream runs go through one slot | - | - |
| `DreamScheduler` | `dream/scheduler.py`, the run loop of `dream/worker.py`, `crystalium dream` | `slot` = `_pending_run_ids`; `sinceDream`, `sinceActivity` = ages of `_last_dream`, `_last_activity`; `row` = `dream_runs.status`; `pc`, `run`, `queue` = where each thread is and its locals | refines `SerialRuns` |
| `CrystalRows` | what one transaction does to one row of `crystals` | fields `status`, `until` = `temporal.t_valid_to`, `by` = `temporal.superseded_by` | - |
| `Revisions` | commit, update, `forget`, the deprecation by prune; rows, blobs, vectors, `forget_audit` | `job` = the handler a process is in, with its locals; one step per store call | `CrystalRows` |
| `Checkpoints` | checkpoint, replan, update of a checkpoint, expiry, the whole prune loop | `phase`, `doomed`, `chosen` = locals of `_prune` | `CrystalRows` |
| `Trust` | `trust.py`, the write rows of `enforcement.py`'s matrix | none: ceilings, least trusted tier, writers | - |
| `Promotions` | `gate.py`, the commits that ask it, update, Dream's gather and consolidate, `promote review` | `ledger` = table `promotions`; `pending` = `pending_promotions.status`; `window` = `human_confirm_active()`; `job` = the transactions a process has still to perform | `Trust` |
| `Dispatch` | `_call_tool` and what its handlers do to the rate limiter, the recall cache and the rows; `aetheryte/cache.py`, the head and tail of `recall` | `spent` = `_call_times`; `answer`, `order` = `RecallCache._store`; `rows` = `crystals`, of which only scope and activity count; `call` = the tool call under way | - |
| `RankFusion` | the merges of `aetheryte/retrieve.py` as operators: weighted and plain reciprocal rank fusion, the derived family, the weight of the full-text arm | none; scores are fixed-point numbers | - |
| `Links` | `storage/graph.py`: nodes, edges, `neighbor_expand`, `decaying_walk` | a record `[nodes, edges]` | - |
| `Composer` | `composer.py`: routing, both eviction passes, the order of the answer | none | `RankFusion` |
| `Recall` | `recall()` read by read, `crystalium recall`, `assembly.py` | `pc` = how far it is; `batch`, `todo`, `fetches` = the full-text arm; `found` = `all_candidates`; `ranked` = the arms; `fused`, `answer` = what it returns with the counters of `explain` | `Composer`, `Links` |
| `Admission` | the tier of a caller and of an envelope, fix spans and their sources, `fix_span_proposal.py`, commit, ingest, index, update, `quarantine review` | `table` = `crystals`; `audit` = `quarantine_audit`; `proposals` = what ingest handed out; `job` = the draft a process is resolving or writing | `Trust`, `CrystalRows` |
| `Forgetting` | `fsrs.py`, `evb.py`, `importance.py`, the access events of a recall, update, Dream's resurface, drift check and prune | `rows[i].dynamics` = `memory_dynamics`, the other fields `utility`; `ledger` = `drift_audit`; `recall`, `update`, `dream` = the locals of an access event, of an update and of a run, per process | - |
| `GraphExport` | `export/graph_export.py`, `export/adapters.py` and what writes beside an export | `rows`, `conflicts`, `drifts` = the tables; `graph` = the graph store; `export` = the export so far; `writer` = the commit, update or forget under way | `CrystalRows`, `Links` |
| `MC*` | constants and symmetry sets for TLC | - | - |
| `*Proofs` | theorems about the module they are named after; `DreamProofs` about `DreamScheduler` and `Checkpoints`, which have names of their own for whatever both define (`CheckpointsSpec`) | - | - |

Data is abstracted to what the properties tell apart: a content is a model value (equal
contents stand for near duplicates and share a content-addressed blob), time is an
age that saturates at the threshold it is compared with, a time to live is
open/ttl/past/closed. The score of a row is left open in `Revisions` and `Checkpoints`, so that prune
may find any active row too low; `Forgetting` computes it. Ids are UUIDs; `Revisions` and `Checkpoints` number them in
the order in which they are minted, because nothing compares them.

### DreamScheduler

One action per critical section and per SQL statement. `Claim` is the gate of
`enqueue` under the lock, `Insert`/`InsertFails` the write outside it with its `except`
branch; `Fetch`, `StartRun`, `FinishRun`, `RunComplete` the worker's loop,
in which a failing UPDATE is logged and passed over; `TickFetch`, `TickDrained`,
`TickDecide` the poll; `SessionEnd` reads the gap and lets the lock go; the `Cli` actions
are the command. `Restart` kills the server: the memory is lost, the table is not.
`FaultKinds` says which statements may fail and `MaxFaults` how often.

### Revisions

A handler reads (`Commit`, `Update`, `SemanticUpdate`, `Forget`) and then performs the steps
of `Order`, one store call each; any other process may step in between and `Crash` may end
it there. The two update paths really have opposite orders: the fallback of `_handle_update`
inserts and then marks, `semantic.update` marks first. Any row that is there may be updated,
superseded or not, as `server.py:1640` takes any id. The patch of an update is applied to the whole record: it
may say something else, name another `content_ref` (`Pointers` says which; the semantic layer then
puts a blob of its own) and move a fact to another layer. A semantic commit that contradicts a
neighbour supersedes it (`CommitOverriding`). A direct commit to the semantic
layer enters only if the gate admits it (a caller of the library may pass witnesses;
through the server with the default k of 3 it is always left pending), which the
model leaves open; provenance, importance and the graph node are not modelled. The history
variables `root`, `prev`, `pointed` and `cut` remember a crystal's first revision, the one it was
made from, whose `content_ref` goes back to a patch, and what was killed before it was done with the table; no guard reads them.

### Checkpoints

`PruneRead` is the one SELECT; then each low row is judged against a fresh count
(`PruneSpare`, `PruneChoose`) and written in a transaction of its own (`PruneWrite`). Every
checkpoint is of the canonical project (`scope.normalize_write_scope`), so the count of a
row without a plan is over all rows. A checkpoint erased by `forget` is left out: an
operator may of course remove the last one.

### Promotions

The gate decides on what it reads, and what follows is a plan: `Admission` (record in the
ledger, then insert the crystal), `Proposal` (queue it), `Candidacy` (insert it unbelieved),
`Deferral` (queue it and insert it), `Admitted` (record only: what Dream is
granted). Each element is a transaction of its own (`Record`, `Pend`, `Insert`), and `Crash`
may come before any. Consolidating reads and decides in one step, because nothing any other
process does changes what it has read of the sources (authors, tiers) - an update
writes a new row. An update is one step here; `Revisions` takes it apart; that of a fact applies the patch as it is
sent, layer and provenance included. Callers of the
library may bring witnesses, a verifier result or `force`, those of the server's tools
may not (`CallersCorroborate`). Fix spans, merges into near duplicates or after a
write conflict, and the variable `CRYSTALIUM_AUTO_CONFIRM` are left out. The history variables
`root`, `forced` and `basis` remember a lineage's first crystal, what was forced, and what a
proposal was distilled from; no guard reads them.

### Dispatch

A tool call is a plan, the sequence of its checks, its accesses to the cache and its
writes (`Committing` is invalidate, ask the limiter, insert; `SemanticUpdating` asks it twice,
closes, inserts), and each element is a step: between any two the Dream thread or another
process may write, entries may leave the limiter's window (`Tick`), the call may
raise (`Fail`) and the process may be killed (`Restart`). Two calls never overlap, because no handler
awaits. The model is of a server with `recall_prefetch` on, as without it there is no cache.
Every query is taken to match every crystal and every answer to fit, so that an answer is what
the filters on scope and activity let through: what ranking, `k` and the budget drop is not
the cache's doing (it is `Recall`'s). `Tick` lets any number of the oldest entries go, which is all the length of the
window decides when nothing else reads the clock. The history variables `own` (what commit
and ingest inserted) and `call.wrote` guard nothing.

### Recall

`Recall` is one call on a store others write to. Every read is a step: `Fetch` and its one
`Widen`, `Ingest` (which decides on backstops per layer), `Search`, `Lookup` of one row a hit stands for,
`Expand` and `Walk`. A row is held as it was when it was read, so that a crystal may be retired while
the recall still has it as active. From `Fuse` to `Composition` nothing is read; then each crystal
of the answer is touched, and revalued if the configuration persists values. The order in which
BM25 and the vector index would rank all crystals is a constant (`Worlds`): the engines are
external, but what each returns of that order follows the filters the code gives them, so the
full-text arm returns rows of every project and status and the vector index ids that may
have no row any more. Scores are fixed-point numbers, weights sixtieths. `Others` is one write between any two
steps. `assemble_context` is the same call with a gate before it, a wider `k`, and `Selected` after it.

### Admission

A call makes a draft and reads its sources one by one (`Resolve`), each read lowering the tier; then
`Insert` files it, before `Mark` for an episode and after it for a fact, as the two update paths do.
Of a patch the model has what trust rests on: the scope, which any update may change, and the layer and the
protection, which the handler and the check of a repair keep (`KeepsFields`) and `semantic.update` does not;
the layer the row was in decides who may write (`RulingLayer`).
An opaque artifact that suggests a repair goes on to resolve the suggested sources and itself,
and hands the result to the caller (`Propose`), who may commit it later (`CommitProposal`). A review
is three transactions (`Review`, `Decide`, `Audit`) with the operator thinking in between. `Abandon` stands for every
refusal that depends on nothing the model has, and for a kill. `asked`, `author`, `prior`, `origin` and `cleared` are history; no guard reads them but `prior`, which
the code has as the id it is about to close.

### Forgetting

The writers of `memory_dynamics` and `utility` are here, a transaction each: the five of an access
event (`RecallReads` to `PersistValue`), the outcome recorded in place (`ScoreOutcome`), `Resurface`, `Flag`,
the value `Judge` persists, and the update. An update reads a row and inserts it under a new id with
both columns as they were read, marks, values and all, unless the patch has a column of its own (`UpdateReads`,
`InsertRevision`); a semantic revision may change its layer and its protection and counts as accessed
now. Left out is one key, `prediction_error`, which the execution layer writes (`layers/execution.py:151`) and no
scorer reads: no crystal here is of that layer.
Any process of `Dreamers` may run Dream, a server's thread and the command at once; nothing in the code keeps one
from the other. The lists and the cutoff of a run are its locals and grow old. The floor of the curve is a ratio of elapsed time to
stability, so that the exponential is not computed; the value (`EvbScore`) and the
importance (`ImportanceScore`) are integers that keep the order the
code's numbers have. The clock stands while a call or a run is under way, as
it moves in ticks of days. The layer, the protection and the tier of an id are fixed beforehand, by
`config` and `TierOf`; `Revisions(i)` are the ids not yet used whose own an update of `i` may lead to. The
history variables `lineage`, `handmade` and `steady` remember what a crystal was copied from, whose
`memory_dynamics` goes back to a patch, and what a run valued at its cutoff and no other run has valued
anew; no guard reads them.

### GraphExport

The seven reads of an export are seven steps, with commits, updates, conflicts, merges, reviews, drift marks, prunes and `forget` between
them (`Disturbed` counts those, to bound them); what each read derives is appended to `raw`, and `Answer` cleans it up. The links a commit
writes to the crystals of its project are steps of `writer`. An update inserts and then marks, that of a fact marks
and then inserts (`UpdateFact`, `InsertFact`); either may give the revision another scope. What a fact's patch does to the provenance is
left out, and so is a writer that fails or is killed, as an export may always have missed what was not written yet. A graph store that fails, or that
the command cannot open, gives no edges (`GraphUnread`).

## 3. What is checked

| Run | Question | Properties | Instance |
|---|---|---|---|
| `dream_server` | one server, restarts, failing inserts and fetches | AtMostOnePending, SlotAccountedFor, NoDoubleExecution, ImplementsSerialRuns, PollHonoursGap (up to the first restart) | 4 runs, gap 2, idle 1, 2 faults, 2 restarts |
| `dream_shared` | a server and a `dream` command on one database, any statement failing | PendingRunServed, SlotReleased (of runs no command takes) | 2 runs, 1 command, gap 2, 2 faults, 1 restart |
| `rev_server` | one server that updates any revision and overrides facts, `forget` and prune beside it, a kill anywhere | OneCurrentRevision, HistoryPreserved | 3 crystals, 2 contents, 2 layers, 1 crash |
| `rev_shared` | two servers, patches that name a `content_ref`, `forget`, a kill anywhere | SuccessorTracked, ContentStored, FactSurvivesUpdates | 3 crystals, 1 content, 1 crash |
| `rev_forget` | does `forget` purge only the targeted entry? It does not: this run is violated | OnlyTargetPurged | 3 crystals, 1 content, 2 layers |
| `ckpt_guard` | two servers writing while one thread prunes | PlanKeepsCheckpoint, ProjectKeepsCheckpoint | 3 checkpoints, 2 plans, 1 crash |
| `promo_gate` | two servers and a dreamer at the gate, the operator reviewing, the window closing, a kill anywhere | AdmissionsLogged, WindowKeepsOut, IndependentSources, LeastTrust | 3 crystals, 2 authors, k = 2 with the lowered bar, library callers, 1 crash |
| `dispatch_calls` | any sequence of tool calls, failing anywhere, with other writers and restarts | RefusedOnlyWhenBusy, RefusedUnwritten, NoCommitMissed, AnswersFit | 2 crystals, 1 project, visibilities `all`, `c` and none, a cache of 1 answer, limit 3 |
| `recall_answer` | recalls and assemblies of every shape, with a writer between any two reads | AnswersOnceCurrent, ExplainBalances, BudgetHeld, LayersNotStarved, AssembledWithinBands, FetchesBounded | 6 crystals, 3 layers, 2 worlds, 4 tables, 21 calls, 1 write |
| `write_gate` | what tier and audience a crystal may end up with, and who lifts a quarantine | LeastTrust, AudienceKept, QuarantineHeld, ProtectionEarned, ReviewsTakeEffect | 1 session, 2 operators, 3 crystals, 2 layers, 2 sources, 2 events, the host, a T1 agent and a stranger that claims T0, 3 scopes |
| `forgetting` | recalls, outcomes and updates of a server beside the Dream runs of two processes, failing anywhere | ValuableSurvive, DriftAccounted, OnlyTimeForgets, KeysKept | 3 crystals, 2 layers, 5 configurations, 3 calls, runs or forgets |
| `graph_export` | an export while others write | NothingHidden, HygieneAccounts, LineageComplete | 3 crystals, 2 projects, 2 authors, 4 profiles, 3 requests, 2 transactions between the reads |

Every property is one that some plausible bug of the code would break: `PROJECT.json` has, for each,
an altered definition (a dropped guard, a swapped order, a stale read) under which TLC refutes it. The type
invariants are proved (section 4) rather than run, where a module has one. One run is expected to fail, `rev_forget`: it holds
the code against a sentence of `memory-protocol.md`. Where else code and documents
disagree is told in section 5.

### Bounds and why they are enough

*Dream.* Two ids are the least with which two triggers can disagree; four leave room for
one run abandoned by a crash, one left in the table, one executing and one being
claimed. Two suffice beside a `dream` command: each process has one. Gap 2 and idle 1 make "inside the gap but idle" and its opposite both reachable. When
the ids run out triggers do nothing (`NoIdLeft`), which also is a state of
the code (a poll that coalesces).
*Revisions.* Three crystals make an original, its revision and a revision of either (a
fork), an original, its revision and a near duplicate, or two facts of which the one overrides
a revision of the other. One crash is enough: after it the
process is in the state of a fresh one. One name is enough for a patched pointer: of a content that was stored, or never was. *Checkpoints.* Three rows in two plans give a plan
with a superseded and a current row and another plan, or a row without a plan, to
miscount.
*Promotions.* Three ids make two sources and a proposal on them, or an original, its
revision and a proposal. With k = 2 the lowered bar is 1, so that a single author is enough next to
a salient pair and not otherwise. Two servers let the window close between one's decision and
the other's; all tiers are enumerated.

*Dispatch.* Three values of the visibility make an answer that one reader may not see (a crystal
of class `c`, a reader of class `all`). With room for one answer every other recall evicts. Two crystals
are a conflict's winner and loser, or a revision and its original. Limit 3 is the longest a
single call can take, and the least at which the entries an old call left behind (two) do not
fill the window by themselves.

*Recall.* Six crystals: three that fill the window of the fetch over every layer, two that share the
layer it would starve, one of another project and one heavy enough to need the total cap. The factor and the floor of
the fetch width are 1 so that a fetch meets its limit, and the ceiling 8 lets it be widened. The
tables hold retired, closed, erased and unwritten rows, some of them in the vector index. One write is enough to make any
one read disagree with another.

*Admission.* Three ids are a source, a repair on it and a revision of either, or an ingested artifact, the repair proposed from
it and its revision. Of the three callers one earns T0, one T1 and one nothing, whatever it claims. Two operators can disagree about one crystal. The three scopes
are the canonical project for all, for a few, and another project.

*Forgetting.* A tick of eight days, the only one (`MaxAge` 1), takes crystals of stability 1 and 2 past the floor; one of 4, the
most the curve gives, stays above it but is worth re-surfacing; a stability of 5 only a patch can write. The percentile is
50, so that of two valued crystals one may go. Two processes that run Dream race each other; three calls, runs or forgets let an update
or a recall race two runs, or a run work off what two recalls left. The layers are pruned in the order episodic,
semantic, so that values are persisted in the first before the second is listed. In the configurations with the drift check
one of two interchangeable crystals is semantic like the trusted prior, and the curve is off: both at once are too many states for TLC, and the
theorems of section 4 hold for every configuration.

*Export.* Three crystals make a conflict and its winner's revision, or a merge between two authors and a foreign crystal. The first request asks
for the least, the second is cut by its limit, the third keeps dangling edges. One merge,
review, mark or `forget`, and two transactions between the reads, are enough for two reads to contradict a third; two
are also both halves of a fact's update.

### Fairness

`Spec` of `DreamScheduler` is weakly fair for `TickStep` and for `Enqueue(Loop)` only: the
interval job fires again and again and the daemon thread goes on once it has, and a
handler the event loop has entered returns. Nobody has to call a tool, and a command may
be killed anywhere, so no fairness is assumed of either. The liveness properties thus hold
whatever the users do. Symmetry is not used in the runs that check liveness. The other modules
assume no fairness: their properties are about what never happens, and a caller, a command or a
run of Dream may be killed anywhere. That the fetches of a recall come to an end is the safety property `FetchesBounded`.

### Deadlock

The `Rev*` configurations, `PromoGate`, `WriteGate` and `Forget` say `CHECK_DEADLOCK FALSE`: when the
bounds are reached and no handler is under way nothing needs to happen, in the model as in an
idle server. `GraphExport` says so because it stops when the export is answered. The other runs check for deadlock; in
`Recall` a call that has not returned must have a next step (`Over` is the only way to stop).

## 4. What is proved

TLAPS proves the following for every value of the constants.

| Theorem | Statement | Assumes | Along |
|---|---|---|---|
| `DreamProofs!OnePending` | AtMostOnePending | nothing more | the slot is only filled when empty, under the lock |
| `...!SlotNeverStranded` | SlotAccountedFor | no other process (`Clis = {}`) | who is inserting, queueing or executing which run, and that these are disjoint |
| `...!ExecutedAtMostOnce`, `...!ServerIsSerial` | NoDoubleExecution; ImplementsSerialRuns | `Clis = {}`, status updates do not fail (`"mark"` not in `FaultKinds`) | a run that was executed has a row that says so |
| `...!GapHonoured` | PollHonoursGap | `Clis = {}` | outside the callback the scheduler's own clock is never ahead of the time since the last run it closed, and what the poll decided on stays true until it claims the slot |
| `...!PlanSpared`, `!ProjectSpared` | PlanKeepsCheckpoint, ProjectKeepsCheckpoint | one pruner (`OnePruner`) | between the count and the UPDATE a row other than the chosen one stays active, since nobody else deprecates |
| `RevisionsProofs!ContentBehindPointers` | ContentStored: content is behind every pointer that no patch has set, unless a crystal with the same content was forgotten, of which there is an audit | nothing more | a job that is past `put` has its blob stored, or among those of erased rows, and nothing forgets that; the rows an update copies have theirs by the same invariant, or are marked as `pointed` |
| `RevisionsProofs!HistoryIsPreserved` | HistoryPreserved | nothing more | ids are fresh: the row a job is about to insert is not there and was not erased, and it is the only job that will insert it |
| `RevisionsProofs!SuccessorsTracked` | SuccessorTracked | nothing more | the same, and that only a semantic revision points to an id not written yet |
| `...!FactsSurvive` | FactSurvivesUpdates | nothing more | from any revision of an intact fact a later one is recalled: what closes a revision is a successor with a larger id, written before (`LaterRecalled`) |
| `...!RevisionsAlternate` | OneCurrentRevision: any number of servers updating any revision; two current ones need an update that is under way, was killed between its writes, or was the second of one revision | nothing more | in a lineage without a fork the revisions form a chain, and each that was updated is closed once its update has ended (`ChainInv`) |
| `PromotionsProofs!BeliefIsLogged` | AdmissionsLogged, of the layer a lineage began in | nothing more | a job about to insert a believed crystal either has its entry in the ledger or has still to write it, first |
| `...!WindowHolds` | WindowKeepsOut | nothing more | while the window is open, an entry a job has still to write is one the operator forced |
| `...!AdmissionsCorroborated`, `...!TrustKept` | IndependentSources, LeastTrust | nothing more | sources are written before they are proposed on and their author and tier never change |
| `DispatchProofs!CommitsReachCache` | NoCommitMissed | nothing more | once a commit has invalidated, nothing is kept for its project until it has written; what a recall is about to keep was read after that and has only aged |
| `...!AnswersStayInScope` | AnswersFit | nothing more | a crystal never changes its scope, and an answer is kept under the scope it was read for |
| `...!RefusalsWriteNothing` | RefusedUnwritten | nothing more | no plan asks the limiter after it has written |
| `...!RefusalsAreEarned` | RefusedOnlyWhenBusy | nothing more | from any entry of the window on, the checks passed and those the call has still to ask for are at most three for each call let in, and two (`Paced`); every suffix is covered, as time drops entries from the front |
| `AdmissionProofs!RepairsLeastTrusted` | LeastTrust | nothing more | a source already read is there with a tier no better than the draft's; a written tier never changes; an erased source only stops counting |
| `...!AudiencesKept` | AudienceKept | nothing more | the project and audience of a source are the same when the repair is written as when it was read; a revision's draft holds the sources of the row it copies |
| `...!QuarantinesHeld` | QuarantineHeld | nothing more | the draft of a revision of quarantined text is itself quarantined, or what it copies was cleared before; lineages only grow |
| `...!ProtectionsEarned` | ProtectionEarned: asked for, of a trusted first writer, or given by a T0 or T1 caller's update of a fact it descends from | nothing more | the tier of a caller is never better than its identity; what is not a fact or is a repair keeps the protection of the row it copies |
| `...!ReviewsDone` | ReviewsTakeEffect | nothing more | between `Decide` and `Audit` only an update inserts, and it inserts under a fresh id |
| `ForgettingProofs!TimeForgets` | OnlyTimeForgets, of crystals whose `memory_dynamics` no patch wrote | `lapse_stability` is at most `initial_stability` (not enforced by `config.py`, true of its defaults; `ForgettingAssumption`) | the stability an access event is about to write leaves its crystal on the side of the floor it is on, because whoever touched it meanwhile made it fresh or left it there; what a run has still to re-surface has not faded since it was listed |
| `...!StabilityStaysBounded` | StabilityBounded (stated in the proof module): a stability no patch wrote is unset or from `LapseStability` to `MaxStability` | the same | what recalls and runs carry from one transaction to the next is so bounded, unless their crystal is `handmade` |
| `...!ShareIsKept` | ValuableSurvive, of what a run valued at its cutoff and no other run has valued anew (`steady`) | the order of the layers names each once | per process (`ShareSound`), the set of cheap steady crystals is fixed when the cutoff is taken: rows of the layers not listed yet can only leave it, as values are written for crystals just touched or of a layer already listed, and what updates insert is not steady; the cutoff is shown to have no more than its share below it |
| `...!DriftIsAccounted` | DriftAccounted: no process enters a pair twice; a mark no patch wrote goes back, through `lineage`, to an entry | nothing more | an entry of the process itself was seen at the start of its check or its candidate is done; a revision's lineage holds that of the row it copies |
| `...!KeysAreKept` | KeysKept | nothing more | each write merges into the row as it is, and an update writes under an id no row has |
| `RecallProofs!AnswersWereCurrent` | AnswersOnceCurrent | nothing more | a row held as active was active when it was read, within the recall (`OnceCurrent`); every merge, sort and cut after that only loses crystals |
| `...!FetchesEnd` | FetchesBounded | nothing more | at each fetch, which labels are still to be asked and which were (`FetchPlan`), the head first (`HeadFirst`); a widened batch is not widened again |
| `...!NoLayerStarves` | LayersNotStarved | nothing more | with no writer about a batch is the window of its search (`BatchFull`); a search that did not meet its limit holds every match, and for each layer asked for the arm holds its best, or enough of all, or its backstop is still to come (`Coverage`) |
| `...!DiagnosisBalances` | ExplainBalances | nothing more | every row read is of a hit that is ranked (`FoundRanked`); the fused ranking has each candidate once, so that the four reasons and the answer partition it |
| `...!WorkingSetInBudget` | BudgetHeld | nothing more | the two eviction passes, by induction over the candidates in order of eviction: what is dropped is a prefix, and the sum of what stays is shown to be at most the cap when the passes end |
| `...!AssemblyKeepsBands` | AssembledWithinBands | nothing more | each band begins at or before each of its records with a score at most a tenth above it, by induction over the places; the records sorted by band and length are those that were scored, each once |
| `GraphExportProofs!HiddenStaysHidden` | NothingHidden | nothing more | what was listed stays fit to be shown or is gone (`NodesSound`), as an update gives another scope to a new row only, and an edge that is kept has the ends of one that was read, both among the nodes |
| `...!HygieneBalances` | HygieneAccounts | nothing more | by induction over the places of the list: the edges made of the first n of them have one for each key, no lighter than any of its duplicates, and with the duplicates counted there are as many as kept (`Accounts`) |
| `...!LineageIsComplete` | LineageComplete | nothing more | once they are derived the supersessions of the nodes are all there (`SuccessorsSound`): a successor is named but once (`WriterSound`), be it written already or not (`Taken`), so one that was replaced since the listing does not come back |

and, for each module that is proved about, `TypeCorrect`, the type invariant (`CheckpointsTypeCorrect` for `Checkpoints`). (That of `Dispatch` leaves out `order`, the list of cached
answers in order of use: it is filtered with `SelectSeq`, of which the library states no facts. That of `Forgetting`
has the lists of a run as functions into records of numbers, which TLC cannot enumerate: it is proved and not run.) None of these invariants is
inductive by itself. The strengthenings in the proof modules are conjunctions of named parts
(`IdInv`, `ContentInv` and `TrailInv` of `RevisionsProofs`, for instance: `ErasedForGood`, `MintedFirst`, `OneWriter`,
`OldWritten`, `NewWritten`, ...; `JobsSound`, `OneWriter`, `NothingAhead`, `BasisSound` and `LedgerSound` of
`PromotionsProofs`; `Minted`, `AnswersSound`, `CallSound` and `Paced` of `DispatchProofs`; `EventsSound`, `RunSound`, `DriftSound`, `SharesSound` and `ShareSound` of
`ForgettingProofs`; `FusedOK`, `AnswerOK`, `OnceCurrent`, `FoundRanked`, `FetchPlan`, `HeadFirst`, `BatchFull` and `Coverage` of
`RecallProofs`; `RowsSound`, `WriterSound`, `NodesSound` and `SuccessorsSound` of `GraphExportProofs`). Each proof has one
step per action, and cites lemmas about the fields an action changes.

`Recall` rests on recursive functions, sums and sorts, and the hygiene of `GraphExport` on a recursive function. A recursive function over numbers is shown to exist from the
well-foundedness of the numbers, and statements about it are proved by induction over the set of numbers for which
they hold (`NatSetInduction`, `RangeInduction`, `Recursion`), since an induction over an operator cannot be cited. A sum
of weights over a finite set is the number of units there are, so that it does not depend on the order in which it is
taken and can be compared along an injection; sorting by keys no two of which are equal is shown to have each value at one
place, the lower key first (`Ranked`). The constants of `Recall` and `Composer` have the types the code gives them, and
nothing more is assumed of them; a caller may name a layer twice, as no schema forbids it, and then
the code counts entries and not layers (`retrieve.py:559-563`, `784-786`). `FetchesBounded` and `LayersNotStarved` are stated for
such calls too, and two requests of the run name a layer twice.

*Only model-checked:* `PendingRunServed` and `SlotReleased`: liveness under fairness is
beyond the prover. `OnlyTargetPurged` is false. Every other property of the runs is stated by a theorem. No module declares a RECURSIVE operator.

## 5. Behaviour worth knowing

Where a document and the code disagree, or where the code does what a reader may not expect. Only the first point under *Crystals and their
revisions* is a run of its own; the properties of the others' modules are stated so as to allow for them.

*Dream*

* A run that `crystalium dream` drains leaves the slot of the server that queued it taken until the
  server restarts: the command's worker calls back into its own scheduler (`__main__.py:1138`), and
  `dream/scheduler.py:203` says "The slot is released by record_dream_completed(run_id) when the worker finishes".
* A run fetched by a server and by `crystalium dream` is executed by both, because
  `_mark_run_started` does not ask for the status it finds (`dream/worker.py:1003`);
  `skills/dream-cycle/SKILL.md:47` says concurrent triggers collapse to one execution.
* `on_session_end` reads the gap, lets the lock go and then claims
  (`dream/scheduler.py:173`): a run that completes in between is followed by another at once.
  The idle poll does not do this within one process. `memory-protocol.md:64` promises the
  gap without exception.
* After a restart the in-memory gate knows nothing of the rows in the table
  (`dream/scheduler.py:78`), so a second pending row may join the one that survived. Both are executed.
* `crystalium dream` checks the gap against a scheduler made on the spot, whose last run lies
  in the past for ever (`__main__.py:1165`): it never waits.
* update, checkpoint, replan, skill and session_end calls do not reset the idle clock (`server.py:926-961`).
* With the curve on, a crystal recalled between the list a prune reads and its UPDATE is deprecated
  although it was just recalled (`dream/worker.py`, `_prune`); a re-surfacing from an old list may write
  a lower stability over two boosts, though never one below the floor (`OnlyTimeForgets`).
* Two processes that check for drift at once can each enter the same pair, because a run reads the ledger once
  (`dream/worker.py:503`), whose comment says "Don't re-flag the same (candidate, prior) pair across runs"; `DriftAccounted`
  says it of one process. An update copies a mark to a new id that the ledger does not have.
* A run can give up more than its share of crystals if another run persists lower values between its cutoff and its lists, or if updates
  insert copies of faded crystals meanwhile: `ValuableSurvive` counts neither.
* A drift row without its mark, left by a kill between the two, is never repaired: the pair is seen, so it is passed over.
* With the defaults (EVB scores against a threshold per layer) a crystal that no recall ever returned is given
  up on its age alone. With EVB off the score of a crystal nobody scored, of default novelty, does not fall
  below 0.225, above every prune threshold (0.20 at most): nothing such is ever pruned. Structured
  repairs (`kind` not null) are never pruned.

*Crystals and their revisions*

* `forget` unlinks a blob that a live revision points to, because a revision shares the `content_ref` of the one before
  it; `methodology/cortex/memory-protocol.md:116` says "only the targeted entry is purged". TLC shows it in `rev_forget`.
* The guard of the prune counts superseded checkpoints as well, so the only current one of a plan
  may be deprecated; the comment at `storage/relational.py:1068` speaks of "the plan's last
  recallable checkpoint".
* A superseded crystal can be updated again (`server.py:1640`), which makes two current revisions;
  `tests/test_bitemporal.py:297` says of it that it "is no longer the current version".
* A recall takes two entries of the limiter's window, a commit two, an update of a semantic crystal
  and a checkpoint that prefetches three: 200 "calls/minute" (`CRYSTALIUM.md:35` at the root) are from 66
  to 200 calls.
* The recall cache of a server that has it on (`recall_prefetch`, off by default) is not told of
  what update, checkpoint, replan, Dream, reviews, other servers or `forget` write (`server.py:959` hands
  the update no cache): the summary of a forgotten crystal may be served until it is evicted or the project is written
  to. `aetheryte/cache.py:4` says "invalidated per-project on write to avoid staleness".
* An entry exactly 60 s old still counts against the limit (`enforcement.py:622`).
* The patch of an update may hold a scope, which is not normalized to the
  canonical project, a `content_ref` of content that nobody stored, and the columns
  `memory_dynamics` and `utility` (`server.py:1722`). In the semantic layer it is applied as it is sent
  (`layers/semantic.py:508`), so that it may set or clear `protected` and change `layer` and `provenance`;
  the comment at `server.py:1594-1598` speaks of fields "that an update patch must never overwrite".
* `semantic.update` closes the old revision before the new one is written: a kill in between loses
  the fact. `skills/commit/SKILL.md:28-29` documents the opposite order.
* Two processes executing Dream runs can each deprecate the checkpoint the other counted:
  `PlanKeepsCheckpoint` needs one pruner.
* `forget` stops half way if a store fails, and cannot be repeated because the row is gone; a
  vector upserted by a commit still under way outlives it (`__main__.py:1087-1106`).
* Nothing sweeps checkpoints whose time to live is over (`dream/worker.py:826`), and no recall with
  `recall_active_only` returns a checkpoint, whose `t_valid_to` is always set
  (`aetheryte/retrieve.py:622`).
* `update` clears `t_valid_to` (`server.py:1736`), so a revised checkpoint never expires, and
  sets status `active` (`server.py:1729`), although the comment at `server.py:1593-1597` says the new
  revision inherits the status.
* A proposal the gate leaves pending keeps no content, and accepting it inserts nothing
  (`gate.py:321`, `__main__.py:1434-1455`).
* A near duplicate that is deprecated or superseded still absorbs a commit (`layers/episodic.py:87`),
  and the commit is acknowledged though no recall returns the crystal;
  `roadmap-v1/W5-retrieval-intelligence.md:36` speaks of a merge "instead of blind append".
* The gate counts distinct pairs of author and source (`gate.py:341`);
  `skills/promote/SKILL.md:14-15` speaks of distinct values of `provenance.author_agent`.
* What Dream is granted is recorded and dropped (`dream/worker.py:651-780`): no crystal is inserted, so
  the same cluster is proposed again in every run.
* A verdict overwrites an earlier one: `process_pending` does not ask for the status
  (`gate.py:327`).
* With k of 1 or less the lowered bar, at least 1, is not lower.
* An update of a candidate skill makes its status active; its validation state stays candidate.

*Trust and review*

* `enforcement.py` says that any update follows "same rules as commit"; the fallback update of an opaque episode keeps the
  tier and validation state of the old revision whoever writes it, and only this fallback
  enforces the protected fields of `server.py:1594`.
* An update of a rejected crystal makes an active revision of it. Two operators can each decide, and audit, opposite verdicts
  on one crystal; the last decision stands (`__main__.py:1489`).
* `crystalium index` files everything as human, T0 and protected, under the project "default".

*Recall and export*

* The docstring of the command `recall` says it "NEVER writes to the store"; it records an access event for everything it
  answers, as every recall does.
* `recall(layers=[...])` may return crystals of other layers that came by the graph or the completion walk
  (`aetheryte/retrieve.py:1062-1110`); `memory-protocol.md:13` of the methodology and `server.py:291-294` present `layers` as a filter.
* Two ids that are first in different arms tie in `derived_family_merge`, whose docstring says that ties of the least rank
  cannot occur; the tie is broken by id.
* `resolve_sparse_weight` relates hits of all projects, quarantined ones with them, to the number of the
  project's own crystals, although its docstring speaks of the same population. When the hits outnumber
  the crystals it gives the neutral weight.
* The supersessions and merges an export derives come from one list of at most 10000 rows, so beyond that lineage may be lost. The flags
  `--synthesize-links` and `--backfill-links` are parsed and confirmed (`__main__.py:855-857`) but nothing reads them.
  Whether an export was cut is decided from two reads that may disagree. The command takes an empty
  graph, without a word, when it cannot open the store a server holds.

## 6. Plan

In order of importance; what is done is marked.

1. *(done)* `DreamScheduler` with `SerialRuns`, its runs and proofs.
2. *(done)* `CrystalRows`, `Revisions`, `Checkpoints`, their runs and proofs.
3. *(done)* `Trust` and `Promotions`, the run and the proofs.
4. *(done)* `Dispatch`, with the rate limiter and the recall cache, its runs and proofs.
5. *(done)* `RankFusion`, `Links`, `Composer` and `Recall`.
6. *(done)* `Admission`, with the review of quarantined crystals, and its proofs.
7. *(done)* `Forgetting` and `GraphExport`.
8. *(done)* The proofs of `Forgetting`.
9. *(done)* The proofs about whole lineages (in `RevisionsProofs`), the gap of the poll and the pace of the limiter.
10. *(done)* The proofs of `Recall`: its fetches, its diagnosis, its budget and its bands.
11. *(done)* The proofs of `GraphExport`: what its hygiene computes of a list of edges, and which rows its reads may show.

Not modelled: redaction and the classification of summaries (regular expressions over text), the
GraphML text, the format of envelopes, telemetry, the commands `doctor`, `list`, `canary` and `serve` (they set
up or print), the re-rank of a recall by encoding context (off by default), the importance a crystal is
born with, the parsing of a fix span, configuration, the
insides of the vector and graph engines (not code of this repository), and the benchmarks
under `evals/`, which run the program and are no part of it. No state anyone decides on is in them, or
the models take it as a constant.
