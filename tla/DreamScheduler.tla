---------------------------- MODULE DreamScheduler ----------------------------
(***************************************************************************)
(* The Dream scheduler and the run loop of the Dream worker: everything    *)
(* that decides when a Dream run is triggered, made durable, executed and  *)
(* closed (dream/scheduler.py, dream/worker.py, the trigger wiring of      *)
(* server.py and the "dream" command of __main__.py).                      *)
(*                                                                         *)
(* Three kinds of thread touch the state.                                  *)
(*   Loop  the event loop of the MCP server; it runs tool handlers one at  *)
(*         a time, session_end among them.                                 *)
(*   Tick  the APScheduler daemon thread; one idle-poll job at a time      *)
(*         (max_instances is 1 by default).                                *)
(*   Clis  other processes on the same database: "crystalium dream".       *)
(* Loop and Tick share the scheduler object, whose lock makes each of its  *)
(* critical sections one step; all of them share the table dream_runs,     *)
(* each statement of which is one transaction, hence one step.             *)
(*                                                                         *)
(* What a run does between its start and its end is the subject of other   *)
(* modules; a run that raises is closed exactly as one that succeeds.      *)
(***************************************************************************)
EXTENDS Naturals, FiniteSets

CONSTANTS RunIds,      \* the UUIDs that may be minted (bounds the model)
          NoRun,       \* not a run id
          Clis,        \* one-shot "crystalium dream" processes
          Gap,         \* min_dream_gap_s, in units of the model's clock
          Idle,        \* idle_threshold_s, in the same units
          FaultKinds,  \* which statements may fail: "insert", "fetch", "mark"
          MaxFaults,   \* bound: how many of them do
          MaxRestarts  \* bound: restarts of the server

Loop == "loop"
Tick == "tick"
Server   == {Loop, Tick}       \* threads that share the scheduler object
Drainers == {Tick} \cup Clis   \* threads that call worker.run_pending()
Threads  == Server \cup Clis

ASSUME ConstantsAssumption ==
  /\ NoRun \notin RunIds
  /\ Clis \cap Server = {}
  /\ Gap \in Nat /\ Idle \in Nat
  /\ FaultKinds \subseteq {"insert", "fetch", "mark"}
  /\ MaxFaults \in Nat /\ MaxRestarts \in Nat

VARIABLES
  slot,           \* scheduler._pending_run_ids
  sinceDream,     \* now - scheduler._last_dream, saturating at Gap
  sinceActivity,  \* now - scheduler._last_activity, saturating at Idle
  row,            \* dream_runs.status, "none" where there is no row
  pc,             \* where each thread is
  run,            \* the run id each thread has in its locals
  queue,          \* the ids a drainer has fetched and not yet executed
  faults,         \* database failures so far
  restarts,       \* restarts so far
  execs,          \* history: how often each run has been executed
  sinceRun        \* history: time since any process closed a run

schedulerVars == <<slot, sinceDream, sinceActivity>>
historyVars   == <<execs, sinceRun>>
boundVars     == <<faults, restarts>>
vars == <<schedulerVars, row, pc, run, queue, boundVars, historyVars>>

RowStates == {"none", "pending", "running", "finished"}
Places    == {"idle", "claim", "insert", "drain", "body", "callback",
              "decide", "done"}

TypeOK ==
  /\ slot \subseteq RunIds
  /\ sinceDream \in 0..Gap
  /\ sinceActivity \in 0..Idle
  /\ row \in [RunIds -> RowStates]
  /\ pc \in [Threads -> Places]
  /\ run \in [Threads -> RunIds \cup {NoRun}]
  /\ queue \in [Drainers -> SUBSET RunIds]
  /\ faults \in 0..MaxFaults
  /\ restarts \in 0..MaxRestarts
  /\ execs \in [RunIds -> Nat]
  /\ sinceRun \in 0..Gap

(* _last_dream of a new scheduler object lies in 2000: any gap is met.     *)
NewSinceDream == Gap

(* A new process: nothing pending in memory, _last_activity is now.        *)
Init ==
  /\ slot = {}
  /\ sinceDream = NewSinceDream
  /\ sinceActivity = 0
  /\ row = [r \in RunIds |-> "none"]
  /\ pc = [t \in Threads |-> "idle"]
  /\ run = [t \in Threads |-> NoRun]
  /\ queue = [d \in Drainers |-> {}]
  /\ faults = 0
  /\ restarts = 0
  /\ execs = [r \in RunIds |-> 0]
  /\ sinceRun = Gap

-------------------------------------------------------------------------------
(* Small steps shared by the actions *)

Goto(t, place) == pc' = [pc EXCEPT ![t] = place]

Move(t, from, to) == pc[t] = from /\ Goto(t, to)

(* _make_run_id(): an id no row and no thread knows. *)
Fresh(r) ==
  /\ row[r] = "none"
  /\ r \notin slot
  /\ \A t \in Threads : run[t] # r

NoIdLeft == \A r \in RunIds : ~Fresh(r)   \* only ever true at the bound

(* One database statement raises sqlite3.OperationalError. *)
Fault(kind) ==
  /\ kind \in FaultKinds
  /\ faults < MaxFaults
  /\ faults' = faults + 1
  /\ UNCHANGED restarts
NoFault == UNCHANGED boundVars

Older(age, limit) == IF age < limit THEN age + 1 ELSE age

(* The clock. Ages only matter up to the threshold they are compared with. *)
Advance ==
  /\ sinceDream' = Older(sinceDream, Gap)
  /\ sinceActivity' = Older(sinceActivity, Idle)
  /\ sinceRun' = Older(sinceRun, Gap)
  /\ UNCHANGED <<slot, row, pc, run, queue, boundVars, execs>>

-------------------------------------------------------------------------------
(* Tool calls, on the event loop *)

(* recall, assemble_context, commit and ingest end in record_activity();   *)
(* the other tools do not touch the scheduler, session_end excepted.       *)
RecordedCall ==
  /\ pc[Loop] = "idle"
  /\ sinceActivity' = 0
  /\ UNCHANGED <<slot, sinceDream, row, pc, run, queue, boundVars, execs,
                 sinceRun>>

(* session_end -> on_session_end(): read _last_dream under the lock, let   *)
(* the lock go, and decide on the value read.                              *)
SessionEnd ==
  /\ pc[Loop] = "idle"
  /\ \/ /\ sinceDream < Gap
        /\ UNCHANGED <<pc, run>>
     \/ /\ sinceDream >= Gap
        /\ Goto(Loop, "claim")
        /\ \E r \in RunIds : Fresh(r) /\ run' = [run EXCEPT ![Loop] = r]
  /\ UNCHANGED <<schedulerVars, row, queue, boundVars, execs, sinceRun>>

-------------------------------------------------------------------------------
(* DreamScheduler.enqueue(run_id), called by both threads of the server *)

(* The gate as it was before the coalescing fix: keyed on the run id. *)
ClaimKeyedOnRunId(t) ==
  /\ pc[t] = "claim"
  /\ IF run[t] \in slot
       THEN Goto(t, "idle") /\ run' = [run EXCEPT ![t] = NoRun] /\ UNCHANGED slot
       ELSE Goto(t, "insert") /\ slot' = slot \cup {run[t]} /\ UNCHANGED run
  /\ UNCHANGED <<sinceDream, sinceActivity, row, queue, boundVars, historyVars>>

(* Under the lock: coalesce while any run is pending, else take the slot. *)
Claim(t) ==
  /\ pc[t] = "claim"
  /\ \/ /\ slot # {}
        /\ Goto(t, "idle")
        /\ run' = [run EXCEPT ![t] = NoRun]
        /\ UNCHANGED slot
     \/ /\ slot = {}
        /\ slot' = slot \cup {run[t]}
        /\ Goto(t, "insert")
        /\ UNCHANGED run
  /\ UNCHANGED <<sinceDream, sinceActivity, row, queue, boundVars, historyVars>>

(* worker.enqueue(): INSERT ... 'pending', outside the lock. *)
Insert(t) ==
  /\ Move(t, "insert", "idle")
  /\ row' = [row EXCEPT ![run[t]] = "pending"]
  /\ run' = [run EXCEPT ![t] = NoRun]
  /\ UNCHANGED <<schedulerVars, queue, boundVars, historyVars>>

(* The failed INSERT, with the slot kept: the except branch forgotten. *)
InsertFailsSlotKept(t) ==
  /\ Move(t, "insert", "idle")
  /\ Fault("insert")
  /\ run' = [run EXCEPT ![t] = NoRun]
  /\ UNCHANGED <<schedulerVars, row, queue, historyVars>>

(* The INSERT raises; enqueue() takes the run out of the slot again. *)
InsertFails(t) ==
  /\ Move(t, "insert", "idle")
  /\ Fault("insert")
  /\ slot' = slot \ {run[t]}
  /\ run' = [run EXCEPT ![t] = NoRun]
  /\ UNCHANGED <<sinceDream, sinceActivity, row, queue, historyVars>>

-------------------------------------------------------------------------------
(* DreamWorker.run_pending() and _execute_run(), on any drainer *)

PendingRows == {r \in RunIds : row[r] = "pending"}

(* A fetch that also picks up rows already marked running. *)
FetchUnfinished(d) ==
  /\ Goto(d, "drain")
  /\ queue' = [queue EXCEPT ![d] = {r \in RunIds : row[r] \in {"pending", "running"}}]
  /\ NoFault

(* A fetch that misses the rows an earlier process left behind. *)
FetchOwnSlotOnly(d) ==
  /\ Goto(d, "drain")
  /\ queue' = [queue EXCEPT ![d] = PendingRows \cap slot]
  /\ NoFault

(* SELECT ... WHERE status='pending'; an error reads as an empty list. *)
Fetch(d) ==
  /\ Goto(d, "drain")
  /\ \/ queue' = [queue EXCEPT ![d] = PendingRows] /\ NoFault
     \/ UNCHANGED queue /\ Fault("fetch")

(* _mark_run_started(): the UPDATE has no condition on the status it finds, *)
(* and a failed UPDATE is logged and passed over.                           *)
StartRun(d) ==
  /\ Move(d, "drain", "body")
  /\ \E r \in queue[d] :
       /\ run' = [run EXCEPT ![d] = r]
       /\ queue' = [queue EXCEPT ![d] = @ \ {r}]
       /\ execs' = [execs EXCEPT ![r] = @ + 1]
       /\ \/ row' = [row EXCEPT ![r] = "running"] /\ NoFault
          \/ UNCHANGED row /\ Fault("mark")
  /\ UNCHANGED <<schedulerVars, sinceRun>>

(* _mark_run_finished(), reached on success and on error alike. *)
FinishRun(d) ==
  /\ Move(d, "body", "callback")
  /\ \/ row' = [row EXCEPT ![run[d]] = "finished"] /\ NoFault
     \/ UNCHANGED row /\ Fault("mark")
  /\ sinceRun' = 0
  /\ UNCHANGED <<schedulerVars, run, queue, execs>>

(* The loop before completion was wired to the slot (server.py:695). *)
CompleteKeepsSlot == sinceDream' = 0 /\ UNCHANGED slot

(* record_dream_completed(run_id), under the lock. *)
RecordDreamCompleted ==
  /\ sinceDream' = 0
  /\ slot' = slot \ {run[Tick]}

(* The finally clause: only the server's worker has on_run_complete set. *)
RunComplete(d) ==
  /\ Move(d, "callback", "drain")
  /\ \/ d = Tick /\ RecordDreamCompleted
     \/ d \in Clis /\ UNCHANGED <<slot, sinceDream>>
  /\ run' = [run EXCEPT ![d] = NoRun]
  /\ UNCHANGED <<sinceActivity, row, queue, boundVars, historyVars>>

-------------------------------------------------------------------------------
(* DreamScheduler._tick(), on the daemon thread *)

TickFetch ==
  /\ pc[Tick] = "idle"
  /\ Fetch(Tick)
  /\ UNCHANGED <<schedulerVars, row, run, historyVars>>

TickDrained ==
  /\ Move(Tick, "drain", "decide")
  /\ queue[Tick] = {}
  /\ UNCHANGED <<schedulerVars, row, run, queue, boundVars, historyVars>>

(* The idle poll without its gap condition. *)
PollIgnoresGap == sinceActivity >= Idle

(* Both conditions of the idle poll, read together under the lock. *)
PollFires == sinceActivity >= Idle /\ sinceDream >= Gap

TickDecide ==
  /\ pc[Tick] = "decide"
  /\ \/ /\ ~PollFires
        /\ Goto(Tick, "idle")
        /\ UNCHANGED run
     \/ /\ PollFires /\ NoIdLeft
        /\ Goto(Tick, "idle")
        /\ UNCHANGED run
     \/ /\ PollFires
        /\ Goto(Tick, "claim")
        /\ \E r \in RunIds : Fresh(r) /\ run' = [run EXCEPT ![Tick] = r]
  /\ UNCHANGED <<schedulerVars, row, queue, boundVars, historyVars>>

-------------------------------------------------------------------------------
(* crystalium dream: enqueue one run, drain everything, exit *)

(* The run id is minted and handed to worker.enqueue() in one go. *)
CliInsert(c) ==
  /\ \E r \in RunIds : Fresh(r) /\ row' = [row EXCEPT ![r] = "pending"]
  /\ Move(c, "idle", "insert")
  /\ UNCHANGED <<schedulerVars, run, queue, boundVars, historyVars>>

(* --force: worker.enqueue() directly. *)
CliForce(c) == CliInsert(c)

(* Without --force the gap is checked by a scheduler made on the spot, so  *)
(* against the _last_dream of a new scheduler (NewSinceDream).                  *)
CliDream(c) == NewSinceDream >= Gap /\ CliInsert(c)

(* worker.enqueue() raises: both forms give up without draining. *)
CliInsertFails(c) ==
  /\ Move(c, "idle", "done")
  /\ Fault("insert")
  /\ UNCHANGED <<schedulerVars, row, run, queue, historyVars>>

CliFetch(c) ==
  /\ pc[c] = "insert"
  /\ Fetch(c)
  /\ UNCHANGED <<schedulerVars, row, run, historyVars>>

CliExit(c) ==
  /\ Move(c, "drain", "done")
  /\ queue[c] = {}
  /\ UNCHANGED <<schedulerVars, row, run, queue, boundVars, historyVars>>

-------------------------------------------------------------------------------
(* A restart that puts the runs it finds marked running back in the queue. *)
RestartRequeues ==
  /\ restarts < MaxRestarts
  /\ restarts' = restarts + 1
  /\ slot' = {}
  /\ sinceDream' = NewSinceDream
  /\ sinceActivity' = 0
  /\ pc' = [t \in Threads |-> IF t \in Server THEN "idle" ELSE pc[t]]
  /\ run' = [t \in Threads |-> IF t \in Server THEN NoRun ELSE run[t]]
  /\ queue' = [queue EXCEPT ![Tick] = {}]
  /\ row' = [r \in RunIds |-> IF row[r] = "running" THEN "pending" ELSE row[r]]
  /\ UNCHANGED <<faults, historyVars>>

(* The server process dies and is started again: the threads, the slot and *)
(* both timestamps are lost, the table is not.                             *)
Restart ==
  /\ restarts < MaxRestarts
  /\ restarts' = restarts + 1
  /\ slot' = {}
  /\ sinceDream' = NewSinceDream
  /\ sinceActivity' = 0
  /\ pc' = [t \in Threads |-> IF t \in Server THEN "idle" ELSE pc[t]]
  /\ run' = [t \in Threads |-> IF t \in Server THEN NoRun ELSE run[t]]
  /\ queue' = [queue EXCEPT ![Tick] = {}]
  /\ UNCHANGED <<row, faults, historyVars>>

-------------------------------------------------------------------------------
Calls == RecordedCall \/ SessionEnd

Enqueue(t) == Claim(t) \/ Insert(t) \/ InsertFails(t)

Execute(d) == StartRun(d) \/ FinishRun(d) \/ RunComplete(d)

TickStep == TickFetch \/ Execute(Tick) \/ TickDrained \/ TickDecide \/ Enqueue(Tick)

CliStep(c) == CliFetch(c) \/ Execute(c) \/ CliExit(c)

CliStart(c) == CliForce(c) \/ CliDream(c) \/ CliInsertFails(c)

Next ==
  \/ Advance
  \/ Calls
  \/ Enqueue(Loop)
  \/ TickStep
  \/ \E c \in Clis : CliStart(c) \/ CliStep(c)
  \/ Restart

Safety == Init /\ [][Next]_vars

(* The interval job keeps firing and the daemon thread goes on once it     *)
(* has; the event loop finishes the handler it is in. Nothing makes anyone *)
(* call a tool, and a command may be killed anywhere.                      *)
Fairness == WF_vars(TickStep) /\ WF_vars(Enqueue(Loop))

Spec == Safety /\ Fairness

-------------------------------------------------------------------------------
(* Properties *)

(* G8: however the triggers of the two threads interleave with each other, *)
(* with failing inserts and with completions, the scheduler never has two  *)
(* runs pending.                                                           *)
AtMostOnePending == \A r, s \in slot : r = s

(* Nothing can strand the slot: a run that holds it is about to be         *)
(* inserted, is in the table waiting to be fetched, or is in the hands of  *)
(* the daemon thread, which calls record_dream_completed() for it. While   *)
(* this holds, the gate cannot close for good.                             *)
Inserting(r) == \E t \in Server : pc[t] = "insert" /\ run[t] = r

InHand(r) ==
  \/ r \in queue[Tick]
  \/ r = run[Tick] /\ pc[Tick] \in {"body", "callback"}

SlotAccountedFor ==
  \A r \in slot : Inserting(r) \/ row[r] = "pending" \/ InHand(r)

(* The table keeps a run from being executed again, across restarts too:   *)
(* a run that was started before a crash is not started a second time.     *)
NoDoubleExecution == \A r \in RunIds : execs[r] <= 1

(* The idle poll of a server that has not been restarted never takes the   *)
(* slot for a run sooner than the gap after the last run it closed, though *)
(* it checks the gap in one critical section and takes the slot in another.*)
TakesSlot(t) == pc[t] = "claim" /\ pc'[t] = "insert"

PollHonoursGap ==
  [][restarts = 0 /\ TakesSlot(Tick) => sinceRun >= Gap]_vars

(* A run that reached the table is executed in the end, by this process or *)
(* by a later one.                                                         *)
PendingRunServed == \A r \in RunIds : row[r] = "pending" ~> execs[r] > 0

(* The slot is always given back, so that Dream never goes inert, unless a *)
(* command takes the run that holds it: only the server's own thread tells *)
(* the scheduler of the run's end.                                         *)
SlotReleased ==
  \A r \in RunIds : [](\A c \in Clis : run[c] # r) => (r \in slot ~> r \notin slot)

(* One server process on its own is a serial queue of runs, restarts,      *)
(* failing inserts and failing fetches included.                           *)
Serial == INSTANCE SerialRuns WITH
  life <- [r \in RunIds |-> IF row[r] = "none" THEN "new" ELSE row[r]],
  executing <- IF pc[Tick] \in {"body", "callback"} THEN run[Tick] ELSE NoRun

ImplementsSerialRuns == Serial!Spec

===============================================================================
