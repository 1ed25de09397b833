------------------------------ MODULE DreamProofs ------------------------------
(***************************************************************************)
(* Theorems about the two modules of dream/ in which threads race for a    *)
(* table: DreamScheduler, for every set of run ids, every number of faults *)
(* and restarts and every gap and idle threshold, and Checkpoints, for any *)
(* number of servers, plans, checkpoints and crashes. The guard of prune   *)
(* is proved for one pruner, the assumption under which it holds.          *)
(***************************************************************************)
EXTENDS TLAPS, DreamScheduler, Checkpoints

-------------------------------------------------------------------------------
(* DreamScheduler.                                                         *)

(* Type correctness, with any set of commands sharing the table. A thread  *)
(* that is about to use the run id in its locals has one.                  *)
HoldsRun(t) ==
  \/ pc[t] \in {"claim", "body", "callback"}
  \/ pc[t] = "insert" /\ t \in Server

RunHeld == \A t \in Threads : HoldsRun(t) => run[t] \in RunIds

LEMMA InitTyped == Init => TypeOK /\ RunHeld
  BY ConstantsAssumption
  DEF Init, TypeOK, RunHeld, HoldsRun, NewSinceDream, RowStates, Places,
      Threads, Server, Drainers, Loop, Tick

LEMMA OlderTyped ==
  ASSUME NEW limit \in Nat, NEW age \in 0..limit
  PROVE  Older(age, limit) \in 0..limit
  BY DEF Older

LEMMA FaultTyped ==
  ASSUME TypeOK, NEW kind, Fault(kind) \/ NoFault
  PROVE  faults' \in 0..MaxFaults /\ restarts' \in 0..MaxRestarts
  BY ConstantsAssumption DEF TypeOK, Fault, NoFault, boundVars

LEMMA NextTyped == TypeOK /\ RunHeld /\ [Next]_vars => TypeOK' /\ RunHeld'
<1> SUFFICES ASSUME TypeOK, RunHeld, [Next]_vars
             PROVE  TypeOK' /\ RunHeld'
  OBVIOUS
<1> USE ConstantsAssumption DEF RowStates, Places, Threads, Server, Drainers,
        Loop, Tick, schedulerVars, historyVars, boundVars, NoFault
<1>1. CASE Advance
  <2>1. sinceDream' \in 0..Gap /\ sinceRun' \in 0..Gap
    BY <1>1, OlderTyped DEF Advance, TypeOK
  <2>2. sinceActivity' \in 0..Idle
    BY <1>1, OlderTyped DEF Advance, TypeOK
  <2> QED BY <1>1, <2>1, <2>2 DEF Advance, TypeOK, RunHeld, HoldsRun
<1>2. CASE RecordedCall
  BY <1>2 DEF RecordedCall, TypeOK, RunHeld, HoldsRun
<1>4. CASE SessionEnd
  <2>1. CASE sinceDream < Gap
    BY <1>4, <2>1 DEF SessionEnd, TypeOK, RunHeld, HoldsRun
  <2>2. CASE Goto(Loop, "claim") /\ \E r \in RunIds : run' = [run EXCEPT ![Loop] = r]
    BY <1>4, <2>2 DEF SessionEnd, Goto, TypeOK, RunHeld, HoldsRun
  <2> QED BY <1>4, <2>1, <2>2 DEF SessionEnd, TypeOK
<1>5. ASSUME NEW t \in Server, Claim(t) PROVE TypeOK' /\ RunHeld'
  BY <1>5 DEF Claim, Goto, TypeOK, RunHeld, HoldsRun
<1>6. ASSUME NEW t \in Server, Insert(t) PROVE TypeOK' /\ RunHeld'
  BY <1>6 DEF Insert, Move, Goto, TypeOK, RunHeld, HoldsRun
<1>7. ASSUME NEW t \in Server, InsertFails(t) PROVE TypeOK' /\ RunHeld'
  BY <1>7, FaultTyped DEF InsertFails, Move, Goto, TypeOK, RunHeld, HoldsRun
<1>8. ASSUME NEW d \in Drainers, StartRun(d) PROVE TypeOK' /\ RunHeld'
  <2>1. faults' \in 0..MaxFaults /\ restarts' \in 0..MaxRestarts
    BY <1>8, FaultTyped DEF StartRun
  <2> QED BY <1>8, <2>1 DEF StartRun, Move, Goto, TypeOK, RunHeld, HoldsRun
<1>9. ASSUME NEW d \in Drainers, FinishRun(d) PROVE TypeOK' /\ RunHeld'
  <2>1. faults' \in 0..MaxFaults /\ restarts' \in 0..MaxRestarts
    BY <1>9, FaultTyped DEF FinishRun
  <2> QED BY <1>9, <2>1 DEF FinishRun, Move, Goto, TypeOK, RunHeld, HoldsRun
<1>10. ASSUME NEW d \in Drainers, RunComplete(d) PROVE TypeOK' /\ RunHeld'
  BY <1>10
  DEF RunComplete, RecordDreamCompleted, Move, Goto, TypeOK, RunHeld, HoldsRun
<1>11. ASSUME NEW d \in Drainers, Fetch(d), UNCHANGED <<schedulerVars, row, run, historyVars>>
       PROVE TypeOK' /\ RunHeld'
  <2>1. faults' \in 0..MaxFaults /\ restarts' \in 0..MaxRestarts
    BY <1>11, FaultTyped DEF Fetch
  <2>2. queue' \in [Drainers -> SUBSET RunIds]
    <3>1. PendingRows \in SUBSET RunIds
      BY DEF PendingRows
    <3> QED BY <1>11, <3>1 DEF Fetch, TypeOK
  <2>3. pc' \in [Threads -> Places] /\ RunHeld'
    BY <1>11 DEF Fetch, Goto, TypeOK, RunHeld, HoldsRun
  <2> QED BY <1>11, <2>1, <2>2, <2>3 DEF TypeOK
<1>12. CASE TickDrained
  BY <1>12 DEF TickDrained, Move, Goto, TypeOK, RunHeld, HoldsRun
<1>13. CASE TickDecide
  <2>1. CASE Goto(Tick, "idle") /\ UNCHANGED run
    BY <1>13, <2>1 DEF TickDecide, Goto, TypeOK, RunHeld, HoldsRun
  <2>2. CASE Goto(Tick, "claim") /\ \E r \in RunIds : run' = [run EXCEPT ![Tick] = r]
    BY <1>13, <2>2 DEF TickDecide, Goto, TypeOK, RunHeld, HoldsRun
  <2> QED BY <1>13, <2>1, <2>2 DEF TickDecide
<1>14. ASSUME NEW c \in Clis, CliInsert(c) PROVE TypeOK' /\ RunHeld'
  BY <1>14 DEF CliInsert, Move, Goto, TypeOK, RunHeld, HoldsRun
<1>15. ASSUME NEW c \in Clis, CliInsertFails(c) PROVE TypeOK' /\ RunHeld'
  BY <1>15, FaultTyped DEF CliInsertFails, Move, Goto, TypeOK, RunHeld, HoldsRun
<1>16. ASSUME NEW c \in Clis, CliExit(c) PROVE TypeOK' /\ RunHeld'
  BY <1>16 DEF CliExit, Move, Goto, TypeOK, RunHeld, HoldsRun
<1>17. CASE Restart
  BY <1>17 DEF Restart, NewSinceDream, TypeOK, RunHeld, HoldsRun
<1>18. CASE UNCHANGED vars
  BY <1>18 DEF vars, TypeOK, RunHeld, HoldsRun
<1> QED
  BY <1>1, <1>2, <1>4, <1>5, <1>6, <1>7, <1>8, <1>9, <1>10, <1>11,
     <1>12, <1>13, <1>14, <1>15, <1>16, <1>17, <1>18
  DEF Next, Calls, Enqueue, TickStep, TickFetch, Execute, CliStart, CliForce,
      CliDream, CliStep, CliFetch

(* Every variable keeps its type, whatever shares the database.            *)
THEOREM TypeCorrect == Spec => []TypeOK
<1>1. Spec => [](TypeOK /\ RunHeld)
  BY InitTyped, NextTyped, PTL DEF Spec, Safety
<1> QED BY <1>1, PTL

-------------------------------------------------------------------------------
(* The gate: any trigger, any interleaving, any number of processes. The   *)
(* invariant is inductive as it stands: the one step that adds to the slot *)
(* does so under the lock that found it empty.                             *)
LEMMA SlotStep ==
  ASSUME [Next]_vars
  PROVE  \/ slot' \subseteq slot
         \/ \E t \in Server : slot = {} /\ slot' = {run[t]}
  BY DEF Next, vars, schedulerVars, Advance, Calls, RecordedCall,
         SessionEnd, Enqueue, Claim, Insert, InsertFails,
         TickStep, TickFetch, Execute, StartRun, FinishRun, RunComplete,
         RecordDreamCompleted, TickDrained, TickDecide, CliStart, CliForce,
         CliDream, CliInsert, CliInsertFails, CliStep, CliFetch, CliExit,
         Restart, Server

THEOREM OnePending == Spec => []AtMostOnePending
<1>1. Init => AtMostOnePending
  BY DEF Init, AtMostOnePending
<1>2. AtMostOnePending /\ [Next]_vars => AtMostOnePending'
  BY SlotStep DEF AtMostOnePending
<1> QED BY <1>1, <1>2, PTL DEF Spec, Safety

-------------------------------------------------------------------------------
(* The slot is never stranded. The strengthening says where the daemon     *)
(* thread can be while it has fetched runs in its locals.                  *)
QueueInDrain == queue[Tick] # {} => pc[Tick] \in {"drain", "body", "callback"}

SlotInv == TypeOK /\ RunHeld /\ SlotAccountedFor /\ QueueInDrain

LEMMA SlotInvStep ==
  ASSUME Clis = {}, SlotInv, [Next]_vars
  PROVE  SlotAccountedFor' /\ QueueInDrain'
<1> USE DEF SlotInv, SlotAccountedFor, QueueInDrain, Inserting, InHand,
            schedulerVars, Server, Loop, Tick, Goto, Move
<1> TypeOK /\ Drainers = {Tick} /\ Threads = {Loop, Tick}
  BY DEF Drainers, Threads
<1> USE DEF TypeOK
<1>1. CASE Advance \/ RecordedCall
  BY <1>1 DEF Advance, RecordedCall
<1>2. CASE SessionEnd
  BY <1>2 DEF SessionEnd
<1>3. ASSUME NEW t \in Server, Claim(t)
      PROVE  SlotAccountedFor' /\ QueueInDrain'
  <2>1. CASE slot # {}
    BY <1>3, <2>1 DEF Claim
  <2>2. CASE slot = {}
    <3>1. slot' = {run[t]} /\ pc'[t] = "insert" /\ run' = run
      BY <1>3, <2>2 DEF Claim
    <3> QED BY <1>3, <3>1 DEF Claim
  <2> QED BY <2>1, <2>2
<1>4. ASSUME NEW t \in Server, Insert(t)
      PROVE  SlotAccountedFor' /\ QueueInDrain'
  <2>1. run[t] \in RunIds
    BY <1>4 DEF Insert, RunHeld, HoldsRun
  <2>2. \A r \in RunIds : row'[r] = IF r = run[t] THEN "pending" ELSE row[r]
    BY <1>4, <2>1 DEF Insert
  <2>3. \A u \in Server : u # t => pc'[u] = pc[u] /\ run'[u] = run[u]
    BY <1>4 DEF Insert
  <2>4. ~(t = Tick /\ pc[t] \in {"drain", "body", "callback"})
    BY <1>4 DEF Insert
  <2> QED BY <1>4, <2>1, <2>2, <2>3, <2>4 DEF Insert
<1>5. ASSUME NEW t \in Server, InsertFails(t)
      PROVE  SlotAccountedFor' /\ QueueInDrain'
  <2>1. \A u \in Server : u # t => pc'[u] = pc[u] /\ run'[u] = run[u]
    BY <1>5 DEF InsertFails
  <2> QED BY <1>5, <2>1 DEF InsertFails
<1>6. CASE StartRun(Tick)
  <2>1. PICK r \in queue[Tick] :
           /\ run' = [run EXCEPT ![Tick] = r]
           /\ queue' = [queue EXCEPT ![Tick] = @ \ {r}]
           /\ row' = [row EXCEPT ![r] = "running"] \/ UNCHANGED row
    BY <1>6 DEF StartRun
  <2>2. run'[Tick] = r /\ pc'[Tick] = "body" /\ queue'[Tick] = queue[Tick] \ {r}
    BY <1>6, <2>1 DEF StartRun
  <2>3. \A s \in RunIds : s # r => row'[s] = row[s]
    BY <2>1
  <2>4. pc'[Loop] = pc[Loop] /\ run'[Loop] = run[Loop] /\ slot' = slot
    BY <1>6, <2>1 DEF StartRun
  <2>5. pc[Tick] = "drain"
    BY <1>6 DEF StartRun
  <2> QED BY <2>2, <2>3, <2>4, <2>5
<1>7. CASE FinishRun(Tick)
  <2>1. pc[Tick] = "body" /\ pc'[Tick] = "callback" /\ pc'[Loop] = pc[Loop]
    BY <1>7 DEF FinishRun
  <2>2. \A s \in RunIds : s # run[Tick] => row'[s] = row[s]
    BY <1>7 DEF FinishRun
  <2> QED BY <1>7, <2>1, <2>2 DEF FinishRun
<1>8. CASE RunComplete(Tick)
  BY <1>8 DEF RunComplete, RecordDreamCompleted
<1>9. CASE TickFetch
  BY <1>9 DEF TickFetch, Fetch
<1>10. CASE TickDrained
  BY <1>10 DEF TickDrained
<1>11. CASE TickDecide
  BY <1>11 DEF TickDecide
<1>12. CASE Restart
  BY <1>12 DEF Restart
<1>13. CASE UNCHANGED vars
  BY <1>13 DEF vars
<1> QED
  BY <1>1, <1>2, <1>3, <1>4, <1>5, <1>6, <1>7, <1>8, <1>9, <1>10, <1>11, <1>12,
     <1>13
  DEF Next, Calls, Enqueue, TickStep, Execute

(* With the server alone on its database, whatever holds the slot is on    *)
(* its way to the step that frees it, in every state, failing statements   *)
(* and restarts included.                                                  *)
THEOREM SlotNeverStranded ==
  ASSUME Clis = {}
  PROVE  Spec => []SlotAccountedFor
<1>1. Init => SlotInv
  <2>1. Init => SlotAccountedFor /\ QueueInDrain
    BY DEF Init, SlotAccountedFor, QueueInDrain, Drainers
  <2> QED BY <2>1, InitTyped DEF SlotInv
<1>2. SlotInv /\ [Next]_vars => SlotInv'
  BY SlotInvStep, NextTyped DEF SlotInv
<1>3. SlotInv => SlotAccountedFor
  BY DEF SlotInv
<1> QED BY <1>1, <1>2, <1>3, PTL DEF Spec, Safety

-------------------------------------------------------------------------------
(* The gap. Between the step that closes a run and the callback that dates *)
(* it for the scheduler, the daemon thread does nothing else; outside it   *)
(* the scheduler's clock is never ahead of the truth. What the poll has    *)
(* decided on stays true until it claims, as only the poll itself dates.   *)
GapInv ==
  /\ TypeOK
  /\ restarts = 0 /\ pc[Tick] # "callback" => sinceDream <= sinceRun
  /\ pc[Tick] = "claim" => sinceDream >= Gap

LEMMA OlderKeepsOrder ==
  ASSUME NEW limit \in Nat, NEW a \in 0..limit, NEW b \in 0..limit
  PROVE  /\ a <= b => Older(a, limit) <= Older(b, limit)
         /\ a >= limit => Older(a, limit) >= limit
  BY DEF Older

LEMMA GapStep ==
  ASSUME Clis = {}, GapInv, TypeOK', [Next]_vars
  PROVE  GapInv'
<1> USE DEF GapInv, TypeOK, schedulerVars, historyVars, boundVars, Server, Loop, Tick,
            Goto, Move
<1> /\ Drainers = {Tick} /\ Threads = {Loop, Tick} /\ Gap \in Nat
    /\ sinceDream \in 0..Gap /\ sinceRun \in 0..Gap
  BY ConstantsAssumption DEF Drainers, Threads
<1>1. CASE Advance
  <2>1. sinceDream <= sinceRun => sinceDream' <= sinceRun'
    BY <1>1, OlderKeepsOrder DEF Advance
  <2>2. sinceDream >= Gap => sinceDream' >= Gap
    BY <1>1, OlderKeepsOrder DEF Advance
  <2> QED BY <1>1, <2>1, <2>2 DEF Advance
<1>2. CASE RecordedCall \/ SessionEnd
  BY <1>2 DEF RecordedCall, SessionEnd
<1>3. ASSUME NEW t \in Server, Claim(t) \/ Insert(t) PROVE GapInv'
  BY <1>3 DEF Claim, Insert
<1>4. ASSUME NEW t \in Server, InsertFails(t) PROVE GapInv'
  BY <1>4 DEF InsertFails, Fault
<1>5. CASE StartRun(Tick) \/ FinishRun(Tick)
  BY <1>5 DEF StartRun, FinishRun, NoFault, Fault
<1>6. CASE RunComplete(Tick)
  BY <1>6 DEF RunComplete, RecordDreamCompleted
<1>7. CASE TickFetch
  BY <1>7 DEF TickFetch, Fetch, NoFault, Fault
<1>8. CASE TickDrained
  BY <1>8 DEF TickDrained
<1>9. CASE TickDecide
  BY <1>9 DEF TickDecide, PollFires
<1>10. CASE Restart
  BY <1>10, ConstantsAssumption DEF Restart
<1>11. CASE UNCHANGED vars
  BY <1>11 DEF vars
<1> QED
  BY <1>1, <1>2, <1>3, <1>4, <1>5, <1>6, <1>7, <1>8, <1>9, <1>10, <1>11
  DEF Next, Calls, Enqueue, TickStep, Execute

HonoursGap == restarts = 0 /\ TakesSlot(Tick) => sinceRun >= Gap

(* A server alone on its database, that has not been restarted, never has  *)
(* the poll take the slot sooner than the gap after the last run it closed.*)
THEOREM GapHonoured ==
  ASSUME Clis = {}
  PROVE  Spec => PollHonoursGap
<1>1. Init => GapInv
  <2>1. Init => TypeOK
    BY InitTyped
  <2>2. Init => sinceDream <= sinceRun /\ pc[Tick] # "claim"
    BY ConstantsAssumption DEF Init, NewSinceDream, Threads, Server
  <2> QED BY <2>1, <2>2 DEF GapInv
<1>2. Init => TypeOK /\ RunHeld
  BY InitTyped
<1>3. TypeOK /\ RunHeld /\ [Next]_vars => TypeOK' /\ RunHeld'
  BY NextTyped
<1>4. TypeOK' /\ GapInv /\ [Next]_vars => GapInv'
  BY GapStep
<1>5. GapInv /\ [Next]_vars => [HonoursGap]_vars
  <2> SUFFICES ASSUME GapInv, restarts = 0, TakesSlot(Tick)
               PROVE  sinceRun >= Gap
    BY DEF HonoursGap
  <2>1. pc[Tick] = "claim" /\ pc[Tick] # "callback"
    BY DEF TakesSlot
  <2>2. sinceDream >= Gap /\ sinceDream <= sinceRun
    BY <2>1 DEF GapInv
  <2> QED BY <2>2, ConstantsAssumption DEF GapInv, TypeOK
<1>6. Spec => [][HonoursGap]_vars
  BY <1>1, <1>2, <1>3, <1>4, <1>5, PTL DEF Spec, Safety
<1> QED BY <1>6 DEF PollHonoursGap, HonoursGap

-------------------------------------------------------------------------------
(* What the table says agrees with what the threads of the one server are  *)
(* doing, as long as no status UPDATE fails. It is this agreement that     *)
(* keeps a run from being executed twice and makes the scheduler a serial  *)
(* queue; a second process or a lost UPDATE breaks it.                     *)
Naming(t) == pc[t] \in {"claim", "insert"}

TableAgrees ==
  /\ \A t \in Server : Naming(t) => row[run[t]] = "none"
  /\ Naming(Loop) /\ Naming(Tick) => run[Loop] # run[Tick]
  /\ \A t \in Server : pc[t] = "insert" => run[t] \in slot
  /\ queue[Tick] \subseteq PendingRows
  /\ pc[Tick] = "body" => row[run[Tick]] = "running"
  /\ pc[Tick] = "callback" => row[run[Tick]] = "finished"
  /\ \A r \in RunIds :
       execs[r] = IF row[r] \in {"none", "pending"} THEN 0 ELSE 1

TableInv == TypeOK /\ RunHeld /\ AtMostOnePending /\ TableAgrees

LEMMA InitTable == Init => TableInv
<1> SUFFICES ASSUME Init PROVE TableAgrees /\ AtMostOnePending
  BY InitTyped DEF TableInv
<1> QED
  BY DEF Init, TableAgrees, AtMostOnePending, Naming, Server, Threads, Drainers

LEMMA TableStep ==
  ASSUME Clis = {}, "mark" \notin FaultKinds, TableInv, [Next]_vars
  PROVE  TableAgrees'
<1> USE DEF TableAgrees, Naming, PendingRows, schedulerVars, historyVars,
            boundVars, Server, Loop, Tick, Goto, Move, Fresh
<1> /\ TypeOK /\ RunHeld /\ AtMostOnePending /\ TableAgrees
    /\ Drainers = {Tick} /\ Threads = {Loop, Tick}
  BY DEF TableInv, Drainers, Threads
<1> USE DEF TypeOK
<1>0. \A t \in Server : pc[t] \in {"claim", "insert", "body", "callback"}
                         => run[t] \in RunIds
  BY DEF RunHeld, HoldsRun
<1>1. CASE Advance \/ RecordedCall
  BY <1>1 DEF Advance, RecordedCall
<1>2. CASE SessionEnd
  <2>1. CASE UNCHANGED <<pc, run>>
    BY <1>2, <2>1 DEF SessionEnd
  <2>2. CASE Goto(Loop, "claim") /\ \E r \in RunIds : Fresh(r) /\ run' = [run EXCEPT ![Loop] = r]
    BY <1>2, <2>2 DEF SessionEnd
  <2> QED BY <1>2, <2>1, <2>2 DEF SessionEnd
<1>3. ASSUME NEW t \in Server, Claim(t) PROVE TableAgrees'
  BY <1>3, <1>0 DEF Claim
<1>4. ASSUME NEW t \in Server, Insert(t) PROVE TableAgrees'
  <2>1. pc[t] = "insert" /\ row[run[t]] = "none" /\ run[t] \in RunIds
    BY <1>4, <1>0 DEF Insert
  <2>2. \A r \in RunIds : row'[r] = IF r = run[t] THEN "pending" ELSE row[r]
    BY <1>4, <2>1 DEF Insert
  <2>3. \A u \in Server : u # t => pc'[u] = pc[u] /\ run'[u] = run[u]
    BY <1>4 DEF Insert
  <2>4. pc'[t] = "idle" /\ UNCHANGED <<slot, queue, execs>>
    BY <1>4 DEF Insert
  <2> QED BY <1>0, <2>1, <2>2, <2>3, <2>4
<1>5. ASSUME NEW t \in Server, InsertFails(t) PROVE TableAgrees'
  <2>1. \A u \in Server : u # t => pc'[u] = pc[u] /\ run'[u] = run[u]
    BY <1>5 DEF InsertFails
  <2>2. pc'[t] = "idle" /\ slot' = slot \ {run[t]} /\ UNCHANGED <<row, queue, execs>>
    BY <1>5 DEF InsertFails
  <2> QED BY <1>0, <1>5, <2>1, <2>2 DEF InsertFails
<1>6. CASE StartRun(Tick)
  <2>1. PICK r \in queue[Tick] :
           /\ run' = [run EXCEPT ![Tick] = r]
           /\ queue' = [queue EXCEPT ![Tick] = @ \ {r}]
           /\ execs' = [execs EXCEPT ![r] = @ + 1]
           /\ row' = [row EXCEPT ![r] = "running"]
    BY <1>6 DEF StartRun, Fault
  <2>2. r \in RunIds /\ row[r] = "pending" /\ execs[r] = 0
    OBVIOUS
  <2>3. run'[Tick] = r /\ pc'[Tick] = "body" /\ queue'[Tick] = queue[Tick] \ {r}
    BY <1>6, <2>1 DEF StartRun
  <2>4. \A s \in RunIds : row'[s] = IF s = r THEN "running" ELSE row[s]
    BY <2>1
  <2>5. \A s \in RunIds : execs'[s] = IF s = r THEN 1 ELSE execs[s]
    BY <2>1, <2>2
  <2>6. pc'[Loop] = pc[Loop] /\ run'[Loop] = run[Loop] /\ slot' = slot
    BY <1>6, <2>1 DEF StartRun
  <2> QED BY <1>0, <2>2, <2>3, <2>4, <2>5, <2>6
<1>7. CASE FinishRun(Tick)
  <2>1. run[Tick] \in RunIds /\ row[run[Tick]] = "running"
    BY <1>7, <1>0 DEF FinishRun
  <2>2. \A s \in RunIds : row'[s] = IF s = run[Tick] THEN "finished" ELSE row[s]
    BY <1>7, <2>1 DEF FinishRun, Fault
  <2>3. pc'[Tick] = "callback" /\ pc'[Loop] = pc[Loop]
        /\ UNCHANGED <<run, queue, execs, slot>>
    BY <1>7 DEF FinishRun
  <2> QED BY <1>0, <2>1, <2>2, <2>3
<1>8. CASE RunComplete(Tick)
  <2>1. row[run[Tick]] = "finished" /\ run[Tick] \in RunIds
    BY <1>8, <1>0 DEF RunComplete
  <2> QED BY <1>0, <1>8, <2>1 DEF RunComplete, RecordDreamCompleted
<1>9. CASE TickFetch
  BY <1>9 DEF TickFetch, Fetch
<1>10. CASE TickDrained
  BY <1>10 DEF TickDrained
<1>11. CASE TickDecide
  <2>1. CASE Goto(Tick, "idle") /\ UNCHANGED run
    BY <1>11, <2>1 DEF TickDecide
  <2>2. CASE Goto(Tick, "claim") /\ \E r \in RunIds : Fresh(r) /\ run' = [run EXCEPT ![Tick] = r]
    BY <1>11, <2>2 DEF TickDecide
  <2> QED BY <1>11, <2>1, <2>2 DEF TickDecide
<1>12. CASE Restart
  BY <1>12 DEF Restart
<1>13. CASE UNCHANGED vars
  BY <1>13 DEF vars
<1> QED
  BY <1>1, <1>2, <1>3, <1>4, <1>5, <1>6, <1>7, <1>8, <1>9, <1>10, <1>11, <1>12,
     <1>13
  DEF Next, Calls, Enqueue, TickStep, Execute

LEMMA TableInvariant ==
  ASSUME Clis = {}, "mark" \notin FaultKinds
  PROVE  Spec => []TableInv
<1>1. TableInv /\ [Next]_vars => TableInv'
  <2> SUFFICES ASSUME TableInv, [Next]_vars PROVE TableInv'
    OBVIOUS
  <2>1. AtMostOnePending'
    BY SlotStep DEF AtMostOnePending, TableInv
  <2> QED BY <2>1, TableStep, NextTyped DEF TableInv
<1> QED BY <1>1, InitTable, PTL DEF Spec, Safety

(* A single server never executes a run twice, restarts included: the      *)
(* status column alone carries the fact across a restart.                  *)
THEOREM ExecutedAtMostOnce ==
  ASSUME Clis = {}, "mark" \notin FaultKinds
  PROVE  Spec => []NoDoubleExecution
<1>1. TableInv => NoDoubleExecution
  BY DEF TableInv, TableAgrees, NoDoubleExecution
<1> QED BY <1>1, TableInvariant, PTL

-------------------------------------------------------------------------------
(* Refinement: every step of the server is a step of the serial queue, or  *)
(* none at all.                                                            *)
LEMMA InitRefines == Init => Serial!Init
  BY DEF Init, Serial!Init, Threads, Server

LEMMA StepRefines ==
  ASSUME Clis = {}, "mark" \notin FaultKinds, TableInv, [Next]_vars
  PROVE  [Serial!Next]_(Serial!vars)
<1> DEFINE life == [r \in RunIds |-> IF row[r] = "none" THEN "new" ELSE row[r]]
           executing == IF pc[Tick] \in {"body", "callback"} THEN run[Tick] ELSE NoRun
<1> USE DEF schedulerVars, historyVars, boundVars, Server, Loop, Tick, Goto, Move
<1> /\ TypeOK /\ RunHeld /\ AtMostOnePending /\ TableAgrees
    /\ Drainers = {Tick} /\ Threads = {Loop, Tick} /\ NoRun \notin RunIds
  BY ConstantsAssumption DEF TableInv, Drainers, Threads
<1>0. \A t \in Server : pc[t] \in {"claim", "insert", "body", "callback"}
                         => run[t] \in RunIds
  BY DEF RunHeld, HoldsRun
<1>s. ASSUME UNCHANGED <<slot, row>>, executing' = executing
      PROVE  UNCHANGED Serial!vars
  BY <1>s DEF Serial!vars
<1>n. ASSUME NEW r \in RunIds,
             \/ Serial!Claim(r) \/ Serial!Withdraw(r) \/ Serial!Publish(r)
             \/ Serial!Start(r) \/ Serial!Finish(r) \/ Serial!Release(r)
      PROVE  [Serial!Next]_(Serial!vars)
  BY <1>n DEF Serial!Next
<1>1. CASE Advance \/ RecordedCall
  BY <1>1, <1>s DEF Advance, RecordedCall
<1>2. CASE SessionEnd
  <2>1. executing' = executing
    BY <1>2 DEF SessionEnd, TypeOK
  <2> QED BY <1>2, <1>s, <2>1 DEF SessionEnd
<1>3. ASSUME NEW t \in Server, Claim(t) PROVE [Serial!Next]_(Serial!vars)
  <2>1. executing' = executing /\ UNCHANGED row
    BY <1>3 DEF Claim, TypeOK
  <2>2. CASE slot # {}
    BY <1>3, <2>1, <2>2, <1>s DEF Claim
  <2>3. CASE slot = {}
    <3>1. run[t] \in RunIds /\ row[run[t]] = "none" /\ slot' = {run[t]}
      BY <1>3, <1>0, <2>3 DEF Claim, TableAgrees, Naming
    <3>2. Serial!Claim(run[t])
      BY <2>1, <2>3, <3>1 DEF Serial!Claim
    <3> QED BY <1>n, <3>1, <3>2
  <2> QED BY <2>2, <2>3
<1>4. ASSUME NEW t \in Server, Insert(t) PROVE [Serial!Next]_(Serial!vars)
  <2>1. run[t] \in RunIds /\ row[run[t]] = "none" /\ run[t] \in slot
    BY <1>4, <1>0 DEF Insert, TableAgrees, Naming
  <2>2. executing' = executing /\ UNCHANGED slot
    BY <1>4 DEF Insert, TypeOK
  <2>3. life' = [life EXCEPT ![run[t]] = "pending"]
    BY <1>4, <2>1 DEF Insert, TypeOK
  <2>4. PICK r \in RunIds : r = run[t]
    BY <2>1
  <2>5. Serial!Publish(r)
    BY <2>1, <2>2, <2>3, <2>4 DEF Serial!Publish
  <2> QED BY <1>n, <2>5
<1>5. ASSUME NEW t \in Server, InsertFails(t) PROVE [Serial!Next]_(Serial!vars)
  <2>1. run[t] \in RunIds /\ row[run[t]] = "none" /\ run[t] \in slot
    BY <1>5, <1>0 DEF InsertFails, TableAgrees, Naming
  <2>2. executing' = executing /\ UNCHANGED row
    BY <1>5 DEF InsertFails, TypeOK
  <2>3. slot' = {}
    BY <1>5, <2>1 DEF InsertFails, AtMostOnePending
  <2>4. Serial!Withdraw(run[t])
    BY <2>1, <2>2, <2>3 DEF Serial!Withdraw
  <2> QED BY <1>n, <2>1, <2>4
<1>6. CASE StartRun(Tick)
  <2>1. PICK r \in queue[Tick] :
           /\ run' = [run EXCEPT ![Tick] = r]
           /\ row' = [row EXCEPT ![r] = "running"]
    BY <1>6 DEF StartRun, Fault
  <2>2. r \in RunIds /\ row[r] = "pending"
    BY DEF TableAgrees, PendingRows
  <2>3. executing = NoRun /\ executing' = r /\ UNCHANGED slot
    BY <1>6, <2>1 DEF StartRun, TypeOK
  <2>4. life' = [life EXCEPT ![r] = "running"]
    BY <2>1, <2>2 DEF TypeOK
  <2>5. Serial!Start(r)
    BY <2>2, <2>3, <2>4 DEF Serial!Start
  <2> QED BY <1>n, <2>2, <2>5
<1>7. CASE FinishRun(Tick)
  <2>1. run[Tick] \in RunIds /\ row[run[Tick]] = "running"
    BY <1>7, <1>0 DEF FinishRun, TableAgrees
  <2>2. executing = run[Tick] /\ executing' = run[Tick] /\ UNCHANGED slot
    BY <1>7 DEF FinishRun, TypeOK
  <2>3. life' = [life EXCEPT ![run[Tick]] = "finished"]
    BY <1>7, <2>1 DEF FinishRun, Fault, TypeOK
  <2>4. PICK r \in RunIds : r = run[Tick]
    BY <2>1
  <2>5. Serial!Finish(r)
    BY <2>1, <2>2, <2>3, <2>4 DEF Serial!Finish
  <2> QED BY <1>n, <2>5
<1>8. CASE RunComplete(Tick)
  <2>1. run[Tick] \in RunIds /\ row[run[Tick]] = "finished"
    BY <1>8, <1>0 DEF RunComplete, TableAgrees
  <2>2. executing = run[Tick] /\ executing' = NoRun /\ UNCHANGED row
    BY <1>8 DEF RunComplete, TypeOK
  <2>3. slot' = slot \ {run[Tick]}
    BY <1>8 DEF RunComplete, RecordDreamCompleted
  <2>4. Serial!Release(run[Tick])
    BY <2>1, <2>2, <2>3 DEF Serial!Release
  <2> QED BY <1>n, <2>1, <2>4
<1>9. CASE TickFetch
  BY <1>9, <1>s DEF TickFetch, Fetch, TypeOK
<1>10. CASE TickDrained
  BY <1>10, <1>s DEF TickDrained, TypeOK
<1>11. CASE TickDecide
  <2>1. executing' = executing
    BY <1>11 DEF TickDecide, TypeOK
  <2> QED BY <1>11, <1>s, <2>1 DEF TickDecide
<1>12. CASE Restart
  <2>1. executing' = NoRun /\ slot' = {} /\ UNCHANGED row
    BY <1>12 DEF Restart
  <2>2. Serial!Restart
    BY <2>1 DEF Serial!Restart
  <2> QED BY <2>2 DEF Serial!Next
<1>13. CASE UNCHANGED vars
  BY <1>13, <1>s DEF vars
<1> QED
  BY <1>1, <1>2, <1>3, <1>4, <1>5, <1>6, <1>7, <1>8, <1>9, <1>10, <1>11, <1>12,
     <1>13
  DEF Next, Calls, Enqueue, TickStep, Execute

(* One server process implements the serial queue of runs.                 *)
THEOREM ServerIsSerial ==
  ASSUME Clis = {}, "mark" \notin FaultKinds
  PROVE  Spec => ImplementsSerialRuns
<1>1. TableInv /\ [Next]_vars => [Serial!Next]_(Serial!vars)
  BY StepRefines
<1> QED
  BY <1>1, InitRefines, TableInvariant, PTL
  DEF Spec, Safety, ImplementsSerialRuns, Serial!Spec

-------------------------------------------------------------------------------
(* Checkpoints.                                                            *)

(* Type correctness *)

LEMMA CheckpointsInitTyped == CheckpointsInit => CheckpointsTypeOK
  BY CheckpointsAssumption
  DEF CheckpointsInit, CheckpointsTypeOK, Row, NoRow, NoJob, Jobs, Ids, Statuses, Validity

LEMMA NewCheckpointTyped ==
  ASSUME NEW plan \in Plans \cup {NoPlan}
  PROVE  NewCheckpoint(plan) \in Row
  BY DEF NewCheckpoint, Row, Statuses, Validity

LEMMA MintTyped ==
  ASSUME CheckpointsTypeOK, Mint
  PROVE  NewId \in Ids /\ minted' \in 0..MaxId
  BY CheckpointsAssumption DEF CheckpointsTypeOK, Mint, NewId, Ids

(* The job a replan or an update begins with. *)
LEMMA BeginTyped ==
  ASSUME CheckpointsTypeOK, NEW s \in Servers, NEW i \in Ids, NEW fresh \in Row,
         NEW at \in {"mark, insert", "insert, mark"}, Begin(s, at, i, fresh)
  PROVE  CheckpointsTypeOK'
<1>1. NewId \in Ids /\ minted' \in 0..MaxId
  BY MintTyped DEF Begin
<1>2. [at |-> at, old |-> i, new |-> NewId, row |-> fresh] \in Jobs
  BY <1>1 DEF Jobs
<1>3. job' \in [Servers -> Jobs]
  BY <1>2 DEF CheckpointsTypeOK, Begin
<1> QED BY <1>1, <1>3 DEF CheckpointsTypeOK, Begin, pruneVars

(* The row an update writes. *)
Revised(i) == [rows[i] EXCEPT !.status = "active", !.until = "open", !.by = 0]

LEMMA RevisedTyped ==
  ASSUME CheckpointsTypeOK, NEW i \in Ids
  PROVE  Revised(i) \in Row /\ Revised(i).status = "active"
  BY DEF CheckpointsTypeOK, Revised, Row, Statuses, Validity

(* A row that is marked superseded. *)
LEMMA SupersededTyped ==
  ASSUME NEW r \in Row, NEW i \in Ids
  PROVE  [r EXCEPT !.until = "closed", !.by = i] \in Row
  BY DEF Row, Validity

(* What a server that is in the middle of something has in its locals. *)
LEMMA JobTyped ==
  ASSUME CheckpointsTypeOK, NEW s \in Servers, job[s].at # "idle"
  PROVE  job[s].old \in Ids /\ job[s].new \in Ids /\ job[s].row \in Row
<1>1. job[s] \in Jobs /\ job[s] # NoJob
  BY DEF CheckpointsTypeOK, NoJob
<1> QED BY <1>1 DEF Jobs

LEMMA JobEndTyped ==
  ASSUME CheckpointsTypeOK, NEW s \in Servers, NEW at, Proceed(s, at) \/ Done(s),
         at \in {"mark", "insert"}, job[s].at # "idle"
  PROVE  job' \in [Servers -> Jobs]
<1>1. job[s] \in Jobs /\ job[s] # NoJob
  BY DEF CheckpointsTypeOK, NoJob
<1>2. [job[s] EXCEPT !.at = at] \in Jobs
  BY <1>1 DEF Jobs
<1>3. CASE Proceed(s, at)
  BY <1>2, <1>3 DEF Proceed, CheckpointsTypeOK
<1>4. CASE Done(s)
  BY <1>4 DEF Done, CheckpointsTypeOK, Jobs
<1> QED BY <1>3, <1>4

LEMMA CheckpointsNextTyped ==
  CheckpointsTypeOK /\ [CheckpointsNext]_checkpointsVars => CheckpointsTypeOK'
<1> SUFFICES ASSUME CheckpointsTypeOK, [CheckpointsNext]_checkpointsVars
             PROVE  CheckpointsTypeOK'
  OBVIOUS
<1>1. ASSUME NEW s \in Servers, Checkpoint(s) PROVE CheckpointsTypeOK'
  <2>1. PICK plan \in Plans \cup {NoPlan} :
          rows' = WithRow(rows, NewId, NewCheckpoint(plan))
    BY <1>1 DEF Checkpoint
  <2>2. NewId \in Ids /\ minted' \in 0..MaxId /\ NewCheckpoint(plan) \in Row
    BY <1>1, MintTyped, NewCheckpointTyped DEF Checkpoint
  <2>3. rows' \in [Ids -> Row]
    BY <2>1, <2>2 DEF WithRow, CheckpointsTypeOK
  <2> QED BY <1>1, <2>2, <2>3 DEF Checkpoint, CheckpointsTypeOK, pruneVars
<1>2. ASSUME NEW s \in Servers, Replan(s) PROVE CheckpointsTypeOK'
  <2>1. PICK i \in Ids, plan \in Plans \cup {NoPlan} :
          Begin(s, "mark, insert", i, NewCheckpoint(plan))
    BY <1>2 DEF Replan
  <2> QED BY <2>1, NewCheckpointTyped, BeginTyped
<1>3. ASSUME NEW s \in Servers, Update(s) PROVE CheckpointsTypeOK'
  <2>1. PICK i \in Ids : Begin(s, "insert, mark", i, Revised(i))
    BY <1>3 DEF Update, Revised
  <2> QED BY <2>1, RevisedTyped, BeginTyped
<1>4. ASSUME NEW s \in Servers, InsertRow(s) PROVE CheckpointsTypeOK'
  <2>1. job[s].at # "idle"
    BY <1>4 DEF InsertRow
  <2>2. job' \in [Servers -> Jobs]
    BY <1>4, <2>1, JobEndTyped DEF InsertRow
  <2>3. rows' \in [Ids -> Row]
    BY <1>4, <2>1, JobTyped DEF InsertRow, WithRow, CheckpointsTypeOK
  <2> QED BY <1>4, <2>2, <2>3 DEF InsertRow, CheckpointsTypeOK, pruneVars
<1>5. ASSUME NEW s \in Servers, MarkOld(s) PROVE CheckpointsTypeOK'
  <2>1. job[s].at # "idle"
    BY <1>5 DEF MarkOld
  <2>2. job' \in [Servers -> Jobs]
    BY <1>5, <2>1, JobEndTyped DEF MarkOld
  <2>3. rows' \in [Ids -> Row]
    <3>1. job[s].old \in Ids /\ job[s].new \in Ids
      BY <2>1, JobTyped
    <3>2. [rows[job[s].old] EXCEPT !.until = "closed", !.by = job[s].new] \in Row
      BY <3>1, SupersededTyped DEF CheckpointsTypeOK
    <3>3. rows' = [rows EXCEPT ![job[s].old] =
                     [rows[job[s].old] EXCEPT !.until = "closed", !.by = job[s].new]]
      BY <1>5, <3>1 DEF MarkOld, WithSuccessor, CheckpointsTypeOK
    <3> QED BY <3>1, <3>2, <3>3 DEF CheckpointsTypeOK
  <2> QED BY <1>5, <2>2, <2>3 DEF MarkOld, CheckpointsTypeOK, pruneVars
<1>6. ASSUME NEW i \in Ids, Expire(i) PROVE CheckpointsTypeOK'
  BY <1>6 DEF Expire, CheckpointsTypeOK, pruneVars, Row, Validity
<1>7. ASSUME NEW d \in Pruners, PruneRead(d) PROVE CheckpointsTypeOK'
  BY <1>7 DEF PruneRead, ActiveIds, CheckpointsTypeOK
<1>8. ASSUME NEW d \in Pruners, PruneSpare(d) PROVE CheckpointsTypeOK'
  BY <1>8 DEF PruneSpare, CheckpointsTypeOK
<1>9. ASSUME NEW d \in Pruners, PruneChoose(d) PROVE CheckpointsTypeOK'
  BY <1>9 DEF PruneChoose, CheckpointsTypeOK
<1>10. ASSUME NEW d \in Pruners, PruneWrite(d) PROVE CheckpointsTypeOK'
  <2>1. rows' \in [Ids -> Row]
    <3>1. rows \in [Ids -> Row] BY DEF CheckpointsTypeOK
    <3>2. \A r \in Row : [r EXCEPT !.status = "deprecated"] \in Row BY DEF Row, Statuses
    <3>3. \/ rows' = rows
          \/ rows' = [rows EXCEPT ![chosen[d]].status = "deprecated"]
      BY <1>10 DEF PruneWrite, WithStatus
    <3> QED BY <3>1, <3>2, <3>3
  <2> QED BY <1>10, <2>1 DEF PruneWrite, CheckpointsTypeOK
<1>11. ASSUME NEW d \in Pruners, PruneEnd(d) PROVE CheckpointsTypeOK'
  BY <1>11 DEF PruneEnd, CheckpointsTypeOK
<1>12. CASE Crash
  <2>1. crashes' \in 0..MaxCrashes
    BY <1>12, CheckpointsAssumption DEF Crash, CheckpointsTypeOK
  <2>2. CASE (\E s \in Servers : Done(s)) /\ UNCHANGED pruneVars
    BY <1>12, <2>1, <2>2 DEF Crash, Done, CheckpointsTypeOK, Jobs, pruneVars
  <2>3. CASE /\ \E d \in Pruners :
                  /\ phase' = [phase EXCEPT ![d] = "idle"]
                  /\ doomed' = [doomed EXCEPT ![d] = {}]
                  /\ chosen' = [chosen EXCEPT ![d] = 0]
             /\ UNCHANGED job
    BY <1>12, <2>1, <2>3 DEF Crash, CheckpointsTypeOK
  <2> QED BY <1>12, <2>2, <2>3 DEF Crash
<1>13. CASE UNCHANGED checkpointsVars
  BY <1>13 DEF checkpointsVars, CheckpointsTypeOK
<1> QED
  BY <1>1, <1>2, <1>3, <1>4, <1>5, <1>6, <1>7, <1>8, <1>9, <1>10, <1>11,
     <1>12, <1>13
  DEF CheckpointsNext, Prune

(* Every variable keeps its type, whatever processes share the table.      *)
THEOREM CheckpointsTypeCorrect == CheckpointsSpec => []CheckpointsTypeOK
  BY CheckpointsInitTyped, CheckpointsNextTyped, PTL DEF CheckpointsSpec

-------------------------------------------------------------------------------
(* The guard of prune. What it needs of the rest of the module: ids are    *)
(* written once, by the server that minted them, and active; and between   *)
(* the count and the UPDATE nobody takes the counted row away.             *)

Numbered ==
  /\ \A i \in Ids : i > minted => ~Present(rows, i)
  /\ \A s \in Servers : job[s].new <= minted

Unwritten(s) == job[s].at \in {"mark, insert", "insert", "insert, mark"}

OwnId ==
  \A s \in Servers : Unwritten(s) =>
    /\ ~Present(rows, job[s].new)
    /\ job[s].row.status = "active"
    /\ \A t \in Servers \ {s} : Unwritten(t) => job[t].new # job[s].new

Holds(d) ==
  /\ \A i \in doomed[d] : Present(rows, i)
  /\ phase[d] = "write" => /\ Present(rows, chosen[d]) /\ chosen[d] # 0
                           /\ ~IsLastActiveCheckpoint(chosen[d])

Counted == \A d \in Pruners : Holds(d)

WriteInv == CheckpointsTypeOK /\ Numbered /\ OwnId

(* What a step other than the UPDATE of prune does to the rows. *)
Grows ==
  \A i \in Ids :
    /\ Present(rows, i) => rows'[i].status = rows[i].status
                           /\ rows'[i].plan = rows[i].plan
    /\ ~Present(rows, i) => rows'[i].status \in {"absent", "active"}

LEMMA GrowsKeepsOthers ==
  ASSUME Grows, NEW i \in Ids, Present(rows, i), ~IsLastActiveCheckpoint(i)
  PROVE  ~IsLastActiveCheckpoint(i)'
<1>1. PICK j \in Others(i) : TRUE
  BY DEF IsLastActiveCheckpoint
<1>2. j \in Ids /\ j # i /\ rows[j].status = "active"
      /\ (rows[i].plan = NoPlan \/ rows[j].plan = rows[i].plan)
  BY <1>1 DEF Others, ActiveIds
<1>3. rows'[j].status = "active" /\ rows'[j].plan = rows[j].plan
      /\ rows'[i].plan = rows[i].plan
  BY <1>2 DEF Grows, Present
<1>4. j \in Others(i)'
  BY <1>2, <1>3 DEF Others, ActiveIds
<1> QED BY <1>4 DEF IsLastActiveCheckpoint

LEMMA GrowsKeepsPlans ==
  ASSUME Grows, PlanKeepsCheckpoint, ProjectKeepsCheckpoint
  PROVE  PlanKeepsCheckpoint' /\ ProjectKeepsCheckpoint'
<1>1. ASSUME NEW i \in Ids, rows'[i].status # "absent", ~Present(rows, i)
      PROVE  i \in ActiveIds'
  BY <1>1 DEF Grows, ActiveIds
<1>2. ASSUME NEW i \in ActiveIds
      PROVE  i \in ActiveIds' /\ rows'[i].plan = rows[i].plan
  BY DEF Grows, ActiveIds, Present
<1>3. ASSUME NEW i \in Ids, Present(rows', i), rows'[i].plan # NoPlan
      PROVE  \E j \in ActiveIds' : rows'[j].plan = rows'[i].plan
  <2>1. CASE ~Present(rows, i)
    BY <1>1, <1>3, <2>1 DEF Present
  <2>2. CASE Present(rows, i)
    <3>1. rows'[i].plan = rows[i].plan
      BY <2>2 DEF Grows
    <3>2. PICK j \in ActiveIds : rows[j].plan = rows[i].plan
      BY <1>3, <2>2, <3>1 DEF PlanKeepsCheckpoint
    <3> QED BY <1>2, <3>1, <3>2
  <2> QED BY <2>1, <2>2
<1>4. ASSUME NEW i \in Ids, Present(rows', i) PROVE ActiveIds' # {}
  <2>1. CASE ~Present(rows, i)
    BY <1>1, <1>4, <2>1 DEF Present
  <2>2. CASE Present(rows, i)
    BY <1>2, <2>2 DEF ProjectKeepsCheckpoint
  <2> QED BY <2>1, <2>2
<1> QED BY <1>3, <1>4 DEF PlanKeepsCheckpoint, ProjectKeepsCheckpoint

(* The ids in use: every step keeps WriteInv. *)
LEMMA InitWriteInv == CheckpointsInit => WriteInv
<1> SUFFICES ASSUME CheckpointsInit PROVE Numbered /\ OwnId
  BY CheckpointsInitTyped DEF WriteInv
<1>1. \A i \in Ids : ~Present(rows, i)
  BY DEF CheckpointsInit, Present, NoRow
<1>2. \A s \in Servers : job[s].new = 0 /\ job[s].at = "idle"
  BY DEF CheckpointsInit, NoJob
<1>3. minted = 0
  BY DEF CheckpointsInit
<1>4. Numbered
  BY <1>1, <1>2, <1>3 DEF Numbered
<1>5. OwnId
  BY <1>2 DEF OwnId, Unwritten
<1> QED BY <1>4, <1>5

LEMMA JobNew ==
  ASSUME CheckpointsTypeOK, NEW s \in Servers
  PROVE  job[s].new \in Nat
<1>1. CASE job[s] = NoJob
  BY <1>1 DEF NoJob
<1>2. CASE job[s] # NoJob
  <2>1. job[s].new \in Ids
    BY <1>2 DEF CheckpointsTypeOK, Jobs
  <2> QED BY <2>1, CheckpointsAssumption DEF Ids
<1> QED BY <1>1, <1>2

LEMMA JobFields ==
  ASSUME NEW j \in Jobs, NEW at
  PROVE  LET k == [j EXCEPT !.at = at] IN
           k.at = at /\ k.new = j.new /\ k.row = j.row
<1>1. CASE j = NoJob
  BY <1>1 DEF NoJob
<1>2. CASE j # NoJob
  BY <1>2 DEF Jobs
<1> QED BY <1>1, <1>2

(* A server is through with one of its two writes. *)
LEMMA JobGoesOn ==
  ASSUME CheckpointsTypeOK, NEW s \in Servers, NEW at, Proceed(s, at) \/ Done(s)
  PROVE  /\ \A t \in Servers \ {s} : job'[t] = job[t]
         /\ \/ job'[s].at = "idle" /\ job'[s].new = 0
            \/ job'[s].at = at /\ job'[s].new = job[s].new /\ job'[s].row = job[s].row
<1>1. CASE Proceed(s, at)
  <2>1. job'[s] = [job[s] EXCEPT !.at = at] /\ job[s] \in Jobs
    BY <1>1 DEF Proceed, CheckpointsTypeOK
  <2> QED BY <1>1, <2>1, JobFields DEF Proceed, CheckpointsTypeOK
<1>2. CASE Done(s)
  BY <1>2 DEF Done, CheckpointsTypeOK, NoJob
<1> QED BY <1>1, <1>2

(* A step that begins nothing: servers go on with what they are doing or   *)
(* drop it, and no row is added but perhaps k, which no one has yet to     *)
(* write any more.                                                         *)
LEMMA NothingBegun ==
  ASSUME WriteInv, minted' = minted, NEW k \in Nat, k <= minted,
         \A i \in Ids \ {k} : Present(rows', i) => Present(rows, i),
         \A s \in Servers : job'[s].new \in {0, job[s].new},
         \A s \in Servers : Unwritten(s)' =>
           /\ Unwritten(s) /\ job[s].new # k
           /\ job'[s].new = job[s].new /\ job'[s].row = job[s].row
  PROVE  Numbered' /\ OwnId'
<1>1. \A s \in Servers : Unwritten(s) => job[s].new \in Ids
  BY JobTyped DEF WriteInv, Unwritten
<1>2. minted \in Nat /\ \A i \in Ids : i \in Nat
  BY CheckpointsAssumption DEF WriteInv, CheckpointsTypeOK, Ids
<1>3. Numbered'
  <2>1. ASSUME NEW i \in Ids, i > minted' PROVE ~Present(rows', i)
    <3>1. i # k /\ i > minted
      BY <1>2, <2>1
    <3> QED BY <3>1 DEF WriteInv, Numbered
  <2>2. ASSUME NEW s \in Servers PROVE job'[s].new <= minted'
    BY <1>2 DEF WriteInv, Numbered
  <2> QED BY <2>1, <2>2 DEF Numbered
<1>4. ASSUME NEW s \in Servers, Unwritten(s)'
      PROVE  /\ ~Present(rows', job'[s].new)
             /\ job'[s].row.status = "active"
             /\ \A t \in Servers \ {s} : Unwritten(t)' => job'[t].new # job'[s].new
  <2>1. /\ Unwritten(s) /\ job[s].new \in Ids /\ job[s].new # k
        /\ job'[s].new = job[s].new /\ job'[s].row = job[s].row
    BY <1>1, <1>4
  <2>2. ~Present(rows, job[s].new) /\ job[s].row.status = "active"
    BY <2>1 DEF WriteInv, OwnId
  <2>3. \A t \in Servers \ {s} : Unwritten(t)' => job'[t].new # job'[s].new
    BY <2>1 DEF WriteInv, OwnId
  <2> QED BY <2>1, <2>2, <2>3
<1> QED BY <1>3, <1>4 DEF OwnId

LEMMA BegunWriteInv ==
  ASSUME WriteInv, NEW s \in Servers, NEW at, NEW i \in Ids, NEW fresh \in Row,
         fresh.status = "active", Begin(s, at, i, fresh)
  PROVE  Numbered' /\ OwnId'
<1>1. /\ NewId \in Ids /\ NewId = minted + 1 /\ minted' = minted + 1
      /\ minted \in Nat /\ rows' = rows
  BY MintTyped DEF WriteInv, CheckpointsTypeOK, Begin, Mint, NewId
<1>2. job'[s] = [at |-> at, old |-> i, new |-> NewId, row |-> fresh]
  BY DEF WriteInv, CheckpointsTypeOK, Begin
<1>3. \A t \in Servers \ {s} : job'[t] = job[t]
  BY DEF WriteInv, CheckpointsTypeOK, Begin
<1>4. \A t \in Servers : job[t].new \in Nat /\ job[t].new <= minted
  BY JobNew DEF WriteInv, Numbered
<1>5. Numbered'
  <2>1. \A k \in Ids : k > minted' => ~Present(rows', k)
    BY <1>1 DEF WriteInv, Numbered, Ids
  <2>2. \A t \in Servers : job'[t].new <= minted'
    BY <1>1, <1>2, <1>3, <1>4
  <2> QED BY <2>1, <2>2 DEF Numbered
<1>6. ~Present(rows, NewId)
  BY <1>1 DEF WriteInv, Numbered
<1>7. ASSUME NEW t \in Servers, Unwritten(t)'
      PROVE  /\ ~Present(rows', job'[t].new)
             /\ job'[t].row.status = "active"
             /\ \A u \in Servers \ {t} : Unwritten(u)' => job'[u].new # job'[t].new
  <2>1. CASE t = s
    BY <1>1, <1>2, <1>3, <1>4, <1>6, <2>1
  <2>2. CASE t # s
    <3>1. Unwritten(t) /\ job'[t] = job[t]
      BY <1>3, <1>7, <2>2 DEF Unwritten
    <3>2. ASSUME NEW u \in Servers \ {t}, Unwritten(u)' PROVE job'[u].new # job'[t].new
      <4>1. CASE u = s
        BY <1>1, <1>2, <1>4, <3>1, <4>1
      <4>2. CASE u # s
        BY <1>3, <3>1, <3>2, <4>2 DEF WriteInv, OwnId, Unwritten
      <4> QED BY <4>1, <4>2
    <3> QED BY <1>1, <3>1, <3>2 DEF WriteInv, OwnId
  <2> QED BY <2>1, <2>2
<1> QED BY <1>5, <1>7 DEF OwnId

LEMMA WriteInvStep == WriteInv /\ [CheckpointsNext]_checkpointsVars => WriteInv'
<1> SUFFICES ASSUME WriteInv, [CheckpointsNext]_checkpointsVars PROVE Numbered' /\ OwnId'
  BY CheckpointsNextTyped DEF WriteInv
<1>0. \A s \in Servers : Unwritten(s) => job[s].new \in Ids
  BY JobTyped DEF WriteInv, Unwritten
<1>00. \A s \in Servers : job[s].new \in Nat /\ job[s].new <= minted
  BY JobNew DEF WriteInv, Numbered
<1>01. /\ 0 \in Nat /\ 0 <= minted /\ \A i \in Ids : i # 0
       /\ \A s \in Servers : Unwritten(s) => job[s].new # 0
  BY <1>0, CheckpointsAssumption DEF WriteInv, CheckpointsTypeOK, Ids
<1>1. ASSUME NEW s \in Servers, Checkpoint(s) PROVE Numbered' /\ OwnId'
  <2>1. PICK plan : rows' = WithRow(rows, NewId, NewCheckpoint(plan))
    BY <1>1 DEF Checkpoint
  <2>2. NewId \in Ids /\ NewId = minted + 1 /\ minted' = minted + 1 /\ minted \in Nat
    BY <1>1, MintTyped DEF WriteInv, CheckpointsTypeOK, Checkpoint, Mint, NewId
  <2>3. \A i \in Ids \ {NewId} : Present(rows', i) <=> Present(rows, i)
    BY <2>1 DEF WithRow, Present, WriteInv, CheckpointsTypeOK
  <2>4. Numbered'
    BY <1>1, <1>00, <2>2, <2>3 DEF Checkpoint, WriteInv, Numbered, Ids
  <2>5. \A s1 \in Servers : Unwritten(s1) => job[s1].new # NewId
    BY <1>00, <2>2
  <2>6. OwnId'
    BY <1>0, <1>1, <2>3, <2>5 DEF Checkpoint, WriteInv, OwnId, Unwritten
  <2> QED BY <2>4, <2>6
<1>2. ASSUME NEW s \in Servers, Replan(s) PROVE Numbered' /\ OwnId'
  <2>1. PICK i \in Ids, plan \in Plans \cup {NoPlan} :
          Begin(s, "mark, insert", i, NewCheckpoint(plan))
    BY <1>2 DEF Replan
  <2>2. NewCheckpoint(plan) \in Row /\ NewCheckpoint(plan).status = "active"
    BY NewCheckpointTyped DEF NewCheckpoint
  <2> QED BY <2>1, <2>2, BegunWriteInv
<1>3. ASSUME NEW s \in Servers, Update(s) PROVE Numbered' /\ OwnId'
  <2>1. PICK i \in Ids : Begin(s, "insert, mark", i, Revised(i))
    BY <1>3 DEF Update, Revised
  <2> QED BY <2>1, RevisedTyped, BegunWriteInv DEF WriteInv
<1>4. ASSUME NEW s \in Servers, InsertRow(s) PROVE Numbered' /\ OwnId'
  <2>1. Unwritten(s) /\ job[s].new \in Ids /\ minted' = minted
    BY <1>0, <1>4 DEF InsertRow, Unwritten
  <2>2. \A i \in Ids \ {job[s].new} : Present(rows', i) => Present(rows, i)
    BY <1>4, <2>1 DEF InsertRow, WithRow, Present, WriteInv, CheckpointsTypeOK
  <2>3. Proceed(s, "mark") \/ Done(s)
    BY <1>4 DEF InsertRow
  <2>4. /\ \A t \in Servers \ {s} : job'[t] = job[t]
        /\ job'[s].at \in {"idle", "mark"}
        /\ job'[s].new \in {0, job[s].new}
    BY <2>3, JobGoesOn DEF WriteInv
  <2>5. ~Unwritten(s)'
    BY <2>4 DEF Unwritten
  <2>6. \A t \in Servers : Unwritten(t)' => t # s /\ job'[t] = job[t] /\ Unwritten(t)
    BY <2>4, <2>5 DEF Unwritten
  <2>7. \A t \in Servers : Unwritten(t)' => job[t].new # job[s].new
    BY <2>1, <2>6 DEF WriteInv, OwnId
  <2>8. \A t \in Servers : job'[t].new \in {0, job[t].new}
    BY <2>4
  <2> QED BY <1>00, <2>1, <2>2, <2>6, <2>7, <2>8, NothingBegun
<1>5. ASSUME NEW s \in Servers, MarkOld(s) PROVE Numbered' /\ OwnId'
  <2>1. \A i \in Ids : Present(rows', i) => Present(rows, i)
    BY <1>5 DEF MarkOld, WithSuccessor, Present, WriteInv, CheckpointsTypeOK, Row
  <2>2. Done(s) \/ (job[s].at = "mark, insert" /\ Proceed(s, "insert"))
    BY <1>5 DEF MarkOld
  <2>3. /\ \A t \in Servers \ {s} : job'[t] = job[t]
        /\ \/ job'[s].new = job[s].new /\ job'[s].row = job[s].row /\ Unwritten(s)
           \/ job'[s].new = 0 /\ ~Unwritten(s)'
    <3>1. CASE Done(s)
      BY <3>1 DEF Done, Unwritten, NoJob, WriteInv, CheckpointsTypeOK
    <3>2. CASE job[s].at = "mark, insert" /\ Proceed(s, "insert")
      BY <3>2, JobGoesOn DEF Unwritten, WriteInv
    <3> QED BY <2>2, <3>1, <3>2
  <2>4. \A t \in Servers : Unwritten(t)' =>
          Unwritten(t) /\ job'[t].new = job[t].new /\ job'[t].row = job[t].row
    BY <2>3 DEF Unwritten
  <2>5. \A t \in Servers : job'[t].new \in {0, job[t].new}
    BY <2>3
  <2> QED BY <1>5, <1>01, <2>1, <2>4, <2>5, NothingBegun DEF MarkOld
<1>6. ASSUME NEW i \in Ids, Expire(i) PROVE Numbered' /\ OwnId'
  <2>1. \A k \in Ids : Present(rows', k) => Present(rows, k)
    BY <1>6 DEF Expire, Present, WriteInv, CheckpointsTypeOK, Row
  <2> QED BY <1>01, <1>6, <2>1, NothingBegun DEF Expire, Unwritten
<1>7. ASSUME NEW d \in Pruners, Prune(d) PROVE Numbered' /\ OwnId'
  <2>1. UNCHANGED <<job, minted>>
    BY <1>7 DEF Prune, PruneRead, PruneSpare, PruneChoose, PruneWrite, PruneEnd
  <2>2. \A k \in Ids : Present(rows', k) => Present(rows, k)
    <3>1. CASE rows' = rows
      BY <3>1
    <3>2. CASE PruneWrite(d)
      BY <3>2 DEF PruneWrite, WithStatus, Present, WriteInv, CheckpointsTypeOK, Row
    <3> QED
      BY <1>7, <3>1, <3>2 DEF Prune, PruneRead, PruneSpare, PruneChoose, PruneEnd
  <2> QED BY <1>01, <2>1, <2>2, NothingBegun DEF Unwritten
<1>8. CASE Crash
  <2>1. rows' = rows /\ minted' = minted
    BY <1>8 DEF Crash
  <2>2. CASE UNCHANGED job
    BY <1>01, <2>1, <2>2, NothingBegun DEF Unwritten
  <2>3. CASE \E s \in Servers : Done(s)
    <3>1. PICK s \in Servers : Done(s)
      BY <2>3
    <3>2. job'[s] = NoJob /\ \A t \in Servers \ {s} : job'[t] = job[t]
      BY <3>1 DEF Done, WriteInv, CheckpointsTypeOK
    <3>3. job'[s].new = 0 /\ ~Unwritten(s)'
      BY <3>2 DEF Unwritten, NoJob
    <3>4. \A t \in Servers : Unwritten(t)' => Unwritten(t) /\ job'[t] = job[t]
      BY <3>2, <3>3 DEF Unwritten
    <3>5. \A t \in Servers : job'[t].new \in {0, job[t].new}
      BY <3>2, <3>3
    <3> QED BY <1>01, <2>1, <3>4, <3>5, NothingBegun
  <2> QED BY <1>8, <2>2, <2>3 DEF Crash
<1>9. CASE UNCHANGED checkpointsVars
  BY <1>9, <1>01, NothingBegun DEF checkpointsVars, Unwritten
<1> QED
  BY <1>1, <1>2, <1>3, <1>4, <1>5, <1>6, <1>7, <1>8, <1>9 DEF CheckpointsNext

(* Every step but the UPDATE of prune only adds active rows. *)
LEMMA NextGrows ==
  ASSUME WriteInv, [CheckpointsNext]_checkpointsVars, \A d \in Pruners : ~PruneWrite(d)
  PROVE  Grows
<1>1. ASSUME NEW k \in Ids, NEW fresh, fresh.status = "active", ~Present(rows, k),
             rows' = WithRow(rows, k, fresh)
      PROVE  Grows
  BY <1>1 DEF WithRow, Grows, Present, WriteInv, CheckpointsTypeOK
<1>2. CASE rows' = rows
  BY <1>2 DEF Grows, Present
<1>3. ASSUME NEW s \in Servers, Checkpoint(s) PROVE Grows
  <2>1. PICK plan : rows' = WithRow(rows, NewId, NewCheckpoint(plan))
    BY <1>3 DEF Checkpoint
  <2>2. NewId \in Ids /\ NewId > minted
    BY <1>3, MintTyped DEF Checkpoint, WriteInv, CheckpointsTypeOK, NewId
  <2>3. ~Present(rows, NewId) /\ NewCheckpoint(plan).status = "active"
    BY <2>2 DEF WriteInv, Numbered, NewCheckpoint
  <2> QED BY <1>1, <2>1, <2>2, <2>3
<1>4. ASSUME NEW s \in Servers, InsertRow(s) PROVE Grows
  <2>1. Unwritten(s) /\ job[s].new \in Ids
    BY <1>4, JobTyped DEF InsertRow, Unwritten, WriteInv
  <2>2. ~Present(rows, job[s].new) /\ job[s].row.status = "active"
    BY <2>1 DEF WriteInv, OwnId
  <2> QED BY <1>1, <1>4, <2>1, <2>2 DEF InsertRow
<1>5. ASSUME NEW s \in Servers, MarkOld(s) PROVE Grows
  <2>1. rows \in [Ids -> Row] BY DEF WriteInv, CheckpointsTypeOK
  <2>2. PICK old, new : rows' = [rows EXCEPT ![old].until = "closed", ![old].by = new]
    BY <1>5 DEF MarkOld, WithSuccessor
  <2>3. \A i \in Ids : rows'[i].status = rows[i].status /\ rows'[i].plan = rows[i].plan
    BY <2>1, <2>2 DEF Row
  <2> QED BY <2>3 DEF Grows, Present
<1>6. ASSUME NEW i \in Ids, Expire(i) PROVE Grows
  BY <1>6 DEF Expire, Grows, Present, WriteInv, CheckpointsTypeOK, Row
<1> QED
  BY <1>2, <1>3, <1>4, <1>5, <1>6
  DEF CheckpointsNext, checkpointsVars, Replan, Update, Begin, Prune, PruneRead,
      PruneSpare, PruneChoose,
      PruneEnd, Crash

GuardInv ==
  WriteInv /\ Counted /\ PlanKeepsCheckpoint /\ ProjectKeepsCheckpoint

OnePruner == \A d, e \in Pruners : d = e

LEMMA InitGuardInv == CheckpointsInit => GuardInv
<1> SUFFICES ASSUME CheckpointsInit PROVE GuardInv
  OBVIOUS
<1>1. \A i \in Ids : ~Present(rows, i)
  BY DEF CheckpointsInit, Present, NoRow
<1>2. Counted
  BY DEF CheckpointsInit, Counted, Holds
<1> QED
  BY <1>1, <1>2, InitWriteInv
  DEF GuardInv, PlanKeepsCheckpoint, ProjectKeepsCheckpoint

(* A pruner keeps what it holds, as long as rows are only added. *)
LEMMA DrainerHolds ==
  ASSUME CheckpointsTypeOK, CheckpointsTypeOK', Grows, NEW d \in Pruners, Holds(d),
         doomed'[d] \subseteq doomed[d] \cup ActiveIds,
         NEW c, c = chosen'[d],
         phase'[d] = "write" => \/ phase[d] = "write" /\ c = chosen[d]
                                \/ c \in doomed[d] /\ ~IsLastActiveCheckpoint(c)
  PROVE  Holds(d)'
<1>1. ASSUME NEW i \in Ids, Present(rows, i) PROVE Present(rows', i)
  BY <1>1 DEF Grows, Present
<1>2. \A i \in doomed'[d] : Present(rows', i)
  BY <1>1 DEF Holds, ActiveIds, Present, CheckpointsTypeOK
<1>3. ASSUME phase'[d] = "write"
      PROVE  c \in Ids /\ c # 0 /\ Present(rows, c) /\ ~IsLastActiveCheckpoint(c)
  <2>1. CASE phase[d] = "write" /\ c = chosen[d]
    BY <2>1 DEF Holds, CheckpointsTypeOK
  <2>2. CASE c \in doomed[d] /\ ~IsLastActiveCheckpoint(c)
    BY <2>2, CheckpointsAssumption DEF Holds, CheckpointsTypeOK, Ids
  <2> QED BY <1>3, <2>1, <2>2
<1>4. ASSUME phase'[d] = "write"
      PROVE  Present(rows', c) /\ ~IsLastActiveCheckpoint(c)'
  BY <1>1, <1>3, <1>4, GrowsKeepsOthers
<1> QED BY <1>2, <1>3, <1>4 DEF Holds

LEMMA GrowsKeepsCounted ==
  ASSUME CheckpointsTypeOK, \A d \in Pruners : Holds(d), Grows, [CheckpointsNext]_checkpointsVars,
         NEW d \in Pruners
  PROVE  Holds(d)'
<1>1. CASE UNCHANGED <<doomed[d], phase[d], chosen[d]>>
  BY <1>1, CheckpointsNextTyped, DrainerHolds
<1>2. CASE phase'[d] # "write" /\ doomed'[d] \subseteq doomed[d] \cup ActiveIds
  BY <1>2, CheckpointsNextTyped, DrainerHolds
<1>3. ASSUME NEW e \in Pruners, Prune(e) PROVE Holds(d)'
  <2>1. CASE e # d
    BY <1>1, <1>3, <2>1
    DEF Prune, PruneRead, PruneSpare, PruneChoose, PruneWrite, PruneEnd, CheckpointsTypeOK
  <2>2. CASE e = d /\ PruneRead(e)
    BY <1>2, <2>2 DEF PruneRead, CheckpointsTypeOK
  <2>3. CASE e = d /\ PruneSpare(e)
    BY <1>2, <2>3 DEF PruneSpare, CheckpointsTypeOK
  <2>4. CASE e = d /\ PruneChoose(e)
    <3>1. PICK i \in doomed[d] : /\ ~IsLastActiveCheckpoint(i)
                                 /\ doomed' = [doomed EXCEPT ![d] = @ \ {i}]
                                 /\ chosen' = [chosen EXCEPT ![d] = i]
      BY <2>4 DEF PruneChoose
    <3>2. doomed'[d] \subseteq doomed[d] /\ chosen'[d] = i
      BY <3>1 DEF CheckpointsTypeOK
    <3> QED BY <3>1, <3>2, CheckpointsNextTyped, DrainerHolds
  <2>5. CASE e = d /\ PruneWrite(e)
    BY <1>2, <2>5 DEF PruneWrite, CheckpointsTypeOK
  <2>6. CASE e = d /\ PruneEnd(e)
    BY <1>2, <2>6 DEF PruneEnd, CheckpointsTypeOK
  <2> QED BY <1>3, <2>1, <2>2, <2>3, <2>4, <2>5, <2>6 DEF Prune
<1>4. CASE Crash
  <2>1. CASE UNCHANGED pruneVars
    BY <1>1, <2>1 DEF pruneVars
  <2>2. CASE \E e \in Pruners : /\ phase' = [phase EXCEPT ![e] = "idle"]
                                 /\ doomed' = [doomed EXCEPT ![e] = {}]
                                 /\ chosen' = [chosen EXCEPT ![e] = 0]
    BY <1>1, <1>2, <2>2 DEF CheckpointsTypeOK
  <2> QED BY <1>4, <2>1, <2>2 DEF Crash
<1>5. CASE UNCHANGED pruneVars
  BY <1>1, <1>5 DEF pruneVars
<1> QED
  BY <1>3, <1>4, <1>5
  DEF CheckpointsNext, checkpointsVars, pruneVars, Checkpoint, Replan, Update, Begin,
      InsertRow, MarkOld,
      Expire

(* The UPDATE itself: the row that was counted is another one, it is still *)
(* active, and there is no other pruner whose count the UPDATE upsets.    *)
LEMMA WriteKeepsGuard ==
  ASSUME OnePruner, GuardInv, [CheckpointsNext]_checkpointsVars,
         NEW d \in Pruners, PruneWrite(d)
  PROVE  Counted' /\ PlanKeepsCheckpoint' /\ ProjectKeepsCheckpoint'
<1> DEFINE c == chosen[d]
<1>1. /\ c \in Ids /\ Present(rows, c) /\ Others(c) # {}
  BY DEF GuardInv, WriteInv, Counted, Holds, PruneWrite, CheckpointsTypeOK,
         IsLastActiveCheckpoint
<1>2. rows' = [rows EXCEPT ![c].status = "deprecated"]
  BY <1>1 DEF PruneWrite, WithStatus
<1>3. \A i \in Ids : /\ rows'[i].plan = rows[i].plan
                     /\ i # c => rows'[i].status = rows[i].status
  BY <1>2 DEF GuardInv, WriteInv, CheckpointsTypeOK, Row
<1>4. \A i \in Ids : Present(rows', i) <=> Present(rows, i)
  BY <1>1, <1>2, <1>3 DEF Present, GuardInv, WriteInv, CheckpointsTypeOK, Row
<1>5. PICK k \in Others(c) : TRUE
  BY <1>1
<1>6. /\ k \in ActiveIds' /\ k # c /\ k \in Ids
      /\ rows[c].plan # NoPlan => rows[k].plan = rows[c].plan
  BY <1>3, <1>5 DEF Others, ActiveIds
<1>7. ASSUME NEW i \in Ids, Present(rows', i), rows'[i].plan # NoPlan
      PROVE  \E j \in ActiveIds' : rows'[j].plan = rows'[i].plan
  <2>1. PICK j \in ActiveIds : rows[j].plan = rows[i].plan
    BY <1>3, <1>4, <1>7 DEF GuardInv, PlanKeepsCheckpoint
  <2>2. CASE j = c
    BY <1>3, <1>6, <1>7, <2>1, <2>2
  <2>3. CASE j # c
    BY <1>3, <2>1, <2>3 DEF ActiveIds
  <2> QED BY <2>2, <2>3
<1>8. Counted'
  <2>1. phase'[d] = "judge" /\ doomed' = doomed
    BY DEF PruneWrite, GuardInv, WriteInv, CheckpointsTypeOK
  <2>2. \A i \in doomed'[d] : Present(rows', i)
    BY <1>4, <2>1 DEF GuardInv, WriteInv, CheckpointsTypeOK, Counted, Holds
  <2>3. Holds(d)'
    BY <2>1, <2>2 DEF Holds
  <2> QED BY <2>3 DEF Counted, OnePruner
<1> QED BY <1>6, <1>7, <1>8 DEF PlanKeepsCheckpoint, ProjectKeepsCheckpoint

LEMMA GuardInvStep == OnePruner /\ GuardInv /\ [CheckpointsNext]_checkpointsVars => GuardInv'
<1> SUFFICES ASSUME OnePruner, GuardInv, [CheckpointsNext]_checkpointsVars PROVE GuardInv'
  OBVIOUS
<1>1. WriteInv'
  BY WriteInvStep DEF GuardInv
<1>2. CASE \E d \in Pruners : PruneWrite(d)
  BY <1>1, <1>2, WriteKeepsGuard DEF GuardInv
<1>3. CASE \A d \in Pruners : ~PruneWrite(d)
  <2>1. Grows
    BY <1>3, NextGrows DEF GuardInv
  <2>2. PlanKeepsCheckpoint' /\ ProjectKeepsCheckpoint'
    BY <2>1, GrowsKeepsPlans DEF GuardInv
  <2>3. Counted'
    BY <2>1, GrowsKeepsCounted DEF GuardInv, WriteInv, Counted
  <2> QED BY <1>1, <2>2, <2>3 DEF GuardInv
<1> QED BY <1>2, <1>3

(* The guard of prune (_is_last_active_checkpoint): with one thread that   *)
(* executes Dream runs, a plan that was ever checkpointed keeps an active  *)
(* checkpoint, whatever scores low, whatever the servers write meanwhile   *)
(* and wherever a process is killed.                                       *)
THEOREM PlanSpared ==
  ASSUME OnePruner
  PROVE  CheckpointsSpec => []PlanKeepsCheckpoint
<1>1. GuardInv => PlanKeepsCheckpoint
  BY DEF GuardInv
<1> QED BY <1>1, InitGuardInv, GuardInvStep, PTL DEF CheckpointsSpec

(* Nor does the project as a whole lose its last active checkpoint.        *)
THEOREM ProjectSpared ==
  ASSUME OnePruner
  PROVE  CheckpointsSpec => []ProjectKeepsCheckpoint
<1>1. GuardInv => ProjectKeepsCheckpoint
  BY DEF GuardInv
<1> QED BY <1>1, InitGuardInv, GuardInvStep, PTL DEF CheckpointsSpec

===============================================================================
