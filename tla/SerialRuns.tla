------------------------------ MODULE SerialRuns ------------------------------
(***************************************************************************)
(* What the Dream scheduler promises to the rest of the server, with no    *)
(* thread, lock, table or clock in sight: Dream runs go through one slot.  *)
(* A trigger may claim the slot for a new run when it is free; the claim   *)
(* is either withdrawn or published; a published run is executed, once,    *)
(* and at most one run executes at a time; finishing it frees the slot.    *)
(* A restart of the server frees the slot and abandons the execution that  *)
(* was under way, and loses nothing that was published.                    *)
(***************************************************************************)
CONSTANTS RunIds,   \* the identifiers a run may be given
          NoRun     \* not a run

VARIABLES slot,     \* the runs that hold the slot
          life,     \* "new", "pending", "running" or "finished"
          executing \* the run being executed, or NoRun

vars == <<slot, life, executing>>

States == {"new", "pending", "running", "finished"}

Init ==
  /\ slot = {}
  /\ life = [r \in RunIds |-> "new"]
  /\ executing = NoRun

(* A trigger takes the free slot for a run nobody has seen yet. *)
Claim(r) ==
  /\ slot = {}
  /\ life[r] = "new"
  /\ slot' = {r}
  /\ UNCHANGED <<life, executing>>

(* The claim could not be made durable. *)
Withdraw(r) ==
  /\ r \in slot
  /\ life[r] = "new"
  /\ slot' = {}
  /\ UNCHANGED <<life, executing>>

Publish(r) ==
  /\ r \in slot
  /\ life[r] = "new"
  /\ life' = [life EXCEPT ![r] = "pending"]
  /\ UNCHANGED <<slot, executing>>

Start(r) ==
  /\ executing = NoRun
  /\ life[r] = "pending"
  /\ life' = [life EXCEPT ![r] = "running"]
  /\ executing' = r
  /\ UNCHANGED slot

(* The outcome is recorded; the run still holds the slot. *)
Finish(r) ==
  /\ executing = r
  /\ life[r] = "running"
  /\ life' = [life EXCEPT ![r] = "finished"]
  /\ UNCHANGED <<slot, executing>>

(* The executor lets go of the run and of the slot. *)
Release(r) ==
  /\ executing = r
  /\ life[r] = "finished"
  /\ executing' = NoRun
  /\ slot' = slot \ {r}
  /\ UNCHANGED life

Restart ==
  /\ slot' = {}
  /\ executing' = NoRun
  /\ UNCHANGED life

Next ==
  \/ \E r \in RunIds : \/ Claim(r) \/ Withdraw(r) \/ Publish(r)
                       \/ Start(r) \/ Finish(r) \/ Release(r)
  \/ Restart

Spec == Init /\ [][Next]_vars
===============================================================================
