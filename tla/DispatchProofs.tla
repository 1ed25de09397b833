---------------------------- MODULE DispatchProofs ----------------------------
(***************************************************************************)
(* Theorems about the tool calls of Dispatch, for any scopes, limit and    *)
(* size of the cache, with and without recall_active_only, and whoever     *)
(* else writes the database.                                               *)
(***************************************************************************)
EXTENDS Dispatch, FiniteSetTheorems, SequenceTheorems, TLAPS

-------------------------------------------------------------------------------
(* What is left of a call *)

Writes == {"commit", "insert", "supersede", "close"}

(* A call invalidates first if at all, keeps only what it has just read,   *)
(* does nothing but ask the limiter between invalidating and committing,   *)
(* and does not ask it any more once it has written.                       *)
Orderly(steps) ==
  /\ steps \in Seq(Steps) /\ steps # <<>>
  /\ \A n \in 2..Len(steps) : steps[n] # "invalidate"
  /\ \A n \in 2..Len(steps) : steps[n] = "keep" => steps[n - 1] = "read"
  /\ \A n \in 2..Len(steps) : steps[n] = "commit" =>
       \A m \in 1..(n - 1) : steps[m] \in {"invalidate", "charge"}
  /\ \A n \in 2..Len(steps) : steps[n] = "charge" =>
       \A m \in 1..(n - 1) : steps[m] \notin Writes

Commits(steps) == \E n \in 1..Len(steps) : steps[n] = "commit"
Asks(steps)    == \E n \in 1..Len(steps) : steps[n] = "charge"

(* The steps a call may begin with, after the check of the dispatcher. *)
Fresh(steps) ==
  /\ Orderly(steps)
  /\ steps[1] # "keep"
  /\ Commits(steps) => steps[1] = "invalidate"

Plans == {Searching, Committing, Conflicting, Declining, Checkpointing,
          ForeseeingCheckpoint, ForeseeingCommit, Replanning, Updating,
          SemanticUpdating, Invoking}

LEMMA FreshPlans == \A steps \in Plans : Fresh(steps)
<1>1. Fresh(Searching)
  BY DEF Fresh, Orderly, Commits, Searching, Steps, Writes
<1>2. Fresh(Committing) /\ Fresh(Declining)
  BY DEF Fresh, Orderly, Commits, Committing, Declining, Steps, Writes
<1>3. Fresh(Conflicting)
  BY DEF Fresh, Orderly, Commits, Conflicting, Steps, Writes
<1>4. Fresh(Checkpointing) /\ Fresh(Replanning) /\ Fresh(Updating)
  BY DEF Fresh, Orderly, Commits, Checkpointing, Replanning, Updating, Steps, Writes
<1>5. Fresh(SemanticUpdating) /\ Fresh(Invoking)
  BY DEF Fresh, Orderly, Commits, SemanticUpdating, Invoking, Steps, Writes
<1>6. Fresh(ForeseeingCheckpoint)
  BY DEF Fresh, Orderly, Commits, ForeseeingCheckpoint, Steps, Writes
<1>7. Fresh(ForeseeingCommit)
  BY DEF Fresh, Orderly, Commits, ForeseeingCommit, Steps, Writes
<1> QED BY <1>1, <1>2, <1>3, <1>4, <1>5, <1>6, <1>7 DEF Plans

(* What remains after the first step of a plan. *)
LEMMA Rest ==
  ASSUME NEW steps, Orderly(steps), Len(steps) # 1
  PROVE  /\ Orderly(Tail(steps))
         /\ Tail(steps)[1] # "invalidate"
         /\ Tail(steps)[1] = "keep" => steps[1] = "read"
         /\ Commits(Tail(steps)) => Commits(steps) /\ steps[1] \in {"invalidate", "charge"}
         /\ Asks(Tail(steps)) => Asks(steps) /\ steps[1] \notin Writes
<1>a. steps \in Seq(Steps) /\ steps # <<>>
  BY DEF Orderly
<1>b. Len(steps) \in Nat /\ Len(steps) # 0
  BY <1>a, EmptySeq
<1>0. steps \in Seq(Steps) /\ Len(steps) \in Nat /\ Len(steps) > 1
  BY <1>a, <1>b
<1>1. /\ Tail(steps) \in Seq(Steps) /\ Len(Tail(steps)) = Len(steps) - 1
      /\ Tail(steps) # <<>>
  <2>1. Tail(steps) \in Seq(Steps) /\ Len(Tail(steps)) = Len(steps) - 1
    BY <1>a, HeadTailProperties
  <2>2. Len(Tail(steps)) # 0
    BY <1>0, <2>1
  <2>3. Len(<<>>) = 0
    OBVIOUS
  <2> QED BY <2>1, <2>2, <2>3
<1>2. \A n \in 1..Len(Tail(steps)) : Tail(steps)[n] = steps[n + 1] /\ n + 1 \in 2..Len(steps)
  BY <1>0, <1>1
<1>3. \A n \in 2..Len(Tail(steps)) : /\ n \in 1..Len(Tail(steps)) /\ n - 1 \in 1..Len(Tail(steps))
                                     /\ (n - 1) + 1 = n /\ (n + 1) - 1 = n
  BY <1>0, <1>1
<1>4. Orderly(Tail(steps))
  <2>1. \A n \in 2..Len(Tail(steps)) : Tail(steps)[n] # "invalidate"
    BY <1>2, <1>3 DEF Orderly
  <2>2. ASSUME NEW n \in 2..Len(Tail(steps)), Tail(steps)[n] = "keep"
        PROVE  Tail(steps)[n - 1] = "read"
    <3>1. n + 1 \in 2..Len(steps) /\ steps[n + 1] = "keep"
      BY <1>2, <1>3, <2>2
    <3>2. steps[(n + 1) - 1] = "read"
      BY <3>1 DEF Orderly
    <3> QED BY <1>2, <1>3, <3>2
  <2>3. ASSUME NEW n \in 2..Len(Tail(steps)), Tail(steps)[n] = "commit",
               NEW m \in 1..(n - 1)
        PROVE  Tail(steps)[m] \in {"invalidate", "charge"}
    <3>1. n + 1 \in 2..Len(steps) /\ steps[n + 1] = "commit"
      BY <1>2, <1>3, <2>3
    <3>2. m \in 1..Len(Tail(steps)) /\ m + 1 \in 1..((n + 1) - 1)
      BY <1>1, <1>0
    <3>3. steps[m + 1] \in {"invalidate", "charge"}
      BY <3>1, <3>2 DEF Orderly
    <3> QED BY <1>2, <3>2, <3>3
  <2>4. ASSUME NEW n \in 2..Len(Tail(steps)), Tail(steps)[n] = "charge",
               NEW m \in 1..(n - 1)
        PROVE  Tail(steps)[m] \notin Writes
    <3>1. n + 1 \in 2..Len(steps) /\ steps[n + 1] = "charge"
      BY <1>2, <1>3, <2>4
    <3>2. m \in 1..Len(Tail(steps)) /\ m + 1 \in 1..((n + 1) - 1)
      BY <1>1, <1>0
    <3>3. steps[m + 1] \notin Writes
      BY <3>1, <3>2 DEF Orderly
    <3> QED BY <1>2, <3>2, <3>3
  <2> QED BY <1>1, <2>1, <2>2, <2>3, <2>4 DEF Orderly
<1>5. /\ Tail(steps)[1] = steps[2] /\ 2 \in 2..Len(steps) /\ 2 - 1 = 1
  BY <1>0, <1>1, <1>2
<1>6. ASSUME NEW n \in 1..Len(Tail(steps))
      PROVE  /\ n + 1 \in 2..Len(steps) /\ n + 1 \in 1..Len(steps)
             /\ 1 \in 1..((n + 1) - 1) /\ Tail(steps)[n] = steps[n + 1]
  BY <1>0, <1>1, <1>2
<1>7. Commits(Tail(steps)) => Commits(steps) /\ steps[1] \in {"invalidate", "charge"}
  BY <1>6 DEF Commits, Orderly
<1>8. Asks(Tail(steps)) => Asks(steps) /\ steps[1] \notin Writes
  BY <1>6 DEF Asks, Orderly
<1> QED BY <1>4, <1>5, <1>7, <1>8 DEF Orderly

-------------------------------------------------------------------------------
(* The inductive invariant *)

Types ==
  /\ rows \in [Ids -> Row \cup {NoRow}]
  /\ minted \in 0..MaxId
  /\ answer \in [Scopes -> (SUBSET Ids) \cup {Miss}]
  /\ own \in SUBSET Ids

(* No crystal has an id that has not been given out. *)
Minted ==
  /\ \A i \in Ids : i > minted => rows[i] = NoRow
  /\ \A i \in own : i <= minted

(* An answer for a scope that lacks nothing of this server and holds       *)
(* nothing of another scope, now and after crystals have been written.     *)
Covers(found, s) ==
  /\ \A i \in found : i <= minted
  /\ \A i \in own : i \in Shown(s) => i \in found
  /\ \A i \in found : Present(i) => InScope(rows[i], s)

AnswersSound == \A s \in Scopes : answer[s] # Miss => Covers(answer[s], s)

(* Once a commit has invalidated it finds nothing kept for its project.    *)
CallSound ==
  \/ call = NoCall
  \/ /\ call \in Call /\ Orderly(call.steps)
     /\ call.steps[1] = "keep" => Covers(call.found, call.scope)
     /\ Commits(call.steps) /\ call.steps[1] # "invalidate" =>
          \A s \in Scopes : s.project = call.scope.project => answer[s] = Miss
     /\ call.wrote => ~Asks(call.steps)

IInv == Types /\ Minted /\ AnswersSound /\ CallSound

(* Crystals are added under new ids, stop being live, and go. *)
Ageing ==
  /\ rows' \in [Ids -> Row \cup {NoRow}]
  /\ minted' \in 0..MaxId /\ minted <= minted'
  /\ \A i \in Ids : i > minted' => rows'[i] = NoRow
  /\ \A i \in Ids : i <= minted =>
       \/ rows'[i] = NoRow
       \/ /\ rows[i] # NoRow
          /\ rows'[i].scope = rows[i].scope
          /\ rows'[i].live => rows[i].live

LEMMA CoversOn ==
  ASSUME Types, Minted, Ageing, NEW found \in SUBSET Ids, NEW s \in Scopes,
         Covers(found, s), own' \in SUBSET Ids,
         \A i \in own' : i \in own \/ i \notin Shown(s)'
  PROVE  Covers(found, s)'
<1>1. \A i \in found : i <= minted'
  BY DispatchAssumption DEF Covers, Types, Ageing, Ids
<1>2. ASSUME NEW i \in own', i \in Shown(s)'
      PROVE  i \in found
  <2>1. i \in own /\ i \in Ids /\ i <= minted
    BY <1>2 DEF Minted, Types
  <2>2. i \in Shown(s)
    BY <1>2, <2>1 DEF Ageing, Shown, InScope, Present
  <2> QED BY <2>1, <2>2 DEF Covers
<1>3. ASSUME NEW i \in found, Present(i)'
      PROVE  InScope(rows'[i], s)
  <2>1. i \in Ids /\ i <= minted
    BY DEF Covers
  <2>2. Present(i) /\ rows'[i].scope = rows[i].scope
    BY <1>3, <2>1 DEF Ageing, Present
  <2>3. InScope(rows[i], s)
    BY <2>2 DEF Covers
  <2> QED BY <2>2, <2>3 DEF InScope
<1> QED BY <1>1, <1>2, <1>3 DEF Covers

(* The call after one of its steps. *)
LEMMA Continued ==
  ASSUME NEW c \in Call, Orderly(c.steps), Continue(c)
  PROVE  \/ call' = NoCall
         \/ /\ call' \in Call /\ Orderly(call'.steps)
            /\ call'.scope = c.scope /\ call'.found = c.found /\ call'.wrote = c.wrote
            /\ call'.steps[1] # "invalidate"
            /\ call'.steps[1] = "keep" => c.steps[1] = "read"
            /\ Commits(call'.steps) =>
                 Commits(c.steps) /\ c.steps[1] \in {"invalidate", "charge"}
            /\ Asks(call'.steps) => Asks(c.steps) /\ c.steps[1] \notin Writes
<1> SUFFICES ASSUME Len(c.steps) # 1, call' = [c EXCEPT !.steps = Tail(@)]
             PROVE  /\ call' \in Call /\ call'.steps = Tail(c.steps)
                    /\ call'.scope = c.scope /\ call'.found = c.found
                    /\ call'.wrote = c.wrote
  BY Rest DEF Continue
<1>1. Tail(c.steps) \in Seq(Steps)
  BY Rest DEF Orderly
<1> QED BY <1>1 DEF Call

LEMMA AtFirst ==
  ASSUME CallSound, NEW step, At(step)
  PROVE  call \in Call /\ Orderly(call.steps) /\ call.steps[1] = step
<1>1. call \in Call /\ Orderly(call.steps) /\ Head(call.steps) = step
  BY DEF CallSound, At
<1>2. Head(call.steps) = call.steps[1]
  BY <1>1 DEF Orderly
<1> QED BY <1>1, <1>2

LEMMA CoversSame ==
  ASSUME UNCHANGED <<rows, minted, own>>
  PROVE  \A found, s : Covers(found, s)' <=> Covers(found, s)
BY DEF Covers, Shown, Present, InScope

LEMMA Initially == Init => IInv
<1> SUFFICES ASSUME Init PROVE IInv
  OBVIOUS
<1>1. Types
  BY DispatchAssumption DEF Init, Types
<1>2. Minted /\ AnswersSound /\ CallSound
  BY DEF Init, Minted, AnswersSound, CallSound
<1> QED BY <1>1, <1>2 DEF IInv

LEMMA BegunWell ==
  ASSUME IInv, NEW steps \in Plans \cup {<<>>}, NEW scope \in Scopes,
         NEW live \in BOOLEAN, NEW old \in Ids \cup {0}, Begin(steps, scope, live, old)
  PROVE  IInv'
<1>1. Types' /\ Minted'
  BY DEF IInv, Types, Minted, Begin
<1>2. AnswersSound'
  BY CoversSame DEF IInv, AnswersSound, Begin
<1>3. CallSound'
  <2> SUFFICES ASSUME steps \in Plans, steps # <<>>
               PROVE  CallSound'
    BY DEF Begin, CallSound
  <2>1. Fresh(steps)
    BY FreshPlans
  <2>2. call' = [steps |-> steps, scope |-> scope, live |-> live, old |-> old,
                 found |-> {}, wrote |-> FALSE]
    BY DEF Begin
  <2>3. call' \in Call
    BY <2>1, <2>2 DEF Call, Fresh, Orderly
  <2> QED BY <2>1, <2>2, <2>3 DEF CallSound, Fresh
<1> QED BY <1>1, <1>2, <1>3 DEF IInv

LEMMA CallsBeginWell == IInv /\ ToolCall => IInv'
<1> SUFFICES ASSUME IInv, ToolCall PROVE IInv'
  OBVIOUS
<1>1. \A class \in Classes \cup {NoClass} : Written(class) \in Scopes
  BY DispatchAssumption DEF Written, Scopes
<1>2. CASE RecallCall
  BY <1>2, BegunWell DEF RecallCall, Plans
<1>3. CASE CommitCall
  BY <1>1, <1>3, BegunWell DEF CommitCall, Plans
<1>4. CASE CheckpointCall
  BY <1>1, <1>4, BegunWell DEF CheckpointCall, Plans
<1>5. CASE ReplanCall
  BY <1>1, <1>5, BegunWell DEF ReplanCall, Plans
<1>6. CASE UpdateCall
  BY <1>6, BegunWell DEF UpdateCall, Plans
<1>7. CASE OtherCall
  BY <1>1, <1>7, BegunWell DEF OtherCall, Plans
<1> QED BY <1>2, <1>3, <1>4, <1>5, <1>6, <1>7 DEF ToolCall

(* A step of a call that leaves the database and the cache alone, and      *)
(* neither reads nor writes.                                               *)
LEMMA QuietStep ==
  ASSUME IInv, call \in Call, Orderly(call.steps),
         UNCHANGED <<rows, minted, own, answer>>,
         call' = NoCall \/ Continue(call),
         call.steps[1] \notin {"invalidate", "read"}
  PROVE  IInv'
<1>1. Types' /\ Minted'
  BY DEF IInv, Types, Minted
<1>2. AnswersSound'
  BY CoversSame DEF IInv, AnswersSound
<1>3. CallSound'
  <2>1. CASE call' = NoCall
    BY <2>1 DEF CallSound
  <2>2. CASE call' # NoCall
    <3>1. /\ call' \in Call /\ Orderly(call'.steps)
          /\ call'.scope = call.scope /\ call'.wrote = call.wrote
          /\ call'.steps[1] # "keep"
          /\ Commits(call'.steps) => Commits(call.steps)
          /\ Asks(call'.steps) => Asks(call.steps)
      BY <2>2, Continued
    <3>2. Commits(call.steps) => \A s \in Scopes :
            s.project = call.scope.project => answer[s] = Miss
      BY <2>2 DEF IInv, CallSound, Call, NoCall, Orderly
    <3>3. call.wrote => ~Asks(call.steps)
      BY DEF IInv, CallSound, Call, NoCall, Orderly
    <3> QED BY <3>1, <3>2, <3>3 DEF CallSound
  <2> QED BY <2>1, <2>2
<1> QED BY <1>1, <1>2, <1>3 DEF IInv

LEMMA QuietSteps == IInv /\ (Charge \/ Predict \/ Look \/ Fail) => IInv'
<1> SUFFICES ASSUME IInv, Charge \/ Predict \/ Look \/ Fail PROVE IInv'
  OBVIOUS
<1>1. CASE Fail
  <2>1. call' = NoCall /\ UNCHANGED <<rows, minted, own, answer>>
    BY <1>1 DEF Fail, End, memory
  <2>2. Types' /\ Minted' /\ AnswersSound' /\ CallSound'
    BY <2>1, CoversSame DEF IInv, Types, Minted, AnswersSound, CallSound
  <2> QED BY <2>2 DEF IInv
<1>2. CASE Charge
  <2>1. call \in Call /\ Orderly(call.steps) /\ call.steps[1] = "charge"
    BY <1>2, AtFirst DEF IInv, Charge
  <2> QED BY <1>2, <2>1, QuietStep DEF Charge, End
<1>3. CASE Predict
  <2>1. call \in Call /\ Orderly(call.steps) /\ call.steps[1] = "predict"
    BY <1>3, AtFirst DEF IInv, Predict
  <2> QED BY <1>3, <2>1, QuietStep DEF Predict, End
<1>4. CASE Look
  <2>1. call \in Call /\ Orderly(call.steps) /\ call.steps[1] = "look"
    BY <1>4, AtFirst DEF IInv, Look
  <2> QED BY <1>4, <2>1, QuietStep DEF Look, End
<1> QED BY <1>1, <1>2, <1>3, <1>4

(* What is invalidated covers the project that is about to be written.     *)
LEMMA InvalidateStep == IInv /\ Invalidate => IInv'
<1> SUFFICES ASSUME IInv, Invalidate PROVE IInv'
  OBVIOUS
<1>1. call \in Call /\ Orderly(call.steps) /\ call.steps[1] = "invalidate"
  BY AtFirst DEF IInv, Invalidate
<1>2. /\ UNCHANGED <<rows, minted, own>> /\ Continue(call)
      /\ answer' = [s \in Scopes |-> IF s.project = call.scope.project THEN Miss ELSE answer[s]]
  BY DEF Invalidate, Concerns
<1>3. Types' /\ Minted'
  BY <1>2 DEF IInv, Types, Minted
<1>4. AnswersSound'
  BY <1>2, CoversSame DEF IInv, AnswersSound
<1>5. \A s \in Scopes : s.project = call.scope.project => answer'[s] = Miss
  BY <1>2
<1>6. call.wrote => ~Asks(call.steps)
  BY <1>1 DEF IInv, CallSound, Call, NoCall, Orderly
<1>7. CallSound'
  BY <1>1, <1>2, <1>5, <1>6, Continued DEF CallSound
<1> QED BY <1>3, <1>4, <1>7 DEF IInv

(* A step of a call that writes the database. *)
LEMMA WriteStep ==
  ASSUME IInv, call \in Call, Orderly(call.steps), call.steps[1] \in Writes,
         Ageing, answer' = answer, own' \in SUBSET Ids,
         \A i \in own' : i <= minted' /\ (i \in own \/ \A s \in Scopes :
                           answer[s] # Miss => i \notin Shown(s)'),
         NEW c \in Call, c.steps = call.steps, Continue(c)
  PROVE  IInv'
<1>1. Types' /\ Minted'
  BY DEF IInv, Types, Minted, Ageing
<1>2. AnswersSound'
  <2> SUFFICES ASSUME NEW s \in Scopes, answer[s] # Miss
               PROVE  Covers(answer[s], s)'
    BY DEF AnswersSound
  <2>1. Covers(answer[s], s) /\ answer[s] \in SUBSET Ids
    BY DEF IInv, AnswersSound, Types
  <2>2. \A found \in SUBSET Ids : Covers(found, s) => Covers(found, s)'
    BY CoversOn DEF IInv
  <2>3. PICK found \in SUBSET Ids : found = answer[s]
    BY <2>1
  <2>4. Covers(found, s)'
    BY <2>1, <2>2, <2>3
  <2> QED BY <2>3, <2>4 DEF Covers
<1>3. CallSound'
  <2>1. CASE call' = NoCall
    BY <2>1 DEF CallSound
  <2>2. CASE call' # NoCall
    <3>1. /\ call' \in Call /\ Orderly(call'.steps)
          /\ call'.steps[1] # "keep" /\ ~Commits(call'.steps) /\ ~Asks(call'.steps)
      BY <2>2, Continued DEF Writes
    <3> QED BY <3>1 DEF CallSound
  <2> QED BY <2>1, <2>2
<1> QED BY <1>1, <1>2, <1>3 DEF IInv

LEMMA InsertStep == IInv /\ Insert => IInv'
<1> SUFFICES ASSUME IInv, Insert PROVE IInv'
  OBVIOUS
<1>1. /\ call \in Call /\ Orderly(call.steps) /\ call.steps[1] \in {"commit", "insert"}
      /\ At("commit") => call.steps[1] = "commit"
      /\ At("insert") => call.steps[1] = "insert"
  BY AtFirst DEF IInv, Insert
<1>2. /\ minted \in Nat /\ minted' = minted + 1 /\ minted' \in Ids /\ minted' \in 0..MaxId
      /\ answer' = answer
      /\ rows' = [rows EXCEPT ![minted'] = [scope |-> call.scope, live |-> call.live]]
  BY DispatchAssumption DEF Insert, IInv, Types, Ids, memory
<1>3. [scope |-> call.scope, live |-> call.live] \in Row
  BY <1>1 DEF Call, Row
<1>4. Ageing
  <2>1. rows' \in [Ids -> Row \cup {NoRow}]
    BY <1>2, <1>3 DEF IInv, Types
  <2>2. \A i \in Ids : i # minted' => rows'[i] = rows[i]
    BY <1>2 DEF IInv, Types
  <2>3. \A i \in Ids : (i > minted' => i > minted /\ i # minted') /\ (i <= minted => i # minted')
    BY <1>2 DEF Ids
  <2> QED BY <1>2, <2>1, <2>2, <2>3 DEF Ageing, IInv, Minted
<1>5. own' \in SUBSET Ids /\ \A i \in own' : i \in own \/ (i = minted' /\ At("commit"))
  BY <1>2 DEF Insert, IInv, Types
<1>6. ASSUME At("commit"), NEW s \in Scopes, answer[s] # Miss
      PROVE  minted' \notin Shown(s)'
  <2>1. call.steps[1] = "commit" /\ Commits(call.steps)
    BY <1>1, <1>6 DEF Commits, Orderly
  <2>2. s.project # call.scope.project
    BY <1>6, <2>1 DEF IInv, CallSound, At
  <2>3. rows'[minted'].scope.project = call.scope.project
    BY <1>2 DEF IInv, Types
  <2> QED BY <2>2, <2>3 DEF Shown, InScope
<1>7. \A i \in own' : i <= minted'
  BY <1>2, <1>5 DEF IInv, Minted, Types, Ids
<1>8. [call EXCEPT !.wrote = TRUE] \in Call /\ [call EXCEPT !.wrote = TRUE].steps = call.steps
  BY <1>1 DEF Call
<1>9. Continue([call EXCEPT !.wrote = TRUE])
  BY DEF Insert
<1>10. \A i \in own' : i <= minted' /\ (i \in own \/ \A s \in Scopes :
                         answer[s] # Miss => i \notin Shown(s)')
  BY <1>5, <1>6, <1>7
<1>11. call.steps[1] \in Writes
  BY <1>1 DEF Writes
<1> QED BY <1>1, <1>2, <1>4, <1>5, <1>8, <1>9, <1>10, <1>11, WriteStep

LEMMA SupersedeStep == IInv /\ Supersede => IInv'
<1> SUFFICES ASSUME IInv, Supersede PROVE IInv'
  OBVIOUS
<1>1. call \in Call /\ Orderly(call.steps) /\ call.steps[1] \in Writes
  <2>1. CASE At("supersede")
    BY <2>1, AtFirst DEF IInv, Writes
  <2>2. CASE At("close")
    BY <2>2, AtFirst DEF IInv, Writes
  <2> QED BY <2>1, <2>2 DEF Supersede
<1>2. UNCHANGED <<minted, answer, own>>
  BY DEF Supersede, memory
<1>3. Ageing
  <2>1. CASE UNCHANGED rows
    BY <1>2, <2>1 DEF Ageing, IInv, Types, Minted, Ids
  <2>2. CASE /\ call.old \in Ids /\ Present(call.old)
             /\ rows' = [rows EXCEPT ![call.old].live = FALSE]
    <3>1. rows[call.old] \in Row
      BY <2>2 DEF IInv, Types, Present
    <3>2. rows'[call.old] = [rows[call.old] EXCEPT !.live = FALSE]
      BY <2>2 DEF IInv, Types
    <3>3. /\ rows'[call.old] \in Row /\ ~rows'[call.old].live
          /\ rows'[call.old].scope = rows[call.old].scope
      BY <3>1, <3>2 DEF Row
    <3>4. \A i \in Ids : i # call.old => rows'[i] = rows[i]
      BY <2>2 DEF IInv, Types
    <3>5. rows' \in [Ids -> Row \cup {NoRow}]
      BY <2>2, <3>3, <3>4 DEF IInv, Types
    <3>6. \A i \in Ids : i > minted' => rows'[i] = NoRow
      BY <1>2, <2>2, <3>4 DEF IInv, Minted, Present
    <3> QED BY <1>2, <2>2, <3>3, <3>4, <3>5, <3>6 DEF Ageing, IInv, Types, Present
  <2> QED BY <2>1, <2>2 DEF Supersede
<1>4. own' \in SUBSET Ids /\ \A i \in own' : i <= minted' /\ i \in own
  BY <1>2 DEF IInv, Types, Minted
<1>5. PICK c \in Call : c.steps = call.steps /\ Continue(c)
  <2>1. [call EXCEPT !.wrote = TRUE] \in Call /\ [call EXCEPT !.wrote = TRUE].steps = call.steps
    BY <1>1 DEF Call
  <2> QED BY <1>1, <2>1 DEF Supersede
<1> QED BY <1>1, <1>2, <1>3, <1>4, <1>5, WriteStep

LEMMA OtherWriteStep == IInv /\ OtherWrite => IInv'
<1> SUFFICES ASSUME IInv, OtherWrite PROVE IInv'
  OBVIOUS
<1>1. UNCHANGED <<answer, call, own>>
  BY DEF OtherWrite, memory
<1>2. Ageing
  <2>1. CASE /\ minted < MaxId /\ minted' = minted + 1
             /\ \E row \in Row : rows' = [rows EXCEPT ![minted'] = row]
    <3>1. PICK row \in Row : rows' = [rows EXCEPT ![minted'] = row]
      BY <2>1
    <3>2. /\ minted \in Nat /\ minted' \in Ids /\ minted' \in 0..MaxId /\ minted <= minted'
          /\ rows' \in [Ids -> Row \cup {NoRow}]
      BY <2>1, <3>1, DispatchAssumption DEF IInv, Types, Ids
    <3>3. \A i \in Ids : i # minted' => rows'[i] = rows[i]
      BY <3>1 DEF IInv, Types
    <3>4. \A i \in Ids : (i > minted' => i > minted /\ i # minted') /\ (i <= minted => i # minted')
      BY <2>1, <3>2 DEF Ids
    <3> QED BY <3>2, <3>3, <3>4 DEF Ageing, IInv, Minted
  <2>2. CASE /\ \E i \in Ids : Present(i) /\ rows' = [rows EXCEPT ![i].live = FALSE]
             /\ UNCHANGED minted
    <3>1. PICK old \in Ids : Present(old) /\ rows' = [rows EXCEPT ![old].live = FALSE]
      BY <2>2
    <3>2. rows[old] \in Row /\ rows'[old] = [rows[old] EXCEPT !.live = FALSE]
      BY <3>1 DEF IInv, Types, Present
    <3>3. rows'[old] \in Row /\ ~rows'[old].live /\ rows'[old].scope = rows[old].scope
      BY <3>2 DEF Row
    <3>4. \A i \in Ids : i # old => rows'[i] = rows[i]
      BY <3>1 DEF IInv, Types
    <3>5. rows' \in [Ids -> Row \cup {NoRow}]
      BY <3>1, <3>3, <3>4 DEF IInv, Types
    <3>6. \A i \in Ids : i > minted' => rows'[i] = NoRow
      BY <2>2, <3>1, <3>4 DEF IInv, Minted, Present
    <3> QED BY <2>2, <3>1, <3>3, <3>4, <3>5, <3>6 DEF Ageing, IInv, Types, Present
  <2>3. CASE /\ \E i \in Ids : Present(i) /\ rows' = [rows EXCEPT ![i] = NoRow]
             /\ UNCHANGED minted
    BY <2>3 DEF Ageing, IInv, Types, Minted, Present, Ids
  <2> QED BY <2>1, <2>2, <2>3 DEF OtherWrite
<1>3. Types' /\ Minted'
  BY <1>1, <1>2 DEF IInv, Types, Minted, Ageing, Ids
<1>4. \A found \in SUBSET Ids, s \in Scopes : Covers(found, s) => Covers(found, s)'
  <2>1. own' \in SUBSET Ids /\ \A i \in own' : i \in own
    BY <1>1 DEF IInv, Types
  <2> QED BY <1>2, <2>1, CoversOn DEF IInv
<1>5. AnswersSound'
  <2> SUFFICES ASSUME NEW s \in Scopes, answer[s] # Miss
               PROVE  Covers(answer[s], s)'
    BY <1>1 DEF AnswersSound
  <2>1. PICK found \in SUBSET Ids : found = answer[s] /\ Covers(found, s)
    BY DEF IInv, AnswersSound, Types
  <2>2. Covers(found, s)'
    BY <1>4, <2>1
  <2> QED BY <1>1, <2>1, <2>2 DEF Covers
<1>6. CallSound'
  <2>1. CASE call = NoCall
    BY <1>1, <2>1 DEF CallSound
  <2>2. CASE call # NoCall
    <3>1. call \in Call /\ call.scope \in Scopes /\ call.found \in SUBSET Ids
      BY <2>2 DEF IInv, CallSound, Call
    <3>2. Covers(call.found, call.scope) => Covers(call.found, call.scope)'
      <4>1. PICK found \in SUBSET Ids, s \in Scopes : found = call.found /\ s = call.scope
        BY <3>1
      <4>2. Covers(found, s) => Covers(found, s)'
        BY <1>4
      <4> QED BY <1>1, <4>1, <4>2 DEF Covers
    <3> QED BY <1>1, <2>2, <3>1, <3>2 DEF IInv, CallSound
  <2> QED BY <2>1, <2>2
<1> QED BY <1>3, <1>5, <1>6 DEF IInv

(* What has just been read is sound for the scope that asked. *)
LEMMA ReadStep == IInv /\ Read => IInv'
<1> SUFFICES ASSUME IInv, Read PROVE IInv'
  OBVIOUS
<1>1. call \in Call /\ Orderly(call.steps) /\ call.steps[1] = "read"
  BY AtFirst DEF IInv, Read
<1>2. UNCHANGED <<rows, minted, own, answer>>
  BY DEF Read, memory
<1>3. Types' /\ Minted' /\ AnswersSound'
  BY <1>2, CoversSame DEF IInv, Types, Minted, AnswersSound
<1> DEFINE c == [call EXCEPT !.found = Shown(call.scope)]
<1>4. /\ c \in Call /\ c.steps = call.steps /\ c.scope = call.scope
      /\ c.found = Shown(call.scope) /\ c.wrote = call.wrote
  BY <1>1 DEF Call, Shown
<1>5. Continue(c)
  BY DEF Read
<1>6. Covers(Shown(call.scope), call.scope)
  <2>1. \A i \in Shown(call.scope) : i <= minted
    BY DispatchAssumption DEF IInv, Types, Minted, Shown, Present, Ids
  <2> QED BY <2>1 DEF Covers, Shown
<1> HIDE DEF c
<1>7. CallSound'
  <2>1. CASE call' = NoCall
    BY <2>1 DEF CallSound
  <2>2. CASE call' # NoCall
    <3>1. /\ call' \in Call /\ Orderly(call'.steps)
          /\ call'.scope = call.scope /\ call'.found = Shown(call.scope)
          /\ call'.wrote = call.wrote
          /\ ~Commits(call'.steps)
          /\ Asks(call'.steps) => Asks(call.steps)
      BY <1>1, <1>4, <1>5, <2>2, Continued
    <3>2. PICK found \in SUBSET Ids, s \in Scopes :
            found = call'.found /\ s = call'.scope /\ Covers(found, s)
      BY <1>6, <3>1 DEF Call
    <3>4. Covers(found, s)'
      BY <1>2, <3>2, CoversSame
    <3>3. call.wrote => ~Asks(call.steps)
      BY <1>1 DEF IInv, CallSound, Call, NoCall, Orderly
    <3> QED BY <3>1, <3>2, <3>3, <3>4 DEF CallSound, Covers
  <2> QED BY <2>1, <2>2
<1> QED BY <1>3, <1>7 DEF IInv

(* What was read may have aged since, but it is still sound. *)
LEMMA KeepStep == IInv /\ Keep => IInv'
<1> SUFFICES ASSUME IInv, Keep PROVE IInv'
  OBVIOUS
<1>1. call \in Call /\ Orderly(call.steps) /\ call.steps[1] = "keep"
  BY AtFirst DEF IInv, Keep
<1>2. UNCHANGED <<rows, minted, own>> /\ Continue(call) /\ Kept(call.scope)
  BY DEF Keep, Key
<1>3. call.scope \in Scopes /\ call.found \in SUBSET Ids
  BY <1>1 DEF Call
<1>4. Covers(call.found, call.scope)
  BY <1>1 DEF IInv, CallSound, NoCall, Call, Orderly
<1>5. /\ answer' \in [Scopes -> (SUBSET Ids) \cup {Miss}]
      /\ \A s \in Scopes : answer'[s] = answer[s] \/ answer'[s] = Miss
                           \/ (s = call.scope /\ answer'[s] = call.found)
  <2>1. CASE answer' = [answer EXCEPT ![call.scope] = call.found]
    BY <1>3, <2>1 DEF IInv, Types
  <2>2. CASE \E last : answer' = [answer EXCEPT ![call.scope] = call.found, ![last] = Miss]
    BY <1>3, <2>2 DEF IInv, Types
  <2>3. \/ answer' = [answer EXCEPT ![call.scope] = call.found]
        \/ \E last : answer' = [answer EXCEPT ![call.scope] = call.found, ![last] = Miss]
    BY <1>2 DEF Kept
  <2> QED BY <2>1, <2>2, <2>3
<1>6. Types' /\ Minted'
  BY <1>2, <1>5 DEF IInv, Types, Minted
<1>7. AnswersSound'
  <2> SUFFICES ASSUME NEW s \in Scopes, answer'[s] # Miss
               PROVE  Covers(answer[s], s)'
    BY DEF AnswersSound
  <2>1. PICK found \in SUBSET Ids : found = answer'[s] /\ Covers(found, s)
    BY <1>4, <1>5 DEF IInv, AnswersSound
  <2>2. Covers(found, s)'
    BY <1>2, <2>1, CoversSame
  <2> QED BY <2>1, <2>2 DEF Covers
<1>8. CallSound'
  <2>1. CASE call' = NoCall
    BY <2>1 DEF CallSound
  <2>2. CASE call' # NoCall
    <3>1. /\ call' \in Call /\ Orderly(call'.steps) /\ call'.wrote = call.wrote
          /\ call'.steps[1] # "keep" /\ ~Commits(call'.steps)
          /\ Asks(call'.steps) => Asks(call.steps)
      BY <1>1, <1>2, <2>2, Continued
    <3>2. call.wrote => ~Asks(call.steps)
      BY <1>1 DEF IInv, CallSound, Call, NoCall, Orderly
    <3> QED BY <3>1, <3>2 DEF CallSound
  <2> QED BY <2>1, <2>2
<1> QED BY <1>6, <1>7, <1>8 DEF IInv

LEMMA Inductive == IInv /\ [Next]_vars => IInv'
<1> SUFFICES ASSUME IInv, [Next]_vars PROVE IInv'
  OBVIOUS
<1>1. CASE ToolCall
  BY <1>1, CallsBeginWell
<1>2. CASE Step
  BY <1>2, QuietSteps, InvalidateStep, InsertStep, SupersedeStep, ReadStep, KeepStep
     DEF Step
<1>3. CASE OtherWrite
  BY <1>3, OtherWriteStep
<1>4. CASE Restart
  <2>1. Types' /\ Minted' /\ AnswersSound' /\ CallSound'
    BY <1>4 DEF Restart, IInv, Types, Minted, AnswersSound, CallSound
  <2> QED BY <2>1 DEF IInv
<1>5. CASE Tick \/ UNCHANGED vars
  <2>1. UNCHANGED <<rows, minted, own, answer, call>>
    BY <1>5 DEF Tick, vars, memory
  <2>2. Types' /\ Minted' /\ AnswersSound'
    BY <2>1, CoversSame DEF IInv, Types, Minted, AnswersSound
  <2>3. CallSound'
    BY <2>1 DEF IInv, CallSound, Covers, Shown, Present, InScope
  <2> QED BY <2>2, <2>3 DEF IInv
<1> QED BY <1>1, <1>2, <1>3, <1>4, <1>5 DEF Next

-------------------------------------------------------------------------------
(* The window only grows by one entry at its end and loses some at its     *)
(* start.                                                                  *)
Window == spent \in Seq(BOOLEAN)

LEMMA WindowTyped == Window /\ [Next]_vars => Window'
<1> SUFFICES ASSUME spent \in Seq(BOOLEAN), [Next]_vars PROVE spent' \in Seq(BOOLEAN)
  BY DEF Window
<1>1. Charged(TRUE) \in Seq(BOOLEAN) /\ Charged(FALSE) \in Seq(BOOLEAN)
  BY AppendProperties DEF Charged
<1>2. CASE ToolCall
  <2>1. spent' = Charged(TRUE)
    BY <1>2 DEF ToolCall, RecallCall, CommitCall, CheckpointCall, ReplanCall, UpdateCall,
                OtherCall, Begin
  <2> QED BY <1>1, <2>1
<1>3. CASE Step
  BY <1>1, <1>3 DEF Step, Charge, Invalidate, Insert, Supersede, Predict, Look, Read, Keep,
                    Fail, memory
<1>4. CASE Tick
  <2>1. PICK n \in DOMAIN spent : spent' = SubSeq(spent, n + 1, Len(spent))
    BY <1>4 DEF Tick
  <2>2. Len(spent) \in Nat /\ n \in 1..Len(spent)
    BY LenProperties
  <2>3. \A m \in (n + 1)..Len(spent) : spent[m] \in BOOLEAN
    BY <2>2, ElementOfSeq
  <2> QED BY <2>1, <2>2, <2>3, SubSeqProperties
<1>5. CASE OtherWrite \/ UNCHANGED vars
  BY <1>5 DEF OtherWrite, vars, memory
<1>6. CASE Restart
  BY <1>6 DEF Restart
<1> QED BY <1>2, <1>3, <1>4, <1>5, <1>6 DEF Next

(* How many checks a call still asks for: two at most, whatever it does.   *)
Asking(step) == step \in {"charge", "predict"}
AskingAt(steps) == {n \in 1..Len(steps) : Asking(steps[n])}
Left(steps) == Cardinality(AskingAt(steps))

LEMMA LeftOfPlans == \A steps \in Plans : Left(steps) \in 0..2
<1>1. ASSUME NEW S, NEW a \in Int, NEW b \in Int, S \subseteq {a, b}
      PROVE  Cardinality(S) \in 0..2
  <2>1. IsFiniteSet({}) /\ Cardinality({}) = 0
    BY FS_EmptySet
  <2>2. IsFiniteSet({} \cup {a}) /\ Cardinality({} \cup {a}) = 1
    BY <2>1, FS_AddElement
  <2> DEFINE A == {} \cup {a}
  <2>3. IsFiniteSet(A \cup {b}) /\ Cardinality(A \cup {b}) \in {1, 2}
    <3> HIDE DEF A
    <3> QED BY <2>2, FS_AddElement DEF A
  <2> DEFINE B == A \cup {b}
  <2>4. S \in SUBSET B
    BY <1>1
  <2>5. IsFiniteSet(S) /\ Cardinality(S) <= Cardinality(B)
    <3> HIDE DEF B
    <3> QED BY <2>3, <2>4, FS_Subset DEF B
  <2>6. Cardinality(S) \in Nat
    BY <2>5, FS_CardinalityType
  <2> QED BY <2>3, <2>5, <2>6
<1>2. ASSUME NEW steps \in Plans
      PROVE  \E a, b \in 1..6 : AskingAt(steps) \subseteq {a, b}
  <2> USE DEF AskingAt, Asking
  <2>1. CASE steps \in {Searching, Checkpointing, Replanning, Updating, Invoking}
    <3>1. 1 \in 1..6 /\ 1 \in 1..6 /\ AskingAt(steps) \subseteq {1, 1}
      BY <2>1 DEF Searching, Checkpointing, Replanning, Updating, Invoking
    <3> QED BY <3>1
  <2>2. CASE steps \in {Committing, Conflicting, Declining}
    <3>1. 2 \in 1..6 /\ 2 \in 1..6 /\ AskingAt(steps) \subseteq {2, 2}
      BY <2>2 DEF Committing, Conflicting, Declining
    <3> QED BY <3>1
  <2>3. CASE steps = SemanticUpdating
    <3>1. 1 \in 1..6 /\ 2 \in 1..6 /\ AskingAt(steps) \subseteq {1, 2}
      BY <2>3 DEF SemanticUpdating
    <3> QED BY <3>1
  <2>4. CASE steps = ForeseeingCheckpoint
    <3>1. 1 \in 1..6 /\ 3 \in 1..6 /\ AskingAt(steps) \subseteq {1, 3}
      BY <2>4 DEF ForeseeingCheckpoint
    <3> QED BY <3>1
  <2>5. CASE steps = ForeseeingCommit
    <3>1. 2 \in 1..6 /\ 4 \in 1..6 /\ AskingAt(steps) \subseteq {2, 4}
      BY <2>5 DEF ForeseeingCommit
    <3> QED BY <3>1
  <2> QED BY <2>1, <2>2, <2>3, <2>4, <2>5 DEF Plans
<1> QED BY <1>1, <1>2 DEF Left

(* Numbering the elements of a set from another number on. *)
LEMMA Renumbered ==
  ASSUME NEW S \in SUBSET Int, IsFiniteSet(S), NEW d \in Int, NEW T \in SUBSET Int,
         \A n \in Int : n \in T <=> n + d \in S
  PROVE  IsFiniteSet(T) /\ Cardinality(T) = Cardinality(S)
<1> DEFINE f == [n \in S |-> n - d]
<1>1. f \in [S -> T]
  <2>1. ASSUME NEW n \in S PROVE n - d \in T
    BY (n - d) + d = n
  <2> QED BY <2>1
<1>2. f \in Injection(S, T)
  BY <1>1 DEF Injection, IsInjective
<1>3. \A t \in T : \E n \in S : f[n] = t
  <2>1. ASSUME NEW t \in T PROVE t + d \in S /\ f[t + d] = t
    BY (t + d) - d = t
  <2> QED BY <2>1
<1>4. f \in Bijection(S, T)
  BY <1>1, <1>2, <1>3 DEF Bijection, Surjection
<1>5. ExistsBijection(S, T)
  BY <1>4 DEF ExistsBijection
<1> QED BY <1>5, FS_Bijection

LEMMA LeftOfRest ==
  ASSUME NEW steps \in Seq(Steps), steps # <<>>
  PROVE  /\ Left(steps) \in Nat
         /\ Left(Tail(steps)) \in Nat
         /\ Left(Tail(steps)) + (IF Asking(steps[1]) THEN 1 ELSE 0) = Left(steps)
<1>1. /\ Len(steps) \in Nat /\ Len(steps) # 0
      /\ Len(Tail(steps)) = Len(steps) - 1
      /\ \A n \in 1..Len(Tail(steps)) : Tail(steps)[n] = steps[n + 1]
  BY EmptySeq, HeadTailProperties, LenProperties
<1> DEFINE S == AskingAt(steps)
           R == S \ {1}
           T == AskingAt(Tail(steps))
<1>2. IsFiniteSet(1..Len(steps))
  BY <1>1, FS_Interval
<1>3. IsFiniteSet(S)
  BY <1>2, FS_Subset DEF AskingAt
<1>4. /\ IsFiniteSet(R)
      /\ Cardinality(R) = IF 1 \in S THEN Cardinality(S) - 1 ELSE Cardinality(S)
  BY <1>3, FS_RemoveElement
<1>5. 1 \in S <=> Asking(steps[1])
  BY <1>1 DEF AskingAt
<1>6. R \in SUBSET Int /\ T \in SUBSET Int /\ \A n \in Int : n \in T <=> n + 1 \in R
  BY <1>1 DEF AskingAt
<1>7. IsFiniteSet(T) /\ Cardinality(T) = Cardinality(R)
  <2> HIDE DEF R, T
  <2>1. 1 \in Int
    OBVIOUS
  <2> QED BY <2>1, <1>4, <1>6, Renumbered
<1>8. Cardinality(S) \in Nat /\ Cardinality(T) \in Nat
  BY <1>3, <1>7, FS_CardinalityType
<1> QED BY <1>4, <1>5, <1>7, <1>8 DEF Left

-------------------------------------------------------------------------------
(* The calls the window has let in                                         *)

LetIn(window, m) == {n \in (m + 1)..Len(window) : window[n]}

Due == IF call = NoCall THEN 0 ELSE Left(call.steps)

(* From any point of the window on, each call that was let in stands for   *)
(* three checks at most, those it has still to ask for included, and an    *)
(* older one for two.                                                      *)
Paced(w, d) ==
  \A m \in 0..Len(w) : (Len(w) - m) + d <= 3 * Cardinality(LetIn(w, m)) + 2

PaceInv == IInv /\ Window /\ Due \in 0..2 /\ (Limit > 0 => Paced(spent, Due))

LEMMA LetInFinite ==
  ASSUME NEW w \in Seq(BOOLEAN), NEW m \in Nat
  PROVE  /\ IsFiniteSet(LetIn(w, m)) /\ Cardinality(LetIn(w, m)) \in Nat
         /\ Len(w) \in Nat
<1>1. Len(w) \in Nat
  BY LenProperties
<1>2. IsFiniteSet((m + 1)..Len(w))
  BY <1>1, FS_Interval
<1>3. LetIn(w, m) \in SUBSET ((m + 1)..Len(w))
  BY DEF LetIn
<1> HIDE DEF LetIn
<1>4. IsFiniteSet(LetIn(w, m))
  BY <1>2, <1>3, FS_Subset
<1> QED BY <1>1, <1>4, FS_CardinalityType

(* One more entry.                                                         *)
LEMMA LetInAppend ==
  ASSUME NEW w \in Seq(BOOLEAN), NEW first \in BOOLEAN
  PROVE  /\ Len(w) \in Nat /\ Len(Append(w, first)) = Len(w) + 1
         /\ \A m \in 0..Len(w) :
              /\ Cardinality(LetIn(w, m)) \in Nat
              /\ Cardinality(LetIn(Append(w, first), m)) =
                   IF first THEN Cardinality(LetIn(w, m)) + 1 ELSE Cardinality(LetIn(w, m))
<1> DEFINE v == Append(w, first)
<1>1. /\ Len(w) \in Nat /\ v \in Seq(BOOLEAN) /\ Len(v) = Len(w) + 1
      /\ \A n \in 1..Len(w) : v[n] = w[n]
      /\ v[Len(w) + 1] = first
  BY LenProperties, AppendProperties
<1> HIDE DEF v
<1>2. ASSUME NEW m \in 0..Len(w)
      PROVE  /\ Cardinality(LetIn(w, m)) \in Nat
             /\ Cardinality(LetIn(v, m)) =
                  IF first THEN Cardinality(LetIn(w, m)) + 1 ELSE Cardinality(LetIn(w, m))
  <2>1. IsFiniteSet(LetIn(w, m)) /\ Cardinality(LetIn(w, m)) \in Nat
    BY LetInFinite
  <2>2. CASE first
    <3>0. v[Len(w) + 1] /\ \A n \in 1..Len(w) : v[n] <=> w[n]
      BY <1>1, <2>2
    <3>1. LetIn(v, m) = LetIn(w, m) \cup {Len(w) + 1} /\ Len(w) + 1 \notin LetIn(w, m)
      BY <1>1, <3>0 DEF LetIn
    <3> QED BY <2>1, <2>2, <3>1, FS_AddElement
  <2>3. CASE ~first
    <3>1. LetIn(v, m) = LetIn(w, m)
      BY <1>1, <2>3 DEF LetIn
    <3> QED BY <2>1, <2>3, <3>1
  <2> QED BY <2>2, <2>3
<1> QED BY <1>1, <1>2 DEF v

(* The oldest entries leave. *)
LEMMA LetInDropped ==
  ASSUME NEW w \in Seq(BOOLEAN), NEW k \in 1..Len(w), NEW m \in Nat
  PROVE  /\ Len(w) \in Nat /\ Len(SubSeq(w, k + 1, Len(w))) = Len(w) - k
         /\ Cardinality(LetIn(SubSeq(w, k + 1, Len(w)), m)) = Cardinality(LetIn(w, m + k))
<1> DEFINE v == SubSeq(w, k + 1, Len(w))
<1>1. Len(w) \in Nat /\ k \in Nat
  BY LenProperties
<1>2. \A n \in (k + 1)..Len(w) : w[n] \in BOOLEAN
  BY <1>1, ElementOfSeq
<1>3. Len(v) = Len(w) - k /\ \A n \in 1..Len(v) : v[n] = w[n + k]
  <2>1. v \in Seq(BOOLEAN) /\ Len(v) = (IF k + 1 <= Len(w) THEN Len(w) - (k + 1) + 1 ELSE 0)
        /\ \A n \in 1..Len(v) : v[n] = w[(k + 1) + n - 1]
    BY <1>1, <1>2, SubSeqProperties
  <2> QED BY <1>1, <2>1
<1> HIDE DEF v
<1>4. IsFiniteSet(LetIn(w, m + k))
  BY <1>1, LetInFinite
<1>5. /\ LetIn(w, m + k) \in SUBSET Int /\ LetIn(v, m) \in SUBSET Int
      /\ \A n \in Int : n \in LetIn(v, m) <=> n + k \in LetIn(w, m + k)
  BY <1>1, <1>3 DEF LetIn
<1>6. Cardinality(LetIn(v, m)) = Cardinality(LetIn(w, m + k))
  <2> DEFINE S == LetIn(w, m + k)
             T == LetIn(v, m)
  <2> HIDE DEF S, T
  <2>1. /\ IsFiniteSet(S) /\ S \in SUBSET Int /\ T \in SUBSET Int
        /\ \A n \in Int : n \in T <=> n + k \in S
    BY <1>4, <1>5 DEF S, T
  <2>2. k \in Int
    BY <1>1
  <2>3. Cardinality(T) = Cardinality(S)
    BY <2>1, <2>2, Renumbered
  <2> QED BY <2>3 DEF S, T
<1> QED BY <1>1, <1>3, <1>6 DEF v

(* A step of a call leaves it fewer checks to ask for by those it made.    *)
LEMMA DueAfter ==
  ASSUME NEW c \in Call, Orderly(c.steps), Continue(c)
  PROVE  /\ Left(c.steps) \in Nat /\ Due' \in Nat
         /\ Due' + (IF Asking(c.steps[1]) THEN 1 ELSE 0) <= Left(c.steps)
<1>1. c.steps \in Seq(Steps) /\ c.steps # <<>>
  BY DEF Orderly
<1>2. /\ Left(c.steps) \in Nat /\ Left(Tail(c.steps)) \in Nat
      /\ Left(Tail(c.steps)) + (IF Asking(c.steps[1]) THEN 1 ELSE 0) = Left(c.steps)
  BY <1>1, LeftOfRest
<1>3. CASE Len(c.steps) = 1
  <2>1. Due' = 0
    BY <1>3 DEF Continue, Due
  <2> QED BY <1>2, <2>1
<1>4. CASE Len(c.steps) # 1
  <2>1. call' = [c EXCEPT !.steps = Tail(@)]
    BY <1>4 DEF Continue
  <2>2. call'.steps = Tail(c.steps)
    BY <2>1 DEF Call
  <2>3. Tail(c.steps) # <<>>
    BY <1>4, Rest DEF Orderly
  <2>4. call' # NoCall
    <3>1. NoCall.steps = <<>>
      BY DEF NoCall
    <3> QED BY <2>2, <2>3, <3>1
  <2>5. Due' = Left(Tail(c.steps))
    BY <2>2, <2>4 DEF Due
  <2> QED BY <1>2, <2>5
<1> QED BY <1>3, <1>4

LEMMA BegunDue ==
  ASSUME ToolCall
  PROVE  Due = 0 /\ ~Saturated /\ spent' = Charged(TRUE) /\ Due' \in 0..2
<1>1. ASSUME NEW steps \in Plans \cup {<<>>}, NEW s, NEW live, NEW old,
             Begin(steps, s, live, old)
      PROVE  Due = 0 /\ ~Saturated /\ spent' = Charged(TRUE) /\ Due' \in 0..2
  <2>1. call = NoCall /\ ~Saturated /\ spent' = Charged(TRUE)
    BY <1>1 DEF Begin
  <2>2. CASE steps = <<>>
    BY <1>1, <2>1, <2>2 DEF Begin, Due
  <2>3. CASE steps # <<>>
    <3>1. call'.steps = steps
      BY <1>1, <2>3 DEF Begin
    <3>2. Left(steps) \in 0..2
      BY <2>3, LeftOfPlans
    <3> QED BY <2>1, <3>1, <3>2 DEF Due
  <2> QED BY <2>2, <2>3
<1>2. CASE RecallCall
  BY <1>1, <1>2 DEF RecallCall, Plans
<1>3. CASE CommitCall
  BY <1>1, <1>3 DEF CommitCall, Plans
<1>4. CASE CheckpointCall
  BY <1>1, <1>4 DEF CheckpointCall, Plans
<1>5. CASE ReplanCall
  BY <1>1, <1>5 DEF ReplanCall, Plans
<1>6. CASE UpdateCall
  BY <1>1, <1>6 DEF UpdateCall, Plans
<1>7. CASE OtherCall
  BY <1>1, <1>7 DEF OtherCall, Plans
<1> QED BY <1>2, <1>3, <1>4, <1>5, <1>6, <1>7 DEF ToolCall

(* What a step of a call does to the window and to what is due.            *)
LEMMA StepDue ==
  ASSUME IInv, Step
  PROVE  /\ Due \in Nat /\ Due' \in Nat
         /\ \/ spent' = spent /\ Due' <= Due
            \/ spent' = Charged(FALSE) /\ Due' + 1 <= Due
<1> USE DEF memory
<1>1. ASSUME NEW step, At(step)
      PROVE  /\ call \in Call /\ Orderly(call.steps) /\ call.steps[1] = step
             /\ Due = Left(call.steps) /\ Due \in Nat
  <2>1. call \in Call /\ Orderly(call.steps) /\ call.steps[1] = step /\ call # NoCall
    BY <1>1, AtFirst DEF IInv, At
  <2>2. Left(call.steps) \in Nat
    BY <2>1, LeftOfRest DEF Orderly
  <2> QED BY <2>1, <2>2 DEF Due
<1>2. ASSUME Due \in Nat, End PROVE Due' = 0 /\ Due' \in Nat /\ Due' <= Due
  BY <1>2 DEF End, Due
<1>3. CASE Charge \/ Predict
  <2>1. /\ call \in Call /\ Orderly(call.steps) /\ Asking(call.steps[1])
        /\ Due = Left(call.steps) /\ Due \in Nat
    BY <1>1, <1>3 DEF Charge, Predict, Asking
  <2>2. CASE End /\ UNCHANGED spent
    BY <1>2, <2>1, <2>2
  <2>3. CASE spent' = Charged(FALSE) /\ Continue(call)
    <3>1. Due' \in Nat /\ Due' + (IF Asking(call.steps[1]) THEN 1 ELSE 0) <= Left(call.steps)
      BY <2>1, <2>3, DueAfter
    <3> QED BY <2>1, <2>3, <3>1
  <2> QED BY <1>3, <2>2, <2>3 DEF Charge, Predict
<1>4. ASSUME NEW step, At(step), NEW c \in Call, c.steps = call.steps, Continue(c)
      PROVE  Due \in Nat /\ Due' \in Nat /\ Due' <= Due
  <2>1. Orderly(c.steps) /\ Due = Left(c.steps) /\ Due \in Nat
    BY <1>1, <1>4
  <2>2. Due' \in Nat /\ Due' + (IF Asking(c.steps[1]) THEN 1 ELSE 0) <= Left(c.steps)
    BY <1>4, <2>1, DueAfter
  <2> QED BY <2>1, <2>2
<1>5. CASE Invalidate \/ Keep
  <2>1. spent' = spent /\ Continue(call) /\ \E step : At(step)
    BY <1>5 DEF Invalidate, Keep
  <2> QED BY <1>1, <1>4, <2>1
<1>6. CASE Look
  <2>1. At("look") /\ spent' = spent /\ (End \/ Continue(call))
    BY <1>6 DEF Look
  <2> QED BY <1>1, <1>2, <1>4, <2>1
<1>7. CASE Insert \/ Supersede
  <2>1. spent' = spent /\ \E step : At(step)
    BY <1>7 DEF Insert, Supersede
  <2> DEFINE c == [call EXCEPT !.wrote = TRUE]
  <2>2. c \in Call /\ c.steps = call.steps
    BY <1>1, <2>1 DEF Call
  <2>3. Continue(c) \/ Continue(call)
    BY <1>7 DEF Insert, Supersede
  <2> HIDE DEF c
  <2> QED BY <1>1, <1>4, <2>1, <2>2, <2>3
<1>8. CASE Read
  <2>1. At("read") /\ spent' = spent
    BY <1>8 DEF Read
  <2> DEFINE c == [call EXCEPT !.found = Shown(call.scope)]
  <2>2. c \in Call /\ c.steps = call.steps
    BY <1>1, <2>1 DEF Call, Shown
  <2>3. Continue(c)
    BY <1>8 DEF Read
  <2> HIDE DEF c
  <2> QED BY <1>4, <2>1, <2>2, <2>3
<1>9. CASE Fail
  <2>1. spent' = spent /\ End /\ call # NoCall
    BY <1>9 DEF Fail
  <2>2. Due \in Nat
    BY <2>1, LeftOfRest DEF IInv, CallSound, Orderly, Due
  <2> QED BY <1>2, <2>1, <2>2
<1> QED BY <1>3, <1>5, <1>6, <1>7, <1>8, <1>9 DEF Step

LEMMA PaceOfAppend ==
  ASSUME NEW w \in Seq(BOOLEAN), NEW d \in 0..2, NEW e \in 0..2, NEW first \in BOOLEAN,
         first => d = 0, ~first => e + 1 <= d, Paced(w, d)
  PROVE  Paced(Append(w, first), e)
<1> DEFINE v == Append(w, first)
           C(m) == Cardinality(LetIn(w, m))
           D(m) == Cardinality(LetIn(v, m))
<1>1. /\ Len(w) \in Nat /\ Len(v) = Len(w) + 1 /\ v \in Seq(BOOLEAN)
      /\ \A m \in 0..Len(w) : /\ C(m) \in Nat
                              /\ D(m) = IF first THEN C(m) + 1 ELSE C(m)
  BY LetInAppend, AppendProperties
<1>2. \A m \in 0..Len(w) : (Len(w) - m) + d <= 3 * C(m) + 2
  BY DEF Paced
<1>3. D(Len(w) + 1) \in Nat
  BY <1>1, LetInFinite
<1> HIDE DEF v, C, D
<1>4. ASSUME NEW m \in 0..Len(w) PROVE (Len(v) - m) + e <= 3 * D(m) + 2
  <2>1. C(m) \in Nat /\ (Len(w) - m) + d <= 3 * C(m) + 2
    BY <1>1, <1>2
  <2>2. CASE first
    <3>1. D(m) = C(m) + 1 /\ d = 0
      BY <1>1, <2>2
    <3> QED BY <1>1, <2>1, <3>1
  <2>3. CASE ~first
    <3>1. D(m) = C(m) /\ e + 1 <= d
      BY <1>1, <2>3
    <3> QED BY <1>1, <2>1, <3>1
  <2> QED BY <2>2, <2>3
<1>5. (Len(v) - (Len(w) + 1)) + e <= 3 * D(Len(w) + 1) + 2
  BY <1>1, <1>3
<1>6. \A m \in 0..Len(v) : m \in 0..Len(w) \/ m = Len(w) + 1
  BY <1>1
<1>7. \A m \in 0..Len(v) : (Len(v) - m) + e <= 3 * D(m) + 2
  BY <1>4, <1>5, <1>6
<1> QED BY <1>7 DEF Paced, D, v

LEMMA PaceOfDropped ==
  ASSUME NEW w \in Seq(BOOLEAN), NEW d \in 0..2, NEW k \in 1..Len(w), Paced(w, d)
  PROVE  Paced(SubSeq(w, k + 1, Len(w)), d)
<1> DEFINE v == SubSeq(w, k + 1, Len(w))
           C(m) == Cardinality(LetIn(w, m))
           D(m) == Cardinality(LetIn(v, m))
<1>1. Len(w) \in Nat /\ Len(v) = Len(w) - k /\ \A m \in Nat : D(m) = C(m + k)
  BY LetInDropped, LenProperties
<1>2. \A m \in 0..Len(w) : (Len(w) - m) + d <= 3 * C(m) + 2
  BY DEF Paced
<1> HIDE DEF v, C, D
<1>3. ASSUME NEW m \in 0..Len(v) PROVE (Len(v) - m) + d <= 3 * D(m) + 2
  <2>1. m \in Nat /\ m + k \in 0..Len(w) /\ Len(v) - m = Len(w) - (m + k)
    BY <1>1
  <2>2. (Len(w) - (m + k)) + d <= 3 * C(m + k) + 2 /\ D(m) = C(m + k)
    BY <1>1, <1>2, <2>1
  <2> QED BY <2>1, <2>2
<1> QED BY <1>3 DEF Paced, D, v

LEMMA PaceOfEmpty ==
  ASSUME NEW d \in 0..2
  PROVE  Paced(<<>>, d)
<1>1. Len(<<>>) = 0 /\ <<>> \in Seq(BOOLEAN)
  BY EmptySeq
<1>2. Cardinality(LetIn(<<>>, 0)) \in Nat
  BY <1>1, LetInFinite
<1> DEFINE c == Cardinality(LetIn(<<>>, 0))
<1> HIDE DEF c
<1>3. (0 - 0) + d <= 3 * c + 2
  BY <1>2 DEF c
<1> QED BY <1>1, <1>3 DEF Paced, c

LEMMA PaceOfLess ==
  ASSUME NEW w \in Seq(BOOLEAN), NEW d \in 0..2, NEW e \in Nat, e <= d
  PROVE  e \in 0..2 /\ (Paced(w, d) => Paced(w, e))
<1> DEFINE C(m) == Cardinality(LetIn(w, m))
<1>1. Len(w) \in Nat /\ \A m \in 0..Len(w) : C(m) \in Nat
  BY LetInFinite
<1> HIDE DEF C
<1>2. ASSUME NEW m \in 0..Len(w), (Len(w) - m) + d <= 3 * C(m) + 2
      PROVE  (Len(w) - m) + e <= 3 * C(m) + 2
  BY <1>1, <1>2
<1> QED BY <1>2 DEF Paced, C

LEMMA PaceStep == PaceInv /\ [Next]_vars => PaceInv'
<1> SUFFICES ASSUME PaceInv, [Next]_vars PROVE PaceInv'
  OBVIOUS
<1>1. IInv' /\ Window' /\ IInv /\ Window
  BY Inductive, WindowTyped DEF PaceInv
<1>2. PICK w, v, d, e : w = spent /\ v = spent' /\ d = Due /\ e = Due'
  OBVIOUS
<1>3. w \in Seq(BOOLEAN) /\ d \in 0..2
  BY <1>2 DEF PaceInv, Window
<1>4. SUFFICES ASSUME Limit > 0 => Paced(w, d)
               PROVE  e \in 0..2 /\ (Limit > 0 => Paced(v, e))
  BY <1>1, <1>2 DEF PaceInv
<1>5. ASSUME NEW first \in BOOLEAN, spent' = Charged(first)
      PROVE  v = IF Limit > 0 THEN Append(w, first) ELSE w
  BY <1>2, <1>5 DEF Charged
<1>6. CASE ToolCall
  <2>1. d = 0 /\ spent' = Charged(TRUE) /\ e \in 0..2
    BY <1>2, <1>6, BegunDue
  <2>2. v = IF Limit > 0 THEN Append(w, TRUE) ELSE w
    BY <1>5, <2>1
  <2>3. Paced(w, d) => Paced(Append(w, TRUE), e)
    BY <1>3, <2>1, PaceOfAppend
  <2> QED BY <1>4, <2>1, <2>2, <2>3
<1>7. CASE Step
  <2>1. /\ e \in Nat
        /\ \/ v = w /\ e <= d
           \/ spent' = Charged(FALSE) /\ e + 1 <= d
    BY <1>1, <1>2, <1>7, StepDue
  <2>2. CASE v = w /\ e <= d
    BY <1>3, <1>4, <2>1, <2>2, PaceOfLess
  <2>3. CASE spent' = Charged(FALSE) /\ e + 1 <= d
    <3>1. e \in 0..2
      BY <1>3, <2>1, <2>3
    <3>2. v = IF Limit > 0 THEN Append(w, FALSE) ELSE w
      BY <1>5, <2>3
    <3>3. Paced(w, d) => Paced(Append(w, FALSE), e)
      BY <1>3, <2>3, <3>1, PaceOfAppend
    <3> QED BY <1>4, <3>1, <3>2, <3>3
  <2> QED BY <2>1, <2>2, <2>3
<1>8. CASE Tick
  <2>1. PICK k \in DOMAIN w : v = SubSeq(w, k + 1, Len(w))
    BY <1>2, <1>8 DEF Tick
  <2>2. e = d
    BY <1>2, <1>8 DEF Tick, Due
  <2>3. k \in 1..Len(w)
    BY <1>3, LenProperties
  <2> QED BY <1>3, <1>4, <2>1, <2>2, <2>3, PaceOfDropped
<1>9. CASE OtherWrite \/ UNCHANGED vars
  <2>1. v = w /\ e = d
    BY <1>2, <1>9 DEF OtherWrite, vars, memory, Due
  <2> QED BY <1>3, <1>4, <2>1
<1>10. CASE Restart
  <2>1. v = <<>> /\ e = 0
    BY <1>2, <1>10 DEF Restart, Due
  <2> QED BY <2>1, PaceOfEmpty
<1> QED BY <1>6, <1>7, <1>8, <1>9, <1>10 DEF Next

(* The limiter refuses nobody who is not busy, for any limit and however   *)
(* the window moves under the calls: a third of the limit, less what an    *)
(* older call may have left, is the number of calls it is sure to let in.  *)
THEOREM RefusalsAreEarned == Spec => []RefusedOnlyWhenBusy
<1>1. Init => PaceInv
  <2> SUFFICES ASSUME Init PROVE PaceInv
    OBVIOUS
  <2>1. IInv /\ Window /\ Due = 0 /\ spent = <<>>
    BY Initially DEF Init, Window, Due
  <2>2. Paced(<<>>, 0)
    BY PaceOfEmpty
  <2> QED BY <2>1, <2>2 DEF PaceInv
<1>2. PaceInv => RefusedOnlyWhenBusy
  <2> SUFFICES ASSUME PaceInv, Saturated PROVE Busy
    BY DEF RefusedOnlyWhenBusy
  <2>1. Limit > 0 /\ Len(spent) >= Limit /\ Len(spent) \in Nat /\ Limit \in Int
    BY DispatchAssumption, LenProperties DEF Saturated, PaceInv, Window
  <2>2. LetIn(spent, 0) = {n \in DOMAIN spent : spent[n]}
    BY LenProperties DEF LetIn, PaceInv, Window
  <2>3. Cardinality(LetIn(spent, 0)) \in Nat
    BY LetInFinite DEF PaceInv, Window
  <2>4. (Len(spent) - 0) + Due <= 3 * Cardinality(LetIn(spent, 0)) + 2 /\ Due \in 0..2
    BY <2>1 DEF PaceInv, Paced
  <2>5. 3 * Cardinality(LetIn(spent, 0)) + 2 >= Limit
    BY <2>1, <2>3, <2>4
  <2> QED BY <2>2, <2>5 DEF Busy
<1> QED BY <1>1, <1>2, PaceStep, PTL DEF Spec

(* The variables always have the values that the tables, the window, the   *)
(* cache and a handler of the code can hold.                               *)
THEOREM TypeCorrect == Spec => []TypeOK
<1>1. IInv /\ Window => TypeOK
  BY DEF IInv, Types, CallSound, TypeOK, Window
<1>2. Init => Window
  BY DEF Init, Window
<1> QED BY <1>1, <1>2, WindowTyped, Initially, Inductive, PTL DEF Spec

(* A recall answered by the cache misses no crystal committed or ingested  *)
(* here, because a write invalidates its project before it, and a call     *)
(* that would keep an answer has read after that.                          *)
THEOREM CommitsReachCache == Spec => []NoCommitMissed
<1>1. IInv => NoCommitMissed
  BY DEF IInv, AnswersSound, Covers, NoCommitMissed, Served, Key
<1> QED BY <1>1, Initially, Inductive, PTL DEF Spec

(* The cache answers no recall with crystals that its scope may not see,   *)
(* whichever calls, evictions and writes come in between.                  *)
THEOREM AnswersStayInScope == Spec => []AnswersFit
<1>1. IInv => AnswersFit
  BY DEF IInv, AnswersSound, Covers, AnswersFit, Served, Key
<1> QED BY <1>1, Initially, Inductive, PTL DEF Spec

(* Whichever of its checks refuses a call, it has not written anything.    *)
THEOREM RefusalsWriteNothing == Spec => RefusedUnwritten
<1>1. IInv /\ [Next]_vars => [At("charge") /\ Saturated /\ End => ~call.wrote]_vars
  <2> SUFFICES ASSUME IInv, At("charge") PROVE ~call.wrote
    OBVIOUS
  <2>1. call \in Call /\ Orderly(call.steps) /\ call.steps[1] = "charge"
    BY AtFirst DEF IInv
  <2>2. Asks(call.steps)
    <3>1. 1 \in 1..Len(call.steps)
      BY <2>1, EmptySeq DEF Orderly
    <3> QED BY <2>1, <3>1 DEF Asks
  <2> QED BY <2>2 DEF IInv, CallSound, At
<1> QED BY <1>1, Initially, Inductive, PTL DEF Spec, RefusedUnwritten

===============================================================================
