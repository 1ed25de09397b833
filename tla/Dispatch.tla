------------------------------- MODULE Dispatch -------------------------------
(***************************************************************************)
(* The dispatcher of the MCP server (_call_tool of server.py), which runs  *)
(* one tool call after the other, with the two things it keeps in memory:  *)
(* the sliding window of the rate limiter (enforcement.py) and the cache   *)
(* of recalls (aetheryte/cache.py), for a server that has recall_prefetch  *)
(* on. A call asks the limiter up to three times, in the dispatcher, in    *)
(* its handler and in the layer. Between any two of its steps the Dream    *)
(* thread and other processes may write the database, and time may pass.   *)
(*                                                                         *)
(* Every query is taken to match every crystal, and k and the budget of    *)
(* tokens not to be exceeded, so that an answer is what the filters let    *)
(* through. A crystal is told by its scope and by whether recall counts it *)
(* as active. Identity, schemas and telemetry are left out.                *)
(***************************************************************************)
EXTENDS Integers, Sequences, FiniteSets

CONSTANTS Projects,    \* values of scope.project
          Canonical,   \* canonical_project_key(): the project of every write
          NoProject,   \* of a row that is not there
          Classes,     \* values of agent_class_visibility
          All,         \* the value "all", if it is one of them
          NoClass,     \* agent_class_visibility unset
          Limit,       \* rate_limit_per_minute: off unless it is positive
          MaxSize,     \* RecallCache: recalls kept
          ActiveOnly,  \* recall_active_only
          Others,      \* TRUE if anyone else writes the database
          MaxId        \* bound: crystals written

Ids    == 1..MaxId
Scopes == [project : Projects, class : Classes \cup {NoClass}]

ASSUME DispatchAssumption ==
  /\ Canonical \in Projects /\ NoProject \notin Projects
  /\ NoClass \notin Classes
  /\ Limit \in Int
  /\ MaxSize \in Nat \ {0}
  /\ ActiveOnly \in BOOLEAN /\ Others \in BOOLEAN
  /\ MaxId \in Nat

VARIABLES
  rows,    \* the table crystals
  minted,  \* crystals written so far
  spent,   \* _call_times: the checks passed in the last 60 seconds; for
           \* each whether it was the dispatcher's, which let a call in
  answer,  \* RecallCache: the answer kept for each scope
  order,   \* RecallCache: the scopes it has, least recently used first
  call,    \* the tool call under way; its field wrote is history: whether
           \* it has written to the database
  own      \* history: what commit and ingest have inserted here

memory == <<spent, answer, order>>
vars == <<rows, minted, memory, call, own>>

NoRow == [scope |-> [project |-> NoProject, class |-> NoClass], live |-> FALSE]
Row   == [scope : Scopes, live : BOOLEAN]

Miss   == {0}       \* no entry: 0 is the id of no crystal
NoCall == [steps |-> <<>>]

Steps == {"charge", "invalidate", "commit", "insert", "supersede", "close",
          "predict", "look", "read", "keep"}
Call  == [steps : Seq(Steps), scope : Scopes, live : BOOLEAN, old : Ids \cup {0},
          found : SUBSET Ids, wrote : BOOLEAN]

(* order is only ever filtered and appended to. *)
TypeOK ==
  /\ rows \in [Ids -> Row \cup {NoRow}]
  /\ minted \in 0..MaxId
  /\ spent \in Seq(BOOLEAN)
  /\ answer \in [Scopes -> (SUBSET Ids) \cup {Miss}]
  /\ call \in Call \cup {NoCall}
  /\ own \subseteq Ids

Init ==
  /\ rows = [i \in Ids |-> NoRow]
  /\ minted = 0
  /\ spent = <<>>
  /\ answer = [s \in Scopes |-> Miss]
  /\ order = <<>>
  /\ call = NoCall
  /\ own = {}

-------------------------------------------------------------------------------
(* The rate limiter *)

Saturated == Limit > 0 /\ Len(spent) >= Limit

(* An entry at each check and one more for the call. *)
ChargedTwice(first) ==
  IF Limit > 0 THEN Append(Append(spent, FALSE), first) ELSE spent

(* Every check that is passed leaves an entry. *)
Charged(first) == IF Limit > 0 THEN Append(spent, first) ELSE spent

(* Time passes, and the oldest entries leave the window. The code drops    *)
(* them at the next check; as nothing else reads them, they go at once.    *)
Tick ==
  /\ \E n \in DOMAIN spent : spent' = SubSeq(spent, n + 1, Len(spent))
  /\ UNCHANGED <<rows, minted, answer, order, call, own>>

-------------------------------------------------------------------------------
(* The tool calls: what is left to do after the check of the dispatcher *)

Searching        == <<"charge", "look", "read", "keep">>
Committing       == <<"invalidate", "charge", "commit">>
Conflicting      == <<"invalidate", "charge", "commit", "supersede">>
Declining        == <<"invalidate", "charge">>
Checkpointing    == <<"charge", "insert">>
Replanning       == <<"charge", "supersede", "insert">>
Updating         == <<"charge", "insert", "close">>
Invoking         == <<"charge">>

(* The handler would write what the layer then refuses to go on with. *)
SemanticUpdatingUnasked == <<"charge", "close", "charge", "insert">>

(* The handler asks the limiter, and so does the layer. *)
SemanticUpdating == <<"charge", "charge", "close", "insert">>

(* Prefetch: a predicted query is recalled unless the cache has it. *)
ForeseeingCheckpoint == <<"charge", "insert", "predict", "look", "read", "keep">>
ForeseeingCommit ==
  <<"invalidate", "charge", "commit", "predict", "look", "read", "keep">>

(* A call that is let in; one that is refused changes nothing. What it is  *)
(* about: a scope, whether recall will count the new crystal as active,    *)
(* and a crystal to close.                                                 *)
Begin(steps, scope, live, old) ==
  /\ call = NoCall /\ ~Saturated
  /\ spent' = Charged(TRUE)
  /\ call' = IF steps = <<>> THEN NoCall
             ELSE [steps |-> steps, scope |-> scope, live |-> live, old |-> old,
                   found |-> {}, wrote |-> FALSE]
  /\ UNCHANGED <<rows, minted, answer, order, own>>

Present(i) == rows[i] # NoRow

Written(class) == [project |-> Canonical, class |-> class]

(* recall, and assemble_context if its gate is open. *)
RecallCall == \E s \in Scopes : Begin(Searching, s, FALSE, 0)

(* commit and ingest: a crystal, one that wins over another, or none, if   *)
(* it is merged or left to the operator. A skill may stay a candidate.     *)
CommitCall ==
  \E class \in Classes \cup {NoClass} :
    \/ \E live \in BOOLEAN : Begin(Committing, Written(class), live, 0)
    \/ Begin(Declining, Written(class), FALSE, 0)
    \/ \E old \in Ids : Present(old) /\ Begin(Conflicting, Written(class), TRUE, old)

(* Checkpoints end by themselves: recall never counts them as active. *)
CheckpointCall ==
  \E class \in Classes \cup {NoClass},
     steps \in {Checkpointing, ForeseeingCheckpoint, Committing, ForeseeingCommit} :
       Begin(steps, Written(class), FALSE, 0)

(* The crystal to be superseded is optional, and need not be there. *)
ReplanCall ==
  \E class \in Classes \cup {NoClass}, old \in Ids \cup {0} :
    Begin(Replanning, Written(class), FALSE, old)

(* The patch may hold a scope, which nothing normalizes. The revision has  *)
(* no end.                                                                 *)
UpdateCall ==
  \E old \in Ids, s \in Scopes, steps \in {Updating, SemanticUpdating} :
    Present(old) /\ Begin(steps, s, TRUE, old)

(* skill_invoke, recall with explain, which goes past the cache, and an    *)
(* update of nothing but the outcome; session_end, graph_export,           *)
(* assemble_context with its gate closed, and a tool nobody knows.         *)
OtherCall ==
  \E s \in {Written(NoClass)}, steps \in {Invoking, <<>>} : Begin(steps, s, FALSE, 0)

-------------------------------------------------------------------------------
(* The steps of a call *)

At(step) == call # NoCall /\ Head(call.steps) = step

End == call' = NoCall

Continue(c) ==
  call' = IF Len(c.steps) = 1 THEN NoCall ELSE [c EXCEPT !.steps = Tail(@)]

(* assert_rate_limit(), in the handler or in the layer. *)
Charge ==
  /\ At("charge")
  /\ \/ Saturated /\ End /\ UNCHANGED spent
     \/ ~Saturated /\ spent' = Charged(FALSE) /\ Continue(call)
  /\ UNCHANGED <<rows, minted, answer, order, own>>

(* Only the very entry of the scope that is written. *)
ConcernsItself(s, written) == s = written

(* invalidate_project() *)
Concerns(s, written) == s.project = written.project

Invalidate ==
  /\ At("invalidate")
  /\ answer' = [s \in Scopes |-> IF Concerns(s, call.scope) THEN Miss ELSE answer[s]]
  /\ order' = SelectSeq(order, LAMBDA s : ~Concerns(s, call.scope))
  /\ Continue(call)
  /\ UNCHANGED <<rows, minted, spent, own>>

(* insert_crystal *)
Insert ==
  /\ At("commit") \/ At("insert")
  /\ minted < MaxId
  /\ minted' = minted + 1
  /\ rows' = [rows EXCEPT ![minted'] = [scope |-> call.scope, live |-> call.live]]
  /\ own' = IF At("commit") THEN own \cup {minted'} ELSE own
  /\ Continue([call EXCEPT !.wrote = TRUE])
  /\ UNCHANGED <<memory>>

(* mark_superseded: a commit and a replan put up with a crystal that is    *)
(* not there, an update does not and fails.                                *)
Supersede ==
  /\ At("supersede") \/ (At("close") /\ Present(call.old))
  /\ \/ /\ call.old \in Ids /\ Present(call.old)
        /\ rows' = [rows EXCEPT ![call.old].live = FALSE]
        /\ Continue([call EXCEPT !.wrote = TRUE])
     \/ /\ ~(call.old \in Ids /\ Present(call.old))
        /\ Continue(call) /\ UNCHANGED rows
  /\ UNCHANGED <<minted, memory, own>>

(* What the scope filter and the filter of active crystals let through. *)
InScope(row, s) ==
  /\ row.scope.project = s.project
  /\ s.class = NoClass \/ row.scope.class \in {NoClass, All, s.class}

Shown(s) == {i \in Ids : Present(i) /\ InScope(rows[i], s) /\ (ActiveOnly => rows[i].live)}

(* The key of a recall without the visibility it was asked for. *)
KeyWithoutClass(s) == [s EXCEPT !.class = NoClass]

(* _cache_ctx() and _key() *)
Key(s) == s

(* Read by _prefetch: a refusal does not become one of the checkpoint. *)
Predict ==
  /\ At("predict")
  /\ \/ answer[Key(call.scope)] # Miss /\ End /\ UNCHANGED spent
     \/ answer[Key(call.scope)] = Miss /\ Saturated /\ End /\ UNCHANGED spent
     \/ answer[Key(call.scope)] = Miss /\ ~Saturated
        /\ spent' = Charged(FALSE) /\ Continue(call)
  /\ UNCHANGED <<rows, minted, answer, order, own>>

Without(s) == SelectSeq(order, LAMBDA other : other # s)

(* get(): a hit is the answer of the call, and is now the last used. *)
Look ==
  /\ At("look")
  /\ \/ answer[Key(call.scope)] # Miss /\ End
        /\ order' = Append(Without(Key(call.scope)), Key(call.scope))
     \/ answer[Key(call.scope)] = Miss /\ Continue(call) /\ UNCHANGED order
  /\ UNCHANGED <<rows, minted, spent, answer, own>>

Read ==
  /\ At("read")
  /\ Continue([call EXCEPT !.found = Shown(call.scope)])
  /\ UNCHANGED <<rows, minted, memory, own>>

(* put(): the least recently used answer goes if there is one too many. *)
Kept(s) ==
  LET all == Append(Without(s), s) IN
  IF Len(all) <= MaxSize
    THEN /\ order' = all
         /\ answer' = [answer EXCEPT ![s] = call.found]
    ELSE /\ order' = Tail(all)
         /\ answer' = [answer EXCEPT ![s] = call.found, ![Head(all)] = Miss]

Keep ==
  /\ At("keep")
  /\ Kept(Key(call.scope))
  /\ Continue(call)
  /\ UNCHANGED <<rows, minted, spent, own>>

(* An exception: a tier, a payload or a crystal that is refused, a store   *)
(* that fails. The dispatcher answers with an error.                       *)
Fail ==
  /\ call # NoCall
  /\ End
  /\ UNCHANGED <<rows, minted, memory, own>>

-------------------------------------------------------------------------------
(* Dream, other servers and the commands *)

OtherWrite ==
  /\ Others
  /\ \/ /\ minted < MaxId /\ minted' = minted + 1
        /\ \E row \in Row : rows' = [rows EXCEPT ![minted'] = row]
     \/ /\ \E i \in Ids : Present(i) /\ rows' = [rows EXCEPT ![i].live = FALSE]
        /\ UNCHANGED minted
     \/ /\ \E i \in Ids : Present(i) /\ rows' = [rows EXCEPT ![i] = NoRow]
        /\ UNCHANGED minted
  /\ UNCHANGED <<memory, call, own>>

(* The process is killed, and started again. *)
Restart ==
  /\ call' = NoCall
  /\ spent' = <<>> /\ order' = <<>> /\ answer' = [s \in Scopes |-> Miss]
  /\ UNCHANGED <<rows, minted, own>>

-------------------------------------------------------------------------------
ToolCall == RecallCall \/ CommitCall \/ CheckpointCall \/ ReplanCall \/ UpdateCall
            \/ OtherCall

Step == Charge \/ Invalidate \/ Insert \/ Supersede \/ Predict \/ Look \/ Read
        \/ Keep \/ Fail

Next == ToolCall \/ Step \/ OtherWrite \/ Tick \/ Restart

Spec == Init /\ [][Next]_vars

-------------------------------------------------------------------------------
(* Properties *)

(* The limiter refuses nobody who is not busy: when it refuses, so many    *)
(* calls have been let in within the window that three checks each, and    *)
(* the two that an older call may have left, make up the limit.            *)
Busy == 3 * Cardinality({n \in DOMAIN spent : spent[n]}) + 2 >= Limit

RefusedOnlyWhenBusy == Saturated => Busy

(* A call that is refused, at whichever of its checks, has not written     *)
(* anything to the database.                                               *)
RefusedUnwritten ==
  [][At("charge") /\ Saturated /\ End => ~call.wrote]_vars

(* What the cache has for a recall. *)
Served(s) == answer[Key(s)]

(* However recalls, prefetches, commits, ingests and evictions follow each *)
(* other, and whoever else writes: a recall answered by the cache misses   *)
(* no crystal this server committed or ingested that it would have found.  *)
NoCommitMissed ==
  \A s \in Scopes : Served(s) # Miss => own \cap Shown(s) \subseteq Served(s)

(* The cache never answers a recall with what its scope may not see.       *)
AnswersFit ==
  \A s \in Scopes : Served(s) # Miss =>
    \A i \in Served(s) : Present(i) => InScope(rows[i], s)
===============================================================================
