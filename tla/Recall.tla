-------------------------------- MODULE Recall --------------------------------
(***************************************************************************)
(* A recall (aetheryte/retrieve.py), step by step, on a store that other   *)
(* processes write to meanwhile: the full-text fetches with their top-ups  *)
(* and backstops, the vector search, the expansion over the graph, the     *)
(* fusion, the filters, the composition, and the access events written for *)
(* what is answered; and assemble_context (assembly.py) on top of it.      *)
(*                                                                         *)
(* Every read of the store is a transaction of its own, so a step each. A  *)
(* row is held as it was when it was read.                                 *)
(***************************************************************************)
EXTENDS Composer, Links

CONSTANTS
  Crystals,     \* id -> what its row says for good: layer, mine (is it in
                \* the caller's scope), executive, tokens, importance,
                \* lastAccess, cue (does its summary tell of a fix)
  LayerOrder,   \* the layers, _ALL_LAYERS
  Worlds,       \* the orders in which BM25 and the vector index would rank
                \* the crystals for the query, and the graph
  Tables,       \* the states of the table a recall may begin on
  Requests,     \* the calls
  Garbage,                   \* a k that is no number
  KDefault, KMax,            \* normalize_k: its default and its limit
  AssembleWidth,             \* what assemble_context recalls at least
  FetchFactor, FetchFloor,   \* candidate_k = max(FetchFactor * k, FetchFloor)
  TopUpCeiling,              \* HARD_TOPUP_CEILING
  Alpha,                     \* fusion_sparse_boost_alpha
  WalkHops,                  \* completion_max_hops
  SeedCredit,                \* recall_seed_derived_credit
  MaxWrites                  \* bound: writes by others during the recall

Ids    == DOMAIN Crystals
Layers == ItemsOf(LayerOrder)
Arms   == {"sparse", "dense", "graph", "completion"}

(* A row: not written yet, current, deprecated, with its validity interval *)
(* closed, or erased.                                                      *)
RowStates == {"unwritten", "active", "deprecated", "closed", "erased"}

(* A call: which tool and, for assemble_context, whether its gate opens    *)
(* (memory_injection_mode, needs_memory, prior_failure); k as the caller   *)
(* gave it; the layers; which ranking the configuration asks for; whether  *)
(* completion is on; whether the query can be embedded, there is a graph,  *)
(* and the value of what is answered is persisted.                         *)
Call == [tool : {"recall", "assemble", "command"}, gate : BOOLEAN,
         k : Int \cup {Garbage}, layers : Seq(Layers),
         mode : {"weighted", "unweighted", "legacy"},
         completion : BOOLEAN, vector : BOOLEAN, graph : BOOLEAN, persists : BOOLEAN]

(* "crystalium recall" asks for no walk and persists no value; it tries    *)
(* for a vector index and a graph only when told --full.                   *)
OneShot(c) == c.tool = "command" => ~c.completion /\ ~c.persists

ASSUME RecallAssumption ==
  /\ LayerOrder \in Seq(Layers) /\ "head" \notin Layers
  /\ Ids \subseteq Nat \ {0} /\ IsFiniteSet(Ids)
  /\ \A i \in Ids : Crystals[i] \in
       [layer : Layers, mine : BOOLEAN, executive : BOOLEAN, tokens : Nat,
        importance : Int, lastAccess : Int, cue : BOOLEAN]
  /\ \A w \in Worlds : /\ {w.bm25, w.ann} \subseteq Seq(Ids)
                       /\ \A e \in w.links.edges : {e.from, e.to} \subseteq Ids
  /\ Tables \subseteq [rows : [Ids -> RowStates], embedded : SUBSET Ids]
  /\ Requests \subseteq Call /\ \A c \in Requests : OneShot(c)
  /\ {KDefault, KMax, FetchFactor, FetchFloor} \subseteq Nat \ {0}
  /\ {TopUpCeiling, Alpha, WalkHops, MaxWrites, AssembleWidth} \subseteq Nat
  /\ SeedCredit \in BOOLEAN

VARIABLES
  world,    \* the world this behaviour is about
  rows,     \* the table crystals
  embedded, \* the ids in the vector index
  touches,  \* utility.access_count, counted from the beginning
  scored,   \* the access count that memory_dynamics.evb was computed from
  pc,       \* the step the recall takes next
  call,     \* the call being served
  todo,     \* the fetches the current arm still has to do
  batch,    \* the full-text rows read and not ingested yet
  fetches,  \* explain.fusion.fetches: the full-text fetches made so far
  lookups,  \* the hits whose rows have still to be read
  found,    \* all_candidates: the rows read, as they were then
  ranked,   \* the ranking of each arm
  signal,   \* the rows and the limit of the fetch that made the head
  weight,   \* w_sparse
  seeds,    \* where the expansion of the graph starts
  fused,    \* the fused ranking, and the score of each crystal in it
  answer,   \* what the recall returns
  writes,   \* writes by others so far
  live      \* history: the crystals current at some point of the recall

store  == <<rows, embedded, touches, scored>>
arms   == <<todo, batch, fetches, lookups, found, ranked, signal, weight, seeds, fused>>
vars   == <<world, store, pc, call, arms, answer, writes, live>>

NoBatch  == [label |-> "none", width |-> 0, raw |-> 0, widened |-> FALSE,
             hits |-> <<>>, seen |-> [i \in Ids |-> "none"]]
NoFusion == [order |-> <<>>, score |-> <<>>]
NoAnswer == [kept |-> <<>>, cut |-> {}, evicted |-> {},
             candidates |-> 0, byScope |-> 0, byStatus |-> 0, byK |-> 0,
             byBudget |-> 0, assembled |-> <<>>]

Current  == {i \in Ids : rows[i] = "active"}
Stored   == {i \in Ids : rows[i] \notin {"unwritten", "erased"}}

Init ==
  /\ world \in Worlds
  /\ \E t \in Tables : rows = t.rows /\ embedded = t.embedded
  /\ touches = [i \in Ids |-> 0]
  /\ scored = [i \in Ids |-> 0]
  /\ pc = "idle"
  /\ call \in Requests
  /\ todo = <<>>
  /\ batch = NoBatch
  /\ fetches = <<>>
  /\ lookups = <<>>
  /\ found = [i \in Ids |-> "none"]
  /\ ranked = [a \in Arms |-> <<>>]
  /\ signal = [raw |-> 0, cap |-> 0]
  /\ weight = One
  /\ seeds = <<>>
  /\ fused = NoFusion
  /\ answer = NoAnswer
  /\ writes = 0
  /\ live = {}

-------------------------------------------------------------------------------
(* What the call asks for *)

NormalizeK(raw) ==
  IF raw = Garbage THEN KDefault
  ELSE IF raw < 1 THEN 1 ELSE IF raw > KMax THEN KMax ELSE raw

(* assemble_context recalls at least AssembleWidth, and cuts to its k last. *)
K == LET k == NormalizeK(call.k)
     IN  IF call.tool # "assemble" \/ k > AssembleWidth THEN k ELSE AssembleWidth

Primary    == call.mode # "legacy"
CandidateK == IF K * FetchFactor > FetchFloor THEN K * FetchFactor ELSE FetchFloor
FetchWidth == IF Primary /\ K < FetchFloor THEN FetchFloor ELSE K

TargetList == IF call.layers = <<>> THEN LayerOrder ELSE call.layers
Targets    == ItemsOf(TargetList)
Whole      == Targets = Layers
Subset     == ~Whole /\ Len(TargetList) > 1

(* The fetches of an arm are labelled "head" or by the layer a backstop is *)
(* for; only the head of a single layer is filtered by the store.          *)
LayerFilter(label) ==
  IF label # "head" THEN {label} ELSE IF Whole \/ Subset THEN Layers ELSE Targets

Width(label) ==
  IF label = "head" /\ (Whole \/ Subset) THEN CandidateK * Len(LayerOrder)
  ELSE CandidateK

InTargets(hits) == Where(hits, {i \in Ids : Crystals[i].layer \in Targets})

Joined(s, t) == s \o Where(t, Ids \ ItemsOf(s))

-------------------------------------------------------------------------------
(* The full-text arm *)

(* bm25_search: rows of every project and every status.                    *)
Bm25(label, width) ==
  FirstOf(width,
    Where(world.bm25, {i \in Stored : Crystals[i].layer \in LayerFilter(label)}))

Inactive(hits, seen) == {i \in ItemsOf(hits) : seen[i] # "active"}

ReadNow(hits) == [i \in Ids |-> IF i \in ItemsOf(hits) THEN rows[i] ELSE "none"]

(* A fetch is widened, once, if it met its limit and rows of its own       *)
(* contribution are not current.                                           *)
WiderThan(b) ==
  LET width == b.width + Cardinality(Inactive(InTargets(b.hits), b.seen))
  IN  IF width > TopUpCeiling THEN TopUpCeiling ELSE width

(* A top-up that is itself topped up. *)
MustWidenAgain(b) == Censored(b.raw, b.width) /\ WiderThan(b) > b.width

MustWiden(b) == ~b.widened /\ Censored(b.raw, b.width) /\ WiderThan(b) > b.width

(* A backstop kept for a head that brought nothing at all. *)
StarvedOnlyIfEmpty(contribution, raw, width) ==
  Subset /\ contribution = <<>> /\ Censored(raw, width)

(* The head of a subset that contributes too little though there is more   *)
(* to find calls for one backstop per layer.                               *)
Starved(contribution, raw, width) ==
  Subset /\ Len(contribution) < CandidateK * Len(TargetList) /\ Censored(raw, width)

NextFetches(label, contribution, raw, width) ==
  IF label # "head" THEN Tail(todo)
  ELSE IF Starved(contribution, raw, width) THEN TargetList ELSE <<>>

Recorded(b) ==
  fetches' = Append(fetches,
    [label |-> b.label, topup |-> b.widened, width |-> b.width, raw |-> b.raw])

(* The gate of assemble_context is asked before anything is read.          *)
Begin ==
  /\ pc = "idle"
  /\ IF call.tool = "assemble" /\ ~call.gate
     THEN pc' = "shut" /\ todo' = <<>>
     ELSE pc' = "fetch" /\ todo' = <<"head">>
  /\ live' = Current
  /\ UNCHANGED <<world, store, call, fetches, batch, lookups, found, ranked,
                 signal, weight, seeds, fused, answer, writes>>

Fetch ==
  /\ pc = "fetch"
  /\ LET hits == Bm25(Head(todo), Width(Head(todo)))
     IN  batch' = [label |-> Head(todo), width |-> Width(Head(todo)),
                   raw |-> Len(hits), widened |-> FALSE,
                   hits |-> hits, seen |-> ReadNow(hits)]
  /\ Recorded(batch')
  /\ pc' = "fetched"
  /\ UNCHANGED <<world, store, call, todo, lookups, found, ranked,
                 signal, weight, seeds, fused, answer, writes, live>>

(* _topup_widen: the same fetch over a wider window. What the first one    *)
(* read and the second one did not is kept after it.                       *)
Widen ==
  /\ pc = "fetched"
  /\ MustWiden(batch)
  /\ LET wide == Bm25(batch.label, WiderThan(batch))
     IN  batch' = [label |-> batch.label, width |-> WiderThan(batch),
                   raw |-> Len(wide), widened |-> TRUE,
                   hits |-> Joined(wide, batch.hits),
                   seen |-> [i \in Ids |-> IF i \in ItemsOf(wide) THEN rows[i]
                                                                ELSE batch.seen[i]]]
  /\ Recorded(batch')
  /\ UNCHANGED <<world, store, pc, call, todo, lookups, found,
                 ranked, signal, weight, seeds, fused, answer, writes, live>>

(* The rows of a fetch become candidates.                                  *)
Ingest ==
  /\ pc = "fetched"
  /\ ~MustWiden(batch)
  /\ LET contribution == InTargets(batch.hits)
     IN  /\ found' = [i \in Ids |-> IF i \in ItemsOf(contribution) THEN batch.seen[i]
                                                                   ELSE found[i]]
         /\ ranked' = [ranked EXCEPT !.sparse = Joined(@, contribution)]
         /\ todo' = NextFetches(batch.label, contribution, batch.raw, batch.width)
  /\ signal' = IF batch.label = "head" THEN [raw |-> batch.raw, cap |-> batch.width]
               ELSE signal
  /\ pc' = IF todo' # <<>> THEN "fetch" ELSE IF call.vector THEN "search" ELSE "seed"
  /\ batch' = NoBatch
  /\ UNCHANGED <<world, store, call, fetches, lookups, weight, seeds, fused,
                 answer, writes, live>>

-------------------------------------------------------------------------------
(* The vector arm, and the reading of the rows its hits stand for *)

Nearest(label, width) ==
  FirstOf(width,
    Where(world.ann, {i \in embedded : Crystals[i].layer \in LayerFilter(label)}))

Label == IF todo = <<>> THEN "head" ELSE Head(todo)

Search ==
  /\ pc = "search"
  /\ LET hits == Nearest(Label, Width(Label))
     IN  /\ lookups' = InTargets(hits)
         /\ todo' = NextFetches(Label, InTargets(hits), Len(hits), Width(Label))
  /\ pc' = "dense"
  /\ UNCHANGED <<world, store, call, fetches, batch, found, ranked, signal,
                 weight, seeds, fused, answer, writes, live>>

(* A hit that is no candidate yet is looked up; a row that is not there    *)
(* leaves the hit in the ranking (not in that of the completion walk).     *)
ReadRow(i) == IF found[i] = "none" /\ i \in Stored
              THEN [found EXCEPT ![i] = rows[i]] ELSE found

AfterLookups ==
  CASE pc = "dense"      -> IF todo = <<>> THEN "seed" ELSE "search"
    [] pc = "graph"      -> IF call.completion THEN "walk" ELSE "rank"
    [] pc = "completion" -> "rank"

Lookup ==
  /\ pc \in {"dense", "graph", "completion"}
  /\ IF lookups = <<>>
     THEN pc' = AfterLookups /\ UNCHANGED <<lookups, found, ranked>>
     ELSE LET i == Head(lookups)
          IN  /\ found' = ReadRow(i)
              /\ ranked' = IF pc = "completion" /\ found'[i] = "none" THEN ranked
                           ELSE [ranked EXCEPT ![pc] = Joined(@, <<i>>)]
              /\ lookups' = Tail(lookups)
              /\ UNCHANGED pc
  /\ UNCHANGED <<world, store, call, fetches, todo, batch, signal, weight,
                 seeds, fused, answer, writes, live>>

-------------------------------------------------------------------------------
(* The arms derived from the graph *)

(* n_scoped; it is counted while ranking by weight only.                   *)
Scoped == Cardinality({i \in Current :
            Crystals[i].mine /\ Crystals[i].layer \in Targets})

FoundActive(hits) == Cardinality({i \in ItemsOf(hits) : found[i] = "active"})

SparseWeightNow ==
  IF call.mode # "weighted" THEN One
  ELSE SparseWeight(signal.raw, FoundActive(ranked.sparse), signal.cap, Scoped, Alpha)

BaseArms(sparseWeight) ==
  <<Arm(ranked.sparse, sparseWeight), Arm(ranked.dense, One)>>

(* The weight is resolved once, from the base arms, and so are the seeds.  *)
Seed ==
  /\ pc = "seed"
  /\ weight' = SparseWeightNow
  /\ seeds' = FirstOf(FetchWidth, IF call.mode = "weighted"
                                  THEN WeightedMerge(Scores(BaseArms(weight')))
                                  ELSE ranked.dense)
  /\ pc' = "expand"
  /\ UNCHANGED <<world, store, call, fetches, todo, batch, lookups, found,
                 ranked, signal, fused, answer, writes, live>>

(* The neighbours of the seeds, in the order of their ids. A graph store   *)
(* that fails gives none.                                                  *)
Expand ==
  /\ pc = "expand" /\ call.graph
  /\ lookups' = InOrder(NeighborExpand(world.links, ItemsOf(seeds), 1, ~SeedCredit),
                        LAMBDA i : <<i>>)
  /\ pc' = "graph"
  /\ UNCHANGED <<world, store, call, fetches, todo, batch, found, ranked,
                 signal, weight, seeds, fused, answer, writes, live>>

(* The walk goes on from the best full-text hits if there is no seed.      *)
Walk ==
  /\ pc = "walk"
  /\ LET from == IF seeds = <<>> THEN FirstOf(FetchWidth, ranked.sparse) ELSE seeds
         rings == WalkRings(world.links, ItemsOf(from), WalkHops, ~SeedCredit)
     IN  lookups' = InOrder(Walked(rings), LAMBDA i : <<HopOf(rings, i), i>>)
  /\ pc' = "completion"
  /\ UNCHANGED <<world, store, call, fetches, todo, batch, found, ranked,
                 signal, weight, seeds, fused, answer, writes, live>>

(* A failure, or a graph store that is not there.                          *)
GraphFails ==
  /\ pc \in {"expand", "walk"}
  /\ pc' = IF pc = "expand" /\ call.completion THEN "walk" ELSE "rank"
  /\ UNCHANGED <<world, store, call, arms, answer, writes, live>>

-------------------------------------------------------------------------------
(* Fusion, filters, the k-gate and the composition: nothing is read *)

FusedArms ==
  IF call.mode = "weighted"
  THEN Append(BaseArms(weight), Arm(DerivedFamily(ranked.graph, ranked.completion), One))
  ELSE BaseArms(weight) \o <<Arm(ranked.graph, One), Arm(ranked.completion, One)>>

Fuse ==
  /\ pc = "rank"
  /\ LET score == Scores(FusedArms)
     IN  fused' = [order |-> IF call.mode = "weighted" THEN WeightedMerge(score)
                             ELSE PlainMerge(score, FusedArms),
                   score |-> score]
  /\ pc' = "compose"
  /\ UNCHANGED <<world, store, call, fetches, todo, batch, lookups, found,
                 ranked, signal, weight, seeds, answer, writes, live>>

(* The scope is asked before the status; a crystal whose row was not found *)
(* counts nowhere.                                                         *)
InScope(i)   == found[i] # "none" /\ Crystals[i].mine
(* A scope filter without the status filter. *)
PassesAny(i) == InScope(i)
Passes(i)    == InScope(i) /\ found[i] = "active"

Filtered == Where(fused.order, {i \in Ids : Passes(i)})

KGate(s) == IF Primary THEN FirstOf(K, s) ELSE s

(* _to_composer_record *)
Candidate(i) ==
  [id |-> i, slot |-> Route(Crystals[i].executive, Crystals[i].layer),
   tokens |-> Crystals[i].tokens, score |-> fused.score[i],
   importance |-> Crystals[i].importance, lastAccess |-> Crystals[i].lastAccess]

Gated == KGate(Filtered)

Kept(set) == [n \in DOMAIN set |-> set[n].id]

(* A budget that reports what k should have cut. *)
TruncatedByIntent(before, after) == IF Len(before) > K THEN Len(before) - K ELSE 0

(* The budget reports what the slice took away, never what k would have.   *)
TruncatedBy(before, after) == Len(before) - Len(after)

Answering(kept) ==
  /\ answer' =
       [kept |-> kept, assembled |-> <<>>,
        cut |-> ItemsOf(Filtered) \ ItemsOf(Gated),
        evicted |-> ItemsOf(Gated) \ ItemsOf(kept),
        candidates |-> Cardinality({i \in Ids : found[i] # "none"}),
        byScope |-> Len(Where(fused.order, {i \in Ids : found[i] # "none" /\ ~InScope(i)})),
        byStatus |-> Len(Where(fused.order, {i \in Ids : InScope(i) /\ ~Passes(i)})),
        byK |-> TruncatedBy(Filtered, Gated),
        byBudget |-> Len(Gated) - Len(kept)]
  /\ lookups' = kept
  /\ pc' = "touch"
  /\ UNCHANGED <<world, store, call, fetches, todo, batch, found, ranked,
                 signal, weight, seeds, fused, writes, live>>

Composition ==
  /\ pc = "compose"
  /\ Answering(Kept(WorkingSet(Primary, [n \in DOMAIN Gated |-> Candidate(Gated[n])])))

(* A composer that raises makes the answer empty, and all of it evicted.   *)
CompositionFails == pc = "compose" /\ Answering(<<>>)

-------------------------------------------------------------------------------
(* The access events, and the answer *)

(* record_access of the next crystal of the answer: no row, no effect.     *)
Touch ==
  /\ pc = "touch"
  /\ lookups # <<>>
  /\ touches' = IF Head(lookups) \in Stored
                THEN [touches EXCEPT ![Head(lookups)] = @ + 1] ELSE touches
  /\ pc' = "rescore"
  /\ UNCHANGED <<world, rows, embedded, scored, call, arms, answer, writes, live>>

(* evb, from the row as it is read after the event. A failure in either    *)
(* leaves the value as it was and is passed over.                          *)
Rescore ==
  /\ pc = "rescore"
  /\ \/ /\ call.persists /\ Head(lookups) \in Stored
        /\ scored' = [scored EXCEPT ![Head(lookups)] = touches[Head(lookups)]]
     \/ UNCHANGED scored
  /\ lookups' = Tail(lookups)
  /\ pc' = "touch"
  /\ UNCHANGED <<world, rows, embedded, touches, call, fetches, todo, batch,
                 found, ranked, signal, weight, seeds, fused, answer, writes,
                 live>>

(* Bands that drift: each score held against the one just before it. *)
BandStartByNeighbour(s, score) ==
  LET start[n \in DOMAIN s] ==
        IF n = 1 THEN 1
        ELSE IF score[s[n]] * 10 >= score[s[n - 1]] * 9 THEN start[n - 1] ELSE n
  IN  start

(* select_records: bands of scores within a tenth of the band's best; in a *)
(* band, summaries that tell of a fix first, then the shorter.             *)
BandStart(s, score) ==
  LET start[n \in DOMAIN s] ==
        IF n = 1 THEN 1
        ELSE IF score[s[n]] * 10 >= score[s[start[n - 1]]] * 9 THEN start[n - 1] ELSE n
  IN  start

Selected(kept, score) ==
  LET byScore == InOrder(ItemsOf(kept), LAMBDA i : <<-score[i], FirstPlace(kept, i)>>)
      start == BandStart(byScore, score)
      key(i) == <<start[FirstPlace(byScore, i)], IF Crystals[i].cue THEN 0 ELSE 1,
                  Crystals[i].tokens, FirstPlace(kept, i)>>
  IN  InOrder(ItemsOf(kept), key)

Finish ==
  /\ pc = "touch"
  /\ lookups = <<>>
  /\ answer' = IF call.tool # "assemble" THEN answer
               ELSE [answer EXCEPT !.assembled =
                       FirstOf(NormalizeK(call.k), Selected(answer.kept, fused.score))]
  /\ pc' = "done"
  /\ UNCHANGED <<world, store, call, arms, writes, live>>

-------------------------------------------------------------------------------
(* The other processes, between any two steps of the recall *)

Write ==
  /\ pc \notin {"idle", "done", "shut"}
  /\ writes < MaxWrites
  /\ writes' = writes + 1
  /\ UNCHANGED <<world, touches, scored, pc, call, arms, answer>>

(* Dream's prune, a rejection, or a supersession.                          *)
Retire(i) ==
  /\ rows[i] = "active"
  /\ \E state \in {"deprecated", "closed"} : rows' = [rows EXCEPT ![i] = state]
  /\ UNCHANGED <<embedded, live>>

(* A commit: the row, and its vector later, or never.                      *)
Commit(i) ==
  /\ rows[i] = "unwritten"
  /\ rows' = [rows EXCEPT ![i] = "active"]
  /\ live' = live \cup {i}
  /\ UNCHANGED embedded

Embed(i) ==
  /\ i \in Stored \ embedded
  /\ embedded' = embedded \cup {i}
  /\ UNCHANGED <<rows, live>>

(* "forget": the row, and its vector later, or never.                      *)
Erase(i) ==
  /\ i \in Stored
  /\ rows' = [rows EXCEPT ![i] = "erased"]
  /\ UNCHANGED <<embedded, live>>

Others == Write /\ \E i \in Ids : Retire(i) \/ Commit(i) \/ Embed(i) \/ Erase(i)

-------------------------------------------------------------------------------
Retrieve == Fetch \/ Widen \/ Ingest \/ Search \/ Lookup \/ Seed \/ Expand \/ Walk \/ GraphFails

Respond == Fuse \/ Composition \/ CompositionFails \/ Touch \/ Rescore \/ Finish

(* The only way to stop. *)
Over == pc \in {"done", "shut"} /\ UNCHANGED vars

Next == Begin \/ Retrieve \/ Respond \/ Others \/ Over

Spec == Init /\ [][Next]_vars

-------------------------------------------------------------------------------
(* Properties *)

Answered  == pc \in {"touch", "rescore", "done"}
KeptIds   == ItemsOf(answer.kept)

(* Whatever the writers do meanwhile, whichever arm a crystal came by, and *)
(* however stale the vector index and the graph are: what is answered      *)
(* belongs to the caller's project and was current at some moment of the   *)
(* recall. A crystal retired or erased before the call never comes back.   *)
AnswersOnceCurrent == \A i \in KeptIds : Crystals[i].mine /\ i \in live

(* The diagnosis adds up: every candidate is answered or is counted under  *)
(* exactly one of the four reasons for leaving it out, in every mode.      *)
ExplainBalances ==
  Answered => answer.candidates =
    answer.byScope + answer.byStatus + answer.byK + answer.byBudget + Len(answer.kept)

SlotOf(i) == Route(Crystals[i].executive, Crystals[i].layer)

(* G6: the working set fits its slots and its total cap, though the slots  *)
(* together may hold more than the total, and has at most k crystals.      *)
TokensIn(ids) == MapThenSumSet(LAMBDA i : Crystals[i].tokens, ids)

BudgetHeld ==
  /\ \A slot \in Slots : TokensIn({i \in KeptIds : SlotOf(i) = slot}) <= SlotCap[slot]
  /\ TokensIn(KeptIds) <= TotalCap
  /\ Primary => Len(answer.kept) <= K

(* Crystals of layers that were not asked for cannot starve those that     *)
(* were: with no writer about, either the full-text arm brought as many    *)
(* candidates as a fetch per layer would have had room for, or it brought  *)
(* the best matches of every layer asked for.                              *)
BestMatches(layer) ==
  FirstOf(CandidateK, Where(world.bm25, {i \in Stored : Crystals[i].layer = layer}))

LayersNotStarved ==
  Answered /\ writes = 0 =>
    \/ Len(ranked.sparse) >= CandidateK * Cardinality(Targets)
    \/ \A layer \in Targets : ItemsOf(BestMatches(layer)) \subseteq ItemsOf(ranked.sparse)

(* assemble_context prefers a short fix to a longer record only within the *)
(* band: nothing it leaves out scores more than a tenth above, and the     *)
(* records are no more than were asked for.                                *)
AssembledWithinBands ==
  LET chosen == ItemsOf(answer.assembled)
  IN  /\ Len(answer.assembled) <= NormalizeK(call.k)
      /\ pc = "done" /\ call.tool = "assemble" => \A i \in chosen, j \in KeptIds \ chosen :
           fused.score[i] * 10 >= fused.score[j] * 9

(* The fetches come to an end: there is the head, and at most one for each *)
(* entry of the layers asked for (a layer may be named twice); and each is *)
(* widened at most once, to a window that is wider and within the ceiling, *)
(* whatever the writers make of its rows meanwhile.                        *)
Widenings == {n \in DOMAIN fetches : fetches[n].topup}

FetchesBounded ==
  /\ Cardinality(DOMAIN fetches \ Widenings) <= 1 + Len(TargetList)
  /\ \A n \in Widenings :
       /\ n - 1 \in DOMAIN fetches \ Widenings
       /\ fetches[n - 1].label = fetches[n].label
       /\ fetches[n].width > fetches[n - 1].width /\ fetches[n].width <= TopUpCeiling
===============================================================================
