------------------------------- MODULE MCRecall -------------------------------
(* Six crystals in three layers: 1, 2 and 3 fill the window of the fetch   *)
(* over every layer; 4 and 6 share a layer; 6 is another project's; 5 is   *)
(* for the executive slot, and heavy.                                      *)
EXTENDS Recall, TLC

Crystal(layer, mine, executive, tokens, importance, lastAccess, cue) ==
  [layer |-> layer, mine |-> mine, executive |-> executive, tokens |-> tokens,
   importance |-> importance, lastAccess |-> lastAccess, cue |-> cue]

MCCrystals ==
  <<Crystal("execution", TRUE,  FALSE, 2, 1, 1, FALSE),
    Crystal("execution", TRUE,  FALSE, 2, 2, 3, FALSE),
    Crystal("execution", TRUE,  FALSE, 1, 1, 2, TRUE),
    Crystal("semantic",  TRUE,  FALSE, 2, 3, 1, TRUE),
    Crystal("episodic",  TRUE,  TRUE,  3, 1, 3, FALSE),
    Crystal("semantic",  FALSE, FALSE, 1, 3, 2, TRUE)>>

MCLayerOrder == <<"episodic", "semantic", "execution">>
MCSlotOrder  == <<"executive", "semantic", "episodic", "execution", "buffer">>
MCSlotCap ==
  [slot \in ItemsOf(MCSlotOrder) |-> IF slot = "execution" THEN 4 ELSE 3]

Chain(s) == {Edge(s[n], s[n + 1], "LINKS_TO") : n \in 1..(Len(s) - 1)}
LinksOf(edges) == [nodes |-> 1..6, edges |-> edges]

MCWorlds ==
  {[bm25 |-> <<1, 2, 3, 4, 5, 6>>, ann |-> <<4, 2, 1>>,
    links |-> LinksOf(Chain(<<4, 5, 3, 6>>))],
   [bm25 |-> <<3, 6, 2, 1, 4, 5>>, ann |-> <<6, 5, 3, 2, 1, 4>>,
    links |-> LinksOf(Chain(<<6, 4>>) \cup Chain(<<3, 2, 1>>))]}

Table(states, vectors) == [rows |-> states, embedded |-> vectors]

MCTables ==
  {Table(<<"active", "active", "active", "active", "active", "active">>, 1..6),
   Table(<<"active", "deprecated", "active", "closed", "active", "active">>, {1, 2, 3, 6}),
   Table(<<"deprecated", "active", "active", "active", "unwritten", "deprecated">>, {1, 4, 6}),
   Table(<<"active", "erased", "unwritten", "active", "deprecated", "active">>, {2, 4, 5})}

Asked(k, layers, mode, completion, vector) ==
  [tool |-> "recall", gate |-> TRUE, k |-> k, layers |-> layers, mode |-> mode,
   completion |-> completion, vector |-> vector, graph |-> TRUE, persists |-> TRUE]

Command(asked, full) ==
  [asked EXCEPT !.tool = "command", !.vector = full, !.graph = full, !.persists = FALSE]

Assembling(asked, opens) == [asked EXCEPT !.tool = "assemble", !.gate = opens]

MCRequests ==
  {Asked(k, layers, mode, mode = "weighted", TRUE) :
     k \in {0, 2}, layers \in {<<>>, <<"semantic">>, <<"episodic", "semantic">>},
     mode \in {"weighted", "legacy"}}
  \cup {Asked(Garbage, <<>>, "unweighted", TRUE, FALSE),
        Asked(1, <<"episodic", "semantic">>, "weighted", TRUE, FALSE),
        Asked(1, <<"semantic", "semantic">>, "weighted", FALSE, FALSE),
        Asked(1, <<"episodic", "semantic", "execution", "semantic">>, "legacy", FALSE, FALSE),
        Command(Asked(2, <<"semantic", "execution">>, "weighted", FALSE, FALSE), FALSE),
        Command(Asked(2, <<>>, "unweighted", FALSE, TRUE), TRUE),
        Assembling(Asked(2, <<>>, "weighted", TRUE, TRUE), TRUE),
        Assembling(Asked(2, <<>>, "unweighted", FALSE, FALSE), TRUE),
        Assembling(Asked(2, <<>>, "weighted", TRUE, TRUE), FALSE)}
===============================================================================
