-------------------------------- MODULE Links ---------------------------------
(***************************************************************************)
(* The graph of crystals (storage/graph.py): what one call does to it and  *)
(* what it returns. Ids are numbers; parallel edges of a type count as one *)
(* here, as no caller tells them apart.                                    *)
(***************************************************************************)
EXTENDS Naturals, FiniteSets

Relations == {"LINKS_TO", "SUPERSEDES", "CITES"}

NoLinks == [nodes |-> {}, edges |-> {}]

Edge(from, to, type) == [from |-> from, to |-> to, type |-> type]

(* add_node of a node that is there changes nothing. *)
WithNode(graph, id) == [graph EXCEPT !.nodes = @ \cup {id}]

(* delete_node detaches: the edges of the node go with it. *)
WithoutNode(graph, id) ==
  [nodes |-> graph.nodes \ {id},
   edges |-> {e \in graph.edges : e.from # id /\ e.to # id}]

(* add_edge raises unless both ends are there. *)
CanLink(graph, from, to) == {from, to} \subseteq graph.nodes

WithEdge(graph, from, to, type) ==
  [graph EXCEPT !.edges = @ \cup {Edge(from, to, type)}]

(* _neighbor_expand_one_hop, over every relation. *)
OneHop(graph, ids, excluding) ==
  {e.to : e \in {d \in graph.edges : d.from \in ids}}
    \ (IF excluding THEN ids ELSE {})

(* neighbor_expand: what a walk of at most depth hops from the seeds       *)
(* reaches. No node is expanded twice; the seeds are left out if excluding.*)
NeighborExpand(graph, seeds, depth, excluding) ==
  LET walk[n \in 0..depth] ==
        IF n = 0 THEN [found |-> {}, visited |-> seeds, frontier |-> seeds]
        ELSE LET last == walk[n - 1]
                 hop == OneHop(graph, last.frontier, excluding)
                          \ (IF excluding THEN seeds ELSE {})
             IN  [found |-> last.found \cup hop,
                  visited |-> last.visited \cup hop,
                  frontier |-> hop \ last.visited]
  IN  walk[depth].found

(* decaying_walk: the hop, from 1 to max, at which each node is first met. *)
(* Its weight is decay ** hop, so the nearer a node the higher its weight. *)
WalkRings(graph, seeds, max, excluding) ==
  LET ring[n \in 0..max] ==
        IF n = 0 THEN [new |-> seeds, visited |-> IF excluding THEN seeds ELSE {}]
        ELSE LET last == ring[n - 1]
                 new == NeighborExpand(graph, last.new, 1, excluding) \ last.visited
             IN  [new |-> new, visited |-> last.visited \cup new]
  IN  [n \in 1..max |-> ring[n].new]

Walked(rings) == UNION {rings[n] : n \in DOMAIN rings}

HopOf(rings, id) == CHOOSE n \in DOMAIN rings : id \in rings[n]
===============================================================================
