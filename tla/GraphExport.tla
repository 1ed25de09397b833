----------------------------- MODULE GraphExport ------------------------------
(***************************************************************************)
(* The export of a project's memory graph (export/graph_export.py), the    *)
(* same for the tool crystalium.graph_export and the command export. It is *)
(* put together from seven reads of the tables and of the graph, none of   *)
(* which sees what the others saw: commits, updates, conflicts, merges,    *)
(* reviews, drift marks, prunes and the forget command go on beside it.    *)
(*                                                                         *)
(* A row has the fields of CrystalRows and                                 *)
(*   project, audience ("all" when unset), author   fixed at its commit    *)
(*   quarantined                                    until a review         *)
(*   merged, corroboration    provenance.merged_authors and the count of   *)
(*             the merges, from 1                                          *)
(* The writers other than an export take turns here: what matters to an    *)
(* export is where between its reads their transactions fall.              *)
(***************************************************************************)
EXTENDS CrystalRows, Links, Sequences, SequencesExt, FiniteSetsExt

CONSTANTS
  MaxId,       \* crystals are 1..MaxId
  Profiles,    \* [project, audience, author, quarantined] of a commit
  Authors,     \* who merges a duplicate into a crystal
  Requests,    \* [project, audience, limit, quarantined, deprecated,
               \*  superseded, drift, dangling] of an export
  Similarity,  \* of a conflict, and that of a drift mark
  DriftSimilarity,
  MaxWrites,   \* bound on merges, reviews, marks, prunes and forgets, and
  MaxBeside    \* on the transactions between the reads of an export

Ids == 1..MaxId

ASSUME ExportAssumption ==
  /\ MaxId \in Nat /\ MaxWrites \in Nat /\ MaxBeside \in Nat
  /\ {Similarity, DriftSimilarity} \subseteq Nat
  /\ \A r \in Requests : r.limit \in Nat /\ r.dangling \in {"drop", "keep"}
  /\ \A p \in Profiles : p.project \notin {"", "gone"} /\ p.quarantined \in BOOLEAN

VARIABLES
  rows,       \* the table crystals
  graph,      \* nodes and edges of the graph store
  conflicts,  \* the table conflicts: [winner, loser, project]
  drifts,     \* the table drift_audit: [candidate, prior]
  writer,     \* the commit, update or forget under way
  export,     \* the export under way, or its answer
  writes      \* bound of the model

vars == <<rows, graph, conflicts, drifts, writer, export, writes>>

NoRow == [status |-> "absent", until |-> "open", by |-> 0, project |-> "",
          audience |-> "", author |-> "", quarantined |-> FALSE, merged |-> {},
          corroboration |-> 1]

NoWrite == [pc |-> "idle"]
NoExport == [pc |-> "idle"]

Committed == {i \in Ids : rows[i].project # ""}
Fresh == IF Committed = {} THEN 1 ELSE Max(Committed) + 1

(***************************************************************************)
(* What goes on beside an export. A commit inserts the row; a commit that  *)
(* conflicts with a crystal, or updates it, then supersedes that crystal,  *)
(* and a conflict is recorded; then the node and the links are added. The  *)
(* update of a fact supersedes before it inserts. A failing or killed      *)
(* writer is left out: what it has not written yet, an export may just as  *)
(* well have missed.                                                       *)
(***************************************************************************)
Disturbed ==
  \/ export.pc = "idle" /\ UNCHANGED export
  \/ /\ export.pc # "idle" /\ export.beside < MaxBeside
     /\ export' = [export EXCEPT !.beside = @ + 1]

Writes(kind, old) == [pc |-> IF old = 0 THEN "node" ELSE "mark", kind |-> kind,
                      id |-> Fresh, old |-> old, todo |-> {}, row |-> NoRow]

NewRow(profile) ==
  [NoRow EXCEPT !.status = "active", !.project = profile.project,
                !.audience = profile.audience, !.author = profile.author,
                !.quarantined = profile.quarantined]

(* A commit of any layer; old is the crystal it conflicts with, or 0.      *)
Commit ==
  /\ writer.pc = "idle" /\ Fresh \in Ids
  /\ \E profile \in Profiles :
       /\ rows' = WithRow(rows, Fresh, NewRow(profile))
       /\ \E old \in {0} \cup {i \in Ids : /\ rows[i].status = "active"
                                         /\ rows[i].project = profile.project} :
            writer' = Writes("commit", old)
  /\ Disturbed
  /\ UNCHANGED <<graph, conflicts, drifts, writes>>

(* The revision is a copy, with the scope that the patch may give it; the  *)
(* graph store hears nothing of it.                                        *)
Revised(row, scope, quarantined) ==
  [row EXCEPT !.status = "active", !.until = "open", !.by = 0,
              !.project = scope.project, !.audience = scope.audience,
              !.quarantined = quarantined]

(* An untrusted caller's repair is quarantined; all else stays as it was.  *)
Update(old) ==
  /\ writer.pc = "idle" /\ Fresh \in Ids
  /\ Present(rows, old)
  /\ \E scope \in Profiles \cup {rows[old]}, quarantined \in {TRUE, rows[old].quarantined} :
       rows' = WithRow(rows, Fresh, Revised(rows[old], scope, quarantined))
  /\ writer' = Writes("update", old)
  /\ Disturbed
  /\ UNCHANGED <<graph, conflicts, drifts, writes>>

(* semantic.update: until the second transaction there is a successor that *)
(* has no row. A repair stays in quarantine, any other fact does not.      *)
UpdateFact(old) ==
  /\ writer.pc = "idle" /\ Fresh \in Ids
  /\ Present(rows, old)
  /\ rows' = WithSuccessor(rows, old, Fresh)
  /\ \E scope \in Profiles \cup {rows[old]}, quarantined \in {FALSE, rows[old].quarantined} :
       writer' = [Writes("update", old) EXCEPT !.pc = "insert",
                    !.row = Revised(rows[old], scope, quarantined)]
  /\ Disturbed
  /\ UNCHANGED <<graph, conflicts, drifts, writes>>

InsertFact ==
  /\ writer.pc = "insert"
  /\ rows' = WithRow(rows, writer.id, writer.row)
  /\ writer' = NoWrite
  /\ Disturbed
  /\ UNCHANGED <<graph, conflicts, drifts, writes>>

(* mark_superseded raises when the row is gone.                            *)
Mark ==
  /\ writer.pc = "mark"
  /\ IF Present(rows, writer.old)
     THEN /\ rows' = WithSuccessor(rows, writer.old, writer.id)
          /\ writer' = IF writer.kind = "update" THEN NoWrite
                       ELSE [writer EXCEPT !.pc = "record"]
     ELSE /\ UNCHANGED rows
          /\ writer' = IF writer.kind = "update" THEN NoWrite
                       ELSE [writer EXCEPT !.pc = "node"]
  /\ Disturbed
  /\ UNCHANGED <<graph, conflicts, drifts, writes>>

RecordConflict ==
  /\ writer.pc = "record"
  /\ conflicts' = Append(conflicts, [winner |-> writer.id, loser |-> writer.old,
                                     project |-> rows[writer.id].project])
  /\ writer' = [writer EXCEPT !.pc = "node"]
  /\ Disturbed
  /\ UNCHANGED <<rows, graph, drifts, writes>>

AddNode ==
  /\ writer.pc = "node"
  /\ graph' = WithNode(graph, writer.id)
  /\ writer' = [writer EXCEPT !.pc = "recent"]
  /\ Disturbed
  /\ UNCHANGED <<rows, conflicts, drifts, writes>>

(* recent_crystal_ids: the active crystals of the project.                 *)
Recent ==
  /\ writer.pc = "recent"
  /\ writer' = [writer EXCEPT !.pc = "link", !.todo =
       {i \in Ids \ {writer.id} : /\ rows[i].status = "active"
                                 /\ rows[i].project = rows[writer.id].project}]
  /\ Disturbed
  /\ UNCHANGED <<rows, graph, conflicts, drifts, writes>>

(* Newest first; an end that is not there ends the loop.                   *)
Link ==
  /\ writer.pc = "link"
  /\ IF writer.todo # {} /\ CanLink(graph, writer.id, Max(writer.todo))
     THEN /\ graph' = WithEdge(graph, writer.id, Max(writer.todo), "LINKS_TO")
          /\ writer' = [writer EXCEPT !.todo = @ \ {Max(@)}]
     ELSE /\ writer' = NoWrite
          /\ UNCHANGED graph
  /\ Disturbed
  /\ UNCHANGED <<rows, conflicts, drifts, writes>>

(* One transaction on a row that is there: a duplicate is merged into it,  *)
(* an operator releases it from quarantine, Dream deprecates it.           *)
Corroborated(row, author) ==
  [row EXCEPT !.merged = @ \cup {row.author, author}, !.corroboration = @ + 1]

Change(i) ==
  /\ writes < MaxWrites /\ Present(rows, i)
  /\ \/ \E author \in Authors : rows' = [rows EXCEPT ![i] = Corroborated(@, author)]
     \/ /\ rows[i].quarantined
        /\ rows' = [rows EXCEPT ![i].quarantined = FALSE]
     \/ /\ rows[i].status = "active"
        /\ rows' = WithStatus(rows, i, "deprecated")
  /\ writes' = writes + 1
  /\ Disturbed
  /\ UNCHANGED <<graph, conflicts, drifts, writer>>

(* A pair is recorded once, its less trusted crystal as the candidate.     *)
RecordDrift(i, j) ==
  /\ writes < MaxWrites
  /\ rows[i].status = "active" /\ Present(rows, j) /\ rows[i].project = rows[j].project
  /\ \A d \in ToSet(drifts) : {d.candidate, d.prior} # {i, j}
  /\ drifts' = Append(drifts, [candidate |-> i, prior |-> j])
  /\ writes' = writes + 1
  /\ Disturbed
  /\ UNCHANGED <<rows, graph, conflicts, writer>>

(* The forget command: the row first, the node of the graph last; the      *)
(* second may fail, and the node stays.                                    *)
Tombstone(i) ==
  /\ writer.pc = "idle" /\ writes < MaxWrites /\ Present(rows, i)
  /\ rows' = [rows EXCEPT ![i] = [NoRow EXCEPT !.project = "gone"]]
  /\ writer' = [Writes("forget", i) EXCEPT !.pc = "unlink"]
  /\ writes' = writes + 1
  /\ Disturbed
  /\ UNCHANGED <<graph, conflicts, drifts>>

Unlink ==
  /\ writer.pc = "unlink"
  /\ graph' \in {WithoutNode(graph, writer.old), graph}
  /\ writer' = NoWrite
  /\ Disturbed
  /\ UNCHANGED <<rows, conflicts, drifts, writes>>

(***************************************************************************)
(* What list_for_export selects.                                           *)
(***************************************************************************)
(* An alternative: a crystal for one audience is shown to every other.     *)
InAudienceAny(row, audience) == TRUE

InAudience(row, audience) == audience = "any" \/ row.audience \in {"all", audience}

Everything == [quarantined |-> TRUE, deprecated |-> TRUE, superseded |-> TRUE]

Selects(flags, row) ==
  /\ row.status \in {"active"} \cup (IF flags.deprecated THEN {"deprecated"} ELSE {})
  /\ flags.quarantined \/ ~row.quarantined
  /\ flags.superseded \/ (row.by = 0 /\ row.until = "open")

ListForExport(flags, project, audience) ==
  {i \in Ids : /\ rows[i].project = project
               /\ Selects(flags, rows[i]) /\ InAudience(rows[i], audience)}

Exportable(request) == ListForExport(request, request.project, request.audience)

(* The newest first.                                                       *)
Newest(S, limit) == {i \in S : Cardinality({j \in S : j > i}) < limit}

(***************************************************************************)
(* The export, a read at a time.                                           *)
(***************************************************************************)
RawEdge(from, to, type, weight) ==
  [from |-> from, to |-> to, type |-> type, weight |-> weight]

List(request) ==
  /\ export.pc = "idle"
  /\ LET nodes == Newest(Exportable(request), request.limit)
     IN export' = [pc |-> "count", request |-> request, nodes |-> nodes, beside |-> 0,
                   by |-> [i \in nodes |-> rows[i].by], truncated |-> FALSE, raw |-> <<>>,
                   edges |-> {}, deduped |-> 0, dropped |-> 0]
  /\ UNCHANGED <<rows, graph, conflicts, drifts, writer, writes>>

Truncated(nodes, total, limit) == Cardinality(nodes) >= limit /\ total > limit

Count ==
  /\ export.pc = "count"
  /\ export' = [export EXCEPT !.pc = "graph", !.truncated =
       Truncated(export.nodes, Cardinality(Exportable(export.request)),
                 export.request.limit)]
  /\ UNCHANGED <<rows, graph, conflicts, drifts, writer, writes>>

Reads(pc, next, edges) ==
  /\ export.pc = pc
  /\ export' = [export EXCEPT !.pc = next, !.raw = @ \o edges]
  /\ UNCHANGED <<rows, graph, conflicts, drifts, writer, writes>>

(* The supersessions in the graph store are passed over.                   *)
ReadGraph ==
  Reads("graph", "supersedes",
    SetToSeq({RawEdge(e.from, e.to, e.type, 100) :
                e \in {d \in graph.edges : d.type # "SUPERSEDES"}}))

(* all_edges returns nothing when the store fails, and the command takes   *)
(* an empty store when it cannot open the one a server holds.              *)
GraphUnread == Reads("graph", "supersedes", <<>>)

(* An alternative: the list is read with the flags it has by default.      *)
LineageFlagsDefault == [quarantined |-> FALSE, deprecated |-> FALSE, superseded |-> FALSE]

LineageFlags == Everything

DeriveSupersedes ==
  LET list == {i \in ListForExport(LineageFlags, export.request.project, "any") :
                 rows[i].by # 0}
  IN Reads("supersedes", "merged",
       SetToSeq({RawEdge(rows[i].by, i, "SUPERSEDES", 100) : i \in list}))

(* Every crystal of a merged author counts as merged from. *)
DeriveMergedFrom ==
  LET list == ListForExport(Everything, export.request.project, "any")
      pairs == {p \in (list \cap export.nodes) \X list :
                  p[1] # p[2] /\ rows[p[2]].author \in rows[p[1]].merged}
  IN Reads("merged", "conflicts",
       SetToSeq({RawEdge(p[1], p[2], "MERGED_FROM",
                         100 * rows[p[1]].corroboration) : p \in pairs}))

DeriveConflicts ==
  LET rawEdge(c) == RawEdge(c.winner, c.loser, "CONFLICTS_WITH", Similarity)
      mine == SetToSeq({k \in DOMAIN conflicts :
                          conflicts[k].project = export.request.project})
  IN Reads("conflicts", IF export.request.drift THEN "drifts" ELSE "clean",
       [n \in DOMAIN mine |-> rawEdge(conflicts[mine[n]])])

(* The drift marks are those of every project. *)
DeriveDrifts ==
  Reads("drifts", "clean",
    [k \in DOMAIN drifts |-> RawEdge(drifts[k].candidate, drifts[k].prior,
                                     "CONFLICTS_WITH", DriftSimilarity)])

(***************************************************************************)
(* _apply_hygiene: self-loops go, dangling edges go if asked, duplicates   *)
(* become one edge with the greatest weight.                               *)
(***************************************************************************)
Key(e) == <<e.from, e.to, e.type>>

(* An alternative: an edge stays when one of its ends is a node.           *)
EndsInEither(e, nodes) == e.from \in nodes \/ e.to \in nodes

EndsIn(e, nodes) == e.from \in nodes /\ e.to \in nodes

(* An alternative: the last of the duplicates is kept as it is.            *)
DedupedLast(done, e) ==
  IF \E d \in done.edges : Key(d) = Key(e)
  THEN [edges |-> {d \in done.edges : Key(d) # Key(e)} \cup {e},
        count |-> done.count + 1]
  ELSE [done EXCEPT !.edges = @ \cup {e}]

Deduped(done, e) ==
  IF \E d \in done.edges : Key(d) = Key(e)
  THEN LET old == CHOOSE d \in done.edges : Key(d) = Key(e)
       IN [edges |-> (done.edges \ {old})
                       \cup {[old EXCEPT !.weight = Max({@, e.weight})]},
           count |-> done.count + 1]
  ELSE [done EXCEPT !.edges = @ \cup {e}]

(* The places of raw, and what is made of the edges at the kept ones.      *)
Proper(raw) == {k \in DOMAIN raw : raw[k].from # raw[k].to}

Kept(raw, nodes, policy) ==
  {k \in Proper(raw) : policy = "drop" => EndsIn(raw[k], nodes)}

Merged(raw, kept) ==
  LET done[n \in 0..Len(raw)] ==
        IF n = 0 THEN [edges |-> {}, count |-> 0]
        ELSE IF n \in kept THEN Deduped(done[n - 1], raw[n]) ELSE done[n - 1]
  IN  done[Len(raw)]

Answer ==
  LET kept == Kept(export.raw, export.nodes, export.request.dangling)
      merged == Merged(export.raw, kept)
  IN /\ export.pc = "clean"
     /\ export' = [export EXCEPT !.pc = "answered", !.edges = merged.edges,
                     !.deduped = merged.count,
                     !.dropped = Cardinality(Proper(export.raw) \ kept)]
     /\ UNCHANGED <<rows, graph, conflicts, drifts, writer, writes>>

(* The same for Cytoscape, which wants an id per edge (export/adapters.py). *)
Cytoscape(answer) ==
  [nodes |-> answer.nodes,
   edges |-> {[id |-> <<e.type, e.from, e.to>>, source |-> e.from, target |-> e.to,
               type |-> e.type, weight |-> e.weight] : e \in answer.edges}]

ExportStep ==
  \/ \E request \in Requests : List(request)
  \/ Count \/ ReadGraph \/ GraphUnread \/ DeriveSupersedes \/ DeriveMergedFrom
  \/ DeriveConflicts \/ DeriveDrifts \/ Answer

Init ==
  /\ rows = [i \in Ids |-> NoRow]
  /\ graph = NoLinks
  /\ conflicts = <<>> /\ drifts = <<>>
  /\ writer = NoWrite
  /\ export = NoExport
  /\ writes = 0

WriteStep ==
  \/ Commit \/ InsertFact \/ Mark \/ RecordConflict \/ AddNode \/ Recent \/ Link \/ Unlink
  \/ \E i \in Ids : Update(i) \/ UpdateFact(i) \/ Change(i) \/ Tombstone(i)
  \/ \E i, j \in Ids : i # j /\ RecordDrift(i, j)

(* One export, at any time; what is written after it is of no interest.    *)
Next == export.pc # "answered" /\ (WriteStep \/ ExportStep)

Spec == Init /\ [][Next]_vars

-----------------------------------------------------------------------------
Answered == export.pc = "answered"

(* Whether the row of i, if there is one still, is one the request asks    *)
(* for; a quarantine is lifted only, and the rest of this never changes.   *)
MayBeSeen(i, request) ==
  \/ rows[i].project = "gone"
  \/ /\ rows[i].project = request.project
     /\ rows[i].audience \in {"all", request.audience} \/ request.audience = "any"
     /\ rows[i].quarantined => request.quarantined

(* Nothing the request leaves out is in the answer, be it as a node or as  *)
(* the end of an edge: the graph and the ledgers are read for every        *)
(* project and audience, quarantined or not, and only the last step keeps  *)
(* what they name out (unless the caller asks to keep such edges).         *)
NothingHidden ==
  Answered =>
    LET ends == IF export.request.dangling = "keep" THEN {}
                ELSE UNION {{e.from, e.to} : e \in export.edges}
    IN \A i \in export.nodes \cup ends : MayBeSeen(i, export.request)

(* The counts account for every edge that was read or derived, no two      *)
(* edges of the answer get the same id for Cytoscape, and an edge that     *)
(* two ledgers hold has the greater of their weights.                      *)
HygieneAccounts ==
  Answered =>
    LET proper == Proper(export.raw)
    IN /\ Cardinality(export.edges) + export.deduped + export.dropped = Cardinality(proper)
       /\ \A d, e \in Cytoscape(export).edges : d.id = e.id => d = e
       /\ \A e \in export.edges, k \in proper :
            Key(export.raw[k]) = Key(e) => export.raw[k].weight <= e.weight

(* An export with the superseded crystals in it has the supersession of    *)
(* each, whatever else is filtered out of it and whatever was written      *)
(* since its nodes were listed.                                            *)
LineageComplete ==
  Answered /\ export.request.superseded =>
    \A i \in export.nodes :
      export.by[i] \in export.nodes /\ rows[i].by = export.by[i] =>
        \E e \in export.edges : Key(e) = <<export.by[i], i, "SUPERSEDES">>

=============================================================================
