------------------------------ MODULE Revisions -------------------------------
(***************************************************************************)
(* How crystals are written, revised, deprecated and forgotten: the tools  *)
(* commit and update, the prune of a Dream run and the operator's "forget" *)
(* command, over the three stores that hold a crystal - the table crystals *)
(* (with forget_audit), the blob store and the vector index. Execution     *)
(* crystals are the subject of Checkpoints.                                *)
(*                                                                         *)
(* No transaction spans two stores, or two rows: a handler is a sequence   *)
(* of steps. One server runs its handlers one at a time, but several       *)
(* servers and commands may share the stores, and a step may be the last.  *)
(***************************************************************************)
EXTENDS CrystalRows, FiniteSets, Sequences

CONSTANTS Servers,      \* server processes on the same data directory
          Operators,    \* "crystalium forget" processes
          MaxId,        \* bound: crystals written
          Contents,     \* what a crystal may say; equal content, near duplicate
          NoContent,    \* what a row that is not there says
          Pointers,     \* content_refs that the patch of an update may name
          Layers,       \* the layers in use
          Pruning,      \* TRUE if Dream may deprecate crystals
          MaxCrashes    \* bound: processes killed in the middle of a handler

Ids   == 1..MaxId
Procs == Servers \cup Operators

(* A blob is named by its content. semantic.update() stores the whole      *)
(* record, its new id included, so that blob is like no other.             *)
BlobRefs == Contents \cup Ids

ASSUME RevisionsAssumption ==
  /\ Servers \cap Operators = {}
  /\ MaxId \in Nat /\ MaxCrashes \in Nat
  /\ Contents \cap Nat = {} /\ NoContent \notin Contents \cup Nat
  /\ Layers \subseteq {"episodic", "semantic", "procedural"}
  /\ Pointers \subseteq BlobRefs
  /\ Pruning \in BOOLEAN

VARIABLES
  rows,       \* the table crystals
  blobs,      \* the content_refs of the files in the blob store
  vectors,    \* the vector index
  audit,      \* forget_audit: the ids erased
  job,        \* what each process is in the middle of
  minted,     \* how many ids have been minted
  crashes,    \* processes killed so far
  root,       \* history: the first revision of each crystal's lineage
  prev,       \* history: the revision that each crystal was made from, or 0
  pointed,    \* history: the ids whose content_ref is a caller's, not the code's
  cut         \* history: the ids whose writer was killed before it was done
              \*          with the table

stores      == <<rows, blobs, vectors, audit>>
historyVars == <<root, prev, pointed, cut>>
vars == <<stores, job, minted, crashes, historyVars>>

Row == [layer : Layers, status : Statuses, until : Validity, by : Ids \cup {0},
        text : Contents, blob : BlobRefs]

NoRow == [layer |-> "none", status |-> "absent", until |-> "open", by |-> 0,
          text |-> NoContent, blob |-> NoContent]

Vector == [id : Ids, layer : Layers, text : Contents]

(* A job is an operation, the step it takes next, the id it acts on (old), *)
(* the id it minted (new) and the row it holds in memory.                  *)
NoJob == [op |-> "none", next |-> 0, old |-> 0, new |-> 0, row |-> NoRow]

Jobs == [op : {"commit", "merge", "update", "revise", "forget"}, next : 1..3,
         old : Ids \cup {0}, new : Ids \cup {0}, row : Row]
        \cup [op : {"override", "revise"}, next : 1..4, old : Ids, new : Ids, row : Row]
        \cup {NoJob}

TypeOK ==
  /\ rows \in [Ids -> Row \cup {NoRow}]
  /\ blobs \subseteq BlobRefs
  /\ vectors \subseteq Vector
  /\ audit \subseteq Ids
  /\ job \in [Procs -> Jobs]
  /\ minted \in 0..MaxId
  /\ crashes \in 0..MaxCrashes
  /\ root \in [Ids -> Ids \cup {0}]
  /\ prev \in [Ids -> Ids \cup {0}]
  /\ pointed \subseteq Ids
  /\ cut \subseteq Ids

Init ==
  /\ rows = [i \in Ids |-> NoRow]
  /\ blobs = {}
  /\ vectors = {}
  /\ audit = {}
  /\ job = [p \in Procs |-> NoJob]
  /\ minted = 0
  /\ crashes = 0
  /\ root = [i \in Ids |-> 0]
  /\ prev = [i \in Ids |-> 0]
  /\ pointed = {}
  /\ cut = {}

-------------------------------------------------------------------------------
(* The order of the steps of each operation *)

(* Every update invalidates the old revision before writing the new one. *)
OrderMarkingFirst ==
  [commit |-> <<"put", "insert", "embed">>,
   override |-> <<"put", "insert", "mark", "embed">>,
   merge  |-> <<"merge">>,
   update |-> <<"mark", "insert", "embed">>,
   revise |-> <<"mark", "put", "insert", "embed">>,
   forget |-> <<"tombstone", "unlink", "unembed">>]

(* A commit writes the row before the content it points to. *)
OrderInsertingFirst ==
  [commit |-> <<"insert", "put", "embed">>,
   override |-> <<"insert", "put", "mark", "embed">>,
   merge  |-> <<"merge">>,
   update |-> <<"insert", "mark", "embed">>,
   revise |-> <<"mark", "put", "insert", "embed">>,
   forget |-> <<"tombstone", "unlink", "unembed">>]

Order ==
  [commit |-> <<"put", "insert", "embed">>,
   override |-> <<"put", "insert", "mark", "embed">>,
   merge  |-> <<"merge">>,
   update |-> <<"insert", "mark", "embed">>,
   revise |-> <<"mark", "put", "insert", "embed">>,
   forget |-> <<"tombstone", "unlink", "unembed">>]

Begin(p, op, old, new, row) ==
  /\ job[p] = NoJob
  /\ job' = [job EXCEPT ![p] =
               [op |-> op, next |-> 1, old |-> old, new |-> new, row |-> row]]

At(p, step) == job[p] # NoJob /\ Order[job[p].op][job[p].next] = step

Continue(p) ==
  job' = IF job[p].next = Len(Order[job[p].op]) THEN [job EXCEPT ![p] = NoJob]
                                                ELSE [job EXCEPT ![p].next = @ + 1]

Mint == minted' = minted + 1
NewId == minted + 1

-------------------------------------------------------------------------------
(* The beginnings of the handlers: the reads they decide on *)

NewCrystal(layer, status, text) ==
  [layer |-> layer, status |-> status, until |-> "open", by |-> 0,
   text |-> text, blob |-> text]

(* _dedup_target: the nearest vector of the layer, if its row is there;    *)
(* whether that row is active is not asked.                                *)
NearDuplicates(layer, text) ==
  {v \in vectors : layer # "procedural" /\ v.layer = layer /\ v.text = text}

(* A procedural crystal starts active only if the gate admits it, and a    *)
(* semantic one is written only if the gate admits it: what the gate asks  *)
(* for is left open here, where only the fate of what it let in matters.   *)
FirstStatus(layer) ==
  IF layer = "procedural" THEN {"active", "candidate"} ELSE {"active"}

Commit(s) ==
  /\ minted < MaxId /\ Mint
  /\ \E layer \in Layers, text \in Contents :
       /\ \/ NearDuplicates(layer, text) = {}
          \/ \E v \in NearDuplicates(layer, text) : ~Present(rows, v.id)
       /\ \E status \in FirstStatus(layer) :
            Begin(s, "commit", 0, NewId, NewCrystal(layer, status, text))
  /\ UNCHANGED <<stores, crashes, historyVars>>

(* A fact that is as near as the same subject and says otherwise loses to  *)
(* the one committed, if its row is active when it is read.                *)
Diverging(text) ==
  {v \in vectors : v.layer = "semantic" /\ v.text # text /\ rows[v.id].status = "active"}

CommitOverriding(s) ==
  /\ minted < MaxId /\ Mint
  /\ "semantic" \in Layers
  /\ \E text \in Contents, v \in vectors :
       /\ v \in Diverging(text)
       /\ \A d \in NearDuplicates("semantic", text) : ~Present(rows, d.id)
       /\ Begin(s, "override", v.id, NewId, NewCrystal("semantic", "active", text))
  /\ UNCHANGED <<stores, crashes, historyVars>>

CommitDuplicate(s) ==
  /\ \E layer \in Layers, text \in Contents :
       \E v \in NearDuplicates(layer, text) :
         /\ Present(rows, v.id)
         /\ Begin(s, "merge", v.id, 0, rows[v.id])
  /\ UNCHANGED <<stores, minted, crashes, historyVars>>

(* The revision that an update of a copy of the old row builds. *)
Revision(row, layer, text, blob) ==
  [row EXCEPT !.status = "active", !.until = "open", !.by = 0,
              !.layer = layer, !.text = text, !.blob = blob]

(* _handle_update, of any row, superseded or not. The patch may say what   *)
(* the crystal says, and where its content is.                             *)
Update(s) ==
  /\ minted < MaxId /\ Mint
  /\ \E i \in Ids, text \in Contents : \E blob \in Pointers \cup {rows[i].blob} :
       /\ Present(rows, i)
       /\ rows[i].layer # "semantic"
       /\ Begin(s, "update", i, NewId, Revision(rows[i], rows[i].layer, text, blob))
       /\ pointed' = IF blob # rows[i].blob \/ i \in pointed
                     THEN pointed \cup {NewId} ELSE pointed
  /\ UNCHANGED <<stores, crashes, root, prev, cut>>

(* semantic.update, its second read taken together with that of its        *)
(* caller. The patch may even name another layer; the content_ref is that  *)
(* of the record it stores.                                                *)
SemanticUpdate(s) ==
  /\ minted < MaxId /\ Mint
  /\ \E i \in Ids, layer \in Layers, text \in Contents :
       /\ Present(rows, i)
       /\ rows[i].layer = "semantic"
       /\ Begin(s, "revise", i, NewId, Revision(rows[i], layer, text, NewId))
  /\ UNCHANGED <<stores, crashes, historyVars>>

(* crystalium forget: the row is read, then the operator is asked.         *)
Forget(o) ==
  /\ \E i \in Ids :
       /\ Present(rows, i)
       /\ Begin(o, "forget", i, 0, rows[i])
  /\ UNCHANGED <<stores, minted, crashes, historyVars>>

-------------------------------------------------------------------------------
(* The steps on the stores *)

(* merge_provenance; it returns False when the row is gone, which nobody   *)
(* looks at. Provenance is not modelled.                                   *)
Merge(p) ==
  /\ At(p, "merge")
  /\ Continue(p)
  /\ UNCHANGED <<stores, minted, crashes, historyVars>>

(* BlobStore.put *)
Put(p) ==
  /\ At(p, "put")
  /\ blobs' = blobs \cup {job[p].row.blob}
  /\ Continue(p)
  /\ UNCHANGED <<rows, vectors, audit, minted, crashes, historyVars>>

Revises(j) == j.op \in {"update", "revise"}

Insert(p) ==
  /\ At(p, "insert")
  /\ rows' = WithRow(rows, job[p].new, job[p].row)
  /\ prev' = [prev EXCEPT ![job[p].new] = IF Revises(job[p]) THEN job[p].old ELSE 0]
  /\ root' = [root EXCEPT ![job[p].new] =
                IF Revises(job[p]) THEN root[job[p].old] ELSE job[p].new]
  /\ Continue(p)
  /\ UNCHANGED <<blobs, vectors, audit, minted, crashes, pointed, cut>>

Mark(p) ==
  /\ At(p, "mark")
  /\ Present(rows, job[p].old)
  /\ rows' = WithSuccessor(rows, job[p].old, job[p].new)
  /\ Continue(p)
  /\ UNCHANGED <<blobs, vectors, audit, minted, crashes, historyVars>>

(* mark_superseded raises KeyError: an update ends there, a commit says no *)
(* more of the conflict and goes on.                                       *)
MarkFails(p) ==
  /\ At(p, "mark")
  /\ ~Present(rows, job[p].old)
  /\ IF job[p].op = "override" THEN Continue(p) ELSE job' = [job EXCEPT ![p] = NoJob]
  /\ UNCHANGED <<stores, minted, crashes, historyVars>>

(* The layer a new vector is filed under, whatever a patch said. *)
VectorLayer(j) == IF j.op = "revise" THEN "semantic" ELSE j.row.layer

(* VectorStore.upsert; errors are logged and passed over, and without an   *)
(* embedder, or for a procedural commit, nothing is done.                  *)
Embed(p) ==
  /\ At(p, "embed")
  /\ \/ /\ job[p].op = "commit" => job[p].row.layer # "procedural"
        /\ vectors' = vectors \cup
             {[id |-> job[p].new, layer |-> VectorLayer(job[p]),
               text |-> job[p].row.text]}
     \/ UNCHANGED vectors
  /\ Continue(p)
  /\ UNCHANGED <<rows, blobs, audit, minted, crashes, historyVars>>

(* A tombstone that writes the audit row even when it deletes nothing is   *)
(* harmless; one that writes none is not.                                  *)
TombstoneUnaudited(p) ==
  /\ At(p, "tombstone")
  /\ rows' = Erased(rows, job[p].old)
  /\ Continue(p)
  /\ UNCHANGED <<blobs, vectors, audit, minted, crashes, historyVars>>

(* RelationalStore.tombstone: the audit row and the DELETE in one          *)
(* transaction; nothing at all, and no error, if the row is gone.          *)
Tombstone(p) ==
  /\ At(p, "tombstone")
  /\ \/ /\ Present(rows, job[p].old)
        /\ audit' = audit \cup {job[p].old}
        /\ rows' = Erased(rows, job[p].old)
     \/ /\ ~Present(rows, job[p].old)
        /\ UNCHANGED <<rows, audit>>
  /\ Continue(p)
  /\ UNCHANGED <<blobs, vectors, minted, crashes, historyVars>>

(* BlobStore.tombstone: whoever else points to the blob. *)
Unlink(p) ==
  /\ At(p, "unlink")
  /\ blobs' = blobs \ {job[p].row.blob}
  /\ Continue(p)
  /\ UNCHANGED <<rows, vectors, audit, minted, crashes, historyVars>>

Unembed(p) ==
  /\ At(p, "unembed")
  /\ vectors' = {v \in vectors : v.id # job[p].old}
  /\ Continue(p)
  /\ UNCHANGED <<rows, blobs, audit, minted, crashes, historyVars>>

-------------------------------------------------------------------------------
(* The UPDATE at the end of _prune, and the one of a rejected review: the  *)
(* row was read active, and active crystals stay active until then. Which  *)
(* crystals score low is left open.                                        *)
Deprecate(i) ==
  /\ Pruning
  /\ rows[i].status = "active"
  /\ rows' = WithStatus(rows, i, "deprecated")
  /\ UNCHANGED <<blobs, vectors, audit, job, minted, crashes, historyVars>>

Crash(p) ==
  /\ crashes < MaxCrashes
  /\ job[p] # NoJob
  /\ crashes' = crashes + 1
  /\ job' = [job EXCEPT ![p] = NoJob]
  /\ cut' = IF job[p].new # 0 /\ ~At(p, "embed") THEN cut \cup {job[p].new} ELSE cut
  /\ UNCHANGED <<stores, minted, root, prev, pointed>>

-------------------------------------------------------------------------------
Start(s) == Commit(s) \/ CommitOverriding(s) \/ CommitDuplicate(s)
            \/ Update(s) \/ SemanticUpdate(s)

Step(p) == Merge(p) \/ Put(p) \/ Insert(p) \/ Mark(p) \/ MarkFails(p) \/ Embed(p)
           \/ Tombstone(p) \/ Unlink(p) \/ Unembed(p)

Next ==
  \/ \E s \in Servers : Start(s)
  \/ \E o \in Operators : Forget(o)
  \/ \E p \in Procs : Step(p) \/ Crash(p)
  \/ \E i \in Ids : Deprecate(i)

Spec == Init /\ [][Next]_vars

-------------------------------------------------------------------------------
(* Properties *)

(* The trail of supersessions leads on: whatever processes interleave and  *)
(* wherever they are killed, the successor of a row has been written, and  *)
(* is there unless it was forgotten. Only semantic.update() may owe the    *)
(* successor, while it runs or for good if it is killed.                   *)
Owed(i) ==
  /\ rows[i].layer = "semantic"
  /\ \/ rows[i].by \in cut /\ root[rows[i].by] = 0
     \/ \E p \in Procs : job[p].new = rows[i].by

SuccessorTracked ==
  \A i \in Ids : Present(rows, i) /\ rows[i].by # 0 =>
    Present(rows, rows[i].by) \/ rows[i].by \in audit \/ Owed(i)

(* index -> pointer -> content: no interleaving and no crash leaves a row  *)
(* pointing at content that was never stored, unless a caller's patch set  *)
(* the pointer. Content is only ever lost to the forgetting of a crystal   *)
(* that has the same content, of which there is an audit.                  *)
ContentStored ==
  \A i \in Ids : Present(rows, i) /\ i \notin pointed =>
    rows[i].blob \in blobs \/ \E j \in audit : rows[j].blob = rows[i].blob

(* What methodology/cortex/memory-protocol.md:116 says of the erasure,     *)
(* "only the targeted entry is purged": a crystal that is there has the    *)
(* content that was stored for it, whatever else is forgotten. The code    *)
(* unlinks content that a revision or an equal crystal still points to.    *)
OnlyTargetPurged ==
  \A i \in Ids : Present(rows, i) /\ i \notin pointed => rows[i].blob \in blobs

(* Never hard-delete, and never rewrite history: a step may close a row,   *)
(* point it to a successor or deprecate it; it never changes what the row  *)
(* says, never reopens or reactivates it, and only an audited erasure      *)
(* removes it, for good.                                                   *)
Kept(i) ==
  /\ rows'[i].layer = rows[i].layer
  /\ rows'[i].text = rows[i].text
  /\ rows'[i].blob = rows[i].blob
  /\ rows[i].by # 0 => rows'[i].by # 0
  /\ rows[i].until = "closed" => rows'[i].until = "closed"
  /\ rows'[i].status # rows[i].status => rows'[i].status = "deprecated"

HistoryPreserved ==
  [][\A i \in Ids :
       /\ Present(rows, i) => Kept(i) \/ i \in audit'
       /\ i \in audit => ~Present(rows', i)]_vars

(* Of the revisions of one fact at most one is recalled, whoever updates   *)
(* whichever of them, forgets, prunes or is killed, unless an update of it *)
(* is under way or was killed between its two writes, or the fact forked:  *)
(* one of its revisions was updated twice, which the code allows.          *)
BeingRevised(r) == \E p \in Procs : Revises(job[p]) /\ root[job[p].old] = r

Torn(r) == \E i \in cut : root[i] = r /\ prev[i] # 0

Forked(r) ==
  \E i, j \in Ids : i # j /\ root[i] = r /\ root[j] = r /\ prev[i] # 0 /\ prev[i] = prev[j]

OneCurrentRevision ==
  \A i, j \in Ids :
    Recallable(rows[i]) /\ Recallable(rows[j]) /\ root[i] = root[j]
      => i = j \/ BeingRevised(root[i]) \/ Torn(root[i]) \/ Forked(root[i])

(* A fact is not lost to its own revision: as long as no revision of it is *)
(* deprecated or forgotten and no process is revising it, one is recalled. *)
(* Killed updates included, unless the fact is semantic.                   *)
Lineage(r) == {i \in Ids : Present(rows, i) /\ root[i] = r}

FactSurvivesUpdates ==
  \A r \in Ids :
    /\ Lineage(r) # {}
    /\ \A i \in Lineage(r) : rows[i].status = "active" /\ rows[i].layer # "semantic"
    /\ \A i \in audit : root[i] # r
    => \E i \in Lineage(r) : Recallable(rows[i])

===============================================================================
