---------------------------- MODULE RevisionsProofs ---------------------------
(***************************************************************************)
(* Theorems about Revisions for any number of servers, operators, crystals *)
(* and crashes, any contents and layers, with and without pruning, and     *)
(* whichever revisions the callers update.                                 *)
(***************************************************************************)
EXTENDS Revisions, TLAPS

-------------------------------------------------------------------------------
(* Which step of which operation a process is at *)

LEMMA OrderLengths ==
  /\ Len(Order["commit"]) = 3 /\ Len(Order["update"]) = 3
  /\ Len(Order["override"]) = 4 /\ Len(Order["revise"]) = 4
  /\ Len(Order["merge"]) = 1
  /\ Len(Order["forget"]) = 3
  BY DEF Order

Length(op) == CASE op \in {"override", "revise"} -> 4 [] op = "merge" -> 1 [] OTHER -> 3

LEMMA LengthTyped == \A op : Length(op) \in {1, 3, 4}
  BY DEF Length

(* An operation that writes a row has minted an id for it; the others act  *)
(* on a row that was there when they began.                                *)
WellFormed(j) ==
  \/ j = NoJob
  \/ /\ j.op \in {"commit", "override", "update", "revise"}
     /\ j.new \in Ids
     /\ j.op = "commit" <=> j.old = 0
     /\ j.op = "revise" => "semantic" \in Layers
     /\ j.row.by = 0
     /\ j.next \in 1..Length(j.op)
  \/ /\ j.op \in {"merge", "forget"}
     /\ j.new = 0 /\ j.old \in Ids
     /\ j.next \in 1..Length(j.op)

Typed == TypeOK /\ \A p \in Procs : WellFormed(job[p])

LEMMA InitTyped == Init => Typed
  BY RevisionsAssumption
  DEF Init, Typed, TypeOK, WellFormed, Jobs, NoJob, NoRow, Row, Ids

LEMMA RunningJob ==
  ASSUME Typed, NEW p \in Procs, job[p] # NoJob
  PROVE  /\ job[p].row \in Row
         /\ job[p].old \in Ids \cup {0} /\ job[p].new \in Ids \cup {0}
         /\ job[p].op \in {"commit", "override", "update", "revise", "merge", "forget"}
         /\ job[p].next \in 1..Length(job[p].op)
         /\ Length(job[p].op) = Len(Order[job[p].op])
<1>1. job[p] \in Jobs \ {NoJob} /\ WellFormed(job[p])
  BY DEF Typed, TypeOK
<1>2. job[p].row \in Row /\ job[p].old \in Ids \cup {0} /\ job[p].new \in Ids \cup {0}
  BY <1>1 DEF Jobs
<1>3. /\ job[p].op \in {"commit", "override", "update", "revise", "merge", "forget"}
      /\ job[p].next \in 1..Length(job[p].op)
  BY <1>1 DEF WellFormed
<1>4. Length(job[p].op) = Len(Order[job[p].op])
  BY <1>3, OrderLengths DEF Length
<1> QED BY <1>2, <1>3, <1>4

LEMMA AtStep ==
  ASSUME Typed, NEW p \in Procs, NEW step, At(p, step)
  PROVE  LET op == job[p].op  n == job[p].next IN
    /\ job[p] # NoJob
    /\ step = "put" => (op \in {"commit", "override"} /\ n = 1) \/ (op = "revise" /\ n = 2)
    /\ step = "insert" => \/ op \in {"commit", "override"} /\ n = 2
                          \/ op = "update" /\ n = 1
                          \/ op = "revise" /\ n = 3
    /\ step = "mark" => \/ op = "update" /\ n = 2
                        \/ op = "override" /\ n = 3
                        \/ op = "revise" /\ n = 1
    /\ step = "embed" => \/ op \in {"commit", "update"} /\ n = 3
                         \/ op \in {"override", "revise"} /\ n = 4
    /\ step = "merge" => op = "merge"
    /\ step \in {"tombstone", "unlink", "unembed"} => op = "forget"
<1>1. /\ job[p] # NoJob /\ Order[job[p].op][job[p].next] = step
      /\ job[p].op \in {"commit", "override", "update", "revise", "merge", "forget"}
      /\ job[p].next \in 1..Length(job[p].op)
  BY RunningJob DEF At
<1>2. CASE job[p].op = "commit"
  BY <1>1, <1>2 DEF Order, Length
<1>7. CASE job[p].op = "override"
  BY <1>1, <1>7 DEF Order, Length
<1>3. CASE job[p].op = "update"
  BY <1>1, <1>3 DEF Order, Length
<1>4. CASE job[p].op = "revise"
  BY <1>1, <1>4 DEF Order, Length
<1>5. CASE job[p].op = "merge"
  BY <1>1, <1>5 DEF Order, Length
<1>6. CASE job[p].op = "forget"
  BY <1>1, <1>6 DEF Order, Length
<1> QED BY <1>1, <1>2, <1>3, <1>4, <1>5, <1>6, <1>7

(* A process is through with a step: it goes on to the next or is done.    *)
Advanced(j, k) ==
  /\ k.op = j.op /\ k.old = j.old /\ k.new = j.new /\ k.row = j.row
  /\ k.next = j.next + 1
  /\ k.next <= Length(j.op)

LEMMA NextField ==
  ASSUME NEW j \in Jobs, j # NoJob, j.next < Length(j.op), WellFormed(j)
  PROVE  LET k == [j EXCEPT !.next = @ + 1]
         IN  k \in Jobs /\ k # NoJob /\ Advanced(j, k) /\ WellFormed(k)
<1> DEFINE k == [j EXCEPT !.next = @ + 1]
<1>1. j.next \in 1..3
  BY DEF WellFormed, Length
<1>2. k = [op |-> j.op, next |-> j.next + 1, old |-> j.old, new |-> j.new, row |-> j.row]
  BY DEF Jobs
<1>3. Advanced(j, k)
  <2>1. j.next + 1 <= Length(j.op)
    BY <1>1, LengthTyped
  <2> QED BY <1>2, <2>1 DEF Advanced
<1>4. k # NoJob
  BY <1>2 DEF NoJob, WellFormed
<1>5. WellFormed(k)
  BY <1>1, <1>2 DEF WellFormed, Length
<1>6. k \in Jobs
  BY <1>1, <1>2, <1>5 DEF WellFormed, Length, Jobs
<1> QED BY <1>3, <1>4, <1>5, <1>6

LEMMA Continues ==
  ASSUME Typed, NEW p \in Procs, job[p] # NoJob, Continue(p)
  PROVE  /\ \A q \in Procs \ {p} : job'[q] = job[q]
         /\ \/ job'[p] = NoJob /\ job[p].next = Length(job[p].op)
            \/ job'[p] # NoJob /\ Advanced(job[p], job'[p])
         /\ job' \in [Procs -> Jobs] /\ \A q \in Procs : WellFormed(job'[q])
<1>1. job[p].next \in 1..Length(job[p].op) /\ Length(job[p].op) = Len(Order[job[p].op])
  BY RunningJob
<1>2. Length(job[p].op) \in {1, 3, 4}
  BY LengthTyped
<1>3. CASE job[p].next = Len(Order[job[p].op])
  <2>1. job' = [job EXCEPT ![p] = NoJob]
    BY <1>3 DEF Continue
  <2> QED BY <1>1, <1>3, <2>1 DEF Typed, TypeOK, Jobs, WellFormed
<1>4. CASE job[p].next # Len(Order[job[p].op])
  <2> DEFINE k == [job[p] EXCEPT !.next = @ + 1]
  <2>1. job' = [job EXCEPT ![p] = k]
    BY <1>4 DEF Continue
  <2>2. k \in Jobs /\ k # NoJob /\ Advanced(job[p], k) /\ WellFormed(k)
    <3>1. job[p] \in Jobs /\ WellFormed(job[p])
      BY DEF Typed, TypeOK
    <3>2. job[p].next < Length(job[p].op)
      BY <1>1, <1>2, <1>4
    <3> QED BY <3>1, <3>2, NextField
  <2> HIDE DEF k
  <2> QED BY <2>1, <2>2 DEF Typed, TypeOK
<1> QED BY <1>3, <1>4

(* Beginning an operation                                                  *)
LEMMA Begins ==
  ASSUME Typed, NEW p \in Procs, NEW op, NEW old, NEW new, NEW row,
         Begin(p, op, old, new, row), row \in Row,
         \/ op = "commit" /\ old = 0 /\ new \in Ids /\ row.by = 0
         \/ /\ op \in {"override", "update", "revise"}
            /\ old \in Ids /\ new \in Ids /\ row.by = 0
            /\ op = "revise" => "semantic" \in Layers
         \/ op \in {"merge", "forget"} /\ old \in Ids /\ new = 0
  PROVE  /\ job[p] = NoJob
         /\ \A q \in Procs \ {p} : job'[q] = job[q]
         /\ job'[p] = [op |-> op, next |-> 1, old |-> old, new |-> new, row |-> row]
         /\ job' \in [Procs -> Jobs] /\ \A q \in Procs : WellFormed(job'[q])
<1> DEFINE j == [op |-> op, next |-> 1, old |-> old, new |-> new, row |-> row]
<1>1. job[p] = NoJob /\ job' = [job EXCEPT ![p] = j]
  BY DEF Begin
<1>2. j \in Jobs
  BY DEF Jobs
<1>3. WellFormed(j)
  BY RevisionsAssumption DEF WellFormed, Length, Ids
<1> HIDE DEF j
<1>4. job'[p] = j /\ job' \in [Procs -> Jobs] /\ \A q \in Procs \ {p} : job'[q] = job[q]
  BY <1>1, <1>2 DEF Typed, TypeOK
<1>5. \A q \in Procs : WellFormed(job'[q])
  BY <1>3, <1>4 DEF Typed
<1> QED BY <1>1, <1>4, <1>5 DEF j

LEMMA Mints ==
  ASSUME Typed, minted < MaxId, Mint
  PROVE  minted' \in 0..MaxId /\ NewId \in Ids /\ minted' = NewId
  BY RevisionsAssumption DEF Typed, TypeOK, Mint, NewId, Ids

LEMMA NewRows ==
  /\ \A layer \in Layers, text \in Contents : \A status \in FirstStatus(layer) :
       /\ NewCrystal(layer, status, text) \in Row
       /\ NewCrystal(layer, status, text).by = 0
       /\ NewCrystal(layer, status, text).until = "open"
       /\ NewCrystal(layer, status, text).status # "absent"
       /\ NewCrystal(layer, status, text).layer = layer
  /\ \A r \in Row, layer \in Layers, text \in Contents, blob \in BlobRefs :
       /\ Revision(r, layer, text, blob) \in Row
       /\ Revision(r, layer, text, blob).by = 0
       /\ Revision(r, layer, text, blob).status = "active"
       /\ Revision(r, layer, text, blob).until = "open"
       /\ Revision(r, layer, text, blob).layer = layer
       /\ Revision(r, layer, text, blob).blob = blob
<1>1. ASSUME NEW layer \in Layers, NEW text \in Contents, NEW status \in FirstStatus(layer)
      PROVE  /\ NewCrystal(layer, status, text) \in Row
             /\ NewCrystal(layer, status, text).by = 0
             /\ NewCrystal(layer, status, text).until = "open"
             /\ NewCrystal(layer, status, text).status # "absent"
             /\ NewCrystal(layer, status, text).layer = layer
  BY <1>1 DEF NewCrystal, FirstStatus, Row, Statuses, Validity, BlobRefs
<1>2. ASSUME NEW r \in Row, NEW layer \in Layers, NEW text \in Contents, NEW blob \in BlobRefs
      PROVE  /\ Revision(r, layer, text, blob) \in Row
             /\ Revision(r, layer, text, blob).by = 0
             /\ Revision(r, layer, text, blob).status = "active"
             /\ Revision(r, layer, text, blob).until = "open"
             /\ Revision(r, layer, text, blob).layer = layer
             /\ Revision(r, layer, text, blob).blob = blob
  BY <1>2 DEF Revision, Row, Statuses, Validity
<1> QED BY <1>1, <1>2

LEMMA PresentRow ==
  ASSUME Typed, NEW i \in Ids, Present(rows, i)
  PROVE  rows[i] \in Row /\ rows[i].layer \in Layers /\ rows[i].blob \in BlobRefs
<1>1. rows[i] \in Row
  BY DEF Typed, TypeOK, Present, NoRow
<1> QED BY <1>1 DEF Row

-------------------------------------------------------------------------------
(* What a step does to the jobs                                            *)

JobsTyped == job' \in [Procs -> Jobs] /\ \A p \in Procs : WellFormed(job'[p])

(* p begins an operation that is to write a row, and mints the id of it.   *)
Writes(p) ==
  /\ p \in Servers
  /\ job[p] = NoJob /\ minted' = minted + 1 /\ minted' \in Ids
  /\ \A q \in Procs \ {p} : job'[q] = job[q]
  /\ job'[p] # NoJob
  /\ job'[p].next = 1 /\ job'[p].new = minted' /\ job'[p].row.status # "absent"
  /\ job'[p].row.until = "open"
  /\ \/ job'[p].op = "commit" /\ job'[p].old = 0
     \/ /\ job'[p].op = "override"
        /\ job'[p].old \in Ids /\ Present(rows, job'[p].old)
        /\ \E v \in vectors : v.id = job'[p].old /\ v.layer = "semantic"
     \/ /\ job'[p].op = "update"
        /\ job'[p].old \in Ids /\ Present(rows, job'[p].old)
        /\ job'[p].row.layer # "semantic"
        /\ \/ job'[p].new \in pointed'
           \/ job'[p].old \notin pointed /\ job'[p].row.blob = rows[job'[p].old].blob
     \/ /\ job'[p].op = "revise"
        /\ job'[p].old \in Ids /\ Present(rows, job'[p].old)
        /\ rows[job'[p].old].layer = "semantic"
  /\ pointed \subseteq pointed' /\ pointed' \subseteq pointed \cup {job'[p].new}
  /\ UNCHANGED <<stores, crashes, root, prev, cut>>

(* p begins an operation on a row that is there.                           *)
Visits(p) ==
  /\ job[p] = NoJob
  /\ \A q \in Procs \ {p} : job'[q] = job[q]
  /\ job'[p] # NoJob
  /\ job'[p].op \in {"merge", "forget"}
  /\ job'[p].new = 0 /\ job'[p].old \in Ids /\ Present(rows, job'[p].old)
  /\ job'[p].row = rows[job'[p].old] /\ job'[p].next = 1
  /\ UNCHANGED <<stores, minted, crashes, historyVars>>

LEMMA CommitWrites ==
  ASSUME Typed, NEW s \in Servers, Commit(s)
  PROVE  JobsTyped /\ Writes(s)
<1>1. minted' = minted + 1 /\ minted' \in Ids /\ NewId = minted' /\ s \in Procs
  BY Mints DEF Commit, Mint, NewId, Procs
<1>2a. PICK layer \in Layers, text \in Contents : \E status \in FirstStatus(layer) :
         Begin(s, "commit", 0, NewId, NewCrystal(layer, status, text))
  BY DEF Commit
<1>2. PICK status \in FirstStatus(layer) :
        Begin(s, "commit", 0, NewId, NewCrystal(layer, status, text))
  BY <1>2a
<1> DEFINE r == NewCrystal(layer, status, text)
<1>3. r \in Row /\ r.by = 0 /\ r.status # "absent" /\ r.until = "open"
  BY <1>2, NewRows
<1> HIDE DEF r
<1>4. Begin(s, "commit", 0, NewId, r)
  BY <1>2 DEF r
<1>5. /\ JobsTyped /\ job[s] = NoJob /\ \A q \in Procs \ {s} : job'[q] = job[q]
      /\ job'[s] = [op |-> "commit", next |-> 1, old |-> 0, new |-> NewId, row |-> r]
  BY <1>1, <1>3, <1>4, Begins DEF JobsTyped
<1>6. job'[s] # NoJob
  BY <1>5 DEF NoJob
<1> QED BY <1>1, <1>3, <1>5, <1>6 DEF Commit, Writes, historyVars

LEMMA CommitOverridingWrites ==
  ASSUME Typed, NEW s \in Servers, CommitOverriding(s)
  PROVE  JobsTyped /\ Writes(s)
<1>1. minted' = minted + 1 /\ minted' \in Ids /\ NewId = minted' /\ s \in Procs
  BY Mints DEF CommitOverriding, Mint, NewId, Procs
<1>2. PICK text \in Contents, v \in vectors :
        /\ v \in Diverging(text)
        /\ Begin(s, "override", v.id, NewId, NewCrystal("semantic", "active", text))
  BY DEF CommitOverriding
<1> DEFINE r == NewCrystal("semantic", "active", text)
<1>3. r \in Row /\ r.by = 0 /\ r.status # "absent" /\ r.until = "open"
  BY NewRows DEF CommitOverriding, FirstStatus
<1>4. v.id \in Ids /\ v.layer = "semantic" /\ Present(rows, v.id)
  BY <1>2 DEF Diverging, Present, Typed, TypeOK, Vector
<1> HIDE DEF r
<1>5. Begin(s, "override", v.id, NewId, r)
  BY <1>2 DEF r
<1>6. /\ JobsTyped /\ job[s] = NoJob /\ \A q \in Procs \ {s} : job'[q] = job[q]
      /\ job'[s] = [op |-> "override", next |-> 1, old |-> v.id, new |-> NewId, row |-> r]
  BY <1>1, <1>3, <1>4, <1>5, Begins DEF JobsTyped
<1>7. job'[s] # NoJob
  BY <1>6 DEF NoJob
<1> QED BY <1>1, <1>3, <1>4, <1>6, <1>7 DEF CommitOverriding, Writes, historyVars

LEMMA UpdateWrites ==
  ASSUME Typed, NEW s \in Servers, Update(s)
  PROVE  JobsTyped /\ Writes(s)
<1>1. minted' = minted + 1 /\ minted' \in Ids /\ NewId = minted' /\ s \in Procs
  BY Mints DEF Update, Mint, NewId, Procs
<1>2a. PICK i \in Ids, text \in Contents : \E blob \in Pointers \cup {rows[i].blob} :
         /\ Present(rows, i)
         /\ rows[i].layer # "semantic"
         /\ Begin(s, "update", i, NewId, Revision(rows[i], rows[i].layer, text, blob))
         /\ pointed' = IF blob # rows[i].blob \/ i \in pointed
                       THEN pointed \cup {NewId} ELSE pointed
  BY DEF Update
<1>2. PICK blob \in Pointers \cup {rows[i].blob} :
        /\ Begin(s, "update", i, NewId, Revision(rows[i], rows[i].layer, text, blob))
        /\ pointed' = IF blob # rows[i].blob \/ i \in pointed
                      THEN pointed \cup {NewId} ELSE pointed
  BY <1>2a
<1> DEFINE r == Revision(rows[i], rows[i].layer, text, blob)
<1>3. Present(rows, i) /\ rows[i].layer # "semantic"
  BY <1>2a
<1>4a. rows[i] \in Row /\ rows[i].layer \in Layers /\ blob \in BlobRefs
  BY <1>3, PresentRow, RevisionsAssumption
<1>4. /\ r \in Row /\ r.by = 0 /\ r.status = "active" /\ r.until = "open"
      /\ r.layer = rows[i].layer /\ r.blob = blob
  BY <1>4a, NewRows
<1> HIDE DEF r
<1>5. Begin(s, "update", i, NewId, r)
  BY <1>2 DEF r
<1>6. /\ JobsTyped /\ job[s] = NoJob /\ \A q \in Procs \ {s} : job'[q] = job[q]
      /\ job'[s] = [op |-> "update", next |-> 1, old |-> i, new |-> NewId, row |-> r]
  BY <1>1, <1>4, <1>5, Begins DEF JobsTyped
<1>7. job'[s] # NoJob
  BY <1>6 DEF NoJob
<1>8. /\ NewId \in pointed' \/ (i \notin pointed /\ r.blob = rows[i].blob)
      /\ pointed \subseteq pointed' /\ pointed' \subseteq pointed \cup {NewId}
  BY <1>2, <1>4
<1> QED BY <1>1, <1>3, <1>4, <1>6, <1>7, <1>8 DEF Update, Writes

LEMMA SemanticUpdateWrites ==
  ASSUME Typed, NEW s \in Servers, SemanticUpdate(s)
  PROVE  JobsTyped /\ Writes(s)
<1>1. minted' = minted + 1 /\ minted' \in Ids /\ NewId = minted' /\ s \in Procs
  BY Mints DEF SemanticUpdate, Mint, NewId, Procs
<1>2. PICK i \in Ids, layer \in Layers, text \in Contents :
        /\ Present(rows, i)
        /\ rows[i].layer = "semantic"
        /\ Begin(s, "revise", i, NewId, Revision(rows[i], layer, text, NewId))
  BY DEF SemanticUpdate
<1> DEFINE r == Revision(rows[i], layer, text, NewId)
<1>4. r \in Row /\ r.by = 0 /\ r.status = "active" /\ r.until = "open"
  BY <1>1, <1>2, PresentRow, NewRows DEF BlobRefs
<1> HIDE DEF r
<1>5. Begin(s, "revise", i, NewId, r) /\ "semantic" \in Layers
  BY <1>2, PresentRow DEF r
<1>6. /\ JobsTyped /\ job[s] = NoJob /\ \A q \in Procs \ {s} : job'[q] = job[q]
      /\ job'[s] = [op |-> "revise", next |-> 1, old |-> i, new |-> NewId, row |-> r]
  BY <1>1, <1>4, <1>5, Begins DEF JobsTyped
<1>7. job'[s] # NoJob
  BY <1>6 DEF NoJob
<1> QED BY <1>1, <1>2, <1>4, <1>6, <1>7 DEF SemanticUpdate, Writes, historyVars

LEMMA CommitDuplicateVisits ==
  ASSUME Typed, NEW s \in Servers, CommitDuplicate(s)
  PROVE  JobsTyped /\ Visits(s)
<1>1. s \in Procs
  BY DEF Procs
<1>2. PICK v \in vectors : Present(rows, v.id) /\ Begin(s, "merge", v.id, 0, rows[v.id])
  BY DEF CommitDuplicate, NearDuplicates
<1>3. v.id \in Ids /\ rows[v.id] \in Row
  BY <1>2, PresentRow DEF Typed, TypeOK, Vector
<1> DEFINE r == rows[v.id]
<1>4. r \in Row /\ Begin(s, "merge", v.id, 0, r)
  BY <1>2, <1>3
<1> HIDE DEF r
<1>5. /\ JobsTyped /\ job[s] = NoJob /\ \A q \in Procs \ {s} : job'[q] = job[q]
      /\ job'[s] = [op |-> "merge", next |-> 1, old |-> v.id, new |-> 0, row |-> r]
  BY <1>1, <1>3, <1>4, Begins DEF JobsTyped
<1>6. job'[s] # NoJob
  BY <1>5 DEF NoJob
<1> QED BY <1>2, <1>3, <1>5, <1>6 DEF CommitDuplicate, Visits, r

LEMMA ForgetVisits ==
  ASSUME Typed, NEW o \in Operators, Forget(o)
  PROVE  JobsTyped /\ Visits(o)
<1>1. o \in Procs
  BY DEF Procs
<1>2. PICK i \in Ids : Present(rows, i) /\ Begin(o, "forget", i, 0, rows[i])
  BY DEF Forget
<1> DEFINE r == rows[i]
<1>3. r \in Row /\ Begin(o, "forget", i, 0, r)
  BY <1>2, PresentRow
<1> HIDE DEF r
<1>4. /\ JobsTyped /\ job[o] = NoJob /\ \A q \in Procs \ {o} : job'[q] = job[q]
      /\ job'[o] = [op |-> "forget", next |-> 1, old |-> i, new |-> 0, row |-> r]
  BY <1>1, <1>2, <1>3, Begins DEF JobsTyped
<1>5. job'[o] # NoJob
  BY <1>4 DEF NoJob
<1> QED BY <1>2, <1>4, <1>5 DEF Forget, Visits, r

LEMMA StartsWrite ==
  ASSUME Typed, NEW s \in Servers, Start(s)
  PROVE  JobsTyped /\ s \in Procs /\ (Writes(s) \/ Visits(s))
  BY CommitWrites, CommitOverridingWrites, UpdateWrites, SemanticUpdateWrites,
     CommitDuplicateVisits
  DEF Start, Procs

(* p takes the next step of its operation.                                 *)
Continued(p) ==
  /\ job[p] # NoJob
  /\ \A q \in Procs \ {p} : job'[q] = job[q]
  /\ \/ job'[p] = NoJob /\ job[p].next = Length(job[p].op)
     \/ job'[p] # NoJob /\ Advanced(job[p], job'[p])

(* p is killed, or its handler raises.                                     *)
Dropped(p) ==
  /\ job[p] # NoJob
  /\ \A q \in Procs \ {p} : job'[q] = job[q]
  /\ job'[p] = NoJob

LEMMA StepContinues ==
  ASSUME Typed, NEW p \in Procs,
         Merge(p) \/ Put(p) \/ Insert(p) \/ Mark(p) \/ Embed(p)
         \/ Tombstone(p) \/ Unlink(p) \/ Unembed(p)
  PROVE  JobsTyped /\ Continued(p)
<1>1. job[p] # NoJob /\ Continue(p)
  BY DEF Merge, Put, Insert, Mark, Embed, Tombstone, Unlink, Unembed, At
<1> QED BY <1>1, Continues DEF JobsTyped, Continued

LEMMA Drops ==
  ASSUME Typed, NEW p \in Procs, Crash(p) \/ (MarkFails(p) /\ job[p].op # "override")
  PROVE  JobsTyped /\ Dropped(p)
<1>1. job[p] # NoJob /\ job' = [job EXCEPT ![p] = NoJob]
  BY DEF MarkFails, Crash, At
<1>2. NoJob \in Jobs /\ WellFormed(NoJob)
  BY DEF Jobs, WellFormed
<1> QED BY <1>1, <1>2 DEF JobsTyped, Dropped, Typed, TypeOK

LEMMA PassesOver ==
  ASSUME Typed, NEW p \in Procs, MarkFails(p), job[p].op = "override"
  PROVE  JobsTyped /\ Continued(p)
<1>1. job[p] # NoJob /\ Continue(p)
  BY DEF MarkFails, At
<1> QED BY <1>1, Continues DEF JobsTyped, Continued

-------------------------------------------------------------------------------
(* What a step does to the table                                           *)

(* The row a process holds is written under the id it minted.              *)
Wrote(p) ==
  /\ At(p, "insert") /\ Continued(p)
  /\ job[p].new \in Ids /\ job[p].row \in Row
  /\ rows' = [rows EXCEPT ![job[p].new] = job[p].row]
  /\ root' = [root EXCEPT ![job[p].new] =
                IF Revises(job[p]) THEN root[job[p].old] ELSE job[p].new]
  /\ prev' = [prev EXCEPT ![job[p].new] = IF Revises(job[p]) THEN job[p].old ELSE 0]
  /\ audit' = audit

(* A row is closed, given a successor or deprecated.                       *)
Touched(i) ==
  /\ i \in Ids /\ Present(rows, i) /\ Present(rows', i)
  /\ rows'[i] \in Row
  /\ \A j \in Ids \ {i} : rows'[j] = rows[j]
  /\ rows'[i].layer = rows[i].layer
  /\ rows'[i].text = rows[i].text
  /\ rows'[i].blob = rows[i].blob
  /\ rows[i].until = "closed" => rows'[i].until = "closed"
  /\ rows'[i].status # rows[i].status => rows'[i].status = "deprecated"
  /\ rows' \in [Ids -> Row \cup {NoRow}]
  /\ audit' = audit

Marked(p) == /\ At(p, "mark") /\ Continued(p) /\ Touched(job[p].old)
             /\ rows'[job[p].old].by = job[p].new /\ job[p].new \in Ids
             /\ rows'[job[p].old].until = "closed"

Lowered(i) == /\ Touched(i) /\ rows'[i].by = rows[i].by
              /\ rows'[i].until = rows[i].until /\ rows'[i].status = "deprecated"

SameCrystal(r, k) == k.layer = r.layer /\ k.text = r.text /\ k.blob = r.blob

(* A row is erased, under an audit entry.                                  *)
Removed(i) ==
  /\ i \in Ids /\ Present(rows, i) /\ ~Present(rows', i)
  /\ \A j \in Ids \ {i} : rows'[j] = rows[j]
  /\ rows'[i].by = rows[i].by /\ SameCrystal(rows[i], rows'[i])
  /\ rows' \in [Ids -> Row \cup {NoRow}]
  /\ audit' = audit \cup {i}

LEMMA ClosedRow ==
  ASSUME NEW r \in Row, NEW n \in Ids
  PROVE  LET k == [r EXCEPT !.until = "closed", !.by = n]
         IN  k \in Row /\ SameCrystal(r, k) /\ k.status = r.status
             /\ k.until = "closed" /\ k.by = n
  BY DEF Row, Validity, SameCrystal

LEMMA RowWithStatus ==
  ASSUME NEW r \in Row, NEW st \in Statuses
  PROVE  LET k == [r EXCEPT !.status = st]
         IN  k \in Row /\ SameCrystal(r, k) /\ k.status = st
             /\ k.until = r.until /\ k.by = r.by
  BY DEF Row, Statuses, SameCrystal

LEMMA MarkMarks ==
  ASSUME Typed, NEW p \in Procs, Mark(p)
  PROVE  Marked(p)
<1> DEFINE i == job[p].old
<1> DEFINE r == [rows[i] EXCEPT !.until = "closed", !.by = job[p].new]
<1>1. /\ At(p, "mark") /\ Present(rows, i) /\ rows' = WithSuccessor(rows, i, job[p].new)
      /\ audit' = audit
  BY DEF Mark
<1>2. job[p].op \in {"override", "update", "revise"} /\ job[p] # NoJob
  BY <1>1, AtStep
<1>3. i \in Ids /\ job[p].new \in Ids
  BY <1>2, RunningJob DEF Typed, WellFormed
<1>4. rows[i] \in Row
  BY <1>1, <1>3, PresentRow
<1>5. /\ r \in Row /\ SameCrystal(rows[i], r) /\ r.status = rows[i].status
      /\ r.until = "closed" /\ r.by = job[p].new
  BY <1>3, <1>4, ClosedRow
<1>6. rows' = [rows EXCEPT ![i] = r] /\ rows \in [Ids -> Row \cup {NoRow}]
  BY <1>1 DEF WithSuccessor, Typed, TypeOK
<1> HIDE DEF i, r
<1>8. rows'[i] = r /\ \A j \in Ids \ {i} : rows'[j] = rows[j]
  BY <1>3, <1>5, <1>6 DEF i
<1>9. Touched(i) /\ rows'[i].by = job[p].new /\ rows'[i].until = "closed"
  BY <1>1, <1>3, <1>5, <1>6, <1>8 DEF Touched, Present, SameCrystal, i
<1> QED BY <1>1, <1>3, <1>9, StepContinues DEF Marked, i

LEMMA InsertWrites ==
  ASSUME Typed, NEW p \in Procs, Insert(p)
  PROVE  /\ Wrote(p) /\ root' \in [Ids -> Ids \cup {0}] /\ prev' \in [Ids -> Ids \cup {0}]
<1>1. At(p, "insert") /\ rows' = WithRow(rows, job[p].new, job[p].row) /\ audit' = audit
  BY DEF Insert
<1>2. job[p].op \in {"commit", "override", "update", "revise"} /\ job[p] # NoJob
  BY <1>1, AtStep
<1>3. /\ job[p].new \in Ids /\ job[p].row \in Row
      /\ Revises(job[p]) => job[p].old \in Ids
  BY <1>2, RunningJob DEF Typed, WellFormed, Revises
<1>4. /\ (IF Revises(job[p]) THEN root[job[p].old] ELSE job[p].new) \in Ids \cup {0}
      /\ (IF Revises(job[p]) THEN job[p].old ELSE 0) \in Ids \cup {0}
  BY <1>3 DEF Typed, TypeOK
<1>5. root' \in [Ids -> Ids \cup {0}] /\ prev' \in [Ids -> Ids \cup {0}]
  BY <1>3, <1>4 DEF Insert, Typed, TypeOK
<1> QED BY <1>1, <1>3, <1>5, StepContinues DEF Wrote, WithRow, Insert

LEMMA TombstoneErases ==
  ASSUME Typed, NEW p \in Procs, Tombstone(p)
  PROVE  Present(rows, job[p].old) => Removed(job[p].old)
<1> DEFINE i == job[p].old
<1> DEFINE r == [rows[i] EXCEPT !.status = "absent"]
<1>2. CASE Present(rows, i)
  <2>1. At(p, "tombstone") /\ rows' = [rows EXCEPT ![i] = r] /\ audit' = audit \cup {i}
    BY <1>2 DEF Tombstone, Erased
  <2>2. job[p].op = "forget" /\ job[p] # NoJob
    BY <2>1, AtStep
  <2>3. i \in Ids
    BY <2>2, RunningJob DEF Typed, WellFormed
  <2>4. rows[i] \in Row
    BY <1>2, <2>3, PresentRow
  <2>5. /\ r \in Row /\ SameCrystal(rows[i], r) /\ r.status = "absent"
        /\ r.by = rows[i].by
    BY <2>4, RowWithStatus DEF Statuses
  <2> HIDE DEF i, r
  <2>7. /\ rows'[i] = r /\ \A j \in Ids \ {i} : rows'[j] = rows[j]
        /\ rows' \in [Ids -> Row \cup {NoRow}]
    BY <2>1, <2>3, <2>5 DEF Typed, TypeOK
  <2> QED BY <1>2, <2>1, <2>3, <2>5, <2>7 DEF Removed, Present, SameCrystal, i
<1> QED BY <1>2

LEMMA DeprecateLowers ==
  ASSUME Typed, NEW i \in Ids, Deprecate(i)
  PROVE  Lowered(i)
<1> DEFINE r == [rows[i] EXCEPT !.status = "deprecated"]
<1>1. Present(rows, i)
  BY DEF Deprecate, Present
<1>2. rows' = [rows EXCEPT ![i] = r] /\ audit' = audit
  BY <1>1 DEF Deprecate, WithStatus
<1>3. rows[i] \in Row
  BY <1>1, PresentRow
<1>4. /\ r \in Row /\ SameCrystal(rows[i], r) /\ r.status = "deprecated"
      /\ r.until = rows[i].until /\ r.by = rows[i].by
  BY <1>3, RowWithStatus DEF Statuses
<1> HIDE DEF r
<1>6. /\ rows'[i] = r /\ \A j \in Ids \ {i} : rows'[j] = rows[j]
      /\ rows' \in [Ids -> Row \cup {NoRow}]
  BY <1>2, <1>4 DEF Typed, TypeOK
<1> QED BY <1>1, <1>2, <1>4, <1>6 DEF Lowered, Touched, Present, SameCrystal

-------------------------------------------------------------------------------
(* The kinds of step there are                                             *)

Proceeds(p) ==
  /\ Continued(p)
  /\ minted' = minted /\ cut' = cut /\ pointed' = pointed
  /\ At(p, "put") => job[p].row.blob \in blobs'
  /\ \/ /\ ~At(p, "insert")
        /\ At(p, "mark") => ~Present(rows, job[p].old)
        /\ At(p, "tombstone") => ~Present(rows, job[p].old)
        /\ rows' = rows /\ audit' = audit /\ root' = root /\ prev' = prev
     \/ Wrote(p)
     \/ Marked(p) /\ root' = root /\ prev' = prev
     \/ /\ ~At(p, "insert") /\ ~At(p, "mark") /\ Removed(job[p].old)
        /\ root' = root /\ prev' = prev

GivesUp(p) ==
  /\ Dropped(p)
  /\ minted' = minted /\ rows' = rows /\ audit' = audit /\ root' = root /\ prev' = prev
  /\ pointed' = pointed /\ blobs' = blobs
  /\ \/ At(p, "mark") /\ ~Present(rows, job[p].old) /\ cut' = cut
     \/ /\ cut \subseteq cut'
        /\ job[p].new # 0 /\ ~At(p, "embed") => job[p].new \in cut'

Lowers(i) == /\ Lowered(i) /\ job' = job /\ minted' = minted /\ cut' = cut
             /\ root' = root /\ prev' = prev /\ pointed' = pointed /\ blobs' = blobs

Idle == /\ rows' = rows /\ audit' = audit /\ job' = job /\ minted' = minted
        /\ cut' = cut /\ root' = root /\ prev' = prev /\ pointed' = pointed
        /\ blobs' = blobs

LEMMA ProcessProceeds ==
  ASSUME Typed, NEW p \in Procs, Step(p) \/ Crash(p)
  PROVE  JobsTyped /\ (Proceeds(p) \/ GivesUp(p))
<1>1. CASE Mark(p)
  BY <1>1, StepContinues, MarkMarks DEF Proceeds, Mark, historyVars, At
<1>2. CASE Insert(p)
  BY <1>2, StepContinues, InsertWrites DEF Proceeds, Insert, At
<1>3. CASE Tombstone(p)
  <2>1. ~At(p, "insert") /\ ~At(p, "mark") /\ ~At(p, "put")
    BY <1>3 DEF Tombstone, At
  <2>2. CASE Present(rows, job[p].old)
    <3>1. Removed(job[p].old)
      BY <1>3, <2>2, TombstoneErases
    <3> QED BY <1>3, <2>1, <3>1, StepContinues DEF Proceeds, Tombstone, historyVars
  <2>3. CASE ~Present(rows, job[p].old)
    BY <1>3, <2>1, <2>3, StepContinues DEF Proceeds, Tombstone, historyVars
  <2> QED BY <2>2, <2>3
<1>4. CASE Merge(p) \/ Put(p) \/ Embed(p) \/ Unlink(p) \/ Unembed(p)
  <2>1. /\ ~At(p, "insert") /\ ~At(p, "mark") /\ ~At(p, "tombstone")
        /\ rows' = rows /\ audit' = audit /\ minted' = minted /\ cut' = cut
        /\ root' = root /\ prev' = prev /\ pointed' = pointed
        /\ At(p, "put") => job[p].row.blob \in blobs'
    BY <1>4 DEF Merge, Put, Embed, Unlink, Unembed, At, stores, historyVars
  <2> QED BY <1>4, <2>1, StepContinues DEF Proceeds
<1>5. CASE MarkFails(p) /\ job[p].op # "override"
  BY <1>5, Drops DEF GivesUp, MarkFails, stores, historyVars
<1>6. CASE Crash(p)
  BY <1>6, Drops DEF GivesUp, Crash, stores
<1>7. CASE MarkFails(p) /\ job[p].op = "override"
  BY <1>7, PassesOver DEF Proceeds, MarkFails, stores, historyVars, At
<1> QED BY <1>1, <1>2, <1>3, <1>4, <1>5, <1>6, <1>7 DEF Step

LEMMA StepKinds ==
  ASSUME Typed, [Next]_vars
  PROVE  /\ JobsTyped
         /\ \/ \E p \in Procs : Writes(p) \/ Visits(p) \/ Proceeds(p) \/ GivesUp(p)
            \/ \E i \in Ids : Lowers(i)
            \/ Idle
<1>1. CASE \E s \in Servers : Start(s)
  BY <1>1, StartsWrite
<1>2. CASE \E o \in Operators : Forget(o)
  BY <1>2, ForgetVisits DEF Procs
<1>3. CASE \E p \in Procs : Step(p) \/ Crash(p)
  BY <1>3, ProcessProceeds
<1>4. ASSUME NEW i \in Ids, Deprecate(i) PROVE JobsTyped /\ Lowers(i)
  <2>1. /\ job' = job /\ minted' = minted /\ cut' = cut /\ root' = root /\ prev' = prev
        /\ pointed' = pointed /\ blobs' = blobs
    BY <1>4 DEF Deprecate, historyVars
  <2> QED BY <1>4, <2>1, DeprecateLowers DEF Lowers, JobsTyped, Typed, TypeOK
<1>5. CASE UNCHANGED vars
  BY <1>5 DEF vars, stores, historyVars, Idle, JobsTyped, Typed, TypeOK
<1> QED BY <1>1, <1>2, <1>3, <1>4, <1>5 DEF Next

-------------------------------------------------------------------------------
(* The types                                                               *)

LEMMA TableTyped ==
  ASSUME Typed, [Next]_vars
  PROVE  rows' \in [Ids -> Row \cup {NoRow}] /\ audit' \subseteq Ids /\ minted' \in 0..MaxId
<1> DEFINE Goal == rows' \in [Ids -> Row \cup {NoRow}] /\ audit' \subseteq Ids
                   /\ minted' \in 0..MaxId
<1>1. /\ rows \in [Ids -> Row \cup {NoRow}] /\ audit \subseteq Ids /\ minted \in 0..MaxId
      /\ Ids \subseteq 0..MaxId
  BY RevisionsAssumption DEF Typed, TypeOK, Ids
<1>2. ASSUME NEW p \in Procs, Writes(p) \/ Visits(p) \/ GivesUp(p) PROVE Goal
  BY <1>1, <1>2 DEF Writes, Visits, GivesUp, stores
<1>3. ASSUME NEW p \in Procs, Proceeds(p) PROVE Goal
  BY <1>1, <1>3 DEF Proceeds, Wrote, Marked, Touched, Removed
<1>4. ASSUME NEW i \in Ids, Lowers(i) PROVE Goal
  BY <1>1, <1>4 DEF Lowers, Lowered, Touched
<1>5. CASE Idle
  BY <1>1, <1>5 DEF Idle
<1> QED BY <1>2, <1>3, <1>4, <1>5, StepKinds

OthersTyped == /\ blobs' \subseteq BlobRefs /\ vectors' \subseteq Vector
               /\ crashes' \in 0..MaxCrashes /\ pointed' \subseteq Ids
               /\ cut' \subseteq Ids
               /\ root' \in [Ids -> Ids \cup {0}] /\ prev' \in [Ids -> Ids \cup {0}]

(* A job that has an id to embed or a content to store is one that writes. *)
LEMMA OthersStayTyped ==
  ASSUME Typed, [Next]_vars
  PROVE  OthersTyped
<1> USE DEF OthersTyped, Typed, TypeOK, stores, historyVars
<1>1. ASSUME NEW p \in Procs, Put(p) PROVE OthersTyped
  <2>1. job[p].row.blob \in BlobRefs
    BY <1>1, RunningJob DEF Put, At, Row
  <2> QED BY <1>1, <2>1 DEF Put
<1>2. ASSUME NEW p \in Procs, Embed(p) PROVE OthersTyped
  <2>1. At(p, "embed")
    BY <1>2 DEF Embed
  <2>2. job[p].op \in {"commit", "override", "update", "revise"} /\ job[p] # NoJob
    BY <2>1, AtStep
  <2>3. /\ job[p].new \in Ids /\ job[p].row.text \in Contents
        /\ VectorLayer(job[p]) \in Layers
    BY <2>2, RunningJob DEF WellFormed, Row, VectorLayer
  <2> QED BY <1>2, <2>3 DEF Embed, Vector
<1>3. ASSUME NEW p \in Procs, Crash(p) PROVE OthersTyped
  <2>1. job[p].new \in Ids \cup {0}
    BY <1>3, RunningJob DEF Crash
  <2> QED BY <1>3, <2>1, RevisionsAssumption DEF Crash
<1>4. ASSUME NEW p \in Procs, Insert(p) PROVE OthersTyped
  <2>1. root' \in [Ids -> Ids \cup {0}] /\ prev' \in [Ids -> Ids \cup {0}]
    BY <1>4, InsertWrites
  <2> QED BY <1>4, <2>1 DEF Insert
<1>5. ASSUME NEW p \in Procs,
             Merge(p) \/ Mark(p) \/ MarkFails(p) \/ Tombstone(p) \/ Unlink(p) \/ Unembed(p)
      PROVE  OthersTyped
  BY <1>5 DEF Merge, Mark, MarkFails, Tombstone, Unlink, Unembed
<1>6. ASSUME NEW s \in Servers, Start(s) PROVE OthersTyped
  <2>1. ASSUME Update(s) PROVE OthersTyped
    <3>1. pointed' \subseteq pointed \cup {NewId} /\ NewId \in Ids
      BY <2>1, Mints DEF Update
    <3> QED BY <2>1, <3>1 DEF Update
  <2> QED BY <1>6, <2>1 DEF Start, Commit, CommitOverriding, CommitDuplicate, SemanticUpdate
<1>7. ASSUME NEW o \in Operators, Forget(o) PROVE OthersTyped
  BY <1>7 DEF Forget
<1>8. ASSUME NEW i \in Ids, Deprecate(i) PROVE OthersTyped
  BY <1>8 DEF Deprecate
<1>9. CASE UNCHANGED vars
  BY <1>9 DEF vars
<1> QED BY <1>1, <1>2, <1>3, <1>4, <1>5, <1>6, <1>7, <1>8, <1>9 DEF Next, Step

LEMMA TypedStep == Typed /\ [Next]_vars => Typed'
  BY StepKinds, TableTyped, OthersStayTyped DEF Typed, TypeOK, JobsTyped, OthersTyped

(* Every variable keeps its type: in particular a process never goes past  *)
(* the last step of its operation, and never writes or marks a row under   *)
(* an id that was not minted for it.                                       *)
THEOREM TypeCorrect == Spec => []TypeOK
<1>1. Typed => TypeOK
  BY DEF Typed
<1> QED BY <1>1, InitTyped, TypedStep, PTL DEF Spec

-------------------------------------------------------------------------------
(* Ids: a row is written once, by the process that minted its id           *)

Unwritten(i) == ~Present(rows, i) /\ i \notin audit
StillUnwritten(i) == ~Present(rows', i) /\ i \notin audit'

WritesRow(j) == j.op \in {"commit", "override", "update", "revise"}

BeforeInsert(j) ==
  \/ j.op \in {"commit", "override"} /\ j.next <= 2
  \/ j.op = "update" /\ j.next = 1
  \/ j.op = "revise" /\ j.next <= 3

ErasedForGood == \A i \in audit : ~Present(rows, i)
MintedFirst   == /\ \A i \in Ids : ~Unwritten(i) => i <= minted
                 /\ \A i \in Ids : rows[i].by <= minted
                 /\ \A p \in Procs : job[p].new <= minted
OneWriter     == \A p, q \in Procs : job[p].new = job[q].new /\ p # q => job[p].new = 0
OldWritten    == \A p \in Procs : job[p].old # 0 => ~Unwritten(job[p].old)
NewWritten    == \A p \in Procs : WritesRow(job[p]) =>
                   /\ Unwritten(job[p].new) <=> BeforeInsert(job[p])
                   /\ job[p].row.status # "absent"

(* Nothing is known of an id that no row has had.                          *)
Bare == \A i \in Ids : Unwritten(i) => root[i] = 0 /\ prev[i] = 0

IdInv == Typed /\ ErasedForGood /\ MintedFirst /\ OneWriter /\ OldWritten /\ NewWritten
         /\ Bare

LEMMA WroteUnwritten ==
  ASSUME IdInv, NEW p \in Procs, Wrote(p)
  PROVE  /\ Unwritten(job[p].new) /\ WritesRow(job[p]) /\ job[p].row.by = 0
         /\ rows' \in [Ids -> Row \cup {NoRow}]
         /\ rows'[job[p].new] = job[p].row
         /\ Present(rows', job[p].new)
         /\ \A i \in Ids \ {job[p].new} : rows'[i] = rows[i]
<1>1. BeforeInsert(job[p]) /\ WritesRow(job[p]) /\ job[p] # NoJob
  BY AtStep DEF Wrote, BeforeInsert, WritesRow, IdInv
<1>2. Unwritten(job[p].new) /\ job[p].row.status # "absent"
  BY <1>1 DEF IdInv, NewWritten
<1>3. job[p].row.by = 0
  BY <1>1 DEF IdInv, Typed, WellFormed, WritesRow
<1>4. /\ rows'[job[p].new] = job[p].row /\ \A i \in Ids \ {job[p].new} : rows'[i] = rows[i]
      /\ rows' \in [Ids -> Row \cup {NoRow}]
  BY DEF Wrote, IdInv, Typed, TypeOK
<1> QED BY <1>1, <1>2, <1>3, <1>4 DEF Present

(* Between the two states of a step, the rows that are there are the same  *)
(* or the one row a process wrote.                                         *)
LEMMA RowsFrom ==
  ASSUME Typed, [Next]_vars, NEW i \in Ids, Present(rows', i)
  PROVE  \/ Present(rows, i) /\ rows'[i].blob = rows[i].blob
         \/ \E p \in Procs : Wrote(p) /\ i = job[p].new
<1> DEFINE Goal == \/ Present(rows, i) /\ rows'[i].blob = rows[i].blob
                   \/ \E p \in Procs : Wrote(p) /\ i = job[p].new
<1>1. CASE rows' = rows
  BY <1>1
<1>2. ASSUME NEW p \in Procs, Wrote(p) PROVE Goal
  BY <1>2 DEF Wrote, Present, Typed, TypeOK
<1>3. ASSUME NEW j \in Ids, Touched(j) PROVE Goal
  BY <1>3 DEF Touched, Present
<1>4. ASSUME NEW j \in Ids, Removed(j) PROVE Goal
  BY <1>4 DEF Removed, Present
<1>5. ASSUME NEW p \in Procs, Proceeds(p) PROVE Goal
  <2>1. CASE Marked(p)
    BY <1>3, <2>1 DEF Marked, Touched
  <2>2. CASE Removed(job[p].old)
    BY <1>4, <2>2 DEF Removed
  <2> QED BY <1>1, <1>2, <1>5, <2>1, <2>2 DEF Proceeds
<1> QED BY <1>1, <1>3, <1>5, StepKinds
        DEF Writes, Visits, GivesUp, Lowers, Lowered, Idle, stores

(* The table changes in one of four ways.                                  *)
LEMMA RowKinds ==
  ASSUME Typed, [Next]_vars
  PROVE  \/ rows' = rows /\ audit' = audit
         \/ \E p \in Procs : Wrote(p)
         \/ \E i \in Ids : /\ Touched(i)
                           /\ \/ rows'[i].by = rows[i].by
                              \/ \E p \in Procs : Marked(p) /\ i = job[p].old
         \/ \E i \in Ids : Removed(i)
<1>1. ASSUME NEW p \in Procs, Proceeds(p), Marked(p)
      PROVE  job[p].old \in Ids /\ Touched(job[p].old)
  BY <1>1 DEF Marked, Touched
<1>2. ASSUME NEW p \in Procs, Removed(job[p].old)
      PROVE  job[p].old \in Ids
  BY <1>2 DEF Removed
<1> QED BY <1>1, <1>2, StepKinds
        DEF Proceeds, Writes, Visits, GivesUp, Lowers, Lowered, Idle, stores

LEMMA RowsWrittenOnce ==
  ASSUME IdInv, [Next]_vars, NEW i \in Ids
  PROVE  /\ ~Unwritten(i) => ~StillUnwritten(i)
         /\ Unwritten(i) /\ ~StillUnwritten(i) => \E p \in Procs : Wrote(p) /\ i = job[p].new
         /\ i \in audit => i \in audit'
         /\ i \in audit' => ~Present(rows', i)
         /\ Present(rows, i) => Kept(i) \/ i \in audit'
         /\ rows'[i].by = rows[i].by \/ rows'[i].by = 0
              \/ \E p \in Procs : Marked(p) /\ i = job[p].old /\ rows'[i].by = job[p].new
<1> DEFINE Goal == /\ ~Unwritten(i) => ~StillUnwritten(i)
                   /\ Unwritten(i) /\ ~StillUnwritten(i) =>
                        \E p \in Procs : Wrote(p) /\ i = job[p].new
                   /\ i \in audit => i \in audit'
                   /\ i \in audit' => ~Present(rows', i)
                   /\ Present(rows, i) => Kept(i) \/ i \in audit'
                   /\ \/ rows'[i].by = rows[i].by
                      \/ rows'[i].by = 0
                      \/ \E p \in Procs :
                           Marked(p) /\ i = job[p].old /\ rows'[i].by = job[p].new
<1>1. i \in audit => ~Present(rows, i)
  BY DEF IdInv, ErasedForGood
<1>2. CASE rows' = rows /\ audit' = audit
  BY <1>1, <1>2 DEF Kept, Unwritten, StillUnwritten, Present
<1>3. ASSUME NEW p \in Procs, Wrote(p) PROVE Goal
  <2>1. audit' = audit
    BY <1>3 DEF Wrote
  <2> QED BY <1>1, <1>3, <2>1, WroteUnwritten DEF Kept, Unwritten, StillUnwritten, Present
<1>4. ASSUME NEW j \in Ids, Touched(j), 
             rows'[j].by = rows[j].by \/ \E p \in Procs : Marked(p) /\ j = job[p].old
      PROVE  Goal
  <2>1. /\ audit' = audit /\ Present(rows, j) /\ Present(rows', j)
        /\ \A k \in Ids \ {j} : rows'[k] = rows[k]
    BY <1>4 DEF Touched
  <2>2. CASE i # j
    BY <1>1, <2>1, <2>2 DEF Kept, Unwritten, StillUnwritten, Present
  <2>3. CASE i = j
    <3>1. Kept(i)
      <4>1. rows[i].by # 0 => rows'[i].by # 0
        BY <1>4, <2>3, RevisionsAssumption DEF Marked, Ids
      <4> QED BY <1>4, <2>3, <4>1 DEF Touched, Kept
    <3>2. rows'[i].by = rows[i].by
            \/ \E p \in Procs : Marked(p) /\ i = job[p].old /\ rows'[i].by = job[p].new
      BY <1>4, <2>3 DEF Marked
    <3> QED BY <1>1, <2>1, <2>3, <3>1, <3>2 DEF Unwritten, StillUnwritten
  <2> QED BY <2>2, <2>3
<1>5. ASSUME NEW j \in Ids, Removed(j) PROVE Goal
  <2>1. /\ audit' = audit \cup {j} /\ Present(rows, j) /\ ~Present(rows', j)
        /\ rows'[j].by = rows[j].by
        /\ \A k \in Ids \ {j} : rows'[k] = rows[k]
    BY <1>5 DEF Removed
  <2>2. CASE i = j
    BY <2>1, <2>2 DEF Unwritten, StillUnwritten
  <2>3. CASE i # j
    BY <1>1, <2>1, <2>3 DEF Kept, Unwritten, StillUnwritten, Present
  <2> QED BY <2>2, <2>3
<1> QED BY <1>2, <1>3, <1>4, <1>5, RowKinds DEF IdInv

LEMMA HistoryStep == IdInv /\ [Next]_vars =>
  \A i \in Ids : /\ Present(rows, i) => Kept(i) \/ i \in audit'
                 /\ i \in audit => ~Present(rows', i)
  BY RowsWrittenOnce

LEMMA JobChanges ==
  ASSUME Typed, [Next]_vars, NEW p \in Procs, job'[p] # job[p]
  PROVE  Writes(p) \/ Visits(p) \/ Proceeds(p) \/ GivesUp(p)
<1>1. \A q \in Procs : Writes(q) \/ Visits(q) \/ Proceeds(q) \/ GivesUp(q) => q = p
  BY DEF Writes, Visits, Proceeds, GivesUp, Continued, Dropped
<1> QED BY <1>1, StepKinds DEF Lowers, Idle

LEMMA InsertCrossed ==
  ASSUME IdInv, NEW p \in Procs, Continued(p), job'[p] # NoJob, WritesRow(job[p])
  PROVE  IF At(p, "insert") THEN ~BeforeInsert(job'[p])
                            ELSE BeforeInsert(job'[p]) <=> BeforeInsert(job[p])
<1>1. /\ job[p].op \in {"commit", "override", "update", "revise"}
      /\ job[p].next \in 1..Length(job[p].op)
      /\ job'[p].op = job[p].op /\ job'[p].next = job[p].next + 1
      /\ At(p, "insert") <=> Order[job[p].op][job[p].next] = "insert"
  BY RunningJob DEF Continued, Advanced, WritesRow, At, IdInv
<1>2. CASE job[p].op = "commit"
  BY <1>1, <1>2 DEF Order, Length, BeforeInsert
<1>3. CASE job[p].op = "update"
  BY <1>1, <1>3 DEF Order, Length, BeforeInsert
<1>4. CASE job[p].op = "revise"
  BY <1>1, <1>4 DEF Order, Length, BeforeInsert
<1>5. CASE job[p].op = "override"
  BY <1>1, <1>5 DEF Order, Length, BeforeInsert
<1> QED BY <1>1, <1>2, <1>3, <1>4, <1>5

LEMMA RootChanges ==
  ASSUME Typed, [Next]_vars
  PROVE  \/ root' = root /\ prev' = prev
         \/ \E p \in Procs : Wrote(p) /\ Proceeds(p)
  BY StepKinds
  DEF Proceeds, Writes, Visits, GivesUp, Lowers, Idle, historyVars

LEMMA RootOfWritten ==
  ASSUME Typed, NEW p \in Procs, Wrote(p)
  PROVE  /\ root'[job[p].new] = IF Revises(job[p]) THEN root[job[p].old] ELSE job[p].new
         /\ prev'[job[p].new] = IF Revises(job[p]) THEN job[p].old ELSE 0
         /\ \A i \in Ids \ {job[p].new} : root'[i] = root[i] /\ prev'[i] = prev[i]
  BY DEF Wrote, Typed, TypeOK

LEMMA IdStep == IdInv /\ [Next]_vars => IdInv'
<1> SUFFICES ASSUME IdInv, [Next]_vars PROVE IdInv'
  OBVIOUS
<1>1. Typed /\ Typed' /\ minted \in Nat /\ minted' \in Nat /\ audit' \subseteq Ids
  BY TypedStep, RevisionsAssumption DEF IdInv, Typed, TypeOK
<1>2. minted <= minted'
  BY <1>1, StepKinds DEF Writes, Visits, Proceeds, GivesUp, Lowers, Idle
<1>3. ErasedForGood'
  BY <1>1, RowsWrittenOnce DEF ErasedForGood
<1>4. \A p \in Procs : /\ job[p].new \in Nat /\ job[p].new <= minted
                       /\ job[p].new # 0 => job[p].new \in Ids
  BY <1>1, RevisionsAssumption DEF IdInv, MintedFirst, Typed, WellFormed, NoJob, Ids
<1>5. \A i \in Ids : i \in Nat /\ rows[i].by \in Nat
  <2>1. \A i \in Ids : rows[i] \in Row \cup {NoRow}
    BY <1>1 DEF Typed, TypeOK
  <2>2. \A r \in Row \cup {NoRow} : r.by \in Ids \cup {0}
    BY DEF Row, NoRow
  <2> QED BY <2>1, <2>2, RevisionsAssumption DEF Ids
<1>6. ASSUME NEW p \in Procs, job'[p] # job[p]
      PROVE  \/ Writes(p) \/ Visits(p) \/ Proceeds(p) \/ GivesUp(p)
  BY <1>1, <1>6, JobChanges
<1>7. MintedFirst'
  <2>1. ASSUME NEW i \in Ids, ~StillUnwritten(i) PROVE i <= minted'
    BY <1>1, <1>2, <1>4, <1>5, <2>1, RowsWrittenOnce
       DEF IdInv, MintedFirst, Unwritten, StillUnwritten
  <2>2. ASSUME NEW i \in Ids PROVE rows'[i].by <= minted'
    BY <1>1, <1>2, <1>4, <1>5, <2>2, RowsWrittenOnce DEF IdInv, MintedFirst
  <2>3. ASSUME NEW p \in Procs PROVE job'[p].new <= minted'
    <3>1. CASE job'[p] = job[p]
      BY <1>1, <1>2, <1>4, <3>1
    <3>2. CASE Writes(p) \/ Visits(p)
      BY <1>1, <3>2 DEF Writes, Visits
    <3>3. CASE Proceeds(p) \/ GivesUp(p)
      BY <1>1, <1>2, <1>4, <3>3
         DEF Proceeds, GivesUp, Continued, Dropped, Advanced, NoJob
    <3> QED BY <1>6, <3>1, <3>2, <3>3
  <2> QED BY <2>1, <2>2, <2>3 DEF MintedFirst, Unwritten, StillUnwritten
<1>8. ASSUME NEW p \in Procs
      PROVE  \/ job'[p].new \in {0, job[p].new}
             \/ Writes(p) /\ job'[p].new = minted + 1
  BY <1>6 DEF Writes, Visits, Proceeds, GivesUp, Continued, Dropped, Advanced, NoJob
<1>9. OneWriter'
  <2> SUFFICES ASSUME NEW p \in Procs, NEW q \in Procs, job'[p].new = job'[q].new, p # q
               PROVE  job'[p].new = 0
    BY DEF OneWriter
  <2>1. CASE job'[p].new = job[p].new /\ job'[q].new = job[q].new
    BY <2>1 DEF IdInv, OneWriter
  <2>2. CASE Writes(p) /\ job'[p].new = minted + 1
    <3>1. job'[q].new = job[q].new
      BY <2>2 DEF Writes
    <3>2. job[q].new <= minted /\ job[q].new \in Nat
      BY <1>4
    <3>3. job[q].new # minted + 1
      BY <1>1, <3>2
    <3> QED BY <2>2, <3>1, <3>3
  <2>3. CASE Writes(q) /\ job'[q].new = minted + 1
    <3>1. job'[p].new = job[p].new
      BY <2>3 DEF Writes
    <3> QED BY <1>1, <1>4, <2>3, <3>1
  <2> QED BY <1>8, <2>1, <2>2, <2>3
<1>10. OldWritten'
  <2> SUFFICES ASSUME NEW p \in Procs, job'[p].old # 0 PROVE ~StillUnwritten(job'[p].old)
    BY DEF OldWritten, Unwritten, StillUnwritten
  <2>0. job'[p].old \in Ids
    BY <1>1 DEF Typed, TypeOK, Jobs, NoJob
  <2>1. CASE job'[p].old = job[p].old
    BY <2>0, <2>1, RowsWrittenOnce DEF IdInv, OldWritten
  <2>2. CASE Writes(p) \/ Visits(p)
    BY <2>0, <2>2, RowsWrittenOnce DEF Writes, Visits, Unwritten
  <2>3. CASE Proceeds(p) \/ GivesUp(p)
    BY <2>1, <2>3 DEF Proceeds, GivesUp, Continued, Dropped, Advanced, NoJob
  <2> QED BY <1>6, <2>1, <2>2, <2>3
<1>11. NewWritten'
  <2> SUFFICES ASSUME NEW p \in Procs, WritesRow(job'[p])
               PROVE  /\ StillUnwritten(job'[p].new) <=> BeforeInsert(job'[p])
                      /\ job'[p].row.status # "absent"
    BY DEF NewWritten, Unwritten, StillUnwritten
  <2>0. job'[p].new \in Ids /\ job'[p] # NoJob
    BY <1>1 DEF Typed, WellFormed, WritesRow, NoJob
  <2>1. ASSUME NEW q \in Procs, Wrote(q), job[q].new = job'[p].new,
               job'[p].new = job[p].new
        PROVE  q = p
    BY <2>0, <2>1, RevisionsAssumption DEF IdInv, OneWriter, Ids
  <2>2. CASE job'[p] = job[p]
    <3>1. ~Wrote(p)
      BY <1>1, <2>2, RunningJob DEF Wrote, Continued, Advanced, IdInv
    <3>2. StillUnwritten(job'[p].new) <=> Unwritten(job'[p].new)
      BY <2>0, <2>1, <2>2, <3>1, RowsWrittenOnce
    <3> QED BY <2>2, <3>2 DEF IdInv, NewWritten
  <2>3. CASE Writes(p)
    <3>1. rows' = rows /\ audit' = audit /\ job'[p].new = minted + 1
      BY <2>3 DEF Writes, stores
    <3>2. StillUnwritten(job'[p].new)
      BY <1>1, <2>0, <3>1 DEF IdInv, MintedFirst, Unwritten, StillUnwritten
    <3> QED BY <2>3, <3>2 DEF Writes, BeforeInsert
  <2>4. CASE Visits(p) \/ GivesUp(p)
    BY <2>0, <2>4 DEF Visits, GivesUp, Dropped, WritesRow
  <2>5. CASE Proceeds(p)
    <3>1. Advanced(job[p], job'[p]) /\ Continued(p) /\ WritesRow(job[p])
      BY <2>0, <2>5 DEF Proceeds, Continued, Advanced, WritesRow
    <3>2. CASE At(p, "insert")
      <4>1. Wrote(p)
        BY <2>5, <3>2 DEF Proceeds, Marked, At
      <4> QED BY <2>0, <3>1, <3>2, <4>1, WroteUnwritten, InsertCrossed
              DEF Advanced, StillUnwritten, IdInv, NewWritten
    <3>3. CASE ~At(p, "insert")
      <4>1. StillUnwritten(job'[p].new) <=> Unwritten(job'[p].new)
        BY <2>0, <2>1, <3>1, <3>3, RowsWrittenOnce DEF Wrote, Advanced
      <4> QED BY <2>0, <3>1, <3>3, <4>1, InsertCrossed DEF IdInv, NewWritten, Advanced
    <3> QED BY <3>2, <3>3
  <2> QED BY <1>6, <2>2, <2>3, <2>4, <2>5
<1>12. Bare'
  <2> SUFFICES ASSUME NEW i \in Ids, StillUnwritten(i) PROVE root'[i] = 0 /\ prev'[i] = 0
    BY DEF Bare, Unwritten, StillUnwritten
  <2>1. root[i] = 0 /\ prev[i] = 0
    BY RowsWrittenOnce DEF IdInv, Bare
  <2>2. ASSUME NEW p \in Procs, Wrote(p) PROVE i # job[p].new
    BY <2>2, WroteUnwritten DEF StillUnwritten
  <2> QED BY <1>1, <2>1, <2>2, RootChanges, RootOfWritten
<1> QED BY <1>1, <1>3, <1>7, <1>9, <1>10, <1>11, <1>12 DEF IdInv

LEMMA InitIds == Init => IdInv
<1> SUFFICES ASSUME Init PROVE IdInv
  OBVIOUS
<1>1. Typed
  BY InitTyped
<1>2. /\ \A i \in Ids : Unwritten(i) /\ rows[i].by = 0
      /\ \A p \in Procs : job[p] = NoJob
      /\ audit = {} /\ minted = 0
      /\ \A i \in Ids : root[i] = 0 /\ prev[i] = 0
  BY DEF Init, Unwritten, Present, NoRow
<1> QED BY <1>1, <1>2
        DEF IdInv, ErasedForGood, MintedFirst, OneWriter, OldWritten, NewWritten, Bare,
            NoJob, WritesRow

(* Nothing rewrites history, whatever interleaves: a row keeps what it     *)
(* says, is never reopened or reactivated, and only an audited erasure     *)
(* removes it. It rests on ids: a row is inserted only under an id that no *)
(* row has had, by the one process that minted it.                         *)
THEOREM HistoryIsPreserved == Spec => HistoryPreserved
<1>1. IdInv /\ [Next]_vars =>
        [\A i \in Ids : /\ Present(rows, i) => Kept(i) \/ i \in audit'
                        /\ i \in audit => ~Present(rows', i)]_vars
  BY HistoryStep
<1> QED BY <1>1, InitIds, IdStep, PTL DEF Spec, HistoryPreserved

-------------------------------------------------------------------------------
(* Content: what a row points to was stored before the row was written, by *)
(* the process that wrote it or, for a copied content_ref, by another, and *)
(* is taken away only with an erased row that pointed to it.               *)

Known == blobs \cup {rows[i].blob : i \in audit}

StoresFirst(j) ==
  \/ j.op \in {"commit", "override"} /\ j.next >= 2
  \/ j.op = "revise" /\ j.next >= 3
  \/ j.op = "update"

(* What forget unlinks is the content of the row that it has erased.       *)
UnlinksErased == \A p \in Procs : job[p].op = "forget" =>
  /\ job[p].row.blob = rows[job[p].old].blob
  /\ job[p].next >= 2 => job[p].old \in audit

ContentInv == /\ IdInv /\ ContentStored /\ UnlinksErased
              /\ \A p \in Procs : StoresFirst(job[p]) =>
                   job[p].row.blob \in Known \/ job[p].new \in pointed

LEMMA BlobsFixed ==
  ASSUME IdInv, [Next]_vars, NEW i \in Ids, ~Unwritten(i)
  PROVE  rows'[i].blob = rows[i].blob
<1>1. ASSUME NEW p \in Procs, Wrote(p) PROVE rows'[i] = rows[i]
  BY <1>1, WroteUnwritten
<1>2. ASSUME NEW j \in Ids, Touched(j) \/ Removed(j) PROVE rows'[i].blob = rows[i].blob
  BY <1>2 DEF Touched, Removed, SameCrystal
<1> QED BY <1>1, <1>2, RowKinds DEF IdInv

LEMMA BlobsGo ==
  ASSUME Typed, [Next]_vars
  PROVE  \/ blobs \subseteq blobs'
         \/ \E p \in Procs : Unlink(p)
  BY DEF Next, vars, stores, historyVars, Start, Commit, CommitOverriding, CommitDuplicate,
         Update, SemanticUpdate, Forget, Step, Merge, Put, Insert, Mark, MarkFails, Embed,
         Tombstone, Unembed, Deprecate, Crash

LEMMA KnownGrows == ContentInv /\ [Next]_vars => Known \subseteq Known'
<1> SUFFICES ASSUME ContentInv, [Next]_vars, NEW b \in Known PROVE b \in Known'
  OBVIOUS
<1>1. IdInv /\ Typed
  BY DEF ContentInv, IdInv
<1>2. ASSUME NEW i \in audit PROVE rows[i].blob \in Known'
  <2>1. i \in Ids /\ i \in audit' /\ ~Unwritten(i)
    BY <1>1, RowsWrittenOnce DEF Typed, TypeOK, Unwritten
  <2> QED BY <1>1, <2>1, BlobsFixed DEF Known
<1>3. CASE b \in blobs /\ blobs \subseteq blobs'
  BY <1>3 DEF Known
<1>4. ASSUME NEW p \in Procs, Unlink(p), b \in blobs PROVE b \in Known'
  <2>1. CASE b # job[p].row.blob
    BY <1>4, <2>1 DEF Unlink, Known
  <2>2. CASE b = job[p].row.blob
    <3>1. At(p, "unlink")
      BY <1>4 DEF Unlink
    <3>2. job[p].op = "forget" /\ job[p] # NoJob
      BY <1>1, <3>1, AtStep
    <3>3. job[p].next \in 1..3
      BY <1>1, <3>2, RunningJob DEF Length
    <3>4. job[p].next = 2
      BY <3>1, <3>2, <3>3 DEF At, Order
    <3>5. job[p].old \in audit /\ job[p].row.blob = rows[job[p].old].blob
      BY <3>2, <3>4 DEF ContentInv, UnlinksErased
    <3> QED BY <1>2, <2>2, <3>5
  <2> QED BY <2>1, <2>2
<1> QED BY <1>1, <1>2, <1>3, <1>4, BlobsGo DEF Known

LEMMA PointersKept ==
  ASSUME Typed, [Next]_vars
  PROVE  pointed \subseteq pointed'
  BY StepKinds DEF Writes, Visits, Proceeds, GivesUp, Lowers, Idle, historyVars

LEMMA UnlinksStep == ContentInv /\ [Next]_vars => UnlinksErased'
<1> SUFFICES ASSUME ContentInv, [Next]_vars, NEW p \in Procs, job'[p].op = "forget"
             PROVE  /\ job'[p].row.blob = rows'[job'[p].old].blob
                    /\ job'[p].next >= 2 => job'[p].old \in audit'
  BY DEF UnlinksErased
<1>1. IdInv /\ Typed /\ IdInv' /\ Typed'
  BY IdStep DEF ContentInv, IdInv
<1>2. job'[p] # NoJob /\ job'[p].old \in Ids /\ job'[p].old # 0
  BY <1>1, RevisionsAssumption DEF Typed, WellFormed, NoJob, Ids
<1>3. CASE job'[p].op = job[p].op /\ job'[p].old = job[p].old /\ job'[p].row = job[p].row
  <2>1. ~Unwritten(job[p].old) /\ job[p].old \in Ids
    BY <1>1, <1>2, <1>3 DEF IdInv, OldWritten
  <2>2. job'[p].row.blob = rows'[job'[p].old].blob
    BY <1>1, <1>3, <2>1, BlobsFixed DEF ContentInv, UnlinksErased
  <2>3. CASE job[p].next >= 2
    BY <1>1, <1>3, <2>1, <2>2, <2>3, RowsWrittenOnce DEF ContentInv, UnlinksErased
  <2>4. CASE job'[p].next = job[p].next
    BY <1>1, <1>3, <2>1, <2>2, <2>4, RowsWrittenOnce DEF ContentInv, UnlinksErased
  <2>5. CASE Proceeds(p) /\ job[p].next = 1
    <3>1. At(p, "tombstone")
      BY <1>3, <2>5 DEF At, Order, Proceeds, Continued
    <3>2. CASE ~Present(rows, job[p].old)
      BY <1>1, <1>3, <2>1, <2>2, <3>2, RowsWrittenOnce DEF Unwritten
    <3>3. CASE Present(rows, job[p].old)
      <4>1. Removed(job[p].old)
        BY <2>5, <3>1, <3>3 DEF Proceeds, Wrote, Marked, At
      <4> QED BY <1>3, <2>2, <4>1 DEF Removed
    <3> QED BY <3>2, <3>3
  <2>6. CASE Proceeds(p) /\ job[p].next # 1
    <3>1. job[p].next \in 1..Length(job[p].op) /\ Length(job[p].op) \in {1, 3, 4}
      BY <1>1, <2>6, RunningJob, LengthTyped DEF Proceeds, Continued
    <3> QED BY <2>3, <2>6, <3>1
  <2>7. CASE Writes(p) \/ Visits(p) \/ GivesUp(p)
    BY <1>2, <1>3, <2>7 DEF Writes, Visits, GivesUp, Dropped, NoJob
  <2> QED BY <1>1, <2>4, <2>5, <2>6, <2>7, JobChanges
<1>4. CASE job'[p] = job[p]
  BY <1>3, <1>4
<1>5. CASE Writes(p)
  BY <1>5 DEF Writes
<1>6. CASE Visits(p)
  <2>1. rows' = rows /\ job'[p].next = 1 /\ job'[p].row = rows[job'[p].old]
    BY <1>6 DEF Visits, stores
  <2> QED BY <2>1
<1>7. CASE GivesUp(p)
  BY <1>2, <1>7 DEF GivesUp, Dropped
<1>8. CASE Proceeds(p)
  BY <1>2, <1>3, <1>8 DEF Proceeds, Continued, Advanced
<1> QED BY <1>1, <1>4, <1>5, <1>6, <1>7, <1>8, JobChanges

LEMMA ContentStep == ContentInv /\ [Next]_vars => ContentInv'
<1> SUFFICES ASSUME ContentInv, [Next]_vars PROVE ContentInv'
  OBVIOUS
<1>1. /\ IdInv /\ Typed /\ IdInv' /\ Typed' /\ UnlinksErased'
      /\ Known \subseteq Known' /\ pointed \subseteq pointed'
  BY IdStep, KnownGrows, PointersKept, UnlinksStep DEF ContentInv, IdInv
<1> DEFINE Sound(j) == j.row.blob \in Known' \/ j.new \in pointed'
<1>2. ASSUME NEW p \in Procs, Wrote(p) PROVE Sound(job[p])
  <2>1. StoresFirst(job[p])
    BY <1>1, <1>2, AtStep DEF Wrote, StoresFirst
  <2> QED BY <1>1, <2>1 DEF ContentInv
<1>3. ContentStored'
  <2> SUFFICES ASSUME NEW i \in Ids, Present(rows', i), i \notin pointed'
               PROVE  rows'[i].blob \in Known'
    BY DEF ContentStored, Known
  <2>1. CASE Present(rows, i) /\ rows'[i].blob = rows[i].blob
    <3>1. rows[i].blob \in Known
      BY <1>1, <2>1 DEF ContentInv, ContentStored, Known
    <3> QED BY <1>1, <2>1, <3>1
  <2>2. ASSUME NEW p \in Procs, Wrote(p), i = job[p].new PROVE rows'[i].blob \in Known'
    BY <1>1, <1>2, <2>2, WroteUnwritten
  <2> QED BY <1>1, <2>1, <2>2, RowsFrom
<1>4. ASSUME NEW p \in Procs, StoresFirst(job'[p]) PROVE Sound(job'[p])
  <2>1. CASE job'[p] = job[p]
    BY <1>1, <1>4, <2>1 DEF ContentInv
  <2>2. CASE Writes(p)
    <3>1. job'[p].next = 1 /\ job'[p].op = "update"
      BY <1>4, <2>2 DEF Writes, StoresFirst
    <3>2. CASE job'[p].new \in pointed'
      BY <3>2
    <3>3. CASE job'[p].old \notin pointed /\ job'[p].row.blob = rows[job'[p].old].blob
      <4>1. job'[p].old \in Ids /\ Present(rows, job'[p].old)
        BY <2>2, <3>1 DEF Writes
      <4>2. rows[job'[p].old].blob \in Known
        BY <3>3, <4>1 DEF ContentInv, ContentStored, Known
      <4> QED BY <1>1, <3>3, <4>2
    <3> QED BY <2>2, <3>1, <3>2, <3>3 DEF Writes
  <2>3. CASE Visits(p)
    BY <1>4, <2>3 DEF Visits, StoresFirst
  <2>4. CASE GivesUp(p)
    BY <1>4, <2>4 DEF GivesUp, Dropped, StoresFirst, NoJob
  <2>5. CASE Proceeds(p)
    <3>1. CASE job'[p] = NoJob
      BY <1>4, <3>1 DEF StoresFirst, NoJob
    <3>2. CASE job'[p] # NoJob
      <4>1. job[p] # NoJob /\ Advanced(job[p], job'[p]) /\ job[p].next \in 1..Length(job[p].op)
        BY <1>1, <2>5, <3>2, RunningJob DEF Proceeds, Continued
      <4>2. CASE StoresFirst(job[p])
        BY <1>1, <4>1, <4>2 DEF Advanced, ContentInv
      <4>3. CASE ~StoresFirst(job[p])
        <5>1. Order[job[p].op][job[p].next] = "put"
          BY <1>4, <4>1, <4>3, LengthTyped DEF Advanced, StoresFirst, Order
        <5>2. job[p].row.blob \in blobs'
          BY <2>5, <4>1, <5>1 DEF Proceeds, At
        <5> QED BY <4>1, <5>2 DEF Advanced, Known
      <4> QED BY <4>2, <4>3
    <3> QED BY <3>1, <3>2
  <2> QED BY <1>1, <2>1, <2>2, <2>3, <2>4, <2>5, JobChanges
<1> QED BY <1>1, <1>3, <1>4 DEF ContentInv

(* index -> pointer -> content: however many servers and commands share    *)
(* the stores, and wherever they are killed, no row points at content that *)
(* was never stored unless a caller's patch named it, and content that is  *)
(* gone was unlinked with an erased crystal that had the same content.     *)
THEOREM ContentBehindPointers == Spec => []ContentStored
<1>1. Init => ContentInv
  <2> SUFFICES ASSUME Init PROVE ContentInv
    OBVIOUS
  <2>1. IdInv
    BY InitIds
  <2>2. \A i \in Ids : ~Present(rows, i)
    BY DEF Init, Present, NoRow
  <2>3. \A p \in Procs : ~StoresFirst(job[p]) /\ job[p].op # "forget"
    BY DEF Init, StoresFirst, NoJob
  <2> QED BY <2>1, <2>2, <2>3 DEF ContentInv, ContentStored, UnlinksErased
<1>2. ContentInv => ContentStored
  BY DEF ContentInv
<1> QED BY <1>1, <1>2, ContentStep, PTL DEF Spec

-------------------------------------------------------------------------------
(* Successors                                                              *)

RevisesSemantic == \A p \in Procs :
  job[p].op = "revise" => rows[job[p].old].layer = "semantic"

NotYetPointedTo == \A p \in Procs : \A i \in Ids :
  job[p].op = "revise" /\ job[p].next = 1 => rows[i].by # job[p].new

TrailInv == IdInv /\ SuccessorTracked /\ RevisesSemantic /\ NotYetPointedTo

LEMMA LayersFixed ==
  ASSUME IdInv, [Next]_vars, NEW i \in Ids, ~Unwritten(i)
  PROVE  rows'[i].layer = rows[i].layer
<1>1. ASSUME NEW p \in Procs, Wrote(p) PROVE rows'[i] = rows[i]
  BY <1>1, WroteUnwritten
<1>2. ASSUME NEW j \in Ids, Touched(j) \/ Removed(j) PROVE rows'[i].layer = rows[i].layer
  BY <1>2 DEF Touched, Removed, SameCrystal
<1> QED BY <1>1, <1>2, RowKinds DEF IdInv

LEMMA CutGrows ==
  ASSUME Typed, [Next]_vars
  PROVE  cut \subseteq cut'
  BY StepKinds DEF Writes, Visits, Proceeds, GivesUp, Lowers, Idle, historyVars

(* A process that ends without having written its row gave up, and then    *)
(* no row points to that one unless its writer is counted as killed.       *)
LEMMA WriterEnds ==
  ASSUME TrailInv, [Next]_vars, NEW p \in Procs, job[p].new # 0, job'[p].new # job[p].new,
         Unwritten(job[p].new)
  PROVE  \/ job[p].new \in cut' /\ root'[job[p].new] = 0
         \/ \A i \in Ids : rows[i].by # job[p].new
<1>1. Typed /\ IdInv
  BY DEF TrailInv, IdInv
<1>2. job[p] # NoJob /\ job'[p] # job[p] /\ WellFormed(job[p])
  BY <1>1 DEF NoJob, Typed
<1>3. WritesRow(job[p]) /\ job[p].new \in Ids
  BY <1>2 DEF WellFormed, WritesRow
<1>4. BeforeInsert(job[p])
  BY <1>1, <1>3 DEF IdInv, NewWritten
<1>5. ~Writes(p) /\ ~Visits(p)
  BY <1>2 DEF Writes, Visits
<1>6. ~Proceeds(p)
  <2> SUFFICES ASSUME Proceeds(p) PROVE FALSE
    OBVIOUS
  <2>1. job[p].next = Length(job[p].op)
    BY DEF Proceeds, Continued, Advanced
  <2> QED BY <1>4, <2>1 DEF BeforeInsert, Length
<1>7. GivesUp(p)
  BY <1>1, <1>2, <1>5, <1>6, JobChanges
<1>8. CASE At(p, "mark")
  <2>1. job[p].op = "revise" /\ job[p].next = 1
    BY <1>1, <1>4, <1>8, AtStep DEF BeforeInsert
  <2> QED BY <2>1 DEF TrailInv, NotYetPointedTo
<1>9. CASE ~At(p, "mark")
  <2>1. ~At(p, "embed")
    BY <1>1, <1>4, AtStep DEF BeforeInsert
  <2>2. root'[job[p].new] = 0
    BY <1>1, <1>3, <1>7 DEF GivesUp, IdInv, Bare
  <2> QED BY <1>3, <1>7, <1>9, <2>1, <2>2 DEF GivesUp
<1> QED BY <1>8, <1>9

LEMMA MarkerGoesOn ==
  ASSUME Typed, NEW p \in Procs, Marked(p)
  PROVE  job'[p].new = job[p].new /\ job'[p] # NoJob
<1>1. job[p].next # Length(job[p].op)
  BY AtStep DEF Marked, Length
<1> QED BY <1>1 DEF Marked, Continued, Advanced

LEMMA TrailStep == TrailInv /\ [Next]_vars => TrailInv'
<1> SUFFICES ASSUME TrailInv, [Next]_vars PROVE TrailInv'
  OBVIOUS
<1>1. IdInv /\ Typed /\ IdInv' /\ Typed'
  BY IdStep DEF TrailInv, IdInv
<1>2. SuccessorTracked'
  <2> SUFFICES ASSUME NEW i \in Ids, Present(rows', i), rows'[i].by # 0
               PROVE  \/ Present(rows', rows'[i].by) \/ rows'[i].by \in audit'
                      \/ /\ rows'[i].layer = "semantic"
                         /\ \/ rows'[i].by \in cut' /\ root'[rows'[i].by] = 0
                            \/ \E p \in Procs : job'[p].new = rows'[i].by
    BY DEF SuccessorTracked, Owed
  <2> DEFINE b == rows'[i].by
  <2>1. b \in Ids
    BY <1>1 DEF Typed, TypeOK, Row, NoRow, Present
  <2>2. Present(rows, i)
    <3>1. ASSUME NEW p \in Procs, Wrote(p), i = job[p].new PROVE rows'[i].by = 0
      BY <1>1, <3>1, WroteUnwritten
    <3> QED BY <1>1, <3>1, RowsFrom
  <2>3. ~Unwritten(b) => Present(rows', b) \/ b \in audit'
    BY <1>1, <2>1, RowsWrittenOnce DEF StillUnwritten
  <2>4. rows'[i].layer = rows[i].layer
    BY <1>1, <2>2, LayersFixed DEF Unwritten
  <2>5. CASE rows'[i].by = rows[i].by
    <3>1. CASE ~Unwritten(b)
      BY <2>3, <3>1
    <3>2. CASE Unwritten(b)
      <4>1. Owed(i)
        BY <2>2, <2>5, <3>2 DEF TrailInv, SuccessorTracked, Unwritten
      <4>2. CASE b \in cut
        <5>1. StillUnwritten(b) => root'[b] = 0
          BY <1>1, <2>1 DEF IdInv, Bare, Unwritten, StillUnwritten
        <5> QED BY <1>1, <2>4, <2>5, <4>1, <4>2, <5>1, CutGrows DEF Owed, StillUnwritten
      <4>3. ASSUME NEW p \in Procs, job[p].new = b
            PROVE  /\ rows'[i].layer = "semantic"
                   /\ (b \in cut' /\ root'[b] = 0) \/ job'[p].new = b
        BY <2>1, <2>4, <2>5, <3>2, <4>1, <4>3, WriterEnds, RevisionsAssumption DEF Owed, Ids
      <4> QED BY <2>5, <4>1, <4>2, <4>3 DEF Owed
    <3> QED BY <3>1, <3>2
  <2>6. ASSUME NEW p \in Procs, Marked(p), i = job[p].old, b = job[p].new
        PROVE  \/ ~Unwritten(b)
               \/ rows'[i].layer = "semantic" /\ job'[p].new = b
    <3>1. \/ job[p].op = "update" /\ job[p].next = 2
          \/ job[p].op = "override" /\ job[p].next = 3
          \/ job[p].op = "revise" /\ job[p].next = 1
      BY <1>1, <2>6, AtStep DEF Marked
    <3>2. CASE job[p].op = "update" /\ job[p].next = 2
      BY <1>1, <2>6, <3>2 DEF IdInv, NewWritten, WritesRow, BeforeInsert
    <3>4. CASE job[p].op = "override" /\ job[p].next = 3
      BY <1>1, <2>6, <3>4 DEF IdInv, NewWritten, WritesRow, BeforeInsert
    <3>3. CASE job[p].op = "revise" /\ job[p].next = 1
      BY <1>1, <2>4, <2>6, <3>3, MarkerGoesOn DEF TrailInv, RevisesSemantic
    <3> QED BY <3>1, <3>2, <3>3, <3>4
  <2> QED BY <1>1, <2>3, <2>5, <2>6, RowsWrittenOnce
<1>3. RevisesSemantic'
  <2> SUFFICES ASSUME NEW p \in Procs, job'[p].op = "revise"
               PROVE  rows'[job'[p].old].layer = "semantic"
    BY DEF RevisesSemantic
  <2>1. CASE job'[p].op = job[p].op /\ job'[p].old = job[p].old
    <3>1. job[p].old # 0 /\ job[p].old \in Ids
      BY <1>1, <2>1, RevisionsAssumption DEF Typed, TypeOK, WellFormed, Jobs, NoJob
    <3>2. rows'[job[p].old].layer = rows[job[p].old].layer
      BY <1>1, <3>1, LayersFixed DEF IdInv, OldWritten
    <3> QED BY <2>1, <3>2 DEF TrailInv, RevisesSemantic
  <2>2. CASE Writes(p)
    BY <2>2 DEF Writes, stores
  <2>3. CASE Visits(p) \/ GivesUp(p)
    BY <2>3 DEF Visits, GivesUp, Dropped, NoJob
  <2>4. CASE Proceeds(p)
    BY <2>1, <2>4 DEF Proceeds, Continued, Advanced, NoJob
  <2> QED BY <1>1, <2>1, <2>2, <2>3, <2>4, JobChanges
<1>4. NotYetPointedTo'
  <2> SUFFICES ASSUME NEW p \in Procs, NEW i \in Ids,
                      job'[p].op = "revise", job'[p].next = 1
               PROVE  rows'[i].by # job'[p].new
    BY DEF NotYetPointedTo
  <2>1. CASE job'[p] = job[p]
    <3>1. job[p].new # 0 /\ rows[i].by # job[p].new
      BY <1>1, <2>1, RevisionsAssumption
         DEF Typed, WellFormed, NoJob, Ids, TrailInv, NotYetPointedTo
    <3>2. ASSUME NEW q \in Procs, Marked(q), job[q].new = job[p].new PROVE FALSE
      <4>1. q = p
        BY <1>1, <3>1, <3>2 DEF IdInv, OneWriter
      <4>2. job[p] # NoJob /\ job[p].next \in Nat
        BY <1>1, <3>2, <4>1, RunningJob DEF Marked, Continued
      <4> QED BY <1>1, <2>1, <3>2, <4>1, <4>2, MarkerGoesOn DEF Marked, Continued, Advanced
    <3> QED BY <1>1, <2>1, <3>1, <3>2, RowsWrittenOnce
  <2>2. CASE Writes(p)
    <3>1. rows' = rows /\ job'[p].new = minted + 1 /\ minted \in Nat /\ rows[i].by \in Nat
      BY <1>1, <2>2, RevisionsAssumption DEF Writes, stores, Typed, TypeOK, Row, NoRow, Ids
    <3>2. rows[i].by <= minted
      BY <1>1 DEF IdInv, MintedFirst
    <3> QED BY <3>1, <3>2
  <2>3. CASE Visits(p) \/ GivesUp(p)
    BY <2>3 DEF Visits, GivesUp, Dropped, NoJob
  <2>4. CASE Proceeds(p)
    <3>1. job[p] # NoJob /\ Advanced(job[p], job'[p])
      BY <2>4 DEF Proceeds, Continued, NoJob
    <3>2. job[p].next \in 1..Length(job[p].op) /\ Length(job[p].op) \in {1, 3, 4}
      BY <1>1, <3>1, RunningJob, LengthTyped
    <3> QED BY <3>1, <3>2 DEF Advanced
  <2> QED BY <1>1, <2>1, <2>2, <2>3, <2>4, JobChanges
<1> QED BY <1>1, <1>2, <1>3, <1>4 DEF TrailInv

(* Whoever follows superseded_by arrives, for any number of servers and    *)
(* commands killed anywhere: the successor is there, was erased under an   *)
(* audit entry, or is owed by a revision of a semantic crystal.            *)
THEOREM SuccessorsTracked == Spec => []SuccessorTracked
<1>1. Init => TrailInv
  <2> SUFFICES ASSUME Init PROVE TrailInv
    OBVIOUS
  <2>1. IdInv
    BY InitIds
  <2>2. /\ \A i \in Ids : ~Present(rows, i)
        /\ \A p \in Procs : job[p].op # "revise"
    BY DEF Init, Present, NoRow, NoJob
  <2> QED BY <2>1, <2>2 DEF TrailInv, SuccessorTracked, RevisesSemantic, NotYetPointedTo
<1>2. TrailInv => SuccessorTracked
  BY DEF TrailInv
<1> QED BY <1>1, <1>2, TrailStep, PTL DEF Spec

-------------------------------------------------------------------------------
(* What the revisions of one fact add up to. An update writes one row and  *)
(* changes another, and a revision may be revised itself before it ends:   *)
(* the last two theorems are about all the rows that descend from one      *)
(* commit.                                                                 *)

BornOpen == \A p \in Procs : WritesRow(job[p]) => job[p].row.until = "open"

(* The first revision of a written row was written, and is its own first.  *)
RootsWritten == \A i \in Ids : ~Unwritten(i) =>
                  root[i] \in Ids /\ ~Unwritten(root[i]) /\ root[root[i]] = root[i]

(* Ids grow from a revision to the next one.                               *)
UpdatesAhead == \A p \in Procs : job[p].op = "update" =>
                  job[p].old < job[p].new /\ job[p].row.layer # "semantic"

RootsGiven == \A p \in Procs : WritesRow(job[p]) /\ ~BeforeInsert(job[p]) =>
  /\ root[job[p].new] = IF Revises(job[p]) THEN root[job[p].old] ELSE job[p].new
  /\ rows[job[p].new].layer = job[p].row.layer

LineageInv == TrailInv /\ BornOpen /\ RootsWritten /\ UpdatesAhead /\ RootsGiven

LEMMA RootsFixed ==
  ASSUME IdInv, [Next]_vars, NEW i \in Ids, ~Unwritten(i)
  PROVE  root'[i] = root[i] /\ prev'[i] = prev[i] /\ ~StillUnwritten(i)
<1>1. ~StillUnwritten(i)
  BY RowsWrittenOnce
<1>2. ASSUME NEW p \in Procs, Wrote(p) PROVE root'[i] = root[i] /\ prev'[i] = prev[i]
  BY <1>2, WroteUnwritten, RootOfWritten DEF IdInv
<1> QED BY <1>1, <1>2, RootChanges DEF IdInv

(* A row that is there after a step and was not touched, erased or written *)
(* by it is as it was.                                                     *)
LEMMA RowChanges ==
  ASSUME IdInv, [Next]_vars
  PROVE  \/ rows' = rows /\ audit' = audit /\ root' = root
         \/ \E p \in Procs : Wrote(p) /\ Proceeds(p)
         \/ \E p \in Procs : Marked(p) /\ Proceeds(p) /\ root' = root
         \/ \E i \in Ids : (Lowered(i) \/ Removed(i)) /\ root' = root
                           /\ \A p \in Procs : ~Wrote(p) /\ ~Marked(p)
<1>1. ASSUME NEW p \in Procs, Wrote(p) \/ Marked(p) PROVE Continued(p)
  BY <1>1 DEF Wrote, Marked
<1>2. ASSUME NEW p \in Procs, Continued(p) PROVE job'[p] # job[p]
  BY <1>2, RunningJob DEF Continued, Advanced, IdInv
<1>3. ASSUME NEW i \in Ids, Lowers(i)
      PROVE  Lowered(i) /\ root' = root /\ \A p \in Procs : ~Wrote(p) /\ ~Marked(p)
  BY <1>1, <1>2, <1>3 DEF Lowers
<1>4. ASSUME NEW p \in Procs, ~At(p, "insert"), ~At(p, "mark"), Removed(job[p].old),
             Proceeds(p)
      PROVE  /\ job[p].old \in Ids
             /\ \A q \in Procs : ~Wrote(q) /\ ~Marked(q)
  <2>1. \A q \in Procs : Continued(q) => q = p
    BY <1>2, <1>4 DEF Proceeds, Continued
  <2> QED BY <1>1, <1>4, <2>1 DEF Removed, Wrote, Marked
<1>5. ASSUME NEW p \in Procs, Proceeds(p)
      PROVE  \/ rows' = rows /\ audit' = audit /\ root' = root
             \/ Wrote(p) /\ Proceeds(p)
             \/ Marked(p) /\ Proceeds(p) /\ root' = root
             \/ \E i \in Ids : (Lowered(i) \/ Removed(i)) /\ root' = root
                               /\ \A q \in Procs : ~Wrote(q) /\ ~Marked(q)
  BY <1>4, <1>5 DEF Proceeds
<1> QED BY <1>3, <1>5, StepKinds
        DEF IdInv, Writes, Visits, GivesUp, Idle, stores, historyVars

LEMMA WriterRuns ==
  ASSUME IdInv, NEW p \in Procs, Wrote(p)
  PROVE  /\ job'[p] # NoJob /\ Advanced(job[p], job'[p])
         /\ \/ job[p].op \in {"commit", "override"} /\ job[p].next = 2
            \/ job[p].op = "update" /\ job[p].next = 1
            \/ job[p].op = "revise" /\ job[p].next = 3
<1>1. \/ job[p].op \in {"commit", "override"} /\ job[p].next = 2
      \/ job[p].op = "update" /\ job[p].next = 1
      \/ job[p].op = "revise" /\ job[p].next = 3
  BY AtStep DEF Wrote, IdInv
<1>2. job[p].next # Length(job[p].op)
  BY <1>1 DEF Length
<1> QED BY <1>1, <1>2 DEF Wrote, Continued

LEMMA RevisedRow ==
  ASSUME IdInv, NEW p \in Procs, Revises(job[p]) \/ job[p].op = "override"
  PROVE  /\ job[p] # NoJob /\ WritesRow(job[p])
         /\ job[p].old \in Ids /\ job[p].old # 0 /\ job[p].new \in Ids /\ job[p].new # 0
         /\ ~Unwritten(job[p].old)
         /\ job[p].next \in 1..Length(job[p].op)
<1>1. job[p] # NoJob
  BY DEF Revises, NoJob
<1>2. Typed /\ WellFormed(job[p]) /\ OldWritten
  BY DEF IdInv, Typed
<1>3. job[p].old # 0 /\ job[p].new \in Ids /\ job[p].next \in 1..Length(job[p].op)
  BY <1>1, <1>2 DEF WellFormed, Revises
<1>4. job[p].old \in Ids
  BY <1>1, <1>2, <1>3, RunningJob
<1> QED BY <1>1, <1>2, <1>3, <1>4, RevisionsAssumption DEF OldWritten, Ids, WritesRow, Revises

LEMMA RootsWrittenStep == LineageInv /\ [Next]_vars => RootsWritten'
<1> SUFFICES ASSUME LineageInv, [Next]_vars, NEW i \in Ids, ~StillUnwritten(i)
             PROVE  /\ root'[i] \in Ids /\ ~StillUnwritten(root'[i])
                    /\ root'[root'[i]] = root'[i]
  BY DEF RootsWritten, Unwritten, StillUnwritten
<1>1. IdInv /\ Typed
  BY DEF LineageInv, TrailInv, IdInv
<1>2. CASE ~Unwritten(i)
  BY <1>1, <1>2, RootsFixed DEF LineageInv, RootsWritten
<1>3. CASE Unwritten(i)
  <2>1. PICK p \in Procs : Wrote(p) /\ i = job[p].new
    BY <1>1, <1>3, RowsWrittenOnce
  <2>2. CASE ~Revises(job[p])
    BY <1>1, <2>1, <2>2, RootOfWritten
  <2>3. CASE Revises(job[p])
    <3>1. job[p].old \in Ids /\ ~Unwritten(job[p].old)
      BY <1>1, <2>3, RevisedRow
    <3>2. /\ root[job[p].old] \in Ids /\ ~Unwritten(root[job[p].old])
          /\ root[root[job[p].old]] = root[job[p].old]
      BY <3>1 DEF LineageInv, RootsWritten
    <3> QED BY <1>1, <2>1, <2>3, <3>2, RootOfWritten, RootsFixed
  <2> QED BY <2>2, <2>3
<1> QED BY <1>2, <1>3

LEMMA RootsGivenStep == LineageInv /\ [Next]_vars => RootsGiven'
<1> SUFFICES ASSUME LineageInv, [Next]_vars,
                    NEW p \in Procs, WritesRow(job'[p]), ~BeforeInsert(job'[p])
             PROVE  /\ root'[job'[p].new] = IF Revises(job'[p]) THEN root'[job'[p].old]
                                                               ELSE job'[p].new
                    /\ rows'[job'[p].new].layer = job'[p].row.layer
  BY DEF RootsGiven
<1>1. IdInv /\ Typed /\ IdInv' /\ Typed'
  BY IdStep DEF LineageInv, TrailInv, IdInv
<1>2. CASE /\ job'[p].op = job[p].op /\ job'[p].old = job[p].old /\ job'[p].new = job[p].new
           /\ job'[p].row = job[p].row /\ ~BeforeInsert(job[p])
  <2>1. WritesRow(job[p]) /\ ~BeforeInsert(job[p]) /\ job[p] # NoJob
    BY <1>2 DEF WritesRow, NoJob
  <2>2. job[p].new \in Ids /\ ~Unwritten(job[p].new)
    BY <1>1, <2>1 DEF IdInv, NewWritten, Typed, WellFormed, WritesRow
  <2>3. Revises(job[p]) => job[p].old \in Ids /\ ~Unwritten(job[p].old)
    BY <1>1, RevisedRow
  <2> QED BY <1>1, <1>2, <2>1, <2>2, <2>3, RootsFixed, LayersFixed
          DEF LineageInv, RootsGiven, Revises
<1>3. CASE job'[p] = job[p]
  BY <1>2, <1>3
<1>4. CASE Writes(p)
  BY <1>4 DEF Writes, BeforeInsert
<1>5. CASE Visits(p) \/ GivesUp(p)
  BY <1>5 DEF Visits, GivesUp, Dropped, NoJob, WritesRow
<1>6. CASE Proceeds(p)
  <2>1. job'[p] # NoJob /\ Continued(p) /\ Advanced(job[p], job'[p]) /\ WritesRow(job[p])
    BY <1>6 DEF Proceeds, Continued, NoJob, WritesRow, Advanced
  <2>2. CASE At(p, "insert")
    <3>1. Wrote(p)
      BY <1>6, <2>2 DEF Proceeds, Marked, At
    <3>2. Revises(job[p]) => job[p].old \in Ids /\ ~Unwritten(job[p].old)
      BY <1>1, RevisedRow
    <3> QED BY <1>1, <2>1, <3>1, <3>2, WroteUnwritten, RootOfWritten, RootsFixed
            DEF Advanced, Revises
  <2>3. CASE ~At(p, "insert")
    <3>1. ~BeforeInsert(job[p])
      BY <1>1, <2>1, <2>3, InsertCrossed
    <3> QED BY <1>2, <2>1, <3>1 DEF Advanced
  <2> QED BY <2>2, <2>3
<1> QED BY <1>1, <1>3, <1>4, <1>5, <1>6, JobChanges

LEMMA LineageStep == LineageInv /\ [Next]_vars => LineageInv'
<1> SUFFICES ASSUME LineageInv, [Next]_vars PROVE LineageInv'
  OBVIOUS
<1>1. IdInv /\ Typed /\ IdInv' /\ Typed' /\ TrailInv /\ TrailInv'
  BY TrailStep, IdStep DEF LineageInv, TrailInv, IdInv
<1>2. ASSUME NEW p \in Procs
      PROVE  /\ WritesRow(job'[p]) => job'[p].row.until = "open"
             /\ job'[p].op = "update" =>
                  job'[p].old < job'[p].new /\ job'[p].row.layer # "semantic"
  <2>1. CASE job'[p] = job[p]
    BY <2>1 DEF LineageInv, BornOpen, UpdatesAhead
  <2>2. CASE Writes(p)
    <3>1. /\ job'[p].row.until = "open" /\ job'[p].new = minted + 1
          /\ job'[p].op = "update" => job'[p].row.layer # "semantic"
      BY <2>2 DEF Writes
    <3>2. ASSUME job'[p].op = "update" PROVE job'[p].old < job'[p].new
      <4>1. job'[p].old \in Ids /\ Present(rows, job'[p].old)
        BY <2>2, <3>2 DEF Writes
      <4>2. job'[p].old <= minted /\ minted \in Nat /\ job'[p].old \in Nat
        BY <1>1, <4>1, RevisionsAssumption
           DEF IdInv, MintedFirst, Unwritten, Typed, TypeOK, Ids
      <4> QED BY <3>1, <4>2
    <3> QED BY <3>1, <3>2
  <2>3. CASE Visits(p) \/ GivesUp(p)
    BY <2>3 DEF Visits, GivesUp, Dropped, NoJob, WritesRow
  <2>4. CASE Proceeds(p)
    BY <2>4 DEF Proceeds, Continued, Advanced, NoJob, WritesRow, LineageInv, BornOpen,
                UpdatesAhead
  <2> QED BY <1>1, <2>1, <2>2, <2>3, <2>4, JobChanges
<1> QED BY <1>1, <1>2, RootsWrittenStep, RootsGivenStep
        DEF LineageInv, BornOpen, UpdatesAhead

LEMMA InitLineage == Init => LineageInv
<1> SUFFICES ASSUME Init PROVE LineageInv
  OBVIOUS
<1>1. IdInv
  BY InitIds
<1>2. /\ \A i \in Ids : ~Present(rows, i) /\ Unwritten(i)
      /\ \A p \in Procs : job[p].op = "none"
  BY DEF Init, Present, Unwritten, NoRow, NoJob
<1> QED BY <1>1, <1>2
        DEF LineageInv, TrailInv, SuccessorTracked, RevisesSemantic, NotYetPointedTo,
            BornOpen, RootsWritten, UpdatesAhead, RootsGiven, WritesRow

-------------------------------------------------------------------------------
(* A commit closes only rows that descend from a semantic crystal: their   *)
(* vectors are filed as semantic, even when a patch took the row itself to *)
(* another layer.                                                          *)

Factual(i) == rows[root[i]].layer = "semantic"
FactualNext(i) == rows'[root'[i]].layer = "semantic"

SemanticRoots == \A i \in Ids :
  ~Unwritten(i) /\ rows[i].layer = "semantic" => Factual(i)

SemanticVectors == \A v \in vectors :
  ~Unwritten(v.id) /\ (v.layer = "semantic" => Factual(v.id))

OverridesFacts == \A p \in Procs : job[p].op = "override" => Factual(job[p].old)

FactInv == LineageInv /\ SemanticRoots /\ SemanticVectors /\ OverridesFacts

LEMMA FactualStays ==
  ASSUME LineageInv, [Next]_vars, NEW i \in Ids, ~Unwritten(i)
  PROVE  FactualNext(i) <=> Factual(i)
<1>1. IdInv /\ root[i] \in Ids /\ ~Unwritten(root[i])
  BY DEF LineageInv, TrailInv, RootsWritten
<1> QED BY <1>1, RootsFixed, LayersFixed DEF Factual, FactualNext

LEMMA VectorsFrom ==
  ASSUME Typed, [Next]_vars, NEW v \in vectors'
  PROVE  \/ v \in vectors
         \/ \E p \in Procs : /\ At(p, "embed")
                            /\ v.id = job[p].new /\ v.layer = VectorLayer(job[p])
<1>1. ASSUME NEW p \in Procs, Embed(p), v \notin vectors
      PROVE  At(p, "embed") /\ v.id = job[p].new /\ v.layer = VectorLayer(job[p])
  BY <1>1 DEF Embed
<1>2. ASSUME NEW p \in Procs, Unembed(p) PROVE v \in vectors
  BY <1>2 DEF Unembed
<1>3. CASE vectors' = vectors
  BY <1>3
<1> QED BY <1>1, <1>2, <1>3
        DEF Next, vars, stores, historyVars, Start, Commit, CommitOverriding, CommitDuplicate,
            Update, SemanticUpdate, Forget, Step, Merge, Put, Insert, Mark, MarkFails,
            Tombstone, Unlink, Deprecate, Crash

LEMMA FactStep == FactInv /\ [Next]_vars => FactInv'
<1> SUFFICES ASSUME FactInv, [Next]_vars PROVE FactInv'
  OBVIOUS
<1>1. LineageInv /\ LineageInv' /\ IdInv /\ IdInv' /\ Typed /\ Typed'
  BY LineageStep, IdStep DEF FactInv, LineageInv, TrailInv, IdInv
<1>2. SemanticRoots'
  <2> SUFFICES ASSUME NEW i \in Ids, ~StillUnwritten(i), rows'[i].layer = "semantic"
               PROVE  FactualNext(i)
    BY DEF SemanticRoots, Unwritten, StillUnwritten, Factual, FactualNext
  <2>1. CASE ~Unwritten(i)
    BY <1>1, <2>1, LayersFixed, FactualStays DEF FactInv, SemanticRoots
  <2>2. CASE Unwritten(i)
    <3>1. PICK p \in Procs : Wrote(p) /\ i = job[p].new
      BY <1>1, <2>2, RowsWrittenOnce
    <3>2. rows'[i] = job[p].row
      BY <1>1, <3>1, WroteUnwritten
    <3>3. CASE ~Revises(job[p])
      BY <1>1, <3>1, <3>3, RootOfWritten DEF FactualNext
    <3>4. CASE Revises(job[p])
      <4>1. job[p].old \in Ids /\ ~Unwritten(job[p].old)
        BY <1>1, <3>4, RevisedRow
      <4>2. job[p].op = "revise"
        BY <3>2, <3>4 DEF Revises, LineageInv, FactInv, UpdatesAhead
      <4>3. Factual(job[p].old)
        BY <4>1, <4>2 DEF FactInv, SemanticRoots, LineageInv, TrailInv, RevisesSemantic
      <4>4. FactualNext(job[p].old) /\ root'[job[p].old] = root[job[p].old]
        BY <1>1, <4>1, <4>3, FactualStays, RootsFixed
      <4> QED BY <1>1, <3>1, <3>4, <4>4, RootOfWritten DEF FactualNext
    <3> QED BY <3>3, <3>4
  <2> QED BY <2>1, <2>2
<1>3. SemanticVectors'
  <2> SUFFICES ASSUME NEW v \in vectors'
               PROVE  ~StillUnwritten(v.id) /\ (v.layer = "semantic" => FactualNext(v.id))
    BY DEF SemanticVectors, Unwritten, StillUnwritten, Factual, FactualNext
  <2>1. CASE v \in vectors
    <3>1. v.id \in Ids
      BY <1>1, <2>1 DEF Typed, TypeOK, Vector
    <3> QED BY <1>1, <2>1, <3>1, FactualStays, RowsWrittenOnce DEF FactInv, SemanticVectors
  <2>2. ASSUME NEW p \in Procs, At(p, "embed"), v.id = job[p].new,
               v.layer = VectorLayer(job[p])
        PROVE  ~StillUnwritten(v.id) /\ (v.layer = "semantic" => FactualNext(v.id))
    <3>1. WritesRow(job[p]) /\ ~BeforeInsert(job[p]) /\ job[p] # NoJob
      BY <1>1, <2>2, AtStep DEF WritesRow, BeforeInsert
    <3>2. job[p].new \in Ids /\ ~Unwritten(job[p].new)
      BY <1>1, <3>1 DEF IdInv, NewWritten, Typed, WellFormed, WritesRow
    <3>3. /\ root[job[p].new] = IF Revises(job[p]) THEN root[job[p].old] ELSE job[p].new
          /\ rows[job[p].new].layer = job[p].row.layer
      BY <3>1 DEF FactInv, LineageInv, RootsGiven
    <3>4. ASSUME v.layer = "semantic" PROVE Factual(job[p].new)
      <4>1. CASE ~Revises(job[p])
        BY <2>2, <3>3, <3>4, <4>1 DEF Factual, VectorLayer, Revises
      <4>2. CASE job[p].op = "update"
        BY <2>2, <3>4, <4>2 DEF VectorLayer, FactInv, LineageInv, UpdatesAhead
      <4>3. CASE job[p].op = "revise"
        <5>1. job[p].old \in Ids /\ ~Unwritten(job[p].old)
          BY <1>1, <4>3, RevisedRow DEF Revises
        <5>2. Factual(job[p].old)
          BY <4>3, <5>1 DEF FactInv, SemanticRoots, LineageInv, TrailInv, RevisesSemantic
        <5> QED BY <3>3, <4>3, <5>2 DEF Factual, Revises
      <4> QED BY <4>1, <4>2, <4>3 DEF Revises
    <3> QED BY <1>1, <2>2, <3>2, <3>4, FactualStays, RowsWrittenOnce
  <2> QED BY <1>1, <2>1, <2>2, VectorsFrom
<1>4. OverridesFacts'
  <2> SUFFICES ASSUME NEW p \in Procs, job'[p].op = "override"
               PROVE  FactualNext(job'[p].old)
    BY DEF OverridesFacts, Factual, FactualNext
  <2>1. CASE job'[p].op = job[p].op /\ job'[p].old = job[p].old
    <3>1. job[p].old \in Ids /\ ~Unwritten(job[p].old)
      BY <1>1, <2>1, RevisedRow
    <3>2. FactualNext(job[p].old)
      BY <1>1, <2>1, <3>1, FactualStays DEF FactInv, OverridesFacts
    <3> QED BY <2>1, <3>2
  <2>2. CASE Writes(p)
    <3>1. PICK v \in vectors : v.id = job'[p].old /\ v.layer = "semantic"
      BY <2>2 DEF Writes
    <3>2. Factual(job'[p].old)
      BY <3>1 DEF FactInv, SemanticVectors
    <3> QED BY <2>2, <3>2 DEF Writes, Factual, FactualNext, stores
  <2>3. CASE Visits(p) \/ GivesUp(p)
    BY <2>3 DEF Visits, GivesUp, Dropped, NoJob
  <2>4. CASE Proceeds(p)
    BY <2>1, <2>4 DEF Proceeds, Continued, Advanced, NoJob
  <2> QED BY <1>1, <2>1, <2>2, <2>3, <2>4, JobChanges
<1> QED BY <1>1, <1>2, <1>3, <1>4 DEF FactInv

LEMMA InitFacts == Init => FactInv
<1> SUFFICES ASSUME Init PROVE FactInv
  OBVIOUS
<1>1. /\ \A i \in Ids : Unwritten(i)
      /\ \A p \in Procs : job[p].op = "none"
      /\ vectors = {}
  BY DEF Init, Present, Unwritten, NoRow, NoJob
<1> QED BY <1>1, InitLineage DEF FactInv, SemanticRoots, SemanticVectors, OverridesFacts

-------------------------------------------------------------------------------
(* A fact survives its updates                                             *)

(* The lineage r has not been touched by the operator, Dream or a crash of *)
(* semantic.update(): it is only updated.                                  *)
Intact(r) ==
  /\ \A i \in Lineage(r) : rows[i].status = "active" /\ rows[i].layer # "semantic"
  /\ \A i \in audit : root[i] # r

(* Whatever revision one starts from, a later one is recalled.             *)
LaterRecalled ==
  \A r \in Ids : Intact(r) =>
    \A i \in Lineage(r) : \E j \in Lineage(r) : j >= i /\ Recallable(rows[j])

SurvivalInv == FactInv /\ LaterRecalled

LEMMA IntactBefore ==
  ASSUME IdInv, [Next]_vars, NEW r \in Ids, Intact(r)'
  PROVE  Intact(r) /\ \A i \in Lineage(r) : i \in Lineage(r)'
<1>1. ASSUME NEW i \in audit PROVE root[i] # r
  <2>1. i \in Ids /\ ~Unwritten(i) /\ i \in audit'
    BY RowsWrittenOnce DEF Unwritten, IdInv, Typed, TypeOK
  <2> QED BY <2>1, RootsFixed DEF Intact
<1>2. ASSUME NEW i \in Lineage(r)
      PROVE  /\ i \in Lineage(r)'
             /\ rows[i].status = "active" /\ rows[i].layer # "semantic"
  <2>1. i \in Ids /\ Present(rows, i) /\ root[i] = r /\ ~Unwritten(i)
    BY <1>2 DEF Lineage, Unwritten
  <2>2. root'[i] = r
    BY <2>1, RootsFixed
  <2>3. i \notin audit'
    BY <2>2 DEF Intact
  <2>4. Present(rows', i) /\ Kept(i)
    BY <2>1, <2>3, RowsWrittenOnce DEF Unwritten, StillUnwritten
  <2>5. i \in Lineage(r)'
    BY <2>1, <2>2, <2>4 DEF Lineage
  <2>6. rows'[i].status = "active" /\ rows'[i].layer # "semantic"
    BY <2>5 DEF Intact
  <2> QED BY <2>4, <2>5, <2>6 DEF Kept
<1> QED BY <1>1, <1>2 DEF Intact

LEMMA SurvivalStep == SurvivalInv /\ [Next]_vars => SurvivalInv'
<1> SUFFICES ASSUME SurvivalInv, [Next]_vars PROVE SurvivalInv'
  OBVIOUS
<1>1. /\ IdInv /\ Typed /\ IdInv' /\ LineageInv /\ LineageInv' /\ FactInv /\ FactInv'
      /\ Ids \subseteq Nat
  BY FactStep, RevisionsAssumption
     DEF SurvivalInv, FactInv, LineageInv, TrailInv, IdInv, Ids
<1> SUFFICES ASSUME NEW r \in Ids, Intact(r)', NEW i \in Lineage(r)'
             PROVE  \E j \in Lineage(r)' : j >= i /\ Recallable(rows'[j])
  BY <1>1 DEF SurvivalInv, LaterRecalled
<1>2. Intact(r) /\ \A k \in Lineage(r) : k \in Lineage(r)'
  BY <1>1, IntactBefore
<1>3. \A k \in Lineage(r) : \E j \in Lineage(r) : j >= k /\ Recallable(rows[j])
  BY <1>2 DEF SurvivalInv, LaterRecalled
<1>4. /\ i \in Ids /\ Present(rows', i) /\ root'[i] = r
      /\ \A k \in Lineage(r) : k \in Ids /\ Present(rows, k) /\ root[k] = r
  BY DEF Lineage
<1>5. ASSUME root' = root, ~\E p \in Procs : Wrote(p) PROVE i \in Lineage(r)
  BY <1>1, <1>4, <1>5, RowsFrom DEF Lineage
<1>6. CASE rows' = rows /\ root' = root
  <2>1. i \in Lineage(r)
    BY <1>4, <1>6 DEF Lineage, Present
  <2> QED BY <1>2, <1>3, <1>6, <2>1
<1>7. ASSUME NEW p \in Procs, Wrote(p)
      PROVE  \E j \in Lineage(r)' : j >= i /\ Recallable(rows'[j])
  <2>1. /\ Unwritten(job[p].new) /\ WritesRow(job[p]) /\ job[p].new \in Ids
        /\ rows'[job[p].new] = job[p].row
        /\ \A k \in Ids \ {job[p].new} : rows'[k] = rows[k]
    BY <1>1, <1>7, WroteUnwritten DEF Wrote
  <2>2. CASE i = job[p].new
    <3>1. rows'[i].until = "open"
      BY <1>1, <2>1, <2>2 DEF LineageInv, BornOpen
    <3>2. rows'[i].status = "active"
      BY DEF Intact
    <3>3. Recallable(rows'[i])
      BY <3>1, <3>2 DEF Recallable
    <3>4. i \in Lineage(r)' /\ i >= i
      BY <1>4, RevisionsAssumption DEF Ids
    <3> QED BY <3>3, <3>4
  <2>3. CASE i # job[p].new
    <3>1. i \in Lineage(r)
      BY <1>1, <1>4, <1>7, <2>1, <2>3, RootOfWritten DEF Lineage, Present
    <3>2. PICK j \in Lineage(r) : j >= i /\ Recallable(rows[j])
      BY <1>3, <3>1
    <3>3. rows'[j] = rows[j]
      BY <1>4, <2>1 DEF Unwritten
    <3> QED BY <1>2, <3>2, <3>3
  <2> QED BY <2>2, <2>3
<1>8. ASSUME NEW p \in Procs, Marked(p), Proceeds(p), root' = root
      PROVE  \E j \in Lineage(r)' : j >= i /\ Recallable(rows'[j])
  <2> DEFINE o == job[p].old
             n == job[p].new
  <2>1. /\ o \in Ids /\ Present(rows, o) /\ n \in Ids
        /\ \A k \in Ids \ {o} : rows'[k] = rows[k]
    BY <1>8 DEF Marked, Touched
  <2>2. i \in Lineage(r)
    <3>1. Present(rows, i)
      BY <1>4, <1>8, <2>1 DEF Marked, Touched, Present
    <3> QED BY <1>4, <1>8, <3>1 DEF Lineage
  <2>3. PICK j \in Lineage(r) : j >= i /\ Recallable(rows[j])
    BY <1>3, <2>2
  <2>4. CASE j # o
    BY <1>2, <1>4, <2>1, <2>3, <2>4
  <2>5. CASE j = o
    <3>1. rows[o].layer # "semantic"
      BY <1>2, <2>5 DEF Intact
    <3>0. job[p].op # "override"
      <4> SUFFICES ASSUME job[p].op = "override" PROVE FALSE
        OBVIOUS
      <4>1. root[o] = r /\ Factual(o) /\ ~Unwritten(o)
        BY <1>1, <1>4, <2>1, <2>5 DEF FactInv, OverridesFacts, Unwritten
      <4>2. rows[r].layer = "semantic" /\ ~Unwritten(r) /\ root[r] = r
        BY <1>1, <2>1, <4>1 DEF Factual, LineageInv, RootsWritten
      <4> QED BY <1>2, <4>2 DEF Intact, Unwritten, Lineage
    <3>2. job[p].op = "update" /\ job[p].next = 2
      BY <1>1, <1>8, <3>0, <3>1, AtStep DEF Marked, LineageInv, TrailInv, RevisesSemantic
    <3>3. o < n /\ root[n] = r
      BY <1>1, <1>4, <2>5, <3>2
         DEF LineageInv, UpdatesAhead, RootsGiven, WritesRow, BeforeInsert, Revises
    <3>4. ~Unwritten(n)
      BY <1>1, <2>1, <3>2 DEF IdInv, NewWritten, WritesRow, BeforeInsert
    <3>5. n \in Lineage(r)
      BY <1>2, <2>1, <3>3, <3>4 DEF Intact, Unwritten, Lineage
    <3>6. PICK k \in Lineage(r) : k >= n /\ Recallable(rows[k])
      BY <1>3, <3>5
    <3>7. k \in Nat /\ i \in Nat /\ o \in Nat /\ n \in Nat
      BY <1>1, <1>4, <2>1
    <3>8. k # o /\ k >= i
      BY <2>3, <2>5, <3>3, <3>6, <3>7
    <3> QED BY <1>2, <1>4, <2>1, <3>6, <3>8
  <2> QED BY <2>4, <2>5
<1>9. ASSUME NEW k \in Ids, Lowered(k) \/ Removed(k), root' = root,
             \A p \in Procs : ~Wrote(p)
      PROVE  \E j \in Lineage(r)' : j >= i /\ Recallable(rows'[j])
  <2>1. i \in Lineage(r)
    BY <1>5, <1>9
  <2>2. PICK j \in Lineage(r) : j >= i /\ Recallable(rows[j])
    BY <1>3, <2>1
  <2>3. j \in Lineage(r)' /\ rows'[j].status = "active" /\ Present(rows', j)
    BY <1>2 DEF Intact, Lineage
  <2>4. j # k
    BY <1>9, <2>3 DEF Lowered, Removed
  <2>5. rows'[j] = rows[j]
    BY <1>4, <1>9, <2>4 DEF Lowered, Touched, Removed
  <2> QED BY <2>2, <2>3, <2>5
<1> QED BY <1>1, <1>6, <1>7, <1>8, <1>9, RowChanges

(* Updating never loses a fact: as long as none of its revisions was       *)
(* deprecated or forgotten, one of them is recalled, with any number of    *)
(* servers revising it at once and killed anywhere. (The successor is      *)
(* written before the old revision is closed; a semantic revision is not.) *)
THEOREM FactsSurvive == Spec => []FactSurvivesUpdates
<1>1. Init => SurvivalInv
  <2> SUFFICES ASSUME Init PROVE SurvivalInv
    OBVIOUS
  <2>1. \A r \in Ids : Lineage(r) = {}
    BY DEF Init, Lineage, Present, NoRow
  <2> QED BY <2>1, InitFacts DEF SurvivalInv, LaterRecalled
<1>2. SurvivalInv => FactSurvivesUpdates
  BY DEF SurvivalInv, LaterRecalled, Intact, FactSurvivesUpdates
<1> QED BY <1>1, <1>2, SurvivalStep, PTL DEF Spec

-------------------------------------------------------------------------------
(* One current revision                                                    *)

(* A crystal was made from one of the same lineage that had been written.  *)
ParentsWritten == \A c \in Ids : prev[c] # 0 =>
  prev[c] \in Ids /\ ~Unwritten(prev[c]) /\ root[prev[c]] = root[c] /\ ~Unwritten(c)

(* semantic.update() closes the old revision before it does anything else. *)
RevisesClosed == \A p \in Procs :
  job[p].op = "revise" /\ job[p].next >= 2 /\ Present(rows, job[p].old) =>
    rows[job[p].old].until = "closed"

(* A revision that has been updated is closed, unless the process that     *)
(* updates it is about to close it or was killed before.                   *)
Closing(c) == \E p \in Procs : /\ job[p].op = "update" /\ job[p].next = 2
                               /\ job[p].new = c /\ job[p].old = prev[c]

ParentsClosed == \A c \in Ids : prev[c] # 0 /\ Present(rows, prev[c]) =>
  rows[prev[c]].until = "closed" \/ c \in cut \/ Closing(c)

(* Without a fork all revisions of a fact but one have been updated.       *)
Updated(i) == \E c \in Ids : prev[c] = i

Chained == \A i, j \in Ids :
  ~Unwritten(i) /\ ~Unwritten(j) /\ root[i] = root[j] /\ i # j =>
    Updated(i) \/ Updated(j) \/ Forked(root[i])

ChainInv == LineageInv /\ ParentsWritten /\ RevisesClosed /\ ParentsClosed /\ Chained

(* A row that is there after a step was there before it or was written.    *)
LEMMA ClosedStays ==
  ASSUME IdInv, [Next]_vars, NEW i \in Ids, ~Unwritten(i), Present(rows', i)
  PROVE  Present(rows, i) /\ (rows[i].until = "closed" => rows'[i].until = "closed")
<1>1. i \notin audit' /\ i \notin audit
  BY RowsWrittenOnce
<1> QED BY <1>1, RowsWrittenOnce DEF Unwritten, Kept

LEMMA ParentsWrittenStep == ChainInv /\ [Next]_vars => ParentsWritten'
<1> SUFFICES ASSUME ChainInv, [Next]_vars, NEW c \in Ids, prev'[c] # 0
             PROVE  /\ prev'[c] \in Ids /\ ~StillUnwritten(prev'[c])
                    /\ root'[prev'[c]] = root'[c] /\ ~StillUnwritten(c)
  BY DEF ParentsWritten, Unwritten, StillUnwritten
<1>1. IdInv /\ Typed
  BY DEF ChainInv, LineageInv, TrailInv, IdInv
<1>2. CASE prev[c] = prev'[c]
  BY <1>1, <1>2, RootsFixed DEF ChainInv, ParentsWritten
<1>3. ASSUME NEW p \in Procs, Wrote(p), c = job[p].new
      PROVE  /\ prev'[c] \in Ids /\ ~StillUnwritten(prev'[c])
             /\ root'[prev'[c]] = root'[c] /\ ~StillUnwritten(c)
  <2>1. Revises(job[p]) /\ prev'[c] = job[p].old /\ root'[c] = root[job[p].old]
    BY <1>1, <1>3, RootOfWritten
  <2>2. job[p].old \in Ids /\ ~Unwritten(job[p].old)
    BY <1>1, <2>1, RevisedRow
  <2>3. ~StillUnwritten(c)
    BY <1>1, <1>3, WroteUnwritten DEF StillUnwritten
  <2> QED BY <1>1, <2>1, <2>2, <2>3, RootsFixed
<1> QED BY <1>1, <1>2, <1>3, RootChanges, RootOfWritten

LEMMA RevisesClosedStep == ChainInv /\ [Next]_vars => RevisesClosed'
<1> SUFFICES ASSUME ChainInv, [Next]_vars, NEW p \in Procs,
                    job'[p].op = "revise", job'[p].next >= 2, Present(rows', job'[p].old)
             PROVE  rows'[job'[p].old].until = "closed"
  BY DEF RevisesClosed
<1>1. IdInv /\ Typed /\ IdInv' /\ Typed'
  BY IdStep DEF ChainInv, LineageInv, TrailInv, IdInv
<1>2. CASE job'[p].op = job[p].op /\ job'[p].old = job[p].old /\ job[p].next >= 2
  <2>1. job[p].old \in Ids /\ ~Unwritten(job[p].old)
    BY <1>1, <1>2, RevisedRow DEF Revises
  <2> QED BY <1>1, <1>2, <2>1, ClosedStays DEF ChainInv, RevisesClosed
<1>3. CASE job'[p] = job[p]
  BY <1>2, <1>3
<1>4. CASE Writes(p)
  BY <1>4 DEF Writes
<1>5. CASE Visits(p) \/ GivesUp(p)
  BY <1>5 DEF Visits, GivesUp, Dropped, NoJob
<1>6. CASE Proceeds(p)
  <2>1. job[p] # NoJob /\ Advanced(job[p], job'[p]) /\ Revises(job[p])
    BY <1>6 DEF Proceeds, Continued, NoJob, Advanced, Revises
  <2>2. job[p].next \in 1..4 /\ job[p].op = "revise" /\ job[p].old = job'[p].old
    BY <1>1, <2>1, RevisedRow, LengthTyped DEF Length, Advanced
  <2>3. CASE job[p].next = 1
    <3>1. At(p, "mark")
      BY <2>1, <2>2, <2>3 DEF At, Order
    <3>2. CASE Marked(p)
      BY <2>2, <3>2 DEF Marked
    <3>3. CASE ~Present(rows, job[p].old)
      <4>1. job[p].old \in Ids /\ ~Unwritten(job[p].old)
        BY <1>1, <2>1, RevisedRow
      <4> QED BY <1>1, <2>2, <3>3, <4>1, ClosedStays
    <3> QED BY <1>6, <3>1, <3>2, <3>3 DEF Proceeds, Wrote, At
  <2> QED BY <1>2, <2>2, <2>3
<1> QED BY <1>1, <1>3, <1>4, <1>5, <1>6, JobChanges

LEMMA ParentsClosedStep == ChainInv /\ [Next]_vars => ParentsClosed'
<1> SUFFICES ASSUME ChainInv, [Next]_vars,
                    NEW c \in Ids, prev'[c] # 0, Present(rows', prev'[c])
             PROVE  \/ rows'[prev'[c]].until = "closed" \/ c \in cut'
                    \/ \E p \in Procs : /\ job'[p].op = "update" /\ job'[p].next = 2
                                        /\ job'[p].new = c /\ job'[p].old = prev'[c]
  BY DEF ParentsClosed, Closing
<1> DEFINE Goal == \/ rows'[prev'[c]].until = "closed" \/ c \in cut'
                   \/ \E p \in Procs : /\ job'[p].op = "update" /\ job'[p].next = 2
                                       /\ job'[p].new = c /\ job'[p].old = prev'[c]
<1>1. IdInv /\ Typed /\ LineageInv
  BY DEF ChainInv, LineageInv, TrailInv, IdInv
<1>2. ASSUME NEW p \in Procs, Wrote(p), c = job[p].new PROVE Goal
  <2>1. Revises(job[p]) /\ prev'[c] = job[p].old
    BY <1>1, <1>2, RootOfWritten
  <2>2. job[p].old \in Ids /\ ~Unwritten(job[p].old)
    BY <1>1, <2>1, RevisedRow
  <2>3. job'[p] # NoJob /\ Advanced(job[p], job'[p])
    BY <1>1, <1>2, WriterRuns
  <2>4. CASE job[p].op = "update"
    <3>1. job[p].next = 1
      BY <1>1, <1>2, <2>4, WriterRuns
    <3> QED BY <1>2, <2>1, <2>3, <2>4, <3>1 DEF Advanced
  <2>5. CASE job[p].op = "revise"
    <3>1. job[p].next = 3
      BY <1>1, <1>2, <2>5, WriterRuns
    <3>2. Present(rows, job[p].old) /\ rows[job[p].old].until = "closed"
      BY <1>1, <2>1, <2>2, <2>5, <3>1, ClosedStays DEF ChainInv, RevisesClosed
    <3> QED BY <1>1, <2>1, <2>2, <3>2, ClosedStays
  <2> QED BY <2>1, <2>4, <2>5 DEF Revises
<1>3. CASE prev'[c] = prev[c]
  <2>1. prev[c] \in Ids /\ ~Unwritten(prev[c])
    BY <1>3 DEF ChainInv, ParentsWritten
  <2>2. Present(rows, prev[c])
    BY <1>1, <1>3, <2>1, ClosedStays
  <2>3. CASE rows[prev[c]].until = "closed" \/ c \in cut
    BY <1>1, <1>3, <2>1, <2>3, ClosedStays, CutGrows
  <2>4. ASSUME NEW p \in Procs, job[p].op = "update", job[p].next = 2,
               job[p].new = c, job[p].old = prev[c]
        PROVE  Goal
    <3>1. CASE job'[p] = job[p]
      BY <1>3, <2>4, <3>1
    <3>2. CASE Writes(p) \/ Visits(p)
      BY <2>4, <3>2 DEF Writes, Visits, NoJob
    <3>3. At(p, "mark") /\ ~At(p, "embed") /\ job[p].new # 0
      <4>1. Revises(job[p])
        BY <2>4 DEF Revises
      <4> QED BY <1>1, <2>4, <4>1, RevisedRow DEF At, Order
    <3>4. CASE Proceeds(p)
      <4>1. Marked(p)
        BY <2>2, <2>4, <3>3, <3>4 DEF Proceeds, Wrote, At
      <4> QED BY <1>3, <2>4, <4>1 DEF Marked
    <3>5. CASE GivesUp(p)
      BY <2>2, <2>4, <3>3, <3>5 DEF GivesUp
    <3> QED BY <1>1, <3>1, <3>2, <3>4, <3>5, JobChanges
  <2> QED BY <1>3, <2>2, <2>3, <2>4 DEF ChainInv, ParentsClosed, Closing
<1> QED BY <1>1, <1>2, <1>3, RootChanges, RootOfWritten

LEMMA ForksStay ==
  ASSUME ChainInv, [Next]_vars, NEW r \in Ids, Forked(r)
  PROVE  Forked(r)'
<1>1. IdInv
  BY DEF ChainInv, LineageInv, TrailInv
<1>2. PICK i \in Ids, j \in Ids :
        i # j /\ root[i] = r /\ root[j] = r /\ prev[i] # 0 /\ prev[i] = prev[j]
  BY DEF Forked
<1>3. ~Unwritten(i) /\ ~Unwritten(j)
  BY <1>2 DEF ChainInv, ParentsWritten
<1>4. /\ root'[i] = root[i] /\ prev'[i] = prev[i]
      /\ root'[j] = root[j] /\ prev'[j] = prev[j]
  BY <1>1, <1>3, RootsFixed
<1> QED BY <1>2, <1>4 DEF Forked

(* What is written from p joins the chain at its end, or forks it.         *)
LEMMA ChainedStep == ChainInv /\ [Next]_vars => Chained'
<1> SUFFICES ASSUME ChainInv, [Next]_vars PROVE Chained'
  OBVIOUS
<1>1. IdInv /\ Typed /\ LineageInv
  BY DEF ChainInv, LineageInv, TrailInv, IdInv
<1> DEFINE Had(i) == \E c \in Ids : prev'[c] = i
           Forks(r) == \E k, l \in Ids : /\ k # l /\ root'[k] = r /\ root'[l] = r
                                        /\ prev'[k] # 0 /\ prev'[k] = prev'[l]
<1>2. ASSUME NEW r \in Ids, Forked(r) PROVE Forks(r)
  <2>1. Forked(r)'
    BY <1>2, ForksStay
  <2> QED BY <2>1 DEF Forked
<1>3. ASSUME NEW p \in Procs, Wrote(p), NEW k \in Ids, k # job[p].new, ~StillUnwritten(k)
      PROVE  ~Unwritten(k)
  <2>1. rows'[k] = rows[k] /\ audit' = audit
    BY <1>1, <1>3, WroteUnwritten DEF Wrote
  <2> QED BY <1>3, <2>1 DEF Unwritten, StillUnwritten, Present
<1>4. ASSUME NEW i \in Ids, Updated(i) PROVE Had(i)
  <2>1. PICK c \in Ids : prev[c] = i
    BY <1>4 DEF Updated
  <2>2. prev[c] # 0
    BY <2>1, RevisionsAssumption DEF Ids
  <2>3. ~Unwritten(c)
    BY <2>2 DEF ChainInv, ParentsWritten
  <2> QED BY <1>1, <2>1, <2>3, RootsFixed
<1>5. ASSUME NEW i \in Ids, NEW j \in Ids, i # j, ~Unwritten(i), ~Unwritten(j),
             root'[i] = root'[j]
      PROVE  Had(i) \/ Had(j) \/ Forks(root'[i])
  <2>1. root'[i] = root[i] /\ root[i] = root[j] /\ root[i] \in Ids
    BY <1>1, <1>5, RootsFixed DEF LineageInv, RootsWritten
  <2>2. Updated(i) \/ Updated(j) \/ Forked(root[i])
    BY <1>5, <2>1 DEF ChainInv, Chained
  <2>3. Forked(root[i]) => Forks(root'[i])
    BY <1>2, <2>1
  <2> QED BY <1>4, <2>2, <2>3
<1>6. ASSUME NEW p \in Procs, Wrote(p), NEW j \in Ids, ~Unwritten(j),
             root'[job[p].new] = root'[j]
      PROVE  Had(j) \/ Forks(root'[j])
  <2> DEFINE n == job[p].new
             o == job[p].old
  <2>0. n \in Ids /\ Unwritten(n)
    BY <1>1, <1>6, WroteUnwritten DEF Wrote
  <2>1. /\ n \in Ids /\ Unwritten(n) /\ n # j
        /\ root'[j] = root[j] /\ root[j] \in Ids /\ ~Unwritten(root[j])
    BY <1>1, <1>6, <2>0, RootsFixed DEF LineageInv, RootsWritten
  <2>2. /\ Revises(job[p]) /\ prev'[n] = o /\ root[o] = root[j]
    BY <1>1, <1>6, <2>1, RootOfWritten
  <2>3. o \in Ids /\ o # 0 /\ ~Unwritten(o)
    BY <1>1, <2>2, RevisedRow
  <2>4. CASE o = j
    BY <2>1, <2>2, <2>4
  <2>5. CASE o # j /\ (Updated(j) \/ Forked(root[j]))
    BY <1>4, <1>2, <2>1, <2>5
  <2>6. CASE Updated(o)
    <3>1. PICK d \in Ids : prev[d] = o
      BY <2>6 DEF Updated
    <3>2. ~Unwritten(d) /\ root[d] = root[o]
      BY <2>3, <3>1 DEF ChainInv, ParentsWritten
    <3>3. d # n /\ root'[d] = root'[j] /\ prev'[d] = o
      BY <1>1, <2>1, <2>2, <3>1, <3>2, RootsFixed
    <3>4. root'[n] = root'[j] /\ prev'[d] # 0 /\ prev'[d] = prev'[n]
      BY <1>6, <2>2, <2>3, <3>3
    <3> QED BY <2>1, <3>3, <3>4 DEF Forked
  <2>7. Updated(o) \/ Updated(j) \/ Forked(root[j]) \/ o = j
    BY <1>6, <2>2, <2>3 DEF ChainInv, Chained
  <2> QED BY <2>4, <2>5, <2>6, <2>7
<1> SUFFICES ASSUME NEW i \in Ids, NEW j \in Ids, ~StillUnwritten(i), ~StillUnwritten(j),
                    root'[i] = root'[j], i # j
             PROVE  Had(i) \/ Had(j) \/ Forks(root'[i])
  BY DEF Chained, Unwritten, StillUnwritten, Updated, Forked
<1>7. CASE ~Unwritten(i) /\ ~Unwritten(j)
  BY <1>5, <1>7
<1>8. CASE Unwritten(i)
  <2>1. PICK p \in Procs : Wrote(p) /\ i = job[p].new
    BY <1>1, <1>8, RowsWrittenOnce
  <2>2. ~Unwritten(j)
    BY <1>3, <2>1
  <2>3. Had(j) \/ Forks(root'[j])
    BY <1>6, <2>1, <2>2
  <2> QED BY <2>3
<1>9. CASE Unwritten(j)
  <2>1. PICK p \in Procs : Wrote(p) /\ j = job[p].new
    BY <1>1, <1>9, RowsWrittenOnce
  <2>2. ~Unwritten(i)
    BY <1>3, <2>1
  <2> QED BY <1>6, <2>1, <2>2
<1> QED BY <1>7, <1>8, <1>9

(* Of the revisions of a fact one is recalled at most, for any number of   *)
(* servers that update whichever of them, forget, prune and are killed     *)
(* anywhere, unless an update of it is under way, was killed between its   *)
(* two writes, or one of its revisions was updated twice. (Every revision  *)
(* but one has been updated, and the update of a revision closes it.)      *)
THEOREM RevisionsAlternate == Spec => []OneCurrentRevision
<1>1. Init => ChainInv
  <2> SUFFICES ASSUME Init PROVE ChainInv
    OBVIOUS
  <2>1. /\ \A i \in Ids : Unwritten(i) /\ prev[i] = 0
        /\ \A p \in Procs : job[p].op = "none"
    BY DEF Init, Unwritten, Present, NoRow, NoJob
  <2> QED BY <2>1, InitLineage
          DEF ChainInv, ParentsWritten, RevisesClosed, ParentsClosed, Chained
<1>2. ChainInv /\ [Next]_vars => ChainInv'
  BY LineageStep, ParentsWrittenStep, RevisesClosedStep, ParentsClosedStep, ChainedStep
     DEF ChainInv
<1>3. ChainInv => OneCurrentRevision
  <2> SUFFICES ASSUME ChainInv, NEW i \in Ids, NEW j \in Ids,
                      Recallable(rows[i]), Recallable(rows[j]), root[i] = root[j], i # j
               PROVE  BeingRevised(root[i]) \/ Torn(root[i]) \/ Forked(root[i])
    BY DEF OneCurrentRevision
  <2>1. \A k \in {i, j} : Present(rows, k) /\ ~Unwritten(k) /\ rows[k].until # "closed"
    BY DEF Recallable, Present, Unwritten
  <2>2. ASSUME NEW k \in {i, j}, Updated(k)
        PROVE  BeingRevised(root[i]) \/ Torn(root[i])
    <3>1. PICK c \in Ids : prev[c] = k
      BY <2>2 DEF Updated
    <3>2. prev[c] # 0 /\ root[c] = root[i] /\ root[k] = root[i]
      BY <3>1, RevisionsAssumption DEF ChainInv, ParentsWritten, Ids
    <3>3. c \in cut \/ Closing(c)
      BY <2>1, <3>1, <3>2 DEF ChainInv, ParentsClosed
    <3>4. CASE c \in cut
      BY <3>2, <3>4 DEF Torn
    <3>5. CASE Closing(c)
      BY <3>1, <3>2, <3>5 DEF Closing, BeingRevised, Revises
    <3> QED BY <3>3, <3>4, <3>5
  <2> QED BY <2>1, <2>2 DEF ChainInv, Chained
<1> QED BY <1>1, <1>2, <1>3, PTL DEF Spec
===============================================================================
