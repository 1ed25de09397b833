----------------------------- MODULE CrystalRows ------------------------------
(***************************************************************************)
(* The rows of the table "crystals" and what one transaction of            *)
(* storage/relational.py does to one of them. A row is a record with at    *)
(* least the fields                                                        *)
(*   status  "active", "candidate", "deprecated"; "absent": there is none  *)
(*   until   temporal.t_valid_to: "open" when unset, "ttl" when in the     *)
(*           future, "past" when reached, "closed" by a supersession       *)
(*   by      temporal.superseded_by, 0 when unset                          *)
(* Crystal ids are UUIDs minted at random; here they are numbered in the   *)
(* order in which they are minted, from 1.                                 *)
(***************************************************************************)
EXTENDS Naturals

Statuses == {"absent", "candidate", "active", "deprecated"}
Validity == {"open", "ttl", "past", "closed"}

Present(table, i) == table[i].status # "absent"

(* insert_crystal *)
WithRow(table, i, r) == [table EXCEPT ![i] = r]

(* mark_superseded of a row that keeps its validity interval open. *)
WithSuccessorStillOpen(table, i, new) == [table EXCEPT ![i].by = new]

(* mark_superseded: whatever an earlier supersession wrote is overwritten, *)
(* and the status stays as it is.                                          *)
WithSuccessor(table, i, new) ==
  [table EXCEPT ![i].until = "closed", ![i].by = new]

(* set_status, and the UPDATE of Dream's prune: no row, no effect. *)
WithStatus(table, i, status) ==
  IF Present(table, i) THEN [table EXCEPT ![i].status = status] ELSE table

(* The DELETE of tombstone. *)
Erased(table, i) == [table EXCEPT ![i].status = "absent"]

(* A recall returns nothing else while recall_active_only is on. *)
Recallable(r) == r.status = "active" /\ r.until = "open"
===============================================================================
