----------------------------- MODULE MCAdmission ------------------------------
(* Admission on a small instance. Operators are interchangeable. *)
EXTENDS Admission, TLC

(* The host, an agent it trusts, and a stranger that calls itself T0. *)
SomeCallers == {[identity |-> 0, declared |-> 0], [identity |-> 1, declared |-> 1],
                [identity |-> 3, declared |-> 0]}

Payload(layer, scope, repair, asked) ==
  [layer |-> layer, scope |-> scope, repair |-> repair, asked |-> asked]

Wide   == [project |-> "p", audience |-> "all"]
Narrow == [project |-> "p", audience |-> "few"]
Other  == [project |-> "q", audience |-> "all"]

SomeScopes == {Wide, Narrow, Other}

SomePayloads == {Payload("episodic", Narrow, TRUE, FALSE),
                 Payload("episodic", Other, FALSE, TRUE),
                 Payload("semantic", Wide, FALSE, FALSE)}

Symmetric == Permutations(Operators)
===============================================================================
