---------------------------- MODULE MCGraphExport -----------------------------
(* GraphExport for TLC: three crystals of two projects and two authors.    *)
EXTENDS GraphExport

Profile(project, audience, author, quarantined) ==
  [project |-> project, audience |-> audience, author |-> author,
   quarantined |-> quarantined]

MCProfiles == {Profile("p", "all", "a", FALSE), Profile("p", "x", "b", FALSE),
               Profile("p", "all", "b", TRUE), Profile("q", "all", "a", FALSE)}

MCAuthors == {"b"}

Request(audience, limit, all, dangling) ==
  [project |-> "p", audience |-> audience, limit |-> limit,
   quarantined |-> FALSE, deprecated |-> all, superseded |-> all, drift |-> all,
   dangling |-> dangling]

MCRequests == {Request("y", 5, FALSE, "drop"), Request("any", 2, TRUE, "drop"),
               [Request("any", 3, TRUE, "keep") EXCEPT !.quarantined = TRUE]}
===============================================================================
