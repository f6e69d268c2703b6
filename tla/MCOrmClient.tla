---------------------------- MODULE MCOrmClient ----------------------------
(* Model-checking instance of OrmClient.                                  *)
EXTENDS OrmClient

CONSTANTS c1, c2, i1, v1, v2

MCClients == {c1, c2}
MCIDs == {i1}
MCValues == {v1, v2}

(* Clients and values are interchangeable.                                *)
Symmetry == Permutations(MCClients) \cup Permutations(MCValues)
====
