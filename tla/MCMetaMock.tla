----------------------------- MODULE MCMetaMock -----------------------------
(* Bindings of MetaMock's constants for TLC.                                *)
EXTENDS MetaMock

CONSTANTS c1, c2, v1, v2

MCClients2 == {c1, c2}
MCValues == {v1, v2}

(* Two keys of which one is a prefix of the other.                         *)
MCNestedKeys == {<<"a">>, <<"a", "b">>}

PutOps(K) == {[type |-> "put", key |-> k, value |-> v] : k \in K, v \in MCValues}
DeleteOps(K) == {[type |-> "delete", key |-> k] : k \in K}

(* Callers scan the whole store or a key's prefix, or read a single key.   *)
MCGetArgs(K) == {<<<<>>, "prefix">>} \cup {<<k, o>> : k \in K, o \in {"exact", "prefix"}}

MCNestedAllOps == PutOps(MCNestedKeys) \cup DeleteOps(MCNestedKeys)
MCGetArgsNested == MCGetArgs(MCNestedKeys)
=============================================================================
