----------------------------- MODULE MetaStore -----------------------------
(***************************************************************************)
(* The metastore contract of spec.md section 6, as seen by its clients:    *)
(* Get (an exact key, or a prefix scan), Put, Delete, and a transaction    *)
(* built with Txn().Do(ops...) whose Commit applies all its ops at once.   *)
(* Responses are abstracted to what a caller reads from them: the          *)
(* key-values of a Get, "ok" for a write, and "txn" for the per-op        *)
(* responses of a Commit.                                                  *)
(***************************************************************************)
EXTENDS Naturals, Sequences, SequencesExt

CONSTANTS
  Clients,    \* callers of the store
  Keys,       \* keys: sequences of characters, so that prefixes exist
  Values,     \* values a caller writes
  Missing,    \* model value: a key that is not in the store
  MaxTxnOps   \* bound on the ops of one transaction

ASSUME Missing \notin Values

(* The ops a transaction may carry, and the keys a Get may be given        *)
(* (the empty key scans the whole store).                                  *)
Ops == {[type |-> "put", key |-> k, value |-> v] : k \in Keys, v \in Values}
         \cup {[type |-> "delete", key |-> k] : k \in Keys}
GetKeys == Keys \cup {<<>>}
GetOpts == {"exact", "prefix"}

VARIABLES
  store,   \* key -> value, Missing when absent
  pc,      \* client -> "idle" | "txn" (building a transaction)
  ops,     \* client -> the ops given to Do so far
  resp     \* client -> the response of its last call

vars == <<store, pc, ops, resp>>

(* The state after applying a sequence of ops in order.                    *)
RECURSIVE ApplyOps(_, _)
ApplyOps(s, os) ==
  IF os = <<>> THEN s
  ELSE LET op == Head(os)
       IN ApplyOps([s EXCEPT ![op.key] =
                      IF op.type = "put" THEN op.value ELSE Missing],
                   Tail(os))

Matches(k, opt, x) == IF opt = "prefix" THEN IsPrefix(k, x) ELSE x = k

(* A response: what the call was, and the key-values a Get returned.      *)
Response(kind, k, opt, kvs) == [kind |-> kind, key |-> k, opt |-> opt, kvs |-> kvs]
NoResponse == Response("none", <<>>, "none", {})
WriteOk == Response("ok", <<>>, "none", {})
TxnOk == Response("txn", <<>>, "none", {})

GetResult(s, k, opt) ==
  {<<x, s[x]>> : x \in {y \in Keys : Matches(k, opt, y) /\ s[y] # Missing}}

Init ==
  /\ store = [k \in Keys |-> Missing]
  /\ pc = [c \in Clients |-> "idle"]
  /\ ops = [c \in Clients |-> <<>>]
  /\ resp = [c \in Clients |-> NoResponse]

Put(c, k, v) ==
  /\ pc[c] = "idle"
  /\ store' = [store EXCEPT ![k] = v]
  /\ resp' = [resp EXCEPT ![c] = WriteOk]
  /\ UNCHANGED <<pc, ops>>

Delete(c, k) ==
  /\ pc[c] = "idle"
  /\ store' = [store EXCEPT ![k] = Missing]
  /\ resp' = [resp EXCEPT ![c] = WriteOk]
  /\ UNCHANGED <<pc, ops>>

Get(c, k, opt) ==
  /\ pc[c] = "idle"
  /\ resp' = [resp EXCEPT ![c] = Response("get", k, opt, GetResult(store, k, opt))]
  /\ UNCHANGED <<store, pc, ops>>

Txn(c) ==
  /\ pc[c] = "idle"
  /\ pc' = [pc EXCEPT ![c] = "txn"]
  /\ ops' = [ops EXCEPT ![c] = <<>>]
  /\ UNCHANGED <<store, resp>>

Do(c, op) ==
  /\ pc[c] = "txn"
  /\ Len(ops[c]) < MaxTxnOps
  /\ ops' = [ops EXCEPT ![c] = Append(@, op)]
  /\ UNCHANGED <<store, pc, resp>>

(* Commit: all the ops, in order, in one step.                             *)
Commit(c) ==
  /\ pc[c] = "txn"
  /\ store' = ApplyOps(store, ops[c])
  /\ pc' = [pc EXCEPT ![c] = "idle"]
  /\ ops' = [ops EXCEPT ![c] = <<>>]
  /\ resp' = [resp EXCEPT ![c] = TxnOk]

(* The caller drops a transaction it never commits.                       *)
Abandon(c) ==
  /\ pc[c] = "txn"
  /\ pc' = [pc EXCEPT ![c] = "idle"]
  /\ ops' = [ops EXCEPT ![c] = <<>>]
  /\ UNCHANGED <<store, resp>>

Next ==
  \E c \in Clients :
    \/ \E k \in Keys, v \in Values : Put(c, k, v)
    \/ \E k \in Keys : Delete(c, k)
    \/ \E k \in GetKeys, opt \in GetOpts : Get(c, k, opt)
    \/ Txn(c)
    \/ \E op \in Ops : Do(c, op)
    \/ Commit(c)
    \/ Abandon(c)

Spec == Init /\ [][Next]_vars

=============================================================================
