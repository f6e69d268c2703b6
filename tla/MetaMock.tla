------------------------------ MODULE MetaMock ------------------------------
(***************************************************************************)
(* The in-memory metastore of src/pkg/meta/kvclient/mock/                  *)
(* simple_mockclient.go, a stand-in for etcd that no code under src/ uses  *)
(* (dump_worker_test.go takes pkg/metadata.NewMetaMock, not under src/).   *)
(* MetaMock guards a map with a mutex: Put, Delete and Get each hold it    *)
(* for the whole call.  Txn returns a mockTxn whose Do appends ops to a    *)
(* client-local slice and whose Commit calls Put once per op, taking the   *)
(* lock afresh each time, with the op's KeyBytes and ValueBytes.           *)
(*                                                                         *)
(* m.revision is incremented by every call and read by none, so it is     *)
(* left out.  Get's opts are accepted and ignored: a Get is a prefix scan. *)
(* The type's comment says "not support Option/txn yet".                   *)
(***************************************************************************)
EXTENDS Naturals, Sequences, SequencesExt

CONSTANTS
  Clients,    \* goroutines calling the mock
  Keys,       \* keys: sequences of characters
  Values,     \* values written by Put and by put ops
  Missing,    \* model value: the key is not in the Go map
  Empty,      \* model value: the empty string
  MaxTxnOps,  \* bound on the ops one transaction is given
  TxnOps,     \* the ops callers put in a transaction
  GetArgs     \* the <<key, option>> pairs callers pass to Get

ASSUME {Missing, Empty} \cap Values = {}

VARIABLES
  store,   \* MetaMock.store; Missing where the map has no entry
  pc,      \* client -> "idle" | "txn" (holds a mockTxn) | "commit" (in
           \* Commit) | "done" (holds a mockTxn it has committed)
  ops,     \* client -> mockTxn.ops of the mockTxn it holds
  next,    \* client -> index in ops of Commit's range loop
  resp     \* client -> the response of its last call

vars == <<store, pc, ops, next, resp>>

(* op.ValueBytes(): a delete op carries no value.                          *)
ValueBytes(op) == IF op.type = "put" THEN op.value ELSE Empty

(* A response: what the call was, and the key-values a Get returned.      *)
Response(kind, k, opt, kvs) == [kind |-> kind, key |-> k, opt |-> opt, kvs |-> kvs]
NoResponse == Response("none", <<>>, "none", {})
WriteOk == Response("ok", <<>>, "none", {})
NilResponse == Response("nil", <<>>, "none", {})

Init ==
  /\ store = [k \in Keys |-> Missing]
  /\ pc = [c \in Clients |-> "idle"]
  /\ ops = [c \in Clients |-> <<>>]
  /\ next = [c \in Clients |-> 1]
  /\ resp = [c \in Clients |-> NoResponse]

Put(c, k, v) ==
  /\ pc[c] = "idle"
  /\ store' = [store EXCEPT ![k] = v]
  /\ resp' = [resp EXCEPT ![c] = WriteOk]
  /\ UNCHANGED <<pc, ops, next>>

Delete(c, k) ==
  /\ pc[c] = "idle"
  /\ store' = [store EXCEPT ![k] = Missing]
  /\ resp' = [resp EXCEPT ![c] = WriteOk]
  /\ UNCHANGED <<pc, ops, next>>

(* Every key of the map that has k as a prefix, whatever opt says.         *)
Get(c, k, opt) ==
  /\ pc[c] = "idle"
  /\ resp' = [resp EXCEPT ![c] =
        Response("get", k, opt, {<<x, store[x]>> :
                    x \in {y \in Keys : IsPrefix(k, y) /\ store[y] # Missing}})]
  /\ UNCHANGED <<store, pc, ops, next>>

(* A new mockTxn, with no ops.                                             *)
Txn(c) ==
  /\ pc[c] = "idle"
  /\ pc' = [pc EXCEPT ![c] = "txn"]
  /\ ops' = [ops EXCEPT ![c] = <<>>]
  /\ UNCHANGED <<store, next, resp>>

(* t.ops = append(t.ops, ops...), after a Commit too.                      *)
Do(c, op) ==
  /\ pc[c] \in {"txn", "done"}
  /\ Len(ops[c]) < MaxTxnOps
  /\ ops' = [ops EXCEPT ![c] = Append(@, op)]
  /\ pc' = [pc EXCEPT ![c] = "txn"]
  /\ UNCHANGED <<store, next, resp>>

CommitBegin(c) ==
  /\ pc[c] \in {"txn", "done"}
  /\ pc' = [pc EXCEPT ![c] = "commit"]
  /\ next' = [next EXCEPT ![c] = 1]
  /\ UNCHANGED <<store, ops, resp>>

(* One iteration of Commit's loop: t.m.Put(key, value) of the next op,     *)
(* under the lock for that Put alone; a delete op writes the empty value.  *)
(* Put never fails, so the error return is never taken.                    *)
CommitPut(c) ==
  /\ pc[c] = "commit"
  /\ next[c] <= Len(ops[c])
  /\ LET op == ops[c][next[c]]
     IN store' = [store EXCEPT ![op.key] = ValueBytes(op)]
  /\ next' = [next EXCEPT ![c] = @ + 1]
  /\ UNCHANGED <<pc, ops, resp>>

(* return nil, nil.  t.ops is left as it was: the caller still holds the   *)
(* mockTxn, and a later Do or Commit on it starts from the same ops.       *)
CommitEnd(c) ==
  /\ pc[c] = "commit"
  /\ next[c] > Len(ops[c])
  /\ pc' = [pc EXCEPT ![c] = "done"]
  /\ resp' = [resp EXCEPT ![c] = NilResponse]
  /\ UNCHANGED <<store, ops, next>>

(* The caller lets go of its mockTxn.                                      *)
Release(c) ==
  /\ pc[c] \in {"txn", "done"}
  /\ pc' = [pc EXCEPT ![c] = "idle"]
  /\ UNCHANGED <<store, ops, next, resp>>

Next ==
  \E c \in Clients :
    \/ \E k \in Keys, v \in Values : Put(c, k, v)
    \/ \E k \in Keys : Delete(c, k)
    \/ \E a \in GetArgs : Get(c, a[1], a[2])
    \/ Txn(c)
    \/ \E op \in TxnOps : Do(c, op)
    \/ CommitBegin(c)
    \/ CommitPut(c)
    \/ CommitEnd(c)
    \/ Release(c)

Spec == Init /\ [][Next]_vars

-----------------------------------------------------------------------------
(* Refinement mapping.  A transaction takes effect at the first Put of    *)
(* its Commit: from then on the abstract store already holds the ops the   *)
(* loop has not yet applied, and the client is back to idle with the       *)
(* contract's per-op responses.                                            *)

Abs == INSTANCE MetaStore WITH Values <- Values \cup {Empty}

(* Clients whose Commit has applied at least one op.                       *)
Committed == {c \in Clients : pc[c] = "commit" /\ next[c] > 1}

RECURSIVE ApplyPending(_, _)
ApplyPending(s, C) ==
  IF C = {} THEN s
  ELSE LET c == CHOOSE x \in C : TRUE
       IN ApplyPending(Abs!ApplyOps(s, SubSeq(ops[c], next[c], Len(ops[c]))), C \ {c})

AbsStore == ApplyPending(store, Committed)
AbsPc == [c \in Clients |-> CASE c \in Committed -> "idle"
                              [] pc[c] = "commit" -> "txn"
                              [] pc[c] = "done" -> "idle"
                              [] OTHER -> pc[c]]
AbsOps == [c \in Clients |-> IF AbsPc[c] = "txn" THEN ops[c] ELSE <<>>]
AbsResp == [c \in Clients |-> IF c \in Committed THEN Abs!TxnOk ELSE resp[c]]

Store == INSTANCE MetaStore
           WITH store <- AbsStore, pc <- AbsPc, ops <- AbsOps, resp <- AbsResp

(* The mock behaves as the metastore of spec.md section 6: every Get       *)
(* returns what the contract's Get would, a committed transaction takes    *)
(* effect as one step, and Commit answers with per-op responses.  About    *)
(* MetaMock's lock, Get's prefix loop and mockTxn's Do and Commit.         *)
ImplementsMetaStore == Store!Spec

=============================================================================
