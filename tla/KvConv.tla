------------------------------ MODULE KvConv ------------------------------
(***************************************************************************)
(* The etcd-to-metaclient response conversion of the kvclient package,     *)
(* src/unnamed/part_003.  makeGetResp copies the key-values of an etcd     *)
(* range response, leaving out keys whose Version is 0 (deleted);          *)
(* makeTxnResp converts each response of a transaction, recursing into     *)
(* nested transactions.  Both allocate their result slice with length      *)
(* len(input) and then append to it.                                       *)
(*                                                                         *)
(* An etcd KeyValue is a record [key, version, modRev]; the value is       *)
(* abstracted to the key.  A nil slice element is Nil.                     *)
(***************************************************************************)
EXTENDS Naturals, Sequences, SequencesExt

CONSTANTS
  Keys,     \* keys of the range responses
  MaxKvs,   \* length bound of a range response
  MaxOps,   \* length bound of a transaction's responses
  Nil       \* model value: a nil element of a Go slice

KVs == [key : Keys, version : 0..1, modRev : 1..2]

(* Range responses and transaction responses up to the bounds, with        *)
(* transactions nested one level.                                          *)
RangeInputs == BoundedSeq(KVs, MaxKvs)
LeafOps == {[type |-> t] : t \in {"put", "delete"}}
             \cup {[type |-> "range", kvs |-> s] : s \in BoundedSeq(KVs, 1)}
EtcdOps == LeafOps \cup {[type |-> "txn", resps |-> r] : r \in BoundedSeq(LeafOps, 1)}
TxnInputs == BoundedSeq(EtcdOps, MaxOps)

Inputs == {[kind |-> "get", resp |-> s] : s \in RangeInputs}
            \cup {[kind |-> "txn", resp |-> r] : r \in TxnInputs}

VARIABLE input   \* the etcd response being converted

-----------------------------------------------------------------------------
(* The conversion, as the code does it.                                    *)

(* The sequence of F applied to each element of s.                        *)
MapSeq(F(_), s) == [i \in 1..Len(s) |-> F(s[i])]

(* A metaclient.KeyValue: Key, Value and Revision = ModRevision.           *)
ToKeyValue(kv) == [key |-> kv.key, rev |-> kv.modRev]

Live(kv) == kv.version # 0

(* makeGetResp: make([]*KeyValue, len(Kvs)), then append every live kv.   *)
MakeGetResp(kvs) ==
  [i \in 1..Len(kvs) |-> Nil]
    \o MapSeq(ToKeyValue, SelectSeq(kvs, Live))

(* makeTxnResp: make([]ResponseOp, len(Responses)), then append one        *)
(* converted response per etcd response; put and delete responses carry   *)
(* only an empty header.                                                   *)
RECURSIVE MakeTxnResp(_)
MakeTxnResp(resps) ==
  LET Conv(op) ==
        CASE op.type = "range" -> [get |-> MakeGetResp(op.kvs)]
          [] op.type = "txn"   -> [txn |-> MakeTxnResp(op.resps)]
          [] OTHER             -> [type |-> op.type]
  IN [i \in 1..Len(resps) |-> Nil] \o MapSeq(Conv, resps)

Convert(in) ==
  IF in.kind = "get" THEN MakeGetResp(in.resp) ELSE MakeTxnResp(in.resp)

-----------------------------------------------------------------------------
(* Reference: what a caller of Get and Txn is meant to be given.  Kvs      *)
(* holds the live key-values and nothing else ("This key has been deleted, *)
(* don't return to user"), and Responses one converted response per etcd   *)
(* response, in etcd's order, at every level of nesting.                   *)

RefGetResp(kvs) == MapSeq(ToKeyValue, SelectSeq(kvs, Live))

RECURSIVE RefTxnResp(_)
RefTxnResp(resps) ==
  LET Conv(op) ==
        CASE op.type = "range" -> [get |-> RefGetResp(op.kvs)]
          [] op.type = "txn"   -> [txn |-> RefTxnResp(op.resps)]
          [] OTHER             -> [type |-> op.type]
  IN MapSeq(Conv, resps)

Reference(in) ==
  IF in.kind = "get" THEN RefGetResp(in.resp) ELSE RefTxnResp(in.resp)

-----------------------------------------------------------------------------

Init == input \in Inputs

(* The conversions are pure: a behaviour fixes one input.                  *)
Next == UNCHANGED input

Spec == Init /\ [][Next]_input

-----------------------------------------------------------------------------
(* Properties.                                                             *)

(* The Kvs of a converted Get and the Responses of a converted Txn are     *)
(* exactly the reference's, at every level of nesting: no nil key-value    *)
(* for a caller to dereference, and len(Responses) equal to the number of  *)
(* etcd responses.  About makeGetResp's and makeTxnResp's make(len)        *)
(* followed by append.                                                     *)
ResponseMatchesReference ==
  Convert(input) = Reference(input)

=============================================================================
