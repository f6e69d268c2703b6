----------------------------- MODULE MCKvConv -----------------------------
(* Model-checking instance of KvConv.                                     *)
EXTENDS KvConv

CONSTANTS k1, k2
MCKeys == {k1, k2}
====
