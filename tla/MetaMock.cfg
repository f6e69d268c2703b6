\* Two callers, put and delete ops, transactions of up to two ops, keys of
\* which one is a prefix of the other, exact and prefix Gets.
CONSTANTS
  c1 = c1
  c2 = c2
  v1 = v1
  v2 = v2
  Missing = Missing
  Empty = Empty
  Clients <- MCClients2
  Keys <- MCNestedKeys
  Values <- MCValues
  MaxTxnOps = 2
  TxnOps <- MCNestedAllOps
  GetArgs <- MCGetArgsNested
SPECIFICATION Spec
PROPERTY ImplementsMetaStore
