SPECIFICATION Spec
CONSTANTS
  Txn = {1, 2, 3}
  Server = {0, 1, 2}
  Key = {"a", "b", "c", "d", "e"}
  Workloads <- PairWorkloads
  EarlyReturn = TRUE
  NoTxn = 0
INVARIANT NoLostPiece
CHECK_DEADLOCK FALSE
