SPECIFICATION FairSpec
CONSTANTS
  Txn = {1, 2, 3}
  Server = {0, 1, 2}
  Key = {"a", "b", "c", "d", "e"}
  Workloads <- SafeWorkloads
  EarlyReturn = TRUE
  NoTxn = 0
INVARIANTS TypeOK ExecutedOnce StrictSerializable AbortNeedsOuterParent FinishedIsExecuted
  CommittingIsStarted EdgesAreConflicts
PROPERTY EveryTxnAnswered
CHECK_DEADLOCK FALSE
