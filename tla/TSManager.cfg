SPECIFICATION TSFairSpec
CONSTANTS
  t1 = t1
  N = 2
  Tx = {t1}
  Home <- OneHome
  MaxTs <- SkewedTs
  IntHalf = 1024
INVARIANTS TSTypeOK Prefix SnapshotFinished NoStall
PROPERTY Promise CommitsBecomeVisible
