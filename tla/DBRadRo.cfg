SPECIFICATION FairSpec
CONSTANTS
  ka = ka
  kb = kb
  pa = pa
  pb = pb
  t1 = t1
  t2 = t2
  t3 = t3
  Key = {ka, kb}
  Tx = {t1, t2, t3}
  Part = {pa, pb}
  PartOf <- DistPartOf
  Home <- DistHome
  Programs <- RoPrograms
  Clocks = {1, 2}
  Shift = 4096
  Absent = {}
  RC = FALSE
  TSO = TRUE
  NoTx = NoTx
  Null = Null
  Loaded = Loaded
INVARIANTS SnapshotExact ChainIsHistory VersionsDoNotShrink
PROPERTY EveryTxEnds
