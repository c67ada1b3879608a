SPECIFICATION SIFairSpec
CONSTANTS
  ka = ka
  kb = kb
  kc = kc
  t1 = t1
  t2 = t2
  t3 = t3
  Part = {0, 1}
  Tx = {t1, t2, t3}
  MaxTs <- Enough
  Key = {ka, kb, kc}
  PartOf <- DistPartOf3
  Home <- DistHome
  Programs <- AllPrograms
  Absent = {kc}
  Fresh = FALSE
  NoTx = NoTx
  Null = Null
  Loaded = Loaded
INVARIANTS SITypeOK InstallsUnderLock TsAccounted NoLostUpdate SnapshotFinal NoFracturedRead
PROPERTY EveryTxEnds
