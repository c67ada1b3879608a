SPECIFICATION SISpec
CONSTANTS
  ka = ka
  kb = kb
  kc = kc
  t1 = t1
  t2 = t2
  t3 = t3
  Part = {0, 1}
  Tx = {t1, t2, t3}
  MaxTs <- Enough
  Key = {ka, kb}
  PartOf <- DistPartOf
  Home <- DistHome
  Programs <- RoPrograms
  Absent = {}
  Fresh = TRUE
  NoTx = NoTx
  Null = Null
  Loaded = Loaded
INVARIANT ConsistentCut
