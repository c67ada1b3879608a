SPECIFICATION Spec
CONSTANTS
  ka = ka
  kb = kb
  pa = pa
  pb = pb
  t1 = t1
  t2 = t2
  t3 = t3
  Key = {ka, kb}
  Tx = {t1, t2, t3}
  Part = {pa, pb}
  PartOf <- DistPartOf
  Home <- DistHome
  Programs <- RwPrograms
  Clocks = {1}
  Shift = 4096
  Absent = {}
  RC = TRUE
  TSO = TRUE
  NoTx = NoTx
  Null = Null
  Loaded = Loaded
INVARIANT NoLostUpdate
