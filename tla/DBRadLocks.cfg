SPECIFICATION Spec
CONSTANTS
  ka = ka
  kb = kb
  pa = pa
  pb = pb
  t1 = t1
  t2 = t2
  t3 = t3
  Key = {ka, kb}
  Tx = {t1, t2, t3}
  Part = {pa, pb}
  PartOf <- DistPartOf
  Home <- DistHome
  Programs <- InsDelPrograms
  Clocks = {1}
  Shift = 4096
  Absent = {kb}
  RC = FALSE
  TSO = TRUE
  NoTx = NoTx
  Null = Null
  Loaded = Loaded
INVARIANTS TypeOK NoLockLeak LocksHeld NoTornRead LockInv
PROPERTY LockFreedByOwner
