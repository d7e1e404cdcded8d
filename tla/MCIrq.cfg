SPECIFICATION IrqFairSpec
CONSTANTS
  Items = {a, b}
  Cap = 2
  NoItem = none
  MaxDropped = 1
  Threads = {t1, t2}
  Boot = boot
  MaxNest = 2
INVARIANTS SectionsExclusive InServiceExact  NoForgottenByte
PROPERTIES SectionsAtomic RequestsServed
