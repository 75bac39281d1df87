\* Two concurrent requests: is a recovery code accepted once?
SPECIFICATION Spec
CONSTANTS
  Requests = {r1, r2}
  FactorIds = {f1}
  Slots = {s1}
  Window = 1
  MaxStep = 2
  MaxBatch = 1
  NoFactor = NoFactor
  MaxAccepted = 2
INVARIANT
  RecoverySingleUse
CHECK_DEADLOCK FALSE
