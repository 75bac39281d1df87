\* One request at a time: is a TOTP code accepted once in its window?
SPECIFICATION Spec
CONSTANTS
  Requests = {r1}
  FactorIds = {f1}
  Slots = {s1}
  Window = 1
  MaxStep = 2
  MaxBatch = 1
  NoFactor = NoFactor
  MaxAccepted = 2
INVARIANT
  TotpSingleUse
CHECK_DEADLOCK FALSE
