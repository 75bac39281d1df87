\* Two concurrent requests of one user, two rows, batches of two codes.
SPECIFICATION Spec
CONSTANTS
  Requests = {r1, r2}
  FactorIds = {f1, f2}
  Slots = {s1, s2}
  Window = 1
  MaxStep = 2
  MaxBatch = 2
  NoFactor = NoFactor
  MaxAccepted = 1
CONSTRAINT AcceptBound
SYMMETRY Symmetric
INVARIANTS
  TypeOK
  OneBatch
  SerialOneFactor
  SerialLedger
  SerialSpacing
PROPERTY
  DisabledIsFinal
CHECK_DEADLOCK FALSE
