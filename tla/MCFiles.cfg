\* Two tenants, two files, two requests in flight.
SPECIFICATION Spec
CONSTANTS
  Tenants = {t1, t2}
  Requests = {r1, r2}
  FileIds = {f1, f2}
  Keys = {k1, k2}
  MaxSize = 1
  MaxVersion = 2
  None = None
  MaxEvents = 3
CONSTRAINT EventBound
SYMMETRY Symmetric
INVARIANTS
  TypeOK
  UploadKept
  OrphansExplained
  SizeEvidence
  SerialVersion
PROPERTIES
  OwnTenantOnly
  DeletedForGood
CHECK_DEADLOCK FALSE
