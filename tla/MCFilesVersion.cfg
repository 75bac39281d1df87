\* Does every finalize raise the version?
SPECIFICATION Spec
CONSTANTS
  Tenants = {t1}
  Requests = {r1, r2}
  FileIds = {f1}
  Keys = {k1}
  MaxSize = 1
  MaxVersion = 3
  None = None
  MaxEvents = 9
PROPERTY
  FinalizeBumps
CHECK_DEADLOCK FALSE
