\* Two tenants, two messages in and one out, three runs in flight.
SPECIFICATION Spec
CONSTANTS
  Tenants = {t1, t2}
  Mails = {m1, m2}
  Outgoing = {o1}
  Runs = {r1, r2, r3}
  MaxCopies = 2
  None = None
SYMMETRY Symmetric
INVARIANTS
  TypeOK
  NothingLost
  OneCopy
  SentLedger
