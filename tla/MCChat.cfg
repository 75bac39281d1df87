\* Two sockets and two channels over two users and two tenants.
SPECIFICATION Spec
CONSTANTS
  Users = {u1, u2}
  Tenants = {t1, t2}
  Sockets = {s1, s2}
  Channels = {c1, c2}
  None = None
  MaxMarks = 4
CONSTRAINT MarkBound
VIEW Seen
SYMMETRY Symmetric
INVARIANTS
  TypeOK
  Attributed
  Confined
  RoomsComplete
CHECK_DEADLOCK FALSE
