\* Two tabs of one user.
SPECIFICATION Spec
CONSTANTS
  Users = {u1, u2}
  Sockets = {s1, s2}
  Ttl = 1
  MaxTime = 1
  None = None
  MaxMarks = 2
CONSTRAINT MarkBound
VIEW Seen
SYMMETRY Symmetric
INVARIANT OfflineMeansUnlisted
CHECK_DEADLOCK FALSE
