\* Two users, two sockets: two tabs of one user, or one tab each.
SPECIFICATION Spec
CONSTANTS
  Users = {u1, u2}
  Sockets = {s1, s2}
  Ttl = 1
  MaxTime = 1
  None = None
  MaxMarks = 1
CONSTRAINT MarkBound
VIEW Seen
SYMMETRY Symmetric
INVARIANTS
  TypeOK
  SerialNoGhosts
  SerialPresence
  KeyWillExpire
CHECK_DEADLOCK FALSE
