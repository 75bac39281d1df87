\* Two handlers over two emails and two slugs.
SPECIFICATION Spec
CONSTANTS
  Emails = {e1, e2}
  Slugs = {s1, s2}
  Requests = {r1, r2}
  Watched = {s1}
  Entries = {a}
  Unset = Unset
  None = None
INVARIANTS
  TypeOK
  RegistryConsistent
  OneWinner
  SerialSettings
PROPERTIES
  ImplementsRegistry
  Answered
