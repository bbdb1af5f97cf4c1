\* Two humans, each with several signups and continuations in flight.
SPECIFICATION Spec
CONSTANTS
  Humans = {h1, h2}
  Sessions = {s1, s2, s3}
  Allocations = {a1, a2, a3}
  GRANT_TTL = 1
  RESUME_TTL = 2
  MaxGrants = 3
  MaxTime = 2
  None = None
SYMMETRY Identifiers
INVARIANTS OneAllocationPerHuman BrowserLeadsHome
CHECK_DEADLOCK FALSE
