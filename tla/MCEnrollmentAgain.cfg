\* One human whose session expires and who verifies again.
SPECIFICATION WillingSpec
CONSTANTS
  Humans = {h1}
  Sessions = {s1, s2}
  Allocations = {a1, a2}
  GRANT_TTL = 1
  RESUME_TTL = 2
  MaxGrants = 2
  MaxTime = 3
  None = None
PROPERTIES ExpiredCanStartAgain
CHECK_DEADLOCK FALSE
