\* A wallet between World and the demo identity.
SPECIFICATION EnrolledSpec
CONSTANTS
  h1 = h1
  h2 = h2
  s1 = s1
  s2 = s2
  a1 = a1
  a2 = a2
  a3 = a3
  w1 = w1
  Humans = {h1, h2}
  Sessions = {s1, s2}
  None = None
  Group = group
  Signer = signer
  Signers = {signer}
  Allocations = {a1, a2, a3}
  Wallets = {w1}
  GRANT_TTL = 1
  RESUME_TTL = 9
  CHALLENGE_TTL = 1
  AUTHORIZATION_TTL = 1
  DEMO_TTL = 9
  MaxGrants = 2
  MaxTime = 0
  MaxChallenges = 2
  MaxRegistrations = 2
  MaxTxs = 0
CONSTRAINT IssuersFocus
INVARIANTS StoredWalletKeepsAllocation
CHECK_DEADLOCK FALSE
