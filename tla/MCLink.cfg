\* From two humans with grants: concurrent authorization requests, and a wallet
\* between World and expiring demo identities.  From two authorizations of one
\* wallet: their transactions and late receipts.
SPECIFICATION LinkingSpec
CONSTANTS
  h1 = h1
  h2 = h2
  s1 = s1
  s2 = s2
  a1 = a1
  a2 = a2
  a3 = a3
  w1 = w1
  Humans = {h1, h2}
  Sessions = {s1, s2}
  None = None
  Group = group
  Signer = signer
  Signers = {signer, other}
  Allocations = {a1, a2, a3, a4}
  Wallets = {w1, w2}
  GRANT_TTL = 1
  RESUME_TTL = 9
  CHALLENGE_TTL = 1
  AUTHORIZATION_TTL = 1
  DEMO_TTL = 1
  MaxGrants = 3
  MaxTime = 2
  MaxChallenges = 3
  MaxRegistrations = 2
  MaxTxs = 2
CONSTRAINT Focus
INVARIANTS OneAuthorizationPerGrant AuthorizationEndsWithGrant WalletKeepsAllocation ConfirmedIsOnChain
PROPERTIES ConfirmedIsFinal
CHECK_DEADLOCK FALSE
