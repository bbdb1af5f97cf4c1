\* Two offerings of two groups, their terms, pools and spend; platform and issuer
\* revocations of two wallets, restored by signature.
SPECIFICATION Spec
CONSTANTS
  Wallets = {w1, w2}
  Allocations = {a1}
  Groups = {g1, g2}
  Periods = {1}
  Tokens = {usdc, rwa}
  rwa = rwa
  eur = eur
  issuer = issuer
  Nonces = {n1}
  Accounts = {platform, registry, hook, issuer}
  Platform = platform
  Registry = registry
  Hook = hook
  Signer = platform
  Usdc = usdc
  MAX_CAP = 2
  Amounts = {0, 1, 2}
  MaxTime = 2
  Zero = Zero
  PoolKeys <- MCPoolKeys
  RestoreNonces = {r1, r2}
  MaxOfferings = 2
  MaxVersion = 2
  MaxEpoch = 2
SYMMETRY Identifiers
CONSTRAINT Focus
INVARIANTS CapMirrored PoolsLeadBack RestoredBySignature
PROPERTIES TermsAreVersioned RevocationBites
CHECK_DEADLOCK FALSE
