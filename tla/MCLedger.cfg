\* Three wallets of two humans spend two budgets of one group; signer, hook and
\* owner rotate, authorizations expire and replay.
SPECIFICATION Spec
CONSTANTS
  admin = admin
  Wallets = {w1, w2, w3}
  Allocations = {a1, a2}
  Groups = {g1}
  Periods = {p1, p2}
  Tokens = {usdc, eur}
  Nonces = {n1, n2, n3}
  Accounts = {admin, other}
  Deployer = admin
  Amounts = {0, 1, 2, 3}
  MaxTime = 1
  Zero = Zero
SYMMETRY Identifiers
CONSTRAINT Focus
INVARIANTS WithinCap HighestIsMaximum
PROPERTIES BindingIsPermanent BindingConsumesNonce ImplementsSharedBudget
CHECK_DEADLOCK FALSE
