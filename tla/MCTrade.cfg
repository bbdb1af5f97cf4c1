\* Two humans, three wallets, two pools of one offering; and one wallet, with
\* everything that may stop its purchase.
SPECIFICATION OnSaleSpec
CONSTANTS
  Wallets = {w1, w2, w3}
  w1 = w1
  w2 = w2
  w3 = w3
  Allocations = {a1, a2}
  a1 = a1
  a2 = a2
  Groups = {g1}
  g1 = g1
  Periods = {1}
  Tokens = {usdc, rwa}
  rwa = rwa
  Nonces = {r1}
  Accounts = {platform, registry, hook, issuer, executor, router}
  issuer = issuer
  Platform = platform
  Registry = registry
  Hook = hook
  Signer = platform
  Executor = executor
  OtherRouter = router
  Usdc = usdc
  MAX_CAP = 3
  Amounts = {0, 1, 2, 3}
  MaxTime = 2
  Zero = Zero
  PoolKeys <- MCPoolKeys
  RestoreNonces = {r1}
  MaxOfferings = 1
  MaxVersion = 2
  MaxEpoch = 1
  n1 = n1
  n2 = n2
  n3 = n3
  Trades <- MCTrades
  Funds = 2
  MaxSigned = 4
CONSTRAINT Focus
INVARIANTS SettledAtRest PaidWithinSignatures
PROPERTIES SpendNeedsEligibility ImplementsHumanBudget
CHECK_DEADLOCK FALSE
