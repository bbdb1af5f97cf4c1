SPECIFICATION WiredSpec
CONSTANTS
  w1 = w1  w2 = w2  a1 = a1  a2 = a2  g1 = g1
  Wallets = {w1, w2}
  Allocations = {a1, a2}
  Groups = {g1}
  Periods = {1, 2}
  Tokens = {Usdc, Rwa}
  Nonces = {n1}
  Accounts = {Owner, Hook, Executor, OtherRouter}
  Amounts = {1, 2}
  Zero = Zero  Owner = Owner  Hook = Hook  Executor = Executor
  OtherRouter = OtherRouter  Helper = Helper  Usdc = Usdc  Rwa = Rwa
  Tiers = {0, 1, 2}
  RetailCaps = {1, 2}
  Volatilities = {5, 6}
  Pools = {8388608, 3000}
  Funds = 2
CONSTRAINT Focus
INVARIANTS SettledAtRest
PROPERTIES OnlyTheCallerPays ImplementsHumanBudget ChargedOnTerms
CHECK_DEADLOCK FALSE
