SPECIFICATION HandlersSpec
CONSTANTS
  None = None
  k1 = k1  k2 = k2
  Keys = {k1, k2}
  Limit = 2
  Window = 2
  MaxCalls = 5
  MaxTime = 4
  alice = alice  bob = bob
  Humans = {alice, bob}
  Environments = {"staging", "production"}
  SessionKeys = {"key"}
  NumRequests = 3
  MaxRestarts = 1
  w1 = w1  w2 = w2  w3 = w3
  Wallets = {w1, w2, w3}
  Reserved = {w3}
  ChallengeTTL = 1
  AuthorizationTTL = 1
  MaxDemoTime = 2
  MaxDemoRequests = 4
  DemoOverlap = 2
  MaxChanges = 1
  DemoCap = 10
  Buys <- SandboxBuys
  Human <- SandboxHuman
  Wallet <- SandboxWallet
  Amount <- SandboxHundreds
  Ops = {"buy-700", "attempt-500", "buy-200", "reset", "journey"}
  MaxBoxRequests = 4
  BoxOverlap = 3
  MaxCrashes = 1
  deployer = deployer  visitor = visitor
  o1 = o1  o2 = o2
  Pages = {"observatory", "visualizer"}
  Accounts = {deployer, visitor}
  Deployer = deployer
  Oracles = {o1, o2}
  Deployed = o1
  MaxVolatility = 1
  MaxClicks = 2
  MaxSwitches = 1
  Periods = {1, 2}
  InitialPeriod = 1
  Caps = {1, 2}
  Envs <- Servers
  MissingCode = {"ledger", "hook"}
  FirstPolicies <- Second
  MaxAdministered = 1
  MaxReports = 1
  s1 = s1  s2 = s2
  Scripts = {s1, s2}
  Lifetime = 1
  LastTime = 1
SYMMETRY Identifiers
CONSTRAINT Focus
INVARIANTS NeverOverLimit BindingHolds DemoIsTrue ConsoleIsTrue StatusIsTrue DirectoryIsTrue
PROPERTIES RefusedOnlyWhenFull WalletsAreHeldBack
CHECK_DEADLOCK FALSE
