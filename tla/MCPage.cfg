\* Two flows of two wallets, over one change of the account or the network.
SPECIFICATION Spec
CONSTANTS
  Wallets = {w1, w2}
  Infrastructure = {}
  AllowedWallets = {w1}
  MaxFlows = 2
  MaxSwitches = 1
  None = None
CONSTRAINT Focus
INVARIANTS ReportedIsOnChain CancelledStopsThere IdleWhenDone
CHECK_DEADLOCK FALSE
