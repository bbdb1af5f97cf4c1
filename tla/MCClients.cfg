SPECIFICATION ClientsSpec
CONSTANTS
  Wallets = {w1}
  Infrastructure = {}
  AllowedWallets = {w1}
  MaxFlows = 1
  MaxSwitches = 0
  NumRuns = 2
  TTL = 1
  Skews <- SkewsBothWays
  Cap = 2
  MaxClicks = 2
  MaxChanges = 1
  None = None
INVARIANTS SaysWhatHappened
PROPERTIES KeepsPromise RevertsOnlyAfterChange NeverStaysBusy
CHECK_DEADLOCK FALSE
