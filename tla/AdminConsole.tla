----------------------------- MODULE AdminConsole -----------------------------
(***************************************************************************)
(* The local market's administration page, AdminObservatory, and the two   *)
(* pages that show what its settings do, DynamicFeeVisualizer and          *)
(* TierTester.                                                             *)
(*                                                                         *)
(* Every page reads the hook and the oracle of the deployment file again   *)
(* and again, each reading at a moment of its own, and computes the fees   *)
(* from its readings with its own copy of the hook's rule (hookFee.ts).    *)
(* The administration page sends any number of transactions side by side:  *)
(* no button waits for another, and every click has an entry of the log.   *)
(***************************************************************************)
EXTENDS Integers, FiniteSets

CONSTANTS
  Pages,              \* the pages that are open
  Accounts, Deployer,
  Oracles, Deployed,  \* the oracle of the deployment file is one of them
  MaxVolatility,      \* bound: volatilities and thresholds
  MaxClicks,          \* bound: clicks of the administrator
  MaxSwitches,        \* bound: changes of the account and of the owner
  None

ConsoleAssumption ==
  /\ Pages \subseteq {"observatory", "visualizer", "tester"}
  /\ Deployer \in Accounts /\ Deployed \in Oracles
  /\ None \notin Accounts \cup Oracles \cup Nat \cup
       {"pending", "success", "failed", "applied", "reverted"}
  /\ MaxVolatility \in Nat \ {0} /\ MaxClicks \in Nat /\ MaxSwitches \in Nat

Levels == 0..MaxVolatility
Clicks == 1..MaxClicks
Tiers  == 0..2

VARIABLES
  account, switches,
  hook,           \* owner, threshold, oracle, paused
  moved,          \* history: the hook was handed to another owner
  volatility,     \* of each oracle; the oracles stay the deployer's
  addresses,      \* of each page: loading, ready or failed
  shown,          \* of each page: its readings, None before the first
  clicks,
  call, sender,   \* of each click: what it asks for, and of which account
  stage, status,  \* of each click: where submitAction is, and its log entry
  tx              \* of each click: None, pending, applied or reverted

chainVars == <<hook, moved, volatility>>
pageVars  == <<addresses, shown>>
logVars   == <<clicks, call, sender, stage, status>>
vars == <<account, switches, chainVars, pageVars, logVars, tx>>

Call ==
  [kind : {"setVolatilityThreshold", "setVolatility"}, value : Levels]
    \cup [kind : {"setOracle"}, value : Oracles \cup {None}]     \* None: the zero address
    \cup [kind : {"setPoolPaused"}, value : BOOLEAN]
    \cup [kind : {"setTier", "setRetailSwapCap"}, value : {None}]

\* The readings of each page.
ObservatoryReads == {"owner", "oracleOwner", "threshold", "paused", "volatility"}
VisualizerReads  == {"threshold", "volatility"}
TesterReads      == {"threshold", "volatility"}

Reads(p) == CASE p = "observatory" -> ObservatoryReads
              [] p = "visualizer"  -> VisualizerReads
              [] p = "tester"      -> TesterReads

Init ==
  /\ account = Deployer /\ switches = 0
  /\ hook = [owner |-> Deployer, threshold |-> 1, oracle |-> Deployed, paused |-> FALSE]
  /\ moved = FALSE
  /\ volatility \in [Oracles -> {0, MaxVolatility}]
  /\ addresses = [p \in Pages |-> "loading"]
  /\ shown = [p \in Pages |-> [r \in Reads(p) |-> None]]
  /\ clicks = 0
  /\ call = [i \in Clicks |-> None] /\ sender = [i \in Clicks |-> None]
  /\ stage = [i \in Clicks |-> "unused"] /\ status = [i \in Clicks |-> None]
  /\ tx = [i \in Clicks |-> None]

-----------------------------------------------------------------------------
Switch == switches < MaxSwitches /\ switches' = switches + 1

SwitchAccount ==
  /\ Switch /\ account' \in Accounts \ {account}
  /\ UNCHANGED <<chainVars, pageVars, logVars, tx>>

\* transferOwnership, from elsewhere.
TransferOwnership ==
  /\ Switch /\ \E a \in Accounts \ {hook.owner} : hook' = [hook EXCEPT !.owner = a]
  /\ moved' = TRUE
  /\ UNCHANGED <<account, volatility, pageVars, logVars, tx>>

\* loadDeploymentAddresses, once per page.
LoadAddresses(p) ==
  /\ addresses[p] = "loading"
  /\ \E a \in {"ready", "failed"} : addresses' = [addresses EXCEPT ![p] = a]
  /\ UNCHANGED <<account, switches, chainVars, shown, logVars, tx>>

\* What a reading returns: the volatility is the deployment file's oracle's.
Value(r) ==
  CASE r = "owner"       -> hook.owner
    [] r = "oracleOwner" -> Deployer
    [] r = "threshold"   -> hook.threshold
    [] r = "paused"      -> hook.paused
    [] r = "volatility"  -> volatility[Deployed]

\* One of a page's queries is answered: in its interval, on its refresh button,
\* or by refreshAll.  A query that fails keeps what was there.
Poll(p, r) ==
  /\ addresses[p] = "ready" /\ r \in Reads(p)
  /\ shown' = [shown EXCEPT ![p][r] = Value(r)]
  /\ UNCHANGED <<account, switches, chainVars, addresses, logVars, tx>>

-----------------------------------------------------------------------------
\* The buttons of the owners.  The pool's button asks for the other state than
\* the one shown, and an unread pool is shown as active.
MayAsk(c) ==
  LET seen == shown["observatory"]
  IN IF c.kind = "setVolatility" THEN seen.oracleOwner = account
     ELSE /\ seen.owner = account
          /\ c.kind = "setPoolPaused" => c.value = (seen.paused # TRUE)

\* submitAction: an entry of the log, and the wallet is asked.
Submit(c) ==
  /\ "observatory" \in Pages /\ addresses["observatory"] = "ready"
  /\ clicks < MaxClicks /\ MayAsk(c)
  /\ clicks' = clicks + 1
  /\ call' = [call EXCEPT ![clicks'] = c]
  /\ sender' = [sender EXCEPT ![clicks'] = account]
  /\ stage' = [stage EXCEPT ![clicks'] = "wallet"]
  /\ status' = [status EXCEPT ![clicks'] = "pending"]
  /\ UNCHANGED <<account, switches, chainVars, pageVars, tx>>

At(i, s) == stage[i] = s /\ UNCHANGED <<account, switches, pageVars, clicks, call, sender>>

\* A faulty variant of the next definition: the newest entry is patched.
Newest(i) == clicks

\* patchLog: the entry of the click itself.
EntryOf(i) == i

Patch(i, s) == status' = [status EXCEPT ![EntryOf(i)] = s]
EndFlow(i)  == stage' = [stage EXCEPT ![i] = "done"]

Rejected(i) ==
  /\ At(i, "wallet") /\ Patch(i, "failed") /\ EndFlow(i) /\ UNCHANGED <<chainVars, tx>>

Sent(i) ==
  /\ At(i, "wallet") /\ stage' = [stage EXCEPT ![i] = "receipt"]
  /\ tx' = [tx EXCEPT ![i] = "pending"] /\ UNCHANGED <<chainVars, status>>

\* The contracts: onlyOwner, and no zero oracle.
Accepts(i) ==
  IF call[i].kind = "setVolatility" THEN sender[i] = Deployer
  ELSE sender[i] = hook.owner /\ (call[i].kind = "setOracle" => call[i].value # None)

Set(field, i) == hook' = [hook EXCEPT ![field] = call[i].value] /\ UNCHANGED <<moved, volatility>>

Mine(i) ==
  /\ tx[i] = "pending"
  /\ tx' = [tx EXCEPT ![i] = IF Accepts(i) THEN "applied" ELSE "reverted"]
  /\ IF ~Accepts(i) THEN UNCHANGED chainVars
     ELSE CASE call[i].kind = "setVolatilityThreshold" -> Set("threshold", i)
            [] call[i].kind = "setOracle"     -> Set("oracle", i)
            [] call[i].kind = "setPoolPaused" -> Set("paused", i)
            [] call[i].kind = "setVolatility" ->
                 volatility' = [volatility EXCEPT ![Deployed] = call[i].value] /\ UNCHANGED <<hook, moved>>
            [] OTHER -> UNCHANGED chainVars       \* nothing a page of this module reads
  /\ UNCHANGED <<account, switches, pageVars, logVars>>

\* waitForTransactionReceipt resolves with any receipt; refreshAll is the Polls to come.
ReceiptRead(i) ==
  /\ At(i, "receipt") /\ tx[i] \in {"applied", "reverted"}
  /\ Patch(i, "success") /\ EndFlow(i) /\ UNCHANGED <<chainVars, tx>>

TimesOut(i) ==
  /\ At(i, "receipt") /\ Patch(i, "failed") /\ EndFlow(i) /\ UNCHANGED <<chainVars, tx>>

Next ==
  \/ SwitchAccount \/ TransferOwnership
  \/ \E p \in Pages : LoadAddresses(p) \/ \E r \in Reads(p) : Poll(p, r)
  \/ \E c \in Call : Submit(c)
  \/ \E i \in Clicks : Rejected(i) \/ Sent(i) \/ Mine(i) \/ ReceiptRead(i) \/ TimesOut(i)

Spec == Init /\ [][Next]_vars

-----------------------------------------------------------------------------
\* getDynamicFee, for a trader of a tier.
ChargedFee(tier, level, threshold) ==
  IF level > threshold /\ tier = 1 THEN 5000
  ELSE IF level > threshold /\ tier = 2 THEN 500
  ELSE 1000

\* calculateDynamicFeeForTier; the pages show tier 0 as blocked.
ShownFee(tier, level, threshold) ==
  CASE tier = 0 -> 0
    [] tier # 0 /\ level <= threshold -> 1000
    [] OTHER -> IF tier = 1 THEN 5000 ELSE 500

\* The fees of the visualizer's chart and of the tester's slider, for every volatility.
Chart(threshold) == [level \in Levels |-> [tier \in 1..2 |-> ShownFee(tier, level, threshold)]]

IsCurrent(p) == \A r \in {"threshold", "volatility"} : shown[p][r] = Value(r)

PageFee(p, tier) == ShownFee(tier, shown[p].volatility, shown[p].threshold)

-----------------------------------------------------------------------------
\* The log has an entry for each click and no other.
TypeOK ==
  /\ account \in Accounts /\ switches \in 0..MaxSwitches /\ clicks \in 0..MaxClicks
  /\ hook \in [owner : Accounts, threshold : Levels, oracle : Oracles, paused : BOOLEAN]
  /\ moved \in BOOLEAN /\ volatility \in [Oracles -> Levels]
  /\ addresses \in [Pages -> {"loading", "ready", "failed"}]
  /\ call \in [Clicks -> Call \cup {None}] /\ sender \in [Clicks -> Accounts \cup {None}]
  /\ stage \in [Clicks -> {"unused", "wallet", "receipt", "done"}]
  /\ status \in [Clicks -> {None, "pending", "success", "failed"}]
  /\ tx \in [Clicks -> {None, "pending", "applied", "reverted"}]
  /\ \A i \in Clicks : (status[i] = None) = (i > clicks)

\* What an entry says of its own transaction, however many clicks are under way.
\* "success" says only that it was mined.  It was also applied, unless the hook was
\* ever handed to another owner or the zero oracle was asked for: the contract
\* refuses nothing else that a button lets through.  "failed" says that nothing was
\* sent, or that its receipt was not waited for any longer, and then it may still be
\* applied.  An entry is pending as long as the wallet or the receipt is awaited.
\* (submitAction, patchLog)
ZeroOracle(i) == call[i].kind = "setOracle" /\ call[i].value = None

EntryIsItsOwn ==
  \A i \in Clicks :
    /\ status[i] = "success" => tx[i] \in {"applied", "reverted"}
    /\ tx[i] = "reverted" => moved \/ ZeroOracle(i)
    /\ status[i] = "failed" => stage[i] = "done"
    /\ stage[i] \in {"wallet", "receipt"} <=> status[i] = "pending"

\* A page whose readings are current shows the fee that the hook charges, and
\* its chart the fee of every volatility, while the hook is left with the oracle
\* of the deployment: hookFee.ts and getDynamicFee agree.
FeeAsCharged ==
  \A p \in Pages : IsCurrent(p) /\ hook.oracle = Deployed =>
    \A tier \in 1..2 :
      /\ PageFee(p, tier) = ChargedFee(tier, volatility[hook.oracle], hook.threshold)
      /\ \A level \in Levels :
           Chart(shown[p].threshold)[level][tier] = ChargedFee(tier, level, hook.threshold)

=============================================================================
