------------------------------ MODULE MCHandlers ------------------------------
(* A finite instance of the handlers, explored in the settings of Focus.       *)
EXTENDS Handlers, TLC

CONSTANTS k1, k2, alice, bob, w1, w2, w3, deployer, visitor, o1, o2, s1, s2

\* SANDBOX_ACTIONS in hundreds of USDC.
SandboxBuys     == {"buy-700", "attempt-500", "buy-200"}
SandboxHuman    == [b \in SandboxBuys |-> "alice"]
SandboxWallet   == [b \in SandboxBuys |-> IF b = "buy-700" THEN "a" ELSE "b"]
SandboxHundreds ==
  [b \in SandboxBuys |-> CASE b = "buy-700" -> 7 [] b = "attempt-500" -> 5 [] OTHER -> 2]

\* A wallet taken off the list while its challenge and authorization are around:
\* two requests for w1 or the reserved w3, one after the other.
Removal ==
  /\ demoStage[3] = "unused" /\ Cardinality(Demo!Active) <= 1
  /\ \A r \in DOMAIN wallet : wallet[r] # w2
  /\ w2 \notin allowed /\ lastAllowed[w2] = None /\ bound[w2] = None /\ owner \notin {w2, w3}

\* Two preflights and two authorizations of w1 and w2, two requests at a time,
\* while nothing else happens.
Nonces ==
  /\ \A r \in DOMAIN action : action[r] \in {None, IF r <= 2 THEN "preflight" ELSE "authorize"}
  /\ demoTime = 0 /\ changes = 0
  /\ \A r \in DOMAIN wallet : wallet[r] # w3
  /\ owner = None /\ allowed = {w1, w2}

\* One presenter and the script, one after the other; three requests when one of them
\* is stopped on the way.
Alone ==
  /\ \A r \in DOMAIN met : met[r] = {}
  /\ crashes > 0 => boxStage[4] = "unused" /\ \A r \in DOMAIN op : op[r] # "attempt-500"

\* Three requests of tabs, two at a time; a reset among them is stopped (Alone has the
\* purchase that is).
Tabs ==
  /\ \A r \in DOMAIN op : boxStage[r] = "dead" => op[r] = "reset"
  /\ boxStage[4] = "unused" /\ Cardinality(Box!Active) <= 2
  /\ \A r \in DOMAIN op : op[r] # "journey"

\* Three resets of tabs and runs of the journey, over each other, any of them stopped.
Resets ==
  /\ boxStage[4] = "unused"
  /\ \A r \in DOMAIN op : op[r] \in {None, "reset", "journey"}

\* Two clicks, for one value of each setting, and changes of the account and the owner.
Once(c) ==
  /\ c.kind \in {"setVolatilityThreshold", "setVolatility"} => c.value = 1
  /\ c.kind # "setRetailSwapCap"

Log ==
  /\ \A i \in 1..clicks : Once(call[i])
  /\ addresses["visualizer"] = "loading" /\ hook.oracle # o2
  /\ shown["observatory"].threshold = None /\ shown["observatory"].volatility = None

\* Two pages and two oracles, and a click.
Fees ==
  /\ switches = 0 /\ clicks <= 1
  /\ shown["observatory"].paused = None /\ addresses["visualizer"] # "failed"

\* The environment of the deployed site and three that lack something, and a
\* policy for the second period.
Live    == [config |-> "valid", rpc |-> "sepolia", market |-> TRUE]
Servers == {Live, [Live EXCEPT !.config = "missing"], [Live EXCEPT !.rpc = "other"],
            [Live EXCEPT !.market = FALSE]}
Second  == {[p \in Periods |-> IF p = 2 THEN 1 ELSE 0]}

\* The report reads nothing of Arkiv and Arkiv nothing of the chain: what is
\* published or dropped during the report is no different from the same just after
\* it.  Nor is another environment, missing code, a change of the owner or a read that
\* fails any different with a record there or a wallet named, and a named wallet is
\* nothing to a script.  A request meets one script, and two that came after its
\* report.  The scripts are alike: s1 is the first to start.
Lookup ==
  /\ view.wallet => script[s1].at = "unused"
  /\ view.at = "report" => clock = 0 /\ script[s1].at = "unused"
  /\ env # Live \/ administered > 0 \/ report.failed \/ ledger.code # Directory!Contracts =>
       script[s1].at = "unused" /\ records = {} /\ ~view.wallet
  /\ env # Live \/ ledger.code # Directory!Contracts =>
       ledger.group = "configured" /\ ledger.pair = "configured" /\ ledger.period = 2
  /\ script[s2].at # "unused" => script[s1].at # "unused"

\* Two World requests at once and a last one after them, one thing that spoils a proof
\* and, before the last, one failure or one answer that does not come; and the
\* settings of the other parts.
Failures == {"lost", "internal_error", "world_unavailable", "invalid_proof"}

Focus ==
  /\ proofStage[NumRequests] # "unused" =>
       \A i \in DOMAIN proofStage : i < NumRequests => proofStage[i] = "done"
  /\ Cardinality(expired) + restarts + Cardinality({h \in Humans : credential[h] # 1}) <= 1
  /\ Cardinality({i \in DOMAIN answer : i < NumRequests /\ answer[i] \in Failures}) <= 1
  /\ part = "demo"    => Removal \/ Nonces
  /\ part = "box"     => Alone \/ Tabs \/ Resets
  /\ part = "console" => volatility[o2] = 0 /\ (Log \/ Fees)
  /\ part = "directory" => Lookup

\* One script after another, and nothing else.
OneByOne ==
  /\ part = "directory" /\ asked = 0 /\ administered = 0 /\ env = Live
  /\ ledger.code = Directory!Contracts
  /\ Cardinality({s \in Scripts : Directory!Runs(s)}) <= 1

Identifiers == Permutations({alice, bob}) \cup Permutations({k1, k2})
=============================================================================
