-------------------------- MODULE MCSingleMarket --------------------------
(* Finite instances of the single market, from the state where its owner    *)
(* wired it and the backend registered the wallet of one human; w2 is still *)
(* to be registered.  The pool of a fee of its own has liquidity, the       *)
(* dynamic one not yet, and no policy is set.                               *)
EXTENDS SingleMarket, TLC

CONSTANTS w1, w2, a1, a2, g1

Wired ==
  /\ owner = Owner /\ backendSigner = Owner /\ authorizedHook = Hook
  /\ allocationIdByWallet = (w1 :> a1 @@ w2 :> Zero)
  /\ policyByGroupPeriod = [b \in Budgets |-> [cap |-> 0, usdc |-> Zero]]
  /\ spentByAllocation = [ab \in Allocations \X Budgets |-> 0]
  /\ highestSpendByGroupPeriod = [b \in Budgets |-> 0]
  /\ quoteTokenByGroup = [g \in Groups |-> Zero]
  /\ usedNonce = {}
  /\ volatility = Min(Volatilities)
  /\ hook = [userTier |-> [x \in Wallets \cup {Helper} |-> Max(Tiers)],
             trustedRouter |-> Executor, usdc |-> Usdc, rwaToken |-> Rwa,
             ledger |-> TRUE, allocation |-> <<g1, 1>>, poolPaused |-> FALSE,
             volatilityThreshold |-> Min(Volatilities), retailSwapCap |-> Max(RetailCaps)]
  /\ purchase = NoPurchase
  /\ executor = NoSwap
  /\ liquid = Pools \ {DYNAMIC_FEE_FLAG}
  /\ paid = [x \in Wallets \X Budgets |-> 0]
  /\ call = <<>> /\ saved = <<>>

WiredSpec == Wired /\ [][Next]_vars

\* The router and the budget of the hook's settings change, and the policies and
\* members; requests are for the market's own pair, in the dynamic pool.
BudgetsMove ==
  /\ hook.userTier = [x \in Wallets \cup {Helper} |-> Max(Tiers)]
  /\ hook.usdc = Usdc /\ hook.rwaToken = Rwa
  /\ ~hook.poolPaused
  /\ hook.retailSwapCap = Max(RetailCaps)
  /\ hook.volatilityThreshold = Min(Volatilities) /\ volatility = Min(Volatilities)
  /\ call # <<>> => Top.tokens = <<Usdc, Rwa>> /\ Top.exactInput /\ Top.pool = DYNAMIC_FEE_FLAG

\* All settings of the hook change for one wallet and one budget, under one
\* policy, in both pools; the owner trusts a router once.
TermsMove ==
  /\ \A x \in Wallets \cup {Helper} : x # w1 => hook.userTier[x] = Max(Tiers)
  /\ call # <<>> => Top.trader = w1
  /\ \A b \in Budgets : policyByGroupPeriod[b].cap \in {0, Max(Amounts)}
  /\ usedNonce = {} /\ liquid = Pools
  /\ hook.allocation = <<g1, 1>> /\ policyByGroupPeriod[<<g1, 2>>].cap = 0
  /\ hook.trustedRouter = Executor

Focus == BudgetsMove \/ TermsMove
=============================================================================
