---------------------------- MODULE SingleMarket ----------------------------
(***************************************************************************)
(* The single-market stack: RWAComplyHook, PoolExecutor and the            *)
(* PoolManager between them, on one allocation ledger.                     *)
(*                                                                         *)
(* A purchase is one transaction, modelled call by call.  `call' is the    *)
(* stack of swaps in progress, the running one first: while the executor   *)
(* takes the RWA token, the token has control and may swap on the unlocked *)
(* manager itself, or submit a registration.  `saved' is the state the     *)
(* transaction started from.  Here no signature names the trader: the      *)
(* executor passes its caller as hook data, and the hook believes the      *)
(* router it trusts.                                                       *)
(***************************************************************************)
EXTENDS Integers, Sequences, FiniteSets, FiniteSetsExt, Functions

CONSTANTS
  Wallets, Allocations, Groups, Periods, Tokens, Nonces, Accounts, Amounts, Zero,
  Owner,          \* owns the hook, the ledger and the oracle
  Hook, Executor,
  OtherRouter,    \* any other contract that swaps on the pool manager
  Helper,         \* the contract that adds liquidity
  Usdc, Rwa,      \* the executor's immutable tokens
  Tiers,          \* bound: tiers given out, 0 is none
  RetailCaps,     \* bound: values of retailSwapCap
  Volatilities,   \* bound: the oracle's answers and the thresholds
  Pools,          \* the pools of the pair that name this hook, each by its key.fee
  Funds           \* USDC each wallet holds and approved to the executor

\* The key.fee that lets the hook set the fee of each swap; any other is the fee.
DYNAMIC_FEE_FLAG == 8388608

ASSUME MarketAssumption ==
  /\ {Owner, Hook, Executor, OtherRouter} \subseteq Accounts
  /\ Owner \notin {Hook, Executor, OtherRouter}
  /\ Hook \notin {Executor, OtherRouter} /\ Executor # OtherRouter
  /\ {Usdc, Rwa} \subseteq Tokens /\ Usdc # Rwa
  /\ Helper \notin Wallets
  /\ 0 \in Tiers /\ Tiers \subseteq Nat
  /\ RetailCaps \subseteq Nat /\ Volatilities \subseteq Nat
  /\ Amounts \subseteq Nat /\ Funds \in Nat /\ Pools \subseteq Nat
  /\ Zero \notin Wallets \cup Allocations \cup Groups \cup Tokens \cup Accounts

\* The sums over them, and the least and the greatest setting, exist.
ASSUME MarketIsFinite ==
  /\ IsFiniteSet(Wallets) /\ IsFiniteSet(RetailCaps) /\ IsFiniteSet(Volatilities)
  /\ RetailCaps # {} /\ Volatilities # {}

VARIABLES
  owner, backendSigner, authorizedHook, allocationIdByWallet,
  policyByGroupPeriod, spentByAllocation, highestSpendByGroupPeriod,
  quoteTokenByGroup, usedNonce,
  volatility,          \* what the oracle answers
  hook,                \* RWAComplyHook's settings
  purchase,            \* the hook's open purchase
  executor,            \* PoolExecutor's swap: [inSwap, trader, amount]
  liquid,              \* the pools that have liquidity
  paid,                \* paid[<<w, b>>]: USDC the pool manager got for w in budget b
  call, saved

RETAIL == 1
INSTITUTIONAL == 2

Ledger == INSTANCE AllocationLedger WITH Deployer <- Owner, MaxTime <- 0, now <- 0

Budgets == Groups \X Periods

adminVars  == <<owner, backendSigner, authorizedHook>>
policyVars == <<policyByGroupPeriod, quoteTokenByGroup>>
memberVars == <<allocationIdByWallet, usedNonce>>
spendVars  == <<spentByAllocation, highestSpendByGroupPeriod>>
ledgerVars == <<adminVars, policyVars, memberVars, spendVars>>
vars       == <<ledgerVars, volatility, hook, purchase, executor, liquid, paid, call, saved>>

NoPurchase == [active |-> FALSE]
NoBudget   == <<Zero, 0>>
NoSwap     == [inSwap |-> FALSE, trader |-> Zero, amount |-> 0]

\* The constructors: the hook knows its oracle, a threshold and a cap.
Init ==
  /\ Ledger!Init
  /\ volatility \in Volatilities
  /\ hook = [userTier |-> [x \in Wallets \cup {Helper} |-> 0],
             trustedRouter |-> Zero, usdc |-> Zero, rwaToken |-> Zero,
             ledger |-> FALSE,      \* whether the ledger is set
             allocation |-> NoBudget, poolPaused |-> FALSE,
             volatilityThreshold |-> Min(Volatilities), retailSwapCap |-> Max(RetailCaps)]
  /\ purchase = NoPurchase
  /\ executor = NoSwap
  /\ liquid = {}
  /\ paid = [x \in Wallets \X Budgets |-> 0]
  /\ call = <<>> /\ saved = <<>>

-----------------------------------------------------------------------------
(* The owner's transactions *)

\* setTier, setPoolPaused, setVolatilityThreshold, setRetailSwapCap,
\* setTrustedRouter, setQuoteTokens, setLedger, setAllocation
ChangeSetting ==
  \/ \E x \in Wallets \cup {Helper}, t \in Tiers : hook' = [hook EXCEPT !.userTier[x] = t]
  \/ \E b \in BOOLEAN : hook' = [hook EXCEPT !.poolPaused = b]
  \/ \E v \in Volatilities : hook' = [hook EXCEPT !.volatilityThreshold = v]
  \/ \E c \in RetailCaps : hook' = [hook EXCEPT !.retailSwapCap = c]
  \/ \E r \in {Executor, OtherRouter} : hook' = [hook EXCEPT !.trustedRouter = r]
  \/ \E t \in Tokens \X Tokens :
       t[1] # t[2] /\ hook' = [hook EXCEPT !.usdc = t[1], !.rwaToken = t[2]]
  \/ hook' = [hook EXCEPT !.ledger = TRUE]
  \/ \E b \in Budgets : hook' = [hook EXCEPT !.allocation = b]

SetHook ==
  /\ call = <<>>
  /\ ChangeSetting
  /\ UNCHANGED <<ledgerVars, volatility, purchase, executor, liquid, paid, call, saved>>

\* setVolatility of the oracle, or setOracle to one that answers this.
SetVolatility(v) ==
  /\ call = <<>>
  /\ volatility' = v
  /\ UNCHANGED <<ledgerVars, hook, purchase, executor, liquid, paid, call, saved>>

\* The ledger's owner wires the hook and sets the policies.
AdministerLedger ==
  /\ call = <<>>
  /\ \/ Ledger!SetAuthorizedHook(Owner, Hook)
     \/ \E b \in Budgets, cap \in Amounts, token \in Tokens :
          Ledger!SetPolicy(Owner, b[1], b[2], cap, token)
  /\ UNCHANGED <<volatility, hook, purchase, executor, liquid, paid, call, saved>>

-----------------------------------------------------------------------------
(* The hook *)

\* getDynamicFee, in hundredths of a basis point
FlatFee(tier, stressed)  == IF stressed THEN 5000 ELSE 1000   \* faulty variant: no tiers
Fee(tier, stressed) ==
  CASE stressed /\ tier = RETAIL        -> 5000
    [] stressed /\ tier = INSTITUTIONAL -> 500
    [] OTHER                            -> 1000

FeeFor(trader) == Fee(hook.userTier[trader], volatility > hook.volatilityThreshold)

\* The hook's fee overrides that of the pool only if the key says dynamic.
AlwaysOverrides(f) == FeeFor(f.trader)    \* faulty variant: in every pool
SwapFee(f) == IF f.pool = DYNAMIC_FEE_FLAG THEN FeeFor(f.trader) ELSE f.pool

AnySender(sender)     == TRUE                   \* faulty variant: everybody's word
TrustedSender(sender) == hook.trustedRouter # Zero /\ sender = hook.trustedRouter

\* RetailLimitExceeded
TierAllows(trader, amount) ==
  /\ hook.userTier[trader] # 0
  /\ hook.userTier[trader] = RETAIL => amount <= hook.retailSwapCap

Top == Head(call)

BeforeSwap ==
  /\ call # <<>> /\ Top.phase = "unlocked"
  /\ ~hook.poolPaused
  /\ ~purchase.active
  /\ TrustedSender(Top.router)
  /\ Top.exactInput
  /\ Top.tokens = <<hook.usdc, hook.rwaToken>>
  /\ TierAllows(Top.trader, Top.amount)
  /\ hook.ledger /\ hook.allocation[1] # Zero
  /\ Ledger!HasBudget(Top.trader, hook.allocation[1], hook.allocation[2])
  /\ Top.amount <= Ledger!Remaining(Top.trader, hook.allocation[1], hook.allocation[2])
  /\ purchase' = [active |-> TRUE, trader |-> Top.trader, budget |-> hook.allocation,
                  quotedInput |-> Top.amount]
  /\ call' = <<[Top EXCEPT !.phase = "swapping", !.fee = SwapFee(Top)]>> \o Tail(call)
  /\ UNCHANGED <<ledgerVars, volatility, hook, executor, liquid, paid, saved>>

ClosedPurchase == NoPurchase

QuotedInput(settled)  == purchase.quotedInput   \* faulty variant: records the quote
NetInput(settled)     == settled - 1            \* faulty variant: net of the fee
SettledInput(settled) == settled

\* The pool charges some of the input, if it has liquidity, and afterSwap
\* records what it charged.
AfterSwap(settled, filled) ==
  /\ call # <<>> /\ Top.phase = "swapping"
  /\ Top.pool \in liquid /\ settled \in 1..Top.amount
  /\ purchase.active /\ TrustedSender(Top.router)
  /\ Top.trader = purchase.trader
  /\ settled <= purchase.quotedInput
  /\ Ledger!RecordSpend(Hook, purchase.trader, purchase.budget[1], purchase.budget[2],
                        SettledInput(settled))
  /\ purchase' = ClosedPurchase
  /\ call' = <<[Top EXCEPT !.phase = "settling", !.settled = settled, !.filled = filled,
                           !.budget = purchase.budget]>> \o Tail(call)
  /\ UNCHANGED <<volatility, hook, executor, liquid, paid, saved>>

\* beforeAddLiquidity asks for the tier of the contract that adds, not of whoever calls it.
AddLiquidity(sender, pool) ==
  /\ call = <<>>
  /\ hook.userTier[sender] # 0
  /\ liquid' = liquid \cup {pool}
  /\ UNCHANGED <<ledgerVars, volatility, hook, purchase, executor, paid, call, saved>>

-----------------------------------------------------------------------------
(* The executor, and any other router *)

\* What a transaction may change, and a revert puts back.
Snapshot ==
  [allocationIdByWallet |-> allocationIdByWallet, usedNonce |-> usedNonce,
   spentByAllocation |-> spentByAllocation,
   highestSpendByGroupPeriod |-> highestSpendByGroupPeriod,
   purchase |-> purchase, executor |-> executor, paid |-> paid]

\* A call of PoolManager.swap; what its callbacks add comes later.
Frame(router, caller, trader, tokens, pool, exactInput, amount) ==
  [phase |-> "unlocked", router |-> router, caller |-> caller, trader |-> trader,
   tokens |-> tokens, pool |-> pool, exactInput |-> exactInput, amount |-> amount,
   fee |-> 0, settled |-> 0, filled |-> FALSE, budget |-> NoBudget]

\* swapExactInput up to the swap of its unlock callback: the caller is the trader.
SwapExactInput(caller, tokens, pool, amount) ==
  /\ call = <<>>
  /\ ~executor.inSwap
  /\ amount # 0
  /\ tokens = <<Usdc, Rwa>>
  /\ executor' = [inSwap |-> TRUE, trader |-> caller, amount |-> amount]
  /\ saved' = Snapshot
  /\ call' = <<Frame(Executor, caller, executor'.trader, tokens, pool, TRUE, executor'.amount)>>
  /\ UNCHANGED <<ledgerVars, volatility, hook, purchase, liquid, paid>>

\* Another contract swaps, in its own unlock or while the token has control,
\* and writes what it likes into the hook data.
SwapElsewhere(trader, tokens, pool, exactInput, amount) ==
  /\ call = <<>> \/ (Len(call) = 1 /\ Top.phase = "taking")
  /\ saved' = IF call = <<>> THEN Snapshot ELSE saved
  /\ call' = <<Frame(OtherRouter, Zero, trader, tokens, pool, exactInput, amount)>> \o call
  /\ UNCHANGED <<ledgerVars, volatility, hook, purchase, executor, liquid, paid>>

PaidBy(w) == SumFunctionOnSet([b \in Budgets |-> paid[<<w, b>>]], Budgets)

\* The executor pulls the USDC from its trader; another router finds the money
\* where it likes.  The pool manager is paid, or its unlock reverts.
Settle ==
  /\ call # <<>> /\ Top.phase = "settling"
  /\ Top.router = Executor =>
       /\ Top.filled
       /\ Top.settled <= executor.amount
       /\ PaidBy(executor.trader) + Top.settled <= Funds
  /\ paid' = [paid EXCEPT ![<<Top.trader, Top.budget>>] = @ + Top.settled]
  /\ call' = <<[Top EXCEPT !.phase = "taking"]>> \o Tail(call)
  /\ UNCHANGED <<ledgerVars, volatility, hook, purchase, executor, liquid, saved>>

\* The trader has the tokens and the swap returns; with the last one the
\* transaction ends.
Return ==
  /\ call # <<>> /\ Top.phase = "taking"
  /\ executor' = IF Top.router = Executor THEN NoSwap ELSE executor
  /\ call' = Tail(call)
  /\ saved' = IF call' = <<>> THEN <<>> ELSE saved
  /\ UNCHANGED <<ledgerVars, volatility, hook, purchase, liquid, paid>>

\* Any call may fail, and the transaction leaves no trace.
Revert ==
  /\ call # <<>>
  /\ allocationIdByWallet' = saved.allocationIdByWallet /\ usedNonce' = saved.usedNonce
  /\ spentByAllocation' = saved.spentByAllocation
  /\ highestSpendByGroupPeriod' = saved.highestSpendByGroupPeriod
  /\ purchase' = saved.purchase /\ executor' = saved.executor /\ paid' = saved.paid
  /\ call' = <<>> /\ saved' = <<>>
  /\ UNCHANGED <<adminVars, policyVars, volatility, hook, liquid>>

\* Anybody submits a registration, also from inside a purchase.
Register ==
  /\ call # <<>> => Top.phase = "taking"
  /\ Ledger!Register
  /\ UNCHANGED <<volatility, hook, purchase, executor, liquid, paid, call, saved>>

-----------------------------------------------------------------------------

Swaps ==
  \/ \E w \in Wallets, tokens \in Tokens \X Tokens, pool \in Pools, amount \in Amounts :
       \/ SwapExactInput(w, tokens, pool, amount)
       \/ \E exactInput \in BOOLEAN : SwapElsewhere(w, tokens, pool, exactInput, amount)
  \/ BeforeSwap
  \/ \E settled \in Amounts, filled \in BOOLEAN : AfterSwap(settled, filled)
  \/ Settle
  \/ Return
  \/ Revert

Administer ==
  \/ SetHook
  \/ \E v \in Volatilities : SetVolatility(v)
  \/ AdministerLedger

Next ==
  \/ Swaps
  \/ Administer
  \/ \E sender \in Wallets \cup {Helper}, pool \in Pools : AddLiquidity(sender, pool)
  \/ Register

Spec == Init /\ [][Next]_vars

-----------------------------------------------------------------------------
(* Properties *)

Frames ==
  [phase : {"unlocked", "swapping", "settling", "taking"}, router : {Executor, OtherRouter},
   caller : Wallets \cup {Zero}, trader : Wallets, tokens : Tokens \X Tokens,
   pool : Pools, exactInput : BOOLEAN, amount : Amounts,
   fee : {0, 500, 1000, 5000} \cup Pools, settled : Amounts \cup {0},
   filled : BOOLEAN, budget : Budgets \cup {NoBudget}]

\* Every variable stays in its type.
TypeOK ==
  /\ hook \in [userTier : [Wallets \cup {Helper} -> Tiers],
               trustedRouter : {Zero, Executor, OtherRouter},
               usdc : Tokens \cup {Zero}, rwaToken : Tokens \cup {Zero}, ledger : BOOLEAN,
               allocation : Budgets \cup {NoBudget}, poolPaused : BOOLEAN,
               volatilityThreshold : Volatilities, retailSwapCap : RetailCaps]
  /\ volatility \in Volatilities
  /\ executor \in [inSwap : BOOLEAN, trader : Wallets \cup {Zero}, amount : Amounts \cup {0}]
  /\ liquid \subseteq Pools
  /\ paid \in [Wallets \X Budgets -> Nat]
  /\ call \in Seq(Frames) /\ Len(call) <= 2

AtRest == call = <<>>

MembersOf(a) == {w \in Wallets : allocationIdByWallet[w] = a}

\* What a group of wallets has paid for purchases of one budget, by these accounts.
PaidTogether(money, wallets, b) == SumFunctionOnSet([w \in Wallets |-> money[<<w, b>>]], wallets)

\* Between transactions neither contract holds anything of a purchase: a lock or
\* an active purchase left behind would refuse all later ones, and a trader left
\* behind would be charged for one.
NothingLeftOpen == AtRest => purchase = NoPurchase /\ executor = NoSwap

\* The hook records the charge before the executor has collected it, and the
\* token runs in between: between transactions the two agree, for every
\* allocation and budget.
PaidIsRecorded ==
  AtRest =>
    \A a \in Allocations, b \in Budgets :
      PaidTogether(paid, MembersOf(a), b) = spentByAllocation[<<a, b>>]

\* What a transaction leaves behind: no lock, and books that match the money; and
\* within it every frame and setting stays in its type.
SettledAtRest == TypeOK /\ NothingLeftOpen /\ PaidIsRecorded

\* While the hook trusts the executor, a wallet's money and budget go only into
\* swaps that wallet called the executor for, and at most for what it asked.
OnlyTheCallerPays ==
  [][\A w \in Wallets, b \in Budgets :
       paid'[<<w, b>>] > paid[<<w, b>>] /\ hook.trustedRouter = Executor =>
         /\ executor.inSwap /\ executor.trader = w /\ call[Len(call)].caller = w
         /\ paid'[<<w, b>>] - paid[<<w, b>>] <= executor.amount]_vars

\* The terms in force for a swap: an open market and a tier that allows the whole
\* quote.  A pool of its own fee charges that one; in a dynamic pool retail pays
\* more and an institution less exactly while the volatility is over the threshold.
OnTerms(f) ==
  LET tier     == hook.userTier[f.trader]
      stressed == volatility > hook.volatilityThreshold IN
  /\ ~hook.poolPaused
  /\ tier # 0
  /\ tier = RETAIL => f.amount <= hook.retailSwapCap
  /\ f.pool # DYNAMIC_FEE_FLAG => f.fee = f.pool
  /\ f.pool = DYNAMIC_FEE_FLAG =>
       /\ f.fee \in {500, 1000, 5000}
       /\ f.fee = 5000 <=> tier = RETAIL /\ stressed
       /\ f.fee = 500 <=> tier = INSTITUTIONAL /\ stressed

\* Spend is recorded and money collected, in two steps of a transaction with the
\* token's own code around them, for the market's budget and on the terms in
\* force at that step.
ChargedOnTerms ==
  [][/\ \A y \in Allocations \X Budgets :
          spentByAllocation'[y] > spentByAllocation[y] =>
            y = <<allocationIdByWallet[Top.trader], hook.allocation>> /\ OnTerms(Top)
     /\ \A x \in Wallets \X Budgets :
          paid'[x] > paid[x] => x = <<Top.trader, hook.allocation>> /\ OnTerms(Top)]_vars

\* What a human has paid once the transaction in progress is counted as
\* nothing until it ends.
PaidInTheEnd(a, b) == PaidTogether(IF AtRest THEN paid ELSE saved.paid, MembersOf(a), b)

Human == INSTANCE HumanBudget WITH
  Humans <- Allocations,
  cap    <- [b \in Budgets |-> policyByGroupPeriod[b].cap],
  bought <- [ab \in Allocations \X Budgets |-> PaidInTheEnd(ab[1], ab[2])]

\* Seen from outside, the stack is one capped budget for each human, in money
\* that changed hands, whatever the hook, the ledger and the routers do inside
\* a transaction.
ImplementsHumanBudget == Human!Spec
=============================================================================
