-------------------------- MODULE MarketplaceTrade --------------------------
(***************************************************************************)
(* A marketplace purchase: MarketplaceExecutor, MarketplaceHook and the    *)
(* PoolManager between them, over the registry and its ledger.             *)
(*                                                                         *)
(* A purchase is one Ethereum transaction.  It is modelled call by call,   *)
(* because the contracts hand control to each other and, when the executor *)
(* takes the RWA token, to code nobody reviewed; `saved` is the chain      *)
(* state the transaction started from, which a revert at any call puts     *)
(* back.  No other transaction runs in between, but the token may call     *)
(* the registry and the ledger while it has control.                       *)
(*                                                                         *)
(* A trade intent is the record of the fields its wallet signs.  What the  *)
(* pool pays for what it charges is up to the pool: it fills any part of   *)
(* an exact input.                                                         *)
(***************************************************************************)
EXTENDS Integers, Sequences, FiniteSets, FiniteSetsExt, Functions

CONSTANTS
  Wallets, Allocations, Groups, Periods, Tokens, Nonces, Accounts, Amounts,
  MaxTime, Zero, Platform, Registry, Hook, Signer, Usdc, MAX_CAP, PoolKeys,
  RestoreNonces, MaxOfferings, MaxVersion, MaxEpoch,
  Executor,       \* the marketplace executor
  OtherRouter,    \* any other contract that swaps on the pool manager
  Trades,         \* the intents considered: wallet, recipient, poolId, policyId,
                  \* groupId, periodId, amountIn, version, nonce, deadline, executor
  Funds,          \* USDC each wallet holds and approved to the executor
  MaxSigned       \* bound: intents signed

ASSUME TradeAssumption ==
  /\ {Platform, Registry, Hook, Signer, Executor, OtherRouter} \subseteq Accounts
  /\ Executor # OtherRouter
  /\ Usdc \in Tokens
  /\ Amounts \subseteq Nat /\ Periods \subseteq Nat
  /\ {MAX_CAP, MaxOfferings, MaxVersion, MaxEpoch, MaxTime, Funds, MaxSigned} \subseteq Nat
  /\ MaxVersion # 0
  /\ \A trade \in Trades : trade.wallet \in Wallets \cup {Zero} /\ trade.amountIn \in Nat
  /\ Zero \notin Wallets \cup Allocations \cup Groups \cup Tokens \cup Accounts

\* The sums over them, and the greatest cap of a group, exist.
ASSUME TradeIsFinite ==
  /\ IsFiniteSet(Wallets) /\ IsFiniteSet(Groups) /\ IsFiniteSet(Periods)
  /\ Periods # {}

VARIABLES
  owner, backendSigner, authorizedHook, allocationIdByWallet,
  policyByGroupPeriod, spentByAllocation, highestSpendByGroupPeriod,
  quoteTokenByGroup, usedNonce, now,
  authorizedIssuer, offerings, groupUsed, poolToOffering, tokenReviewed,
  investorTier, revocationEpoch, restoredEpoch, restorations, approvedRwa,
  trustedRouter,
  purchase,        \* the hook's open purchase, or NoPurchase when not active
  usedTradeNonce,
  inSwap,          \* the executor's lock
  activeTrade,     \* the intent the executor is executing, or Zero
  call,            \* the call in progress: phase, router, pool key, hook data
  saved,           \* the chain state before the transaction
  signedTrades,    \* the intents their wallets signed
  paid             \* paid[<<w, g>>]: USDC the pool manager got for w's purchases
                   \* in the offering of group g

Reg == INSTANCE OfferingRegistry

ledgerVars   == <<owner, backendSigner, authorizedHook, allocationIdByWallet,
                  policyByGroupPeriod, spentByAllocation,
                  highestSpendByGroupPeriod, quoteTokenByGroup, usedNonce>>
registryVars == <<authorizedIssuer, offerings, groupUsed, poolToOffering, tokenReviewed,
                  investorTier, revocationEpoch, restoredEpoch, restorations, approvedRwa>>
hookVars     == <<trustedRouter, purchase, usedTradeNonce>>
executorVars == <<inSwap, activeTrade>>
chainVars    == <<ledgerVars, registryVars, hookVars, executorVars, paid>>
vars         == <<chainVars, now, call, saved, signedTrades>>

NoPurchase == [active |-> FALSE]
Idle       == [phase |-> "idle"]

\* The chain state, as a record.
Snapshot ==
  [owner |-> owner, backendSigner |-> backendSigner,
   authorizedHook |-> authorizedHook, allocationIdByWallet |-> allocationIdByWallet,
   policyByGroupPeriod |-> policyByGroupPeriod, spentByAllocation |-> spentByAllocation,
   highestSpendByGroupPeriod |-> highestSpendByGroupPeriod, quoteTokenByGroup |-> quoteTokenByGroup,
   usedNonce |-> usedNonce, authorizedIssuer |-> authorizedIssuer,
   offerings |-> offerings, groupUsed |-> groupUsed,
   poolToOffering |-> poolToOffering, tokenReviewed |-> tokenReviewed,
   investorTier |-> investorTier, revocationEpoch |-> revocationEpoch,
   restoredEpoch |-> restoredEpoch, restorations |-> restorations,
   approvedRwa |-> approvedRwa, trustedRouter |-> trustedRouter,
   purchase |-> purchase, usedTradeNonce |-> usedTradeNonce,
   inSwap |-> inSwap, activeTrade |-> activeTrade,
   paid |-> paid]

\* Back to it.
Restore(old) ==
  /\ owner' = old.owner /\ backendSigner' = old.backendSigner
  /\ authorizedHook' = old.authorizedHook /\ allocationIdByWallet' = old.allocationIdByWallet
  /\ policyByGroupPeriod' = old.policyByGroupPeriod /\ spentByAllocation' = old.spentByAllocation
  /\ highestSpendByGroupPeriod' = old.highestSpendByGroupPeriod /\ quoteTokenByGroup' = old.quoteTokenByGroup
  /\ usedNonce' = old.usedNonce /\ authorizedIssuer' = old.authorizedIssuer
  /\ offerings' = old.offerings /\ groupUsed' = old.groupUsed
  /\ poolToOffering' = old.poolToOffering /\ tokenReviewed' = old.tokenReviewed
  /\ investorTier' = old.investorTier /\ revocationEpoch' = old.revocationEpoch
  /\ restoredEpoch' = old.restoredEpoch /\ restorations' = old.restorations
  /\ approvedRwa' = old.approvedRwa /\ trustedRouter' = old.trustedRouter
  /\ purchase' = old.purchase /\ usedTradeNonce' = old.usedTradeNonce
  /\ inSwap' = old.inSwap /\ activeTrade' = old.activeTrade
  /\ paid' = old.paid

Init ==
  /\ Reg!Init
  /\ trustedRouter = Executor
  /\ purchase = NoPurchase
  /\ usedTradeNonce = {}
  /\ inSwap = FALSE
  /\ activeTrade = Zero
  /\ call = Idle
  /\ saved = <<>>
  /\ signedTrades = {}
  /\ paid = [x \in Wallets \X Groups |-> 0]

-----------------------------------------------------------------------------
(* The hook's checks *)

AnyTradeNonce(nonce)    == TRUE              \* faulty variant: intents replay
TradeNonceUnused(nonce) == nonce \notin usedTradeNonce

\* An offering's terms are part of the intent (policyVersion).
VersionMatches(trade, o) == trade.version = o.version

\* _checkIntent: the intent names this pool, its offering and its terms, is
\* made for the trusted router and signed by its wallet.
CheckIntent(trade, key, amountIn) ==
  LET id == poolToOffering[key]
      o  == offerings[id]
  IN  /\ Zero \notin {trade.wallet, trade.recipient}
      /\ trade.poolId = key /\ trade.policyId = id
      /\ trade.groupId = o.groupId /\ trade.periodId = o.periodId
      /\ VersionMatches(trade, o) /\ trade.amountIn = amountIn
      /\ trade.executor = trustedRouter
      /\ now <= trade.deadline
      /\ TradeNonceUnused(trade.nonce)
      /\ trade \in signedTrades

\* _checkOffering: the offering is open and the swap buys its token for USDC.
CheckOffering(o, key) ==
  /\ ~o.paused
  /\ o.startTime <= now /\ now <= o.endTime
  /\ key.tokens = {Usdc, o.rwa}

AnyWallet(id, wallet)      == TRUE           \* faulty variant: no revocation check
WalletAllowed(id, wallet)  == ~Reg!PurchaseBlocked(id, wallet)

TrustedSender(sender) == trustedRouter # Zero /\ sender = trustedRouter

Recipient(trade) == trade.recipient          \* faulty variant: charges the recipient
Buyer(trade)     == trade.wallet             \* whose budget a purchase uses

-----------------------------------------------------------------------------
(* The calls of a purchase *)

\* _exactInputDirection: the pair is USDC and an approved token, on this hook.
Purchasable(key) ==
  /\ key.hooks = Hook
  /\ \E token \in approvedRwa : key.tokens = {Usdc, token}

\* swapWithIntent, up to the unlock of the pool manager.
SwapWithIntent(key, trade) ==
  /\ call.phase = "idle"
  /\ ~inSwap
  /\ trade.amountIn # 0
  /\ trade.executor = Executor /\ trade.poolId = key
  /\ Purchasable(key)
  /\ poolToOffering[key] # 0
  /\ CheckIntent(trade, key, trade.amountIn)
  /\ inSwap' = TRUE
  /\ activeTrade' = trade
  /\ saved' = Snapshot
  /\ call' = [phase |-> "unlocked", router |-> Executor, key |-> key, trade |-> trade,
              amountIn |-> trade.amountIn]
  /\ UNCHANGED <<ledgerVars, registryVars, hookVars, paid, now, signedTrades>>

\* Another contract unlocks the pool manager and swaps with somebody's intent
\* as hook data.
SwapElsewhere(key, trade) ==
  /\ call.phase = "idle"
  /\ key.hooks = Hook
  /\ saved' = Snapshot
  /\ call' = [phase |-> "unlocked", router |-> OtherRouter, key |-> key, trade |-> trade,
              amountIn |-> trade.amountIn]
  /\ UNCHANGED <<chainVars, now, signedTrades>>

BeforeSwap ==
  /\ call.phase = "unlocked"
  /\ ~purchase.active
  /\ TrustedSender(call.router)
  /\ poolToOffering[call.key] # 0
  /\ LET id == poolToOffering[call.key]
         o  == offerings[id]
         w  == Buyer(call.trade)
     IN  /\ CheckOffering(o, call.key)
         /\ CheckIntent(call.trade, call.key, call.amountIn)
         /\ WalletAllowed(id, w)
         /\ investorTier[<<id, w>>] # 0
         /\ Reg!Ledger!HasBudget(w, o.groupId, o.periodId)
         /\ call.amountIn <= Reg!Ledger!Remaining(w, o.groupId, o.periodId)
         /\ usedTradeNonce' = usedTradeNonce \cup {call.trade.nonce}
         /\ purchase' = [active |-> TRUE, trader |-> w, groupId |-> o.groupId,
                         periodId |-> o.periodId, quotedInput |-> call.amountIn]
  /\ call' = [call EXCEPT !.phase = "swapping"]
  /\ UNCHANGED <<ledgerVars, registryVars, trustedRouter, executorVars, paid, now, saved,
                 signedTrades>>

OpenPurchase   == purchase                   \* faulty variant: never closed
ClosedPurchase == NoPurchase

SettledInput(settled) == settled

\* The pool swaps, charging `settled` and paying something or nothing for it;
\* the hook records what was charged.
AfterSwap(settled, filled) ==
  /\ call.phase = "swapping"
  /\ purchase.active /\ call.router = trustedRouter
  /\ Buyer(call.trade) = purchase.trader
  /\ settled # 0 /\ settled <= purchase.quotedInput
  /\ Reg!Ledger!RecordSpend(Hook, purchase.trader, purchase.groupId, purchase.periodId,
                            SettledInput(settled))
  /\ purchase' = ClosedPurchase
  /\ call' = [phase |-> "settling", router |-> call.router, trade |-> call.trade,
              groupId |-> purchase.groupId, settled |-> settled, filled |-> filled,
              key |-> call.key]
  /\ UNCHANGED <<registryVars, trustedRouter, usedTradeNonce, executorVars, paid, saved,
                 signedTrades>>

InAllGroups(money, w) == SumFunctionOnSet([g \in Groups |-> money[<<w, g>>]], Groups)
PaidInAll(w) == InAllGroups(paid, w)

\* The executor pulls the USDC from the wallet of its intent; a router that
\* replaced it finds the money where it likes.  Either way the pool manager is
\* paid what it charged, or its unlock reverts.
Settle ==
  /\ call.phase = "settling"
  /\ call.router = Executor =>
       /\ call.filled
       /\ call.settled <= activeTrade.amountIn
       /\ PaidInAll(activeTrade.wallet) + call.settled <= Funds
  /\ paid' = [paid EXCEPT ![<<call.trade.wallet, call.groupId>>] = @ + call.settled]
  /\ call' = [call EXCEPT !.phase = "taking"]
  /\ UNCHANGED <<ledgerVars, registryVars, hookVars, executorVars, now, saved, signedTrades>>

\* The recipient has its tokens; swapWithIntent clears its state and returns.
Return ==
  /\ call.phase = "taking"
  /\ inSwap' = FALSE
  /\ activeTrade' = Zero
  /\ call' = Idle
  /\ saved' = <<>>
  /\ UNCHANGED <<ledgerVars, registryVars, hookVars, paid, now, signedTrades>>

\* Any call may fail (a check, a balance, an allowance, the token, the gas):
\* the whole transaction leaves no trace.
Revert ==
  /\ call.phase # "idle"
  /\ Restore(saved)
  /\ call' = Idle
  /\ saved' = <<>>
  /\ UNCHANGED <<now, signedTrades>>

-----------------------------------------------------------------------------
(* Everything else *)

\* A wallet signs an intent, off chain.
SignTrade(trade) ==
  /\ call.phase = "idle"
  /\ trade.wallet # Zero
  /\ Cardinality(signedTrades) < MaxSigned
  /\ signedTrades' = signedTrades \cup {trade}
  /\ UNCHANGED <<chainVars, now, call, saved>>

SetTrustedRouter(caller, router) ==
  /\ call.phase = "idle"
  /\ caller = Platform
  /\ router # Zero
  /\ trustedRouter' = router
  /\ UNCHANGED <<ledgerVars, registryVars, purchase, usedTradeNonce, executorVars, paid, now,
                 call, saved, signedTrades>>

\* Registry and registration calls: transactions of their own, or made by the
\* RWA token while the executor takes it.
OutsideCall ==
  /\ call.phase \in {"idle", "taking"}
  /\ Reg!RegistryNext \/ Reg!Register
  /\ UNCHANGED <<hookVars, executorVars, paid, call, saved, signedTrades>>

Tick ==
  /\ call.phase = "idle"
  /\ Reg!Tick
  /\ UNCHANGED <<hookVars, executorVars, paid, call, saved, signedTrades>>

PurchaseStep ==
  \/ \E trade \in Trades, key \in PoolKeys : SwapWithIntent(key, trade) \/ SwapElsewhere(key, trade)
  \/ BeforeSwap
  \/ \E settled \in Amounts, filled \in BOOLEAN : AfterSwap(settled, filled)
  \/ Settle
  \/ Return
  \/ Revert

Next ==
  \/ PurchaseStep
  \/ OutsideCall
  \/ \E trade \in Trades : SignTrade(trade)
  \/ \E caller \in {Platform}, router \in {Executor, OtherRouter, Zero} : SetTrustedRouter(caller, router)
  \/ Tick

Spec == Init /\ [][Next]_vars

-----------------------------------------------------------------------------
(* Properties *)

AtRest == call.phase = "idle"

MembersOf(a) == {w \in Wallets : allocationIdByWallet[w] = a}

\* What a group of wallets has paid for purchases in one offering's group, and
\* what an allocation has spent in it, by these accounts.
PaidTogether(money, wallets, g) == SumFunctionOnSet([w \in Wallets |-> money[<<w, g>>]], wallets)
SpentInGroup(spent, a, g) == SumFunctionOnSet([p \in Periods |-> spent[<<a, <<g, p>>>>]], Periods)

\* Whatever path a transaction takes, it leaves no purchase open, no executor
\* lock and no active intent: any of them left behind would refuse every later
\* purchase (PurchaseInProgress, Reentrancy).
NothingLeftOpen ==
  AtRest => purchase = NoPurchase /\ ~inSwap /\ activeTrade = Zero

\* Between transactions, the USDC paid for the wallets of an allocation in a
\* group is exactly the spend the ledger shows for it: partial fills, failed
\* settlements and re-entrant calls never part the two.
PaidIsRecorded ==
  AtRest =>
    \A a \in Allocations, g \in Groups :
      PaidTogether(paid, MembersOf(a), g) = SpentInGroup(spentByAllocation, a, g)

\* What a transaction leaves behind: no lock, and books that match the money.
SettledAtRest == NothingLeftOpen /\ PaidIsRecorded

\* The most a wallet signed for under one nonce, and under all of some nonces.
SignedUnder(w, n) ==
  Max({0} \cup {t.amountIn : t \in {s \in signedTrades : s.wallet = w /\ s.nonce = n}})
SignedInAll(w, nonces) == SumFunctionOnSet([n \in nonces |-> SignedUnder(w, n)], nonces)

\* What a wallet paid is covered by its signatures, one trade for each nonce:
\* no intent is executed twice and none beyond its amountIn.
PaidWithinSignatures ==
  AtRest => \A w \in Wallets : PaidInAll(w) <= SignedInAll(w, usedTradeNonce)

\* What a human has paid in a group, once the transaction in progress is
\* counted as nothing until it ends.
PaidInTheEnd(a, g) == PaidTogether(IF AtRest THEN paid ELSE saved.paid, MembersOf(a), g)

Human == INSTANCE HumanBudget WITH
  Humans  <- Allocations,
  Budgets <- Groups,
  cap     <- [g \in Groups |-> Max({policyByGroupPeriod[<<g, p>>].cap : p \in Periods})],
  bought  <- [ag \in Allocations \X Groups |-> PaidInTheEnd(ag[1], ag[2])]

\* Seen from outside, the marketplace is one capped budget for each human and
\* group, in money that changed hands: the same promise the single market keeps.
ImplementsHumanBudget == Human!Spec

\* Spend is recorded only for an offering that is open, on terms the buyer
\* signed for the router that swaps, while the buyer has a tier and no
\* unlifted revocation.
SpendNeedsEligibility ==
  [][\A a \in Allocations, b \in Groups \X Periods :
       spentByAllocation'[<<a, b>>] > spentByAllocation[<<a, b>>] =>
         LET id == poolToOffering[call.key]
             o  == offerings[id]
             w  == call.trade.wallet
         IN  /\ call.trade \in signedTrades /\ call.trade.executor = call.router
             /\ allocationIdByWallet[w] = a /\ b = <<o.groupId, o.periodId>>
             /\ ~o.paused /\ o.startTime <= now /\ now <= o.endTime
             /\ call.trade.version = o.version
             /\ ~Reg!PurchaseBlocked(id, w) /\ investorTier[<<id, w>>] # 0]_vars
=============================================================================
