----------------------- MODULE MarketplaceTradeProofs -----------------------
(***************************************************************************)
(* Proofs about the marketplace purchase, for every wallet, intent, pool   *)
(* and offering: what a transaction opens it closes, spend is recorded for *)
(* those who may buy, and money moves on a signature used once.            *)
(***************************************************************************)
EXTENDS MarketplaceTrade, SumTheorems

USE TradeAssumption

\* The registry and its ledger, with what is proved of them; now, and as they
\* were when the transaction began.
Offers == INSTANCE OfferingRegistryProofs
Before == INSTANCE OfferingRegistryProofs WITH
  owner <- saved.owner, backendSigner <- saved.backendSigner,
  authorizedHook <- saved.authorizedHook, allocationIdByWallet <- saved.allocationIdByWallet,
  policyByGroupPeriod <- saved.policyByGroupPeriod, spentByAllocation <- saved.spentByAllocation,
  highestSpendByGroupPeriod <- saved.highestSpendByGroupPeriod,
  quoteTokenByGroup <- saved.quoteTokenByGroup, usedNonce <- saved.usedNonce,
  authorizedIssuer <- saved.authorizedIssuer, offerings <- saved.offerings,
  groupUsed <- saved.groupUsed, poolToOffering <- saved.poolToOffering,
  tokenReviewed <- saved.tokenReviewed, investorTier <- saved.investorTier,
  revocationEpoch <- saved.revocationEpoch, restoredEpoch <- saved.restoredEpoch,
  restorations <- saved.restorations, approvedRwa <- saved.approvedRwa

-----------------------------------------------------------------------------
(* The parts of the invariant *)

\* The call, up to the pool's swap and after it.
SwapCalls ==
  [phase : {"unlocked", "swapping"}, router : {Executor, OtherRouter}, key : PoolKeys,
   trade : Trades, amountIn : {t.amountIn : t \in Trades}]

CallOK ==
  /\ call.phase \in {"unlocked", "swapping"} =>
       call \in SwapCalls /\ saved.usedTradeNonce \subseteq usedTradeNonce
  /\ call.phase = "unlocked" => saved.usedTradeNonce = usedTradeNonce

\* The hook's purchase is open during the pool's swap only, and the executor's
\* lock and intent during a transaction only.
OpenOK ==
  /\ purchase # NoPurchase => call.phase = "swapping"
  /\ call.phase = "idle" => inSwap = FALSE /\ activeTrade = Zero

\* The purchase the hook opened is the one the intent in hand allows: nothing
\* moves between the hook's two callbacks.
SwapOK ==
  call.phase = "swapping" =>
    LET id == poolToOffering[call.key]
        o  == offerings[id]
        w  == call.trade.wallet
    IN  /\ call.trade \in signedTrades /\ call.trade.executor = call.router
        /\ call.trade.nonce \in usedTradeNonce /\ call.trade.nonce \notin saved.usedTradeNonce
        /\ purchase.trader = w
        /\ purchase.groupId = o.groupId /\ purchase.periodId = o.periodId
        /\ purchase.quotedInput = call.trade.amountIn
        /\ ~o.paused /\ o.startTime <= now /\ now <= o.endTime
        /\ call.trade.version = o.version
        /\ ~Reg!PurchaseBlocked(id, w) /\ investorTier[<<id, w>>] # 0

\* What is being settled is covered by its intent.
SettleOK ==
  call.phase = "settling" =>
    /\ "phase" \in DOMAIN call
    /\ call.trade \in signedTrades
    /\ call.trade.nonce \in usedTradeNonce /\ call.trade.nonce \notin saved.usedTradeNonce
    /\ call.settled \in Nat /\ call.settled <= call.trade.amountIn

\* A revert goes back to a state between two transactions, with no more spend
\* and no more payments than now.
Spends   == [Allocations \X (Groups \X Periods) -> Nat]
Payments == [Wallets \X Groups -> Nat]

SavedOK ==
  /\ spentByAllocation \in Spends /\ paid \in Payments
  /\ call.phase # "idle" =>
       /\ saved.purchase = NoPurchase /\ saved.inSwap = FALSE /\ saved.activeTrade = Zero
       /\ saved.spentByAllocation \in Spends /\ saved.paid \in Payments
       /\ \A x \in DOMAIN spentByAllocation : saved.spentByAllocation[x] <= spentByAllocation[x]
       /\ \A x \in DOMAIN paid : saved.paid[x] <= paid[x]

Inv == CallOK /\ OpenOK /\ SwapOK /\ SettleOK /\ SavedOK

-----------------------------------------------------------------------------
(* The registry never touches spend *)

\* Nothing an issuer, the platform or a registration does moves spend.
LEMMA RegistryLeavesSpend ==
  ASSUME Reg!RegistryNext \/ Reg!Register
  PROVE  spentByAllocation' = spentByAllocation
<1> USE DEF Reg!ledgerVars
<1>1. CASE Reg!PlatformNext
  BY <1>1
  DEF Reg!PlatformNext, Reg!AuthorizeIssuer, Reg!ReviewToken, Reg!RevokeWallet, Reg!Revoke
<1>2. ASSUME NEW c \in Accounts, Reg!IssuerNext(c)
      PROVE  spentByAllocation' = spentByAllocation
  <2>1. CASE \E rwa \in Tokens, g \in Groups \cup {Zero}, p \in Periods, cap \in Amounts,
                start, end \in 0..MaxTime : Reg!CreateOffering(c, rwa, g, p, cap, start, end)
    BY <2>1 DEF Reg!CreateOffering, Reg!Ledger!SetPolicy, Reg!Ledger!spendVars
  <2>2. ASSUME NEW id \in Reg!OfferingIds, Reg!OfferingNext(c, id)
        PROVE  spentByAllocation' = spentByAllocation
    <3>1. CASE \E cap \in Amounts : Reg!UpdateCap(c, id, cap)
      BY <3>1 DEF Reg!UpdateCap, Reg!Ledger!SetPolicy, Reg!Ledger!spendVars
    <3>2. CASE \/ \E end \in 0..MaxTime : Reg!UpdateEndTime(c, id, end)
               \/ \E paused \in BOOLEAN : Reg!SetPaused(c, id, paused)
               \/ \E operator \in Accounts \cup {Zero} : Reg!SetLiquidityOperator(c, id, operator)
               \/ \E key \in PoolKeys : Reg!RegisterPool(c, id, key)
      BY <3>2
      DEF Reg!UpdateEndTime, Reg!SetPaused, Reg!SetLiquidityOperator, Reg!RegisterPool
    <3>3. CASE \E w \in Wallets \cup {Zero} :
                 \/ \E tier \in 0..3 : Reg!SetInvestorTier(c, id, w, tier)
                 \/ Reg!RevokeOfferingWallet(c, id, w)
      BY <3>3 DEF Reg!SetInvestorTier, Reg!RevokeOfferingWallet, Reg!Revoke
    <3> QED BY <2>2, <3>1, <3>2, <3>3 DEF Reg!OfferingNext
  <2> QED BY <1>2, <2>1, <2>2 DEF Reg!IssuerNext
<1>3. CASE \E auth \in Reg!Restorations : Reg!RestoreWallet(auth)
  BY <1>3 DEF Reg!RestoreWallet
<1>4. CASE Reg!Register
  BY <1>4 DEF Reg!Register, Reg!Ledger!Register, Reg!Ledger!RegisterWallet, Reg!Ledger!spendVars
<1> QED BY <1>1, <1>2, <1>3, <1>4 DEF Reg!RegistryNext

-----------------------------------------------------------------------------
(* One step at a time *)

\* Steps between two calls, and those of the token while it has control.
LEMMA OutsideKeeps ==
  ASSUME Inv, OutsideCall \/ Tick
         \/ (\E trade \in Trades : SignTrade(trade))
         \/ (\E caller \in {Platform}, router \in {Executor, OtherRouter, Zero} :
               SetTrustedRouter(caller, router))
  PROVE  Inv'
<1>1. /\ call.phase \in {"idle", "taking"}
      /\ UNCHANGED <<call, saved, purchase, usedTradeNonce, inSwap, activeTrade, paid>>
      /\ spentByAllocation' = spentByAllocation
  <2>1. CASE OutsideCall
    BY <2>1, RegistryLeavesSpend DEF OutsideCall, hookVars, executorVars
  <2>2. CASE Tick
    BY <2>2 DEF Tick, Reg!Tick, Reg!Ledger!Tick, Reg!Ledger!ledgerVars, Reg!Ledger!spendVars,
                hookVars, executorVars
  <2>3. CASE \E trade \in Trades : SignTrade(trade)
    BY <2>3 DEF SignTrade, chainVars, ledgerVars, hookVars, executorVars
  <2>4. CASE \E caller \in {Platform}, router \in {Executor, OtherRouter, Zero} :
               SetTrustedRouter(caller, router)
    BY <2>4 DEF SetTrustedRouter, ledgerVars, executorVars
  <2> QED BY <2>1, <2>2, <2>3, <2>4
<1> QED BY <1>1 DEF Inv, CallOK, OpenOK, SwapOK, SettleOK, SavedOK

\* A swap begins.
LEMMA BeginKeeps ==
  ASSUME Inv, NEW key \in PoolKeys, NEW trade \in Trades,
         SwapWithIntent(key, trade) \/ SwapElsewhere(key, trade)
  PROVE  Inv'
<1>1. PICK router \in {Executor, OtherRouter} :
        call' = [phase |-> "unlocked", router |-> router, key |-> key, trade |-> trade,
                 amountIn |-> trade.amountIn]
  BY DEF SwapWithIntent, SwapElsewhere
<1>2. /\ call.phase = "idle" /\ saved' = Snapshot
      /\ UNCHANGED <<spentByAllocation, purchase, usedTradeNonce, paid>>
  BY DEF SwapWithIntent, SwapElsewhere, chainVars, ledgerVars, hookVars
<1>3. call' \in SwapCalls /\ call'.phase = "unlocked"
  BY <1>1 DEF SwapCalls
<1>4. purchase = NoPurchase /\ inSwap = FALSE /\ activeTrade = Zero
  BY <1>2 DEF Inv, OpenOK
<1>5. /\ saved'.usedTradeNonce = usedTradeNonce /\ saved'.purchase = NoPurchase
      /\ saved'.inSwap = FALSE /\ saved'.activeTrade = Zero
      /\ saved'.spentByAllocation = spentByAllocation /\ saved'.paid = paid
  BY <1>2, <1>4 DEF Snapshot
<1>6. CallOK' /\ OpenOK' /\ SwapOK' /\ SettleOK'
  BY <1>2, <1>3, <1>4, <1>5 DEF CallOK, OpenOK, SwapOK, SettleOK
<1>7. SavedOK'
  BY <1>2, <1>5 DEF SavedOK, Spends, Payments, Inv
<1> QED BY <1>6, <1>7 DEF Inv

\* The hook admits a purchase: the call leaves its first phase as the checks found it.
LEMMA BeforeSwapKeeps ==
  ASSUME Inv, BeforeSwap
  PROVE  Inv'
<1>1. /\ call.phase = "unlocked" /\ call \in SwapCalls
      /\ saved.usedTradeNonce = usedTradeNonce
      /\ UNCHANGED <<spentByAllocation, inSwap, activeTrade, paid, saved, signedTrades, now,
                     offerings, poolToOffering, investorTier, revocationEpoch, restoredEpoch>>
  BY DEF BeforeSwap, ledgerVars, registryVars, executorVars, Inv, CallOK
<1>2. call' = [call EXCEPT !.phase = "swapping"]
  BY DEF BeforeSwap
<1>3. /\ call' \in SwapCalls /\ call'.phase = "swapping"
      /\ call'.key = call.key /\ call'.trade = call.trade /\ call'.router = call.router
  BY <1>1, <1>2 DEF SwapCalls
<1>4. usedTradeNonce' = usedTradeNonce \cup {call.trade.nonce}
  BY DEF BeforeSwap
<1>5. CallOK'
  BY <1>1, <1>3, <1>4 DEF CallOK
<1>6. OpenOK' /\ SettleOK'
  BY <1>3 DEF OpenOK, SettleOK
<1>7. SwapOK'
  <2> DEFINE id == poolToOffering[call.key]
             o  == offerings[id]
             w  == call.trade.wallet
  <2>1. /\ CheckOffering(o, call.key)
        /\ CheckIntent(call.trade, call.key, call.amountIn)
        /\ WalletAllowed(id, w) /\ investorTier[<<id, w>>] # 0
        /\ TrustedSender(call.router)
        /\ purchase' = [active |-> TRUE, trader |-> w, groupId |-> o.groupId,
                        periodId |-> o.periodId, quotedInput |-> call.amountIn]
    BY DEF BeforeSwap, Buyer
  <2>2. /\ call.trade \in signedTrades /\ call.trade.executor = call.router
        /\ call.trade.nonce \notin usedTradeNonce
        /\ call.trade.amountIn = call.amountIn /\ call.trade.version = o.version
    BY <2>1 DEF CheckIntent, TradeNonceUnused, VersionMatches, TrustedSender
  <2>3. ~o.paused /\ o.startTime <= now /\ now <= o.endTime
    BY <2>1 DEF CheckOffering
  <2>4. ~Reg!PurchaseBlocked(id, w)
    BY <2>1 DEF WalletAllowed
  <2>5. /\ purchase'.trader = w /\ purchase'.groupId = o.groupId
        /\ purchase'.periodId = o.periodId /\ purchase'.quotedInput = call.amountIn
    BY <2>1
  <2>6. poolToOffering'[call'.key] = id /\ offerings'[id] = o /\ call'.trade.wallet = w
    BY <1>1, <1>3
  <2> QED BY <1>1, <1>3, <1>4, <2>1, <2>2, <2>3, <2>4, <2>5, <2>6 DEF SwapOK, Reg!PurchaseBlocked
<1>8. SavedOK'
  BY <1>1, <1>3 DEF SavedOK, Inv
<1> QED BY <1>5, <1>6, <1>7, <1>8 DEF Inv

\* What the hook records: the spend of one allocation in one budget grows.
LEMMA SpendRecorded ==
  ASSUME spentByAllocation \in Spends, NEW settled \in Amounts, NEW filled \in BOOLEAN,
         AfterSwap(settled, filled)
  PROVE  /\ spentByAllocation' \in Spends
         /\ \A x \in DOMAIN spentByAllocation :
              spentByAllocation[x] \in Nat /\ spentByAllocation'[x] >= spentByAllocation[x]
         /\ \A x \in DOMAIN spentByAllocation :
              spentByAllocation'[x] # spentByAllocation[x] =>
                x = <<allocationIdByWallet[purchase.trader], <<purchase.groupId, purchase.periodId>>>>
<1> DEFINE k == <<allocationIdByWallet[purchase.trader], <<purchase.groupId, purchase.periodId>>>>
<1>1. /\ spentByAllocation' = [spentByAllocation EXCEPT ![k] = spentByAllocation[k] + settled]
      /\ settled \in Nat
  BY DEF AfterSwap, Reg!Ledger!RecordSpend, Reg!Ledger!Increased, Reg!Ledger!Spent, SettledInput
<1> HIDE DEF k
<1>2. ASSUME NEW x \in DOMAIN spentByAllocation
      PROVE  /\ spentByAllocation[x] \in Nat
             /\ spentByAllocation'[x] \in Nat /\ spentByAllocation'[x] >= spentByAllocation[x]
             /\ spentByAllocation'[x] # spentByAllocation[x] => x = k
  <2>1. spentByAllocation[x] \in Nat
    BY DEF Spends
  <2>2. CASE x = k
    BY <1>1, <2>1, <2>2 DEF Spends
  <2>3. CASE x # k
    BY <1>1, <2>1, <2>3 DEF Spends
  <2> QED BY <2>1, <2>2, <2>3
<1>3. spentByAllocation' \in Spends
  BY <1>1, <1>2 DEF Spends
<1> QED BY <1>2, <1>3 DEF k

\* The hook records the fill and closes the purchase.
LEMMA AfterSwapKeeps ==
  ASSUME Inv, NEW settled \in Amounts, NEW filled \in BOOLEAN, AfterSwap(settled, filled)
  PROVE  Inv'
<1>1. /\ call.phase = "swapping"
      /\ UNCHANGED <<usedTradeNonce, inSwap, activeTrade, paid, saved, signedTrades>>
      /\ settled <= purchase.quotedInput
      /\ purchase' = NoPurchase
  BY DEF AfterSwap, executorVars, ClosedPurchase
<1>2. call' = [phase |-> "settling", router |-> call.router, trade |-> call.trade,
               groupId |-> purchase.groupId, settled |-> settled, filled |-> filled,
               key |-> call.key]
  BY DEF AfterSwap
<1>3. /\ call'.phase = "settling" /\ call'.trade = call.trade /\ call'.settled = settled
      /\ "phase" \in DOMAIN call'
  BY <1>2
<1>4. CallOK' /\ OpenOK' /\ SwapOK'
  BY <1>1, <1>3 DEF CallOK, OpenOK, SwapOK
<1>5. SettleOK'
  BY <1>1, <1>3 DEF SettleOK, SwapOK, Inv
<1>6. SavedOK'
  <2>1. /\ spentByAllocation \in Spends /\ saved.spentByAllocation \in Spends
        /\ \A x \in DOMAIN spentByAllocation : saved.spentByAllocation[x] <= spentByAllocation[x]
    BY <1>1 DEF SavedOK, Inv
  <2>2. /\ spentByAllocation' \in Spends
        /\ \A x \in DOMAIN spentByAllocation :
             spentByAllocation[x] \in Nat /\ spentByAllocation'[x] >= spentByAllocation[x]
    BY <2>1, SpendRecorded
  <2>3. ASSUME NEW x \in DOMAIN spentByAllocation
        PROVE  saved.spentByAllocation[x] <= spentByAllocation'[x]
    <3>1. /\ saved.spentByAllocation[x] \in Nat /\ spentByAllocation[x] \in Nat
          /\ spentByAllocation'[x] \in Nat
      BY <2>1, <2>2 DEF Spends
    <3> QED BY <2>1, <2>2, <3>1
  <2>4. DOMAIN spentByAllocation' = DOMAIN spentByAllocation
    BY <2>1, <2>2 DEF Spends
  <2> QED BY <1>1, <2>2, <2>3, <2>4 DEF SavedOK, Inv
<1> QED BY <1>4, <1>5, <1>6 DEF Inv

\* What settling pays: one wallet's payments in one group grow.
LEMMA PaymentMade ==
  ASSUME Inv, Settle
  PROVE  /\ paid' \in Payments
         /\ \A x \in DOMAIN paid :
              /\ paid[x] \in Nat /\ paid'[x] >= paid[x]
              /\ paid'[x] # paid[x] =>
                   x[1] = call.trade.wallet /\ paid'[x] - paid[x] = call.settled
<1> DEFINE k == <<call.trade.wallet, call.groupId>>
<1>1. /\ paid' = [paid EXCEPT ![k] = paid[k] + call.settled] /\ call.settled \in Nat
      /\ paid \in Payments
  BY DEF Settle, SettleOK, SavedOK, Inv
<1>2. k[1] = call.trade.wallet
  OBVIOUS
<1> HIDE DEF k
<1>3. ASSUME NEW x \in DOMAIN paid
      PROVE  /\ paid[x] \in Nat /\ paid'[x] \in Nat /\ paid'[x] >= paid[x]
             /\ paid'[x] # paid[x] => x = k /\ paid'[x] - paid[x] = call.settled
  <2>1. paid[x] \in Nat
    BY <1>1 DEF Payments
  <2>2. CASE x = k
    BY <1>1, <2>1, <2>2 DEF Payments
  <2>3. CASE x # k
    BY <1>1, <2>1, <2>3 DEF Payments
  <2> QED BY <2>1, <2>2, <2>3
<1>4. paid' \in Payments
  BY <1>1, <1>3 DEF Payments
<1> QED BY <1>2, <1>3, <1>4

\* The executor pays the pool what was filled.
LEMMA SettleKeeps ==
  ASSUME Inv, Settle
  PROVE  Inv'
<1>1. /\ call.phase = "settling"
      /\ UNCHANGED <<spentByAllocation, purchase, usedTradeNonce, inSwap, activeTrade, saved>>
  BY DEF Settle, ledgerVars, hookVars, executorVars
<1>2. call'.phase = "taking"
  BY <1>1 DEF Settle, SettleOK, Inv
<1>3. CallOK' /\ OpenOK' /\ SwapOK' /\ SettleOK'
  BY <1>1, <1>2 DEF CallOK, OpenOK, SwapOK, SettleOK, Inv
<1>4. SavedOK'
  <2>1. /\ paid \in Payments /\ saved.paid \in Payments
        /\ \A x \in DOMAIN paid : saved.paid[x] <= paid[x]
    BY <1>1 DEF SavedOK, Inv
  <2>2. /\ paid' \in Payments
        /\ \A x \in DOMAIN paid : paid[x] \in Nat /\ paid'[x] >= paid[x]
    BY PaymentMade
  <2>3. ASSUME NEW x \in DOMAIN paid
        PROVE  saved.paid[x] <= paid'[x]
    <3>1. saved.paid[x] \in Nat /\ paid[x] \in Nat /\ paid'[x] \in Nat
      BY <2>1, <2>2 DEF Payments
    <3> QED BY <2>1, <2>2, <3>1
  <2>4. DOMAIN paid' = DOMAIN paid
    BY <2>1, <2>2 DEF Payments
  <2> QED BY <1>1, <2>2, <2>3, <2>4 DEF SavedOK, Inv
<1> QED BY <1>3, <1>4 DEF Inv

\* The transaction ends, with the lock and the intent gone.
LEMMA ReturnKeeps ==
  ASSUME Inv, Return
  PROVE  Inv'
<1>1. /\ call.phase = "taking" /\ call'.phase = "idle"
      /\ inSwap' = FALSE /\ activeTrade' = Zero
      /\ UNCHANGED <<spentByAllocation, purchase, paid>>
  BY DEF Return, Idle, ledgerVars, hookVars
<1> QED BY <1>1 DEF Inv, CallOK, OpenOK, SwapOK, SettleOK, SavedOK

\* A revert restores a state that was between transactions.
LEMMA RevertKeeps ==
  ASSUME Inv, Revert
  PROVE  Inv'
<1>1. /\ call.phase # "idle" /\ call'.phase = "idle"
      /\ purchase' = saved.purchase /\ inSwap' = saved.inSwap /\ activeTrade' = saved.activeTrade
      /\ spentByAllocation' = saved.spentByAllocation /\ paid' = saved.paid
  BY DEF Revert, Restore, Idle
<1> QED BY <1>1 DEF Inv, CallOK, OpenOK, SwapOK, SettleOK, SavedOK

-----------------------------------------------------------------------------
(* The invariant *)

\* The deployed marketplace satisfies the invariant.
LEMMA InitInv ==
  Init => Inv
BY DEF Init, Reg!Init, Idle, Spends, Payments, Inv, CallOK, OpenOK, SwapOK, SettleOK, SavedOK

\* Every step keeps it.
LEMMA StepKeeps ==
  Inv /\ [Next]_vars => Inv'
<1> SUFFICES ASSUME Inv, [Next]_vars PROVE Inv'
  OBVIOUS
<1>1. CASE PurchaseStep
  BY <1>1, BeginKeeps, BeforeSwapKeeps, AfterSwapKeeps, SettleKeeps, ReturnKeeps, RevertKeeps
  DEF PurchaseStep
<1>2. CASE UNCHANGED vars
  BY <1>2
  DEF vars, chainVars, ledgerVars, registryVars, hookVars, executorVars, Inv, CallOK, OpenOK,
      SwapOK, SettleOK, SavedOK, Reg!PurchaseBlocked
<1> QED BY <1>1, <1>2, OutsideKeeps DEF Next

\* The invariant holds throughout.
THEOREM PurchaseInvariant ==
  Spec => []Inv
BY InitInv, StepKeeps, PTL DEF Spec

-----------------------------------------------------------------------------
(* What it says of every purchase *)

\* Between transactions no purchase is open, the executor is unlocked and has no
\* intent: no purchase is refused because of an earlier one.
THEOREM NothingStaysOpen ==
  Spec => []NothingLeftOpen
<1>1. Inv => NothingLeftOpen
  BY DEF Inv, OpenOK, NothingLeftOpen, AtRest
<1> QED BY PurchaseInvariant, <1>1, PTL

\* Spend grows in afterSwap only, money is paid by the settlement only.
LEMMA SpendGrows ==
  ASSUME Inv, [Next]_vars, NEW x \in Allocations \X (Groups \X Periods),
         spentByAllocation'[x] > spentByAllocation[x]
  PROVE  \E settled \in Amounts, filled \in BOOLEAN : AfterSwap(settled, filled)
<1>1. /\ spentByAllocation \in Spends /\ spentByAllocation[x] \in Nat
      /\ x \in DOMAIN spentByAllocation
  BY DEF Inv, SavedOK, Spends
<1>2. spentByAllocation' # spentByAllocation
  BY <1>1
<1>3. ~Revert
  <2>1. SUFFICES ASSUME Revert PROVE FALSE
    OBVIOUS
  <2>2. spentByAllocation' = saved.spentByAllocation /\ call.phase # "idle"
    BY <2>1 DEF Revert, Restore
  <2>3. /\ saved.spentByAllocation[x] \in Nat
        /\ saved.spentByAllocation[x] <= spentByAllocation[x]
    BY <1>1, <2>2 DEF Inv, SavedOK, Spends
  <2> QED BY <1>1, <2>2, <2>3
<1>4. ~OutsideCall
  BY <1>2, RegistryLeavesSpend DEF OutsideCall
<1>5. ~Tick
  BY <1>2 DEF Tick, Reg!Tick, Reg!Ledger!Tick, Reg!Ledger!ledgerVars, Reg!Ledger!spendVars
<1> QED
  BY <1>2, <1>3, <1>4, <1>5
  DEF Next, PurchaseStep, SwapWithIntent, SwapElsewhere, BeforeSwap, Settle, Return, SignTrade,
      SetTrustedRouter, vars, chainVars, ledgerVars

\* Money is paid by the settlement only: a revert takes payments back.
LEMMA PaymentGrows ==
  ASSUME Inv, [Next]_vars, NEW x \in Wallets \X Groups, paid'[x] > paid[x]
  PROVE  Settle
<1>1. paid \in Payments /\ paid[x] \in Nat /\ x \in DOMAIN paid
  BY DEF Inv, SavedOK, Payments
<1>2. paid' # paid
  BY <1>1
<1>3. ~Revert
  <2>1. SUFFICES ASSUME Revert PROVE FALSE
    OBVIOUS
  <2>2. paid' = saved.paid /\ call.phase # "idle"
    BY <2>1 DEF Revert, Restore
  <2>3. saved.paid[x] \in Nat /\ saved.paid[x] <= paid[x]
    BY <1>1, <2>2 DEF Inv, SavedOK, Payments
  <2> QED BY <1>1, <2>2, <2>3
<1> QED
  BY <1>2, <1>3
  DEF Next, PurchaseStep, SwapWithIntent, SwapElsewhere, BeforeSwap, AfterSwap, Return,
      OutsideCall, Tick, SignTrade, SetTrustedRouter, vars, chainVars

\* Spend is recorded only for the offering's budget, while it is open, on terms the
\* buyer signed for the router that swaps, and while the buyer may buy.
THEOREM SpendIsEligible ==
  Spec => SpendNeedsEligibility
<1> DEFINE May(a, b) ==
      LET id == poolToOffering[call.key]
          o  == offerings[id]
          w  == call.trade.wallet
      IN  /\ call.trade \in signedTrades /\ call.trade.executor = call.router
          /\ allocationIdByWallet[w] = a /\ b = <<o.groupId, o.periodId>>
          /\ ~o.paused /\ o.startTime <= now /\ now <= o.endTime
          /\ call.trade.version = o.version
          /\ ~Reg!PurchaseBlocked(id, w) /\ investorTier[<<id, w>>] # 0
<1>1. ASSUME Inv, [Next]_vars, NEW a \in Allocations, NEW b \in Groups \X Periods,
             spentByAllocation'[<<a, b>>] > spentByAllocation[<<a, b>>]
      PROVE  May(a, b)
  <2>1. PICK settled \in Amounts, filled \in BOOLEAN : AfterSwap(settled, filled)
    BY <1>1, SpendGrows
  <2>2. spentByAllocation \in Spends /\ <<a, b>> \in DOMAIN spentByAllocation
    BY <1>1 DEF Inv, SavedOK, Spends
  <2>3. spentByAllocation[<<a, b>>] \in Nat
    BY <2>2 DEF Spends
  <2>4. spentByAllocation'[<<a, b>>] # spentByAllocation[<<a, b>>]
    BY <1>1, <2>3
  <2>5. <<a, b>> = <<allocationIdByWallet[purchase.trader],
                     <<purchase.groupId, purchase.periodId>>>>
    BY <2>1, <2>2, <2>4, SpendRecorded
  <2>6. a = allocationIdByWallet[purchase.trader] /\ b = <<purchase.groupId, purchase.periodId>>
    BY <2>5
  <2>7. call.phase = "swapping"
    BY <2>1 DEF AfterSwap
  <2> QED BY <1>1, <2>6, <2>7 DEF Inv, SwapOK
<1>2. Inv /\ [Next]_vars =>
        \A a \in Allocations, b \in Groups \X Periods :
          spentByAllocation'[<<a, b>>] > spentByAllocation[<<a, b>>] => May(a, b)
  BY <1>1
<1> QED BY <1>2, PurchaseInvariant, PTL DEF Spec, SpendNeedsEligibility

\* Money moves only for an intent its wallet signed, at most the amount it names,
\* and under a nonce that was unused when the transaction began.
PaidOnSignature ==
  [][\A w \in Wallets, g \in Groups :
       paid'[<<w, g>>] > paid[<<w, g>>] =>
         /\ call.trade \in signedTrades /\ call.trade.wallet = w
         /\ paid'[<<w, g>>] - paid[<<w, g>>] <= call.trade.amountIn
         /\ call.trade.nonce \in usedTradeNonce \ saved.usedTradeNonce]_vars

\* Whatever a wallet pays is for an intent it signed, at most for its amount, and
\* uses a nonce that was unused when the transaction began.
THEOREM PaymentsAreSigned ==
  Spec => PaidOnSignature
<1> DEFINE Signed(w, g) ==
      /\ call.trade \in signedTrades /\ call.trade.wallet = w
      /\ paid'[<<w, g>>] - paid[<<w, g>>] <= call.trade.amountIn
      /\ call.trade.nonce \in usedTradeNonce \ saved.usedTradeNonce
<1>1. ASSUME Inv, [Next]_vars, NEW w \in Wallets, NEW g \in Groups,
             paid'[<<w, g>>] > paid[<<w, g>>]
      PROVE  Signed(w, g)
  <2>1. Settle
    BY <1>1, PaymentGrows
  <2>2. <<w, g>> \in DOMAIN paid /\ paid[<<w, g>>] \in Nat
    BY <1>1 DEF Inv, SavedOK, Payments
  <2>3. call.trade.wallet = w /\ paid'[<<w, g>>] - paid[<<w, g>>] = call.settled
    BY <1>1, <2>1, <2>2, PaymentMade
  <2> QED BY <1>1, <2>1, <2>3 DEF Inv, SettleOK, Settle
<1>2. Inv /\ [Next]_vars =>
        \A w \in Wallets, g \in Groups : paid'[<<w, g>>] > paid[<<w, g>>] => Signed(w, g)
  BY <1>1
<1> QED BY <1>2, PurchaseInvariant, PTL DEF Spec, PaidOnSignature
-----------------------------------------------------------------------------
(* The books: what is recorded, paid and signed *)

\* The registry and its ledger are in order, and were when the transaction began.
RegistryOK ==
  /\ Offers!OfferingsInv /\ Offers!BudgetsInv
  /\ call.phase # "idle" => Before!OfferingsInv /\ Before!BudgetsInv

\* The pool that swaps is the pool of an offering.
PoolOK == call.phase = "swapping" => poolToOffering[call.key] # 0

\* A wallet that belongs to nobody paid nothing.
Bound(member, money) ==
  \A w \in Wallets : member[w] = Zero => \A g \in Groups : money[<<w, g>>] = 0

\* So it is, and was when the transaction began; nobody left an allocation since.
MembersOK ==
  /\ Bound(allocationIdByWallet, paid)
  /\ call.phase # "idle" =>
       /\ Bound(saved.allocationIdByWallet, saved.paid)
       /\ \A w \in Wallets : saved.allocationIdByWallet[w] # Zero =>
            allocationIdByWallet[w] = saved.allocationIdByWallet[w]

\* The call that still has to pay, for a registered wallet in an offering's group.
Settling == call.phase = "settling"

SettlingOK ==
  Settling =>
    /\ call.trade.wallet \in Wallets /\ call.groupId \in Groups
    /\ allocationIdByWallet[call.trade.wallet] # Zero

\* What the hook recorded and nobody has paid yet.
Owed(a, g) ==
  IF Settling /\ call.groupId = g /\ allocationIdByWallet[call.trade.wallet] = a
    THEN call.settled ELSE 0

\* The money paid and owed for a human is the spend recorded; when the
\* transaction began nothing was owed.
BooksOK ==
  /\ \A a \in Allocations, g \in Groups :
       PaidTogether(paid, MembersOf(a), g) + Owed(a, g) = SpentInGroup(spentByAllocation, a, g)
  /\ call.phase # "idle" =>
       \A a \in Allocations, g \in Groups :
         PaidTogether(saved.paid, {w \in Wallets : saved.allocationIdByWallet[w] = a}, g)
           = SpentInGroup(saved.spentByAllocation, a, g)

\* What a wallet signed for with a nonce the hook took, and may still be asked to pay.
Due(w) ==
  IF call.phase \in {"swapping", "settling"} /\ call.trade.wallet = w
    THEN call.trade.amountIn ELSE 0

\* What a wallet signed for under a nonce, the most of it, and all told.
SignedFor(S, w, n) == {0} \cup {t.amountIn : t \in {s \in S : s.wallet = w /\ s.nonce = n}}
Highest(S, w, n)   == Max(SignedFor(S, w, n))
SignedIn(S, w, nonces) == SumFunctionOnSet([n \in nonces |-> Highest(S, w, n)], nonces)

\* The nonces taken so far pay for the money and for what is due.
SignedOK ==
  /\ signedTrades \subseteq Trades /\ IsFiniteSet(signedTrades) /\ IsFiniteSet(usedTradeNonce)
  /\ \A w \in Wallets : InAllGroups(paid, w) + Due(w) <= SignedIn(signedTrades, w, usedTradeNonce)
  /\ call.phase # "idle" =>
       /\ IsFiniteSet(saved.usedTradeNonce)
       /\ \A w \in Wallets :
            InAllGroups(saved.paid, w) <= SignedIn(signedTrades, w, saved.usedTradeNonce)

Books == RegistryOK /\ PoolOK /\ MembersOK /\ SettlingOK /\ BooksOK /\ SignedOK
-----------------------------------------------------------------------------
(* The registry under a purchase *)

\* The deployment is one the registry's proofs are about.
LEMMA OffersAssumed == Offers!RegistryAssumption
BY DEF Offers!RegistryAssumption

\* The registry's calls are those its proofs are about.
LEMMA SameStep ==
  ASSUME Reg!RegistryNext \/ Reg!Register \/ Reg!Tick
  PROVE  Offers!Next
<1> USE DEF Reg!offeringVars, Offers!offeringVars, Reg!issuerVars, Offers!issuerVars,
            Reg!poolVars, Offers!poolVars, Reg!accessVars, Offers!accessVars,
            Reg!revokeVars, Offers!revokeVars, Reg!ledgerVars, Offers!ledgerVars
<1>1. Reg!PlatformNext => Offers!PlatformNext
  BY DEF Reg!PlatformNext, Offers!PlatformNext, Reg!AuthorizeIssuer, Offers!AuthorizeIssuer,
         Reg!ReviewToken, Offers!ReviewToken, Reg!RevokeWallet, Offers!RevokeWallet,
         Reg!Revoke, Offers!Revoke
<1>2. ASSUME NEW g, NEW p, NEW cap, Reg!Ledger!SetPolicy(Registry, g, p, cap, Usdc)
      PROVE  Offers!Ledger!SetPolicy(Registry, g, p, cap, Usdc)
  BY <1>2 DEF Reg!Ledger!SetPolicy, Offers!Ledger!SetPolicy,
              Reg!Ledger!CoversRecordedSpend, Offers!Ledger!CoversRecordedSpend,
              Reg!Ledger!KeepsQuoteToken, Offers!Ledger!KeepsQuoteToken,
              Reg!Ledger!roleVars, Offers!Ledger!roleVars, Reg!Ledger!memberVars,
              Offers!Ledger!memberVars, Reg!Ledger!spendVars, Offers!Ledger!spendVars
<1>3. ASSUME NEW c \in Accounts, NEW rwa \in Tokens, NEW g \in Groups \cup {Zero},
             NEW p \in Periods, NEW cap \in Amounts, NEW start \in 0..MaxTime,
             NEW end \in 0..MaxTime, Reg!CreateOffering(c, rwa, g, p, cap, start, end)
      PROVE  Offers!CreateOffering(c, rwa, g, p, cap, start, end)
  BY <1>2, <1>3 DEF Reg!CreateOffering, Offers!CreateOffering, Reg!FreshGroup, Offers!FreshGroup
<1>4. ASSUME NEW c \in Accounts, NEW id \in Reg!OfferingIds, Reg!OfferingNext(c, id)
      PROVE  Offers!OfferingNext(c, id)
  <2> USE DEF Reg!Editable, Offers!Editable, Reg!NextVersion, Offers!NextVersion
  <2>1. ASSUME NEW cap \in Amounts, Reg!UpdateCap(c, id, cap)
        PROVE  Offers!UpdateCap(c, id, cap)
    BY <1>2, <2>1 DEF Reg!UpdateCap, Offers!UpdateCap
  <2>2. ASSUME NEW end \in 0..MaxTime, Reg!UpdateEndTime(c, id, end)
        PROVE  Offers!UpdateEndTime(c, id, end)
    BY <2>2 DEF Reg!UpdateEndTime, Offers!UpdateEndTime
  <2>3. ASSUME NEW paused \in BOOLEAN, Reg!SetPaused(c, id, paused)
        PROVE  Offers!SetPaused(c, id, paused)
    BY <2>3 DEF Reg!SetPaused, Offers!SetPaused
  <2>4. ASSUME NEW operator \in Accounts \cup {Zero}, Reg!SetLiquidityOperator(c, id, operator)
        PROVE  Offers!SetLiquidityOperator(c, id, operator)
    BY <2>4 DEF Reg!SetLiquidityOperator, Offers!SetLiquidityOperator
  <2>5. ASSUME NEW key \in PoolKeys, Reg!RegisterPool(c, id, key)
        PROVE  Offers!RegisterPool(c, id, key)
    BY <2>5 DEF Reg!RegisterPool, Offers!RegisterPool, Reg!FreshPool, Offers!FreshPool
  <2>6. ASSUME NEW w \in Wallets \cup {Zero}, NEW tier \in 0..3, Reg!SetInvestorTier(c, id, w, tier)
        PROVE  Offers!SetInvestorTier(c, id, w, tier)
    BY <2>6 DEF Reg!SetInvestorTier, Offers!SetInvestorTier
  <2>7. ASSUME NEW w \in Wallets \cup {Zero}, Reg!RevokeOfferingWallet(c, id, w)
        PROVE  Offers!RevokeOfferingWallet(c, id, w)
    BY <2>7 DEF Reg!RevokeOfferingWallet, Offers!RevokeOfferingWallet, Reg!Revoke, Offers!Revoke
  <2> QED BY <1>4, <2>1, <2>2, <2>3, <2>4, <2>5, <2>6, <2>7 DEF Reg!OfferingNext, Offers!OfferingNext
<1>5. ASSUME NEW c \in Accounts, Reg!IssuerNext(c)
      PROVE  Offers!IssuerNext(c)
  BY <1>3, <1>4, <1>5 DEF Reg!IssuerNext, Offers!IssuerNext, Reg!OfferingIds, Offers!OfferingIds
<1>6. ASSUME NEW auth \in Reg!Restorations, Reg!RestoreWallet(auth)
      PROVE  auth \in Offers!Restorations /\ Offers!RestoreWallet(auth)
  BY <1>6 DEF Reg!RestoreWallet, Offers!RestoreWallet, Reg!CurrentEpoch, Offers!CurrentEpoch,
              Reg!ThroughEpoch, Offers!ThroughEpoch, Reg!UnusedRestoreNonce,
              Offers!UnusedRestoreNonce, Reg!Restorations, Offers!Restorations
<1>7. Reg!RegistryNext => Offers!RegistryNext
  BY <1>1, <1>5, <1>6 DEF Reg!RegistryNext, Offers!RegistryNext
<1>8. Reg!Register => Offers!Register
  BY DEF Reg!Register, Offers!Register, Reg!Ledger!Register, Offers!Ledger!Register,
         Reg!Ledger!RegisterWallet, Offers!Ledger!RegisterWallet, Reg!Ledger!UnusedNonce,
         Offers!Ledger!UnusedNonce, Reg!Ledger!KeepsAllocation, Offers!Ledger!KeepsAllocation,
         Reg!Ledger!Authorizations, Offers!Ledger!Authorizations, Reg!Ledger!roleVars,
         Offers!Ledger!roleVars, Reg!Ledger!policyVars, Offers!Ledger!policyVars,
         Reg!Ledger!spendVars, Offers!Ledger!spendVars, Reg!registryVars, Offers!registryVars
<1>9. Reg!Tick => Offers!Tick
  BY DEF Reg!Tick, Offers!Tick, Reg!Ledger!Tick, Offers!Ledger!Tick, Reg!Ledger!ledgerVars,
         Offers!Ledger!ledgerVars, Reg!Ledger!roleVars, Offers!Ledger!roleVars,
         Reg!Ledger!memberVars, Offers!Ledger!memberVars, Reg!Ledger!policyVars,
         Offers!Ledger!policyVars, Reg!Ledger!spendVars, Offers!Ledger!spendVars,
         Reg!registryVars, Offers!registryVars
<1> QED BY <1>7, <1>8, <1>9 DEF Offers!Next

\* The spend the hook records is that its proofs are about.
LEMMA SameSpend ==
  ASSUME NEW w, NEW g, NEW p, NEW n, Reg!Ledger!RecordSpend(Hook, w, g, p, n)
  PROVE  Offers!Ledger!RecordSpend(Hook, w, g, p, n)
BY DEF Reg!Ledger!RecordSpend, Offers!Ledger!RecordSpend, Reg!Ledger!HasBudget,
       Offers!Ledger!HasBudget, Reg!Ledger!FitsCap, Offers!Ledger!FitsCap, Reg!Ledger!Spent,
       Offers!Ledger!Spent, Reg!Ledger!Increased, Offers!Ledger!Increased,
       Reg!Ledger!HigherSpend, Offers!Ledger!HigherSpend, Reg!Ledger!roleVars,
       Offers!Ledger!roleVars, Reg!Ledger!memberVars, Offers!Ledger!memberVars,
       Reg!Ledger!policyVars, Offers!Ledger!policyVars

\* What a call to the registry keeps of it: a wallet that has an allocation keeps it.
LEMMA RegistrySteps ==
  ASSUME Offers!OfferingsInv, Offers!BudgetsInv,
         Reg!RegistryNext \/ Reg!Register \/ Reg!Tick
  PROVE  /\ Offers!OfferingsInv' /\ Offers!BudgetsInv'
         /\ \A w \in Wallets : allocationIdByWallet[w] # Zero =>
              allocationIdByWallet'[w] = allocationIdByWallet[w]
<1>1. Offers!Next
  BY SameStep
<1>2. Offers!OfferingsInv' /\ Offers!BudgetsInv'
  BY <1>1, OffersAssumed, Offers!OfferingsStep, Offers!BudgetsStep
<1>3. Offers!Register \/ UNCHANGED allocationIdByWallet
  BY <1>1, OffersAssumed, Offers!BudgetCases
<1>4. allocationIdByWallet \in [Wallets -> Allocations \cup {Zero}]
  BY DEF Offers!BudgetsInv
<1>5. ASSUME Offers!Register
      PROVE  \A w \in Wallets : allocationIdByWallet[w] # Zero =>
               allocationIdByWallet'[w] = allocationIdByWallet[w]
  BY <1>4, <1>5, OffersAssumed, Offers!Registered
<1> QED BY <1>2, <1>3, <1>5

\* The deployed registry is in order.
LEMMA RegistryInit ==
  ASSUME Reg!Init
  PROVE  Offers!OfferingsInv /\ Offers!BudgetsInv
<1>1. Offers!Init
  BY DEF Reg!Init, Offers!Init, Reg!OfferingIds, Offers!OfferingIds
<1> QED BY <1>1, OffersAssumed, Offers!OfferingsInit, Offers!BudgetsInit

\* Nothing of the registry is lost when nothing of it changes,
LEMMA RegistryStays ==
  ASSUME Offers!OfferingsInv, Offers!BudgetsInv, UNCHANGED <<ledgerVars, registryVars>>
  PROVE  Offers!OfferingsInv' /\ Offers!BudgetsInv'
BY DEF ledgerVars, registryVars, Offers!OfferingsInv, Offers!LedgerShape, Offers!OfferingsOK,
       Offers!GroupsTaken, Offers!GroupsDisjoint, Offers!CapMirrored, Offers!PoolsLeadBack,
       Offers!BudgetsInv, Offers!CountersOK, Offers!PoliciesOffered

\* nor of the one to go back to,
LEMMA SavedStays ==
  ASSUME Before!OfferingsInv, Before!BudgetsInv, saved' = saved
  PROVE  Before!OfferingsInv' /\ Before!BudgetsInv'
BY DEF Before!OfferingsInv, Before!LedgerShape, Before!OfferingsOK,
       Before!GroupsTaken, Before!GroupsDisjoint, Before!CapMirrored, Before!PoolsLeadBack,
       Before!BudgetsInv, Before!CountersOK, Before!PoliciesOffered

\* which a transaction takes at its beginning
LEMMA SnapshotTaken ==
  /\ Snapshot.owner = owner /\ Snapshot.allocationIdByWallet = allocationIdByWallet
  /\ Snapshot.policyByGroupPeriod = policyByGroupPeriod
  /\ Snapshot.spentByAllocation = spentByAllocation
  /\ Snapshot.highestSpendByGroupPeriod = highestSpendByGroupPeriod
  /\ Snapshot.offerings = offerings /\ Snapshot.groupUsed = groupUsed
  /\ Snapshot.poolToOffering = poolToOffering /\ Snapshot.approvedRwa = approvedRwa
  /\ Snapshot.usedTradeNonce = usedTradeNonce /\ Snapshot.paid = paid
BY DEF Snapshot

\* and keeps,
LEMMA RegistrySaved ==
  ASSUME Offers!OfferingsInv, Offers!BudgetsInv, saved' = Snapshot
  PROVE  Before!OfferingsInv' /\ Before!BudgetsInv'
<1>1. /\ saved'.owner = owner /\ saved'.allocationIdByWallet = allocationIdByWallet
      /\ saved'.policyByGroupPeriod = policyByGroupPeriod
      /\ saved'.spentByAllocation = spentByAllocation
      /\ saved'.highestSpendByGroupPeriod = highestSpendByGroupPeriod
      /\ saved'.offerings = offerings /\ saved'.groupUsed = groupUsed
      /\ saved'.poolToOffering = poolToOffering /\ saved'.approvedRwa = approvedRwa
  BY SnapshotTaken
<1>2. Before!LedgerShape' /\ Before!OfferingsOK' /\ Before!GroupsTaken'
  BY <1>1 DEF Offers!OfferingsInv, Offers!LedgerShape, Offers!OfferingsOK, Offers!GroupsTaken,
       Before!LedgerShape, Before!OfferingsOK, Before!GroupsTaken,
       Offers!Budgets, Before!Budgets, Offers!Offerings, Before!Offerings
<1>3. Before!GroupsDisjoint' /\ Before!CapMirrored' /\ Before!PoolsLeadBack'
  BY <1>1 DEF Offers!OfferingsInv, Offers!GroupsDisjoint, Offers!CapMirrored,
       Offers!PoolsLeadBack, Before!GroupsDisjoint, Before!CapMirrored, Before!PoolsLeadBack
<1>4. Before!BudgetsInv'
  BY <1>1 DEF Offers!BudgetsInv, Offers!CountersOK, Offers!PoliciesOffered,
       Before!BudgetsInv, Before!CountersOK, Before!PoliciesOffered, Offers!Budgets, Before!Budgets
<1> QED BY <1>2, <1>3, <1>4 DEF Before!OfferingsInv

\* and gets back when it reverts.
LEMMA RegistryRestored ==
  ASSUME Before!OfferingsInv, Before!BudgetsInv, Restore(saved)
  PROVE  Offers!OfferingsInv' /\ Offers!BudgetsInv'
<1>1. /\ owner' = saved.owner /\ allocationIdByWallet' = saved.allocationIdByWallet
      /\ policyByGroupPeriod' = saved.policyByGroupPeriod
      /\ spentByAllocation' = saved.spentByAllocation
      /\ highestSpendByGroupPeriod' = saved.highestSpendByGroupPeriod
      /\ offerings' = saved.offerings /\ groupUsed' = saved.groupUsed
      /\ poolToOffering' = saved.poolToOffering /\ approvedRwa' = saved.approvedRwa
  BY DEF Restore
<1>2. (Offers!LedgerShape /\ Offers!OfferingsOK /\ Offers!GroupsTaken)'
  BY <1>1 DEF Offers!LedgerShape, Offers!OfferingsOK, Offers!GroupsTaken, Before!OfferingsInv,
       Before!LedgerShape, Before!OfferingsOK, Before!GroupsTaken,
       Offers!Budgets, Before!Budgets, Offers!Offerings, Before!Offerings
<1>3. (Offers!GroupsDisjoint /\ Offers!CapMirrored /\ Offers!PoolsLeadBack)'
  BY <1>1 DEF Offers!GroupsDisjoint, Offers!CapMirrored, Offers!PoolsLeadBack,
       Before!OfferingsInv, Before!GroupsDisjoint, Before!CapMirrored, Before!PoolsLeadBack
<1>4. Offers!BudgetsInv'
  BY <1>1 DEF Offers!BudgetsInv, Offers!CountersOK, Offers!PoliciesOffered,
       Before!BudgetsInv, Before!CountersOK, Before!PoliciesOffered, Offers!Budgets, Before!Budgets
<1> QED BY <1>2, <1>3, <1>4 DEF Offers!OfferingsInv
-----------------------------------------------------------------------------
(* Sums of money and spend *)

\* What wallets paid together in a group, what a wallet paid in all of them, and
\* what a human spent in all the periods of one are amounts.
LEMMA SumsAreNat ==
  /\ \A money \in Payments, U \in SUBSET Wallets, g \in Groups : PaidTogether(money, U, g) \in Nat
  /\ \A money \in Payments, w \in Wallets : InAllGroups(money, w) \in Nat
  /\ \A spent \in Spends, a \in Allocations, g \in Groups : SpentInGroup(spent, a, g) \in Nat
<1>1. ASSUME NEW money \in Payments, NEW U \in SUBSET Wallets, NEW g \in Groups
      PROVE  PaidTogether(money, U, g) \in Nat
  <2> DEFINE f == [w \in Wallets |-> money[<<w, g>>]]
  <2>1. IsFiniteSet(U)
    BY TradeIsFinite, FS_Subset
  <2>2. \A w \in U : f[w] \in Nat
    BY DEF Payments
  <2>3. SumFunctionOnSet(f, U) \in Nat
    <3> HIDE DEF f
    <3> QED BY <2>1, <2>2, SumNat
  <2> QED BY <2>3 DEF PaidTogether
<1>2. ASSUME NEW money \in Payments, NEW w \in Wallets
      PROVE  InAllGroups(money, w) \in Nat
  <2> DEFINE f == [g \in Groups |-> money[<<w, g>>]]
  <2>1. \A g \in Groups : f[g] \in Nat
    BY DEF Payments
  <2>2. SumFunctionOnSet(f, Groups) \in Nat
    <3> HIDE DEF f
    <3> QED BY <2>1, TradeIsFinite, SumNat
  <2> QED BY <2>2 DEF InAllGroups
<1>3. ASSUME NEW spent \in Spends, NEW a \in Allocations, NEW g \in Groups
      PROVE  SpentInGroup(spent, a, g) \in Nat
  <2> DEFINE f == [p \in Periods |-> spent[<<a, <<g, p>>>>]]
  <2>1. \A p \in Periods : f[p] \in Nat
    BY DEF Spends
  <2>2. SumFunctionOnSet(f, Periods) \in Nat
    <3> HIDE DEF f
    <3> QED BY <2>1, TradeIsFinite, SumNat
  <2> QED BY <2>2 DEF SpentInGroup
<1> QED BY <1>1, <1>2, <1>3

\* A value that grows at one point makes the sum grow by as much.
LEMMA SumGrows ==
  ASSUME NEW f, NEW h, NEW S, IsFiniteSet(S), NEW y, NEW n \in Nat,
         \A x \in S : f[x] \in Nat,
         \A x \in S \ {y} : h[x] = f[x],
         y \in S => h[y] = f[y] + n
  PROVE  SumFunctionOnSet(h, S) = SumFunctionOnSet(f, S) + (IF y \in S THEN n ELSE 0)
<1>1. \A x \in S : f[x] \in Nat /\ h[x] \in Nat
  <2>1. ASSUME NEW x \in S PROVE f[x] \in Nat /\ h[x] \in Nat
    <3>1. CASE x = y
      BY <3>1
    <3>2. CASE x # y
      BY <3>2
    <3> QED BY <3>1, <3>2
  <2> QED BY <2>1
<1>2. SumFunctionOnSet(f, S) \in Nat
  BY <1>1, SumNat
<1>3. CASE y \in S
  <2>1. \A x \in S \ {y} : f[x] = h[x]
    OBVIOUS
  <2>2. SumFunctionOnSet(h, S) = SumFunctionOnSet(f, S) + (h[y] - f[y])
    BY <1>1, <1>3, <2>1, SumPoint
  <2>3. h[y] - f[y] = n
    BY <1>3
  <2> QED BY <1>3, <2>2, <2>3
<1>4. CASE y \notin S
  <2>1. \A x \in S : f[x] = h[x]
    BY <1>4
  <2>2. SumFunctionOnSet(f, S) = SumFunctionOnSet(h, S)
    BY <2>1, SumEqual
  <2> QED BY <1>2, <1>4, <2>2
<1> QED BY <1>3, <1>4

\* A payment of one wallet in one group.
Pays(money, new, w, g, n) ==
  \A x \in Wallets \X Groups : new[x] = IF x = <<w, g>> THEN money[x] + n ELSE money[x]

\* It is one of every set of wallets the wallet is in,
LEMMA OnePays ==
  ASSUME NEW money \in Payments, NEW new, NEW U \in SUBSET Wallets, NEW g \in Groups,
         NEW v, NEW h, NEW n \in Nat, Pays(money, new, v, h, n)
  PROVE  PaidTogether(new, U, g)
           = PaidTogether(money, U, g) + (IF h = g /\ v \in U THEN n ELSE 0)
<1> DEFINE e == [w \in Wallets |-> money[<<w, g>>]]
           f == [w \in Wallets |-> new[<<w, g>>]]
           m == IF h = g THEN n ELSE 0
<1>1. IsFiniteSet(U)
  BY TradeIsFinite, FS_Subset
<1>2. ASSUME NEW w \in U
      PROVE  e[w] \in Nat /\ f[w] = IF w = v THEN e[w] + m ELSE e[w]
  <2>1. /\ money[<<w, g>>] \in Nat
        /\ new[<<w, g>>] = IF <<w, g>> = <<v, h>> THEN money[<<w, g>>] + n ELSE money[<<w, g>>]
    BY DEF Payments, Pays
  <2> QED BY <2>1
<1>3. m \in Nat
  OBVIOUS
<1>4. SumFunctionOnSet(f, U) = SumFunctionOnSet(e, U) + (IF v \in U THEN m ELSE 0)
  <2> HIDE DEF e, f, m
  <2>1. \A w \in U : e[w] \in Nat
    BY <1>2
  <2>2. \A w \in U \ {v} : f[w] = e[w]
    BY <1>2
  <2>3. v \in U => f[v] = e[v] + m
    BY <1>2
  <2> QED BY <1>1, <1>3, <2>1, <2>2, <2>3, SumGrows
<1> QED BY <1>4 DEF PaidTogether

\* and one in the groups together.
LEMMA OnePaysInAll ==
  ASSUME NEW money \in Payments, NEW new, NEW w \in Wallets,
         NEW v, NEW h \in Groups, NEW n \in Nat, Pays(money, new, v, h, n)
  PROVE  InAllGroups(new, w) = InAllGroups(money, w) + (IF v = w THEN n ELSE 0)
<1> DEFINE e == [g \in Groups |-> money[<<w, g>>]]
           f == [g \in Groups |-> new[<<w, g>>]]
           m == IF v = w THEN n ELSE 0
<1>1. ASSUME NEW g \in Groups
      PROVE  e[g] \in Nat /\ f[g] = IF g = h THEN e[g] + m ELSE e[g]
  <2>1. /\ money[<<w, g>>] \in Nat
        /\ new[<<w, g>>] = IF <<w, g>> = <<v, h>> THEN money[<<w, g>>] + n ELSE money[<<w, g>>]
    BY DEF Payments, Pays
  <2> QED BY <2>1
<1>2. m \in Nat
  OBVIOUS
<1>3. SumFunctionOnSet(f, Groups) = SumFunctionOnSet(e, Groups) + (IF h \in Groups THEN m ELSE 0)
  <2> HIDE DEF e, f, m
  <2>1. \A g \in Groups : e[g] \in Nat
    BY <1>1
  <2>2. \A g \in Groups \ {h} : f[g] = e[g]
    BY <1>1
  <2>3. h \in Groups => f[h] = e[h] + m
    BY <1>1
  <2> QED BY <1>2, <2>1, <2>2, <2>3, TradeIsFinite, SumGrows
<1> QED BY <1>3 DEF InAllGroups

\* Spend recorded for a human in one budget
Records(spent, new, a, b, n) ==
  \A x \in Allocations \X (Groups \X Periods) :
    new[x] = IF x = <<a, b>> THEN spent[x] + n ELSE spent[x]

\* is spend in its group.
LEMMA OneSpends ==
  ASSUME NEW spent \in Spends, NEW a \in Allocations, NEW g \in Groups, NEW j \in Allocations,
         NEW h \in Groups, NEW q \in Periods, NEW n \in Nat, NEW new,
         Records(spent, new, j, <<h, q>>, n)
  PROVE  SpentInGroup(new, a, g) = SpentInGroup(spent, a, g) + (IF h = g /\ j = a THEN n ELSE 0)
<1> DEFINE e == [p \in Periods |-> spent[<<a, <<g, p>>>>]]
           f == [p \in Periods |-> new[<<a, <<g, p>>>>]]
           m == IF h = g /\ j = a THEN n ELSE 0
<1>1. ASSUME NEW p \in Periods
      PROVE  e[p] \in Nat /\ f[p] = IF p = q THEN e[p] + m ELSE e[p]
  <2> DEFINE x == <<a, <<g, p>>>>
             k == <<j, <<h, q>>>>
  <2>1. x \in Allocations \X (Groups \X Periods)
    OBVIOUS
  <2>2. spent[x] \in Nat /\ new[x] = IF x = k THEN spent[x] + n ELSE spent[x]
    BY <2>1 DEF Spends, Records
  <2>3. x = k <=> a = j /\ g = h /\ p = q
    OBVIOUS
  <2>4. e[p] = spent[x] /\ f[p] = new[x]
    OBVIOUS
  <2> HIDE DEF x, k, e, f
  <2> QED BY <2>2, <2>3, <2>4
<1>2. m \in Nat
  OBVIOUS
<1>3. SumFunctionOnSet(f, Periods) = SumFunctionOnSet(e, Periods) + (IF q \in Periods THEN m ELSE 0)
  <2> HIDE DEF e, f, m
  <2>1. \A p \in Periods : e[p] \in Nat
    BY <1>1
  <2>2. \A p \in Periods \ {q} : f[p] = e[p]
    BY <1>1
  <2>3. q \in Periods => f[q] = e[q] + m
    BY <1>1
  <2>4. IsFiniteSet(Periods)
    BY TradeIsFinite
  <2> QED BY ONLY <1>2, <2>1, <2>2, <2>3, <2>4, SumGrows
<1> QED BY <1>3 DEF SpentInGroup

\* Who spent more in every budget spent more in every group.
LEMMA MoreSpent ==
  ASSUME NEW spent \in Spends, NEW new \in Spends, NEW a \in Allocations, NEW g \in Groups,
         \A x \in Allocations \X (Groups \X Periods) : spent[x] <= new[x]
  PROVE  SpentInGroup(spent, a, g) <= SpentInGroup(new, a, g)
<1> DEFINE e == [p \in Periods |-> spent[<<a, <<g, p>>>>]]
           f == [p \in Periods |-> new[<<a, <<g, p>>>>]]
<1>1. \A p \in Periods : e[p] \in Nat /\ f[p] \in Nat /\ e[p] <= f[p]
  BY DEF Spends
<1>2. SumFunctionOnSet(e, Periods) <= SumFunctionOnSet(f, Periods)
  <2> HIDE DEF e, f
  <2> QED BY <1>1, TradeIsFinite, SumMonotone
<1> QED BY <1>2 DEF SpentInGroup

\* Wallets that paid nothing may join.
LEMMA UnpaidJoin ==
  ASSUME NEW money \in Payments, NEW U, NEW V, U \subseteq V, V \subseteq Wallets,
         NEW g \in Groups, \A w \in V \ U : money[<<w, g>>] = 0
  PROVE  PaidTogether(money, V, g) = PaidTogether(money, U, g)
<1> DEFINE f == [w \in Wallets |-> money[<<w, g>>]]
<1>1. IsFiniteSet(V)
  BY TradeIsFinite, FS_Subset
<1>2. (\A w \in V : f[w] \in Nat) /\ \A w \in V \ U : f[w] = 0
  BY DEF Payments
<1>3. SumFunctionOnSet(f, V) = SumFunctionOnSet(f, U)
  <2> HIDE DEF f
  <2> QED BY <1>1, <1>2, SumSupport
<1> QED BY <1>3 DEF PaidTogether

\* Before anybody paid or spent, the sums are 0.
LEMMA NothingYet ==
  /\ \A U \in SUBSET Wallets, g \in Groups :
       PaidTogether([x \in Wallets \X Groups |-> 0], U, g) = 0
  /\ \A w \in Wallets : InAllGroups([x \in Wallets \X Groups |-> 0], w) = 0
  /\ \A a \in Allocations, g \in Groups :
       SpentInGroup([x \in Allocations \X (Groups \X Periods) |-> 0], a, g) = 0
<1>1. ASSUME NEW U \in SUBSET Wallets, NEW g \in Groups
      PROVE  PaidTogether([x \in Wallets \X Groups |-> 0], U, g) = 0
  <2> DEFINE f == [w \in Wallets |-> [x \in Wallets \X Groups |-> 0][<<w, g>>]]
  <2>1. IsFiniteSet(U)
    BY TradeIsFinite, FS_Subset
  <2>2. \A w \in U : f[w] = 0
    OBVIOUS
  <2>3. SumFunctionOnSet(f, U) = 0
    <3> HIDE DEF f
    <3> QED BY <2>1, <2>2, SumZero
  <2> QED BY <2>3 DEF PaidTogether
<1>2. ASSUME NEW w \in Wallets
      PROVE  InAllGroups([x \in Wallets \X Groups |-> 0], w) = 0
  <2> DEFINE f == [g \in Groups |-> [x \in Wallets \X Groups |-> 0][<<w, g>>]]
  <2>1. \A g \in Groups : f[g] = 0
    OBVIOUS
  <2>2. SumFunctionOnSet(f, Groups) = 0
    <3> HIDE DEF f
    <3> QED BY <2>1, TradeIsFinite, SumZero
  <2> QED BY <2>2 DEF InAllGroups
<1>3. ASSUME NEW a \in Allocations, NEW g \in Groups
      PROVE  SpentInGroup([x \in Allocations \X (Groups \X Periods) |-> 0], a, g) = 0
  <2> DEFINE f == [p \in Periods |->
                     [x \in Allocations \X (Groups \X Periods) |-> 0][<<a, <<g, p>>>>]]
  <2>1. \A p \in Periods : f[p] = 0
    OBVIOUS
  <2>2. SumFunctionOnSet(f, Periods) = 0
    <3> HIDE DEF f
    <3> QED BY <2>1, TradeIsFinite, SumZero
  <2> QED BY <2>2 DEF SpentInGroup
<1> QED BY <1>1, <1>2, <1>3

-----------------------------------------------------------------------------
(* Signatures *)

\* The greatest of finitely many amounts is one of them.
LEMMA MaxOf ==
  ASSUME NEW S, IsFiniteSet(S), S # {}, \A x \in S : x \in Nat
  PROVE  Max(S) \in S /\ \A y \in S : y <= Max(S)
<1>1. PICK x \in S : \A y \in S : y <= x
  BY Extremes
<1>2. \A y \in S : x >= y
  <2>1. ASSUME NEW y \in S PROVE x >= y
    <3>1. x \in Nat /\ y \in Nat /\ y <= x
      BY <1>1
    <3> QED BY <3>1
  <2> QED BY <2>1
<1>3. Max(S) \in S /\ \A y \in S : Max(S) >= y
  BY <1>2 DEF Max
<1>4. ASSUME NEW y \in S PROVE y <= Max(S)
  <2>1. Max(S) \in Nat /\ y \in Nat /\ Max(S) >= y
    BY <1>3
  <2> QED BY <2>1
<1> QED BY <1>3, <1>4

\* The values of a function on a set,
ValuesOn(f, S) == {f[x] : x \in S}

\* finitely many if the set is finite.
LEMMA FinitelyMany ==
  ASSUME NEW S, IsFiniteSet(S), NEW f
  PROVE  IsFiniteSet(ValuesOn(f, S))
<1> DEFINE h == [x \in S |-> f[x]]
<1>1. h \in Surjection(S, ValuesOn(f, S))
  BY DEF Surjection, ValuesOn
<1> QED BY <1>1, FS_Surjection

\* The invariant says of the intents signed what the model says.
LEMMA SignedNow ==
  \A w, nonces : SignedInAll(w, nonces) = SignedIn(signedTrades, w, nonces)
BY DEF SignedInAll, SignedUnder, SignedIn, Highest, SignedFor

\* The most a wallet signed for is an amount, and no signature of the wallet is
\* for more.
LEMMA HighestSigned ==
  ASSUME NEW S \in SUBSET Trades, IsFiniteSet(S), NEW w, NEW n
  PROVE  /\ Highest(S, w, n) \in SignedFor(S, w, n)
         /\ Highest(S, w, n) \in Nat
         /\ \A x \in SignedFor(S, w, n) : x \in Nat /\ x <= Highest(S, w, n)
<1> DEFINE R == {s \in S : s.wallet = w /\ s.nonce = n}
           f == [t \in Trades |-> t.amountIn]
<1>1. SignedFor(S, w, n) = ValuesOn(f, R) \cup {0}
  BY DEF SignedFor, ValuesOn
<1>2. IsFiniteSet(ValuesOn(f, R) \cup {0})
  <2>1. IsFiniteSet(R)
    BY FS_Subset
  <2> HIDE DEF f, R
  <2>2. IsFiniteSet(ValuesOn(f, R))
    BY <2>1, FinitelyMany
  <2> QED BY <2>2, FS_AddElement
<1>3. \A x \in SignedFor(S, w, n) : x \in Nat
  BY DEF SignedFor
<1>4. SignedFor(S, w, n) # {}
  BY DEF SignedFor
<1> QED BY <1>1, <1>2, <1>3, <1>4, MaxOf DEF Highest

\* What a wallet signed for all told is an amount,
LEMMA SignedIsNat ==
  ASSUME NEW S \in SUBSET Trades, IsFiniteSet(S), NEW w, NEW nonces, IsFiniteSet(nonces)
  PROVE  SignedIn(S, w, nonces) \in Nat
<1> DEFINE f == [n \in nonces |-> Highest(S, w, n)]
<1>1. \A n \in nonces : f[n] \in Nat
  BY HighestSigned
<1>2. SumFunctionOnSet(f, nonces) \in Nat
  <2> HIDE DEF f
  <2> QED BY <1>1, SumNat
<1> QED BY <1>2 DEF SignedIn

\* grows with every signature
LEMMA MoreSigned ==
  ASSUME NEW S, NEW R \in SUBSET Trades, S \subseteq R, IsFiniteSet(R), NEW w,
         NEW nonces, IsFiniteSet(nonces)
  PROVE  SignedIn(S, w, nonces) <= SignedIn(R, w, nonces)
<1> DEFINE f == [n \in nonces |-> Highest(S, w, n)]
           h == [n \in nonces |-> Highest(R, w, n)]
<1>1. IsFiniteSet(S) /\ S \in SUBSET Trades
  BY FS_Subset
<1>2. \A n \in nonces : f[n] \in Nat /\ h[n] \in Nat /\ f[n] <= h[n]
  <2>1. ASSUME NEW n \in nonces
        PROVE  Highest(S, w, n) \in Nat /\ Highest(R, w, n) \in Nat
               /\ Highest(S, w, n) <= Highest(R, w, n)
    <3>1. Highest(S, w, n) \in SignedFor(S, w, n) /\ Highest(S, w, n) \in Nat
      BY <1>1, HighestSigned
    <3>2. SignedFor(S, w, n) \subseteq SignedFor(R, w, n)
      BY DEF SignedFor
    <3>3. Highest(R, w, n) \in Nat
          /\ \A x \in SignedFor(R, w, n) : x <= Highest(R, w, n)
      BY HighestSigned
    <3> QED BY <3>1, <3>2, <3>3
  <2> QED BY <2>1
<1>3. SumFunctionOnSet(f, nonces) <= SumFunctionOnSet(h, nonces)
  <2> HIDE DEF f, h
  <2> QED BY <1>2, SumMonotone
<1> QED BY <1>3 DEF SignedIn

\* and with every nonce taken.
LEMMA NonceTaken ==
  ASSUME NEW S \in SUBSET Trades, IsFiniteSet(S), NEW w, NEW nonces, IsFiniteSet(nonces),
         NEW n, n \notin nonces
  PROVE  SignedIn(S, w, nonces \cup {n}) = Highest(S, w, n) + SignedIn(S, w, nonces)
<1> DEFINE all == nonces \cup {n}
           f == [m \in all |-> Highest(S, w, m)]
           h == [m \in nonces |-> Highest(S, w, m)]
<1>1. \A m \in nonces \cup {n} : f[m] \in Nat
  BY HighestSigned
<1>2. \A m \in nonces : f[m] = h[m]
  OBVIOUS
<1>3. f[n] = Highest(S, w, n)
  OBVIOUS
<1>4. SumFunctionOnSet(f, nonces \cup {n}) = f[n] + SumFunctionOnSet(f, nonces)
  <2> HIDE DEF f
  <2> QED BY <1>1, SumAdd
<1>5. SumFunctionOnSet(f, nonces) = SumFunctionOnSet(h, nonces)
  <2> HIDE DEF f, h
  <2> QED BY <1>2, SumEqual
<1> QED BY <1>3, <1>4, <1>5 DEF SignedIn

-----------------------------------------------------------------------------
(* Steps that neither record nor pay *)

\* Without a settling call nobody owes anything.
LEMMA NobodyOwes ==
  /\ ~Settling  => \A a \in Allocations, g \in Groups : Owed(a, g) = 0
  /\ ~Settling' => \A a \in Allocations, g \in Groups : Owed(a, g)' = 0
BY DEF Owed

\* The call goes on in the transaction it belongs to, or begins one, or ends one.
Continues ==
  call'.phase # "idle" => \/ call.phase # "idle" /\ saved' = saved
                          \/ call.phase = "idle" /\ saved' = Snapshot

\* A call may come or go, or change, as long as it neither was nor is settling.
LEMMA BooksKept ==
  ASSUME Inv, Books, ~Settling, ~Settling', UNCHANGED <<ledgerVars, registryVars, paid>>, Continues
  PROVE  RegistryOK' /\ MembersOK' /\ SettlingOK' /\ BooksOK'
<1>1. UNCHANGED <<spentByAllocation, allocationIdByWallet>>
  BY DEF ledgerVars
<1>2. RegistryOK'
  <2>1. Offers!OfferingsInv' /\ Offers!BudgetsInv'
    BY RegistryStays DEF Books, RegistryOK
  <2>2. ASSUME call'.phase # "idle"
        PROVE  Before!OfferingsInv' /\ Before!BudgetsInv'
    <3>1. CASE call.phase # "idle" /\ saved' = saved
      BY <3>1, SavedStays DEF Books, RegistryOK
    <3>2. CASE call.phase = "idle" /\ saved' = Snapshot
      BY <3>2, RegistrySaved DEF Books, RegistryOK
    <3> QED BY <2>2, <3>1, <3>2 DEF Continues
  <2> QED BY <2>1, <2>2 DEF RegistryOK
<1>3. MembersOK'
  <2>1. Bound(allocationIdByWallet, paid)'
    BY <1>1 DEF Books, MembersOK, Bound
  <2>2. ASSUME call'.phase # "idle"
        PROVE  /\ Bound(saved.allocationIdByWallet, saved.paid)'
               /\ \A w \in Wallets : saved'.allocationIdByWallet[w] # Zero =>
                    allocationIdByWallet'[w] = saved'.allocationIdByWallet[w]
    <3>1. CASE call.phase # "idle" /\ saved' = saved
      BY <1>1, <3>1 DEF Books, MembersOK, Bound
    <3>2. CASE call.phase = "idle" /\ saved' = Snapshot
      BY <1>1, <3>2, SnapshotTaken DEF Books, MembersOK, Bound
    <3> QED BY <2>2, <3>1, <3>2 DEF Continues
  <2> QED BY <2>1, <2>2 DEF MembersOK
<1>4. SettlingOK'
  BY DEF SettlingOK
<1>5. BooksOK'
  <2>1. ASSUME NEW a \in Allocations, NEW g \in Groups
        PROVE  /\ MembersOf(a)' = MembersOf(a)
               /\ SpentInGroup(spentByAllocation, a, g) \in Nat
               /\ PaidTogether(paid, MembersOf(a), g) = SpentInGroup(spentByAllocation, a, g)
    <3>1. Owed(a, g) = 0
      BY NobodyOwes
    <3>2. MembersOf(a) \in SUBSET Wallets /\ paid \in Payments /\ spentByAllocation \in Spends
      BY DEF Inv, SavedOK, MembersOf
    <3>3. /\ PaidTogether(paid, MembersOf(a), g) \in Nat
          /\ SpentInGroup(spentByAllocation, a, g) \in Nat
      BY <3>2, SumsAreNat
    <3> QED BY <1>1, <3>1, <3>3 DEF Books, BooksOK, MembersOf
  <2>2. ASSUME NEW a \in Allocations, NEW g \in Groups
        PROVE  PaidTogether(paid', MembersOf(a)', g) + Owed(a, g)'
                 = SpentInGroup(spentByAllocation', a, g)
    <3>1. Owed(a, g)' = 0
      BY NobodyOwes
    <3> QED BY <1>1, <2>1, <3>1
  <2>3. ASSUME call'.phase # "idle", NEW a \in Allocations, NEW g \in Groups
        PROVE  PaidTogether(saved'.paid, {w \in Wallets : saved'.allocationIdByWallet[w] = a}, g)
                 = SpentInGroup(saved'.spentByAllocation, a, g)
    <3>1. CASE call.phase # "idle" /\ saved' = saved
      BY <3>1 DEF Books, BooksOK
    <3>2. CASE call.phase = "idle" /\ saved' = Snapshot
      BY <2>1, <3>2, SnapshotTaken DEF MembersOf
    <3> QED BY <2>3, <3>1, <3>2 DEF Continues
  <2> QED BY <2>2, <2>3 DEF BooksOK
<1> QED BY <1>2, <1>3, <1>4, <1>5

\* No new nonce is taken, nothing is paid and the same is due; wallets may sign.
LEMMA SignedKept ==
  ASSUME Inv, Books, UNCHANGED <<paid, usedTradeNonce>>, Continues,
         signedTrades \subseteq signedTrades', signedTrades' \subseteq Trades,
         IsFiniteSet(signedTrades'),
         \A w \in Wallets : Due(w)' = Due(w), call.phase = "idle" => \A w \in Wallets : Due(w) = 0
  PROVE  SignedOK'
<1>1. /\ IsFiniteSet(usedTradeNonce)
      /\ \A w \in Wallets : InAllGroups(paid, w) + Due(w) <= SignedIn(signedTrades, w, usedTradeNonce)
      /\ signedTrades \in SUBSET Trades /\ IsFiniteSet(signedTrades)
      /\ call.phase # "idle" =>
           /\ IsFiniteSet(saved.usedTradeNonce)
           /\ \A w \in Wallets :
                InAllGroups(saved.paid, w) <= SignedIn(signedTrades, w, saved.usedTradeNonce)
  BY DEF Books, SignedOK
<1>2. ASSUME NEW w, NEW nonces, IsFiniteSet(nonces)
      PROVE  /\ SignedIn(signedTrades, w, nonces) \in Nat /\ SignedIn(signedTrades', w, nonces) \in Nat
             /\ SignedIn(signedTrades, w, nonces) <= SignedIn(signedTrades', w, nonces)
  <2>1. signedTrades' \in SUBSET Trades
    OBVIOUS
  <2> QED BY <1>1, <1>2, <2>1, SignedIsNat, MoreSigned
<1>3. ASSUME NEW w \in Wallets
      PROVE  InAllGroups(paid, w) \in Nat /\ Due(w) \in Nat
  <2>1. paid \in Payments
    BY DEF Inv, SavedOK
  <2>2. Due(w) \in Nat
    BY <1>1 DEF Due, Inv, CallOK, SwapCalls, SettleOK
  <2> QED BY <2>1, <2>2, SumsAreNat
<1>4. ASSUME NEW w \in Wallets
      PROVE  InAllGroups(paid', w) + Due(w)' <= SignedIn(signedTrades', w, usedTradeNonce')
  <2>1. InAllGroups(paid, w) + Due(w) <= SignedIn(signedTrades, w, usedTradeNonce)
    BY <1>1
  <2>2. /\ SignedIn(signedTrades, w, usedTradeNonce) \in Nat
        /\ SignedIn(signedTrades', w, usedTradeNonce) \in Nat
        /\ SignedIn(signedTrades, w, usedTradeNonce) <= SignedIn(signedTrades', w, usedTradeNonce)
    BY <1>1, <1>2
  <2> QED BY <1>3, <2>1, <2>2
<1>5. ASSUME call'.phase # "idle"
      PROVE  /\ IsFiniteSet(saved'.usedTradeNonce)
             /\ \A w \in Wallets :
                  InAllGroups(saved'.paid, w) <= SignedIn(signedTrades', w, saved'.usedTradeNonce)
  <2>1. CASE call.phase # "idle" /\ saved' = saved
    <3>1. ASSUME NEW w \in Wallets
          PROVE  InAllGroups(saved.paid, w) <= SignedIn(signedTrades', w, saved.usedTradeNonce)
      <4> DEFINE money  == saved.paid
                 nonces == saved.usedTradeNonce
      <4>1. money \in Payments /\ IsFiniteSet(nonces)
        BY <1>1, <2>1 DEF Inv, SavedOK
      <4>2. InAllGroups(money, w) <= SignedIn(signedTrades, w, nonces)
        BY <1>1, <2>1
      <4> HIDE DEF money, nonces
      <4>3. InAllGroups(money, w) \in Nat
        BY <4>1, SumsAreNat
      <4>4. InAllGroups(money, w) <= SignedIn(signedTrades', w, nonces)
        BY <1>2, <4>1, <4>2, <4>3
      <4> QED BY <4>4 DEF money, nonces
    <3> QED BY <1>1, <2>1, <3>1
  <2>2. CASE call.phase = "idle" /\ saved' = Snapshot
    <3>1. saved'.paid = paid /\ saved'.usedTradeNonce = usedTradeNonce
      BY <2>2, SnapshotTaken
    <3>2. ASSUME NEW w \in Wallets
          PROVE  InAllGroups(paid, w) <= SignedIn(signedTrades', w, usedTradeNonce)
      <4>1. InAllGroups(paid', w) + Due(w)' <= SignedIn(signedTrades', w, usedTradeNonce')
        BY <1>4
      <4>2. Due(w)' = 0
        BY <2>2
      <4> QED BY <1>3, <4>1, <4>2
    <3> QED BY <1>1, <3>1, <3>2
  <2> QED BY <1>5, <2>1, <2>2 DEF Continues
<1> QED BY <1>1, <1>4, <1>5 DEF SignedOK

\* A transaction begins, and nothing is recorded, paid or due yet.
LEMMA BooksBegin ==
  ASSUME Inv, Books, NEW key \in PoolKeys, NEW trade \in Trades,
         SwapWithIntent(key, trade) \/ SwapElsewhere(key, trade)
  PROVE  Books'
<1>1. /\ call.phase = "idle" /\ call'.phase = "unlocked" /\ saved' = Snapshot
      /\ UNCHANGED <<ledgerVars, registryVars, paid, usedTradeNonce, signedTrades>>
  BY DEF SwapWithIntent, SwapElsewhere, chainVars, hookVars
<1>2. ~Settling /\ ~Settling' /\ Continues
  BY <1>1 DEF Settling, Continues
<1>3. \A w \in Wallets : Due(w) = 0 /\ Due(w)' = 0
  BY <1>1 DEF Due
<1>4. PoolOK'
  BY <1>1 DEF PoolOK
<1>5. SignedOK'
  BY <1>1, <1>2, <1>3, SignedKept DEF Books, SignedOK
<1> QED BY <1>1, <1>2, <1>4, <1>5, BooksKept DEF Books

\* The hook takes the nonce of an intent, which pays for what is now due.
LEMMA BooksBeforeSwap ==
  ASSUME Inv, Books, BeforeSwap
  PROVE  Books'
<1> DEFINE t == call.trade
<1>1. /\ call.phase = "unlocked" /\ call \in SwapCalls
      /\ poolToOffering[call.key] # 0
      /\ CheckIntent(t, call.key, call.amountIn)
      /\ usedTradeNonce' = usedTradeNonce \cup {t.nonce}
      /\ call' = [call EXCEPT !.phase = "swapping"]
      /\ UNCHANGED <<ledgerVars, registryVars, paid, saved, signedTrades>>
  BY DEF BeforeSwap, Inv, CallOK
<1>2. call'.phase = "swapping" /\ call'.key = call.key /\ call'.trade = t
  BY <1>1 DEF SwapCalls
<1>3. ~Settling /\ ~Settling' /\ Continues
  BY <1>1, <1>2 DEF Settling, Continues
<1>4. PoolOK'
  BY <1>1, <1>2 DEF PoolOK, registryVars
<1>5. SignedOK'
  <2>1. t \in signedTrades /\ t.nonce \notin usedTradeNonce /\ t \in Trades
    BY <1>1 DEF CheckIntent, TradeNonceUnused, SwapCalls
  <2>2. /\ signedTrades \in SUBSET Trades /\ IsFiniteSet(signedTrades)
        /\ IsFiniteSet(usedTradeNonce) /\ paid \in Payments
    BY DEF Books, SignedOK, Inv, SavedOK
  <2>3. IsFiniteSet(usedTradeNonce')
    BY <1>1, <2>2, FS_AddElement
  <2>4. ASSUME NEW w \in Wallets
        PROVE  InAllGroups(paid', w) + Due(w)' <= SignedIn(signedTrades', w, usedTradeNonce')
    <3>1. /\ SignedIn(signedTrades, w, usedTradeNonce') =
               Highest(signedTrades, w, t.nonce) + SignedIn(signedTrades, w, usedTradeNonce)
          /\ SignedIn(signedTrades, w, usedTradeNonce) \in Nat
      BY <1>1, <2>1, <2>2, NonceTaken, SignedIsNat
    <3>2. /\ Highest(signedTrades, w, t.nonce) \in Nat
          /\ \A x \in SignedFor(signedTrades, w, t.nonce) : x <= Highest(signedTrades, w, t.nonce)
      BY <2>2, HighestSigned
    <3>3. t.wallet = w => t.amountIn \in SignedFor(signedTrades, w, t.nonce)
      BY <2>1 DEF SignedFor
    <3>4. Due(w) = 0 /\ Due(w)' = (IF t.wallet = w THEN t.amountIn ELSE 0) /\ t.amountIn \in Nat
      BY <1>1, <1>2, <2>1 DEF Due
    <3>5. Due(w)' \in Nat /\ Due(w)' <= Highest(signedTrades, w, t.nonce)
      BY <3>2, <3>3, <3>4
    <3>6. InAllGroups(paid, w) \in Nat
      BY <2>2, SumsAreNat
    <3>7. InAllGroups(paid, w) <= SignedIn(signedTrades, w, usedTradeNonce)
      BY <3>4, <3>6 DEF Books, SignedOK
    <3> QED BY <1>1, <3>1, <3>2, <3>5, <3>6, <3>7
  <2> QED BY <1>1, <1>2, <2>2, <2>3, <2>4 DEF Books, SignedOK
<1> QED BY <1>1, <1>3, <1>4, <1>5, BooksKept DEF Books

\* The transaction returns.
LEMMA BooksReturn ==
  ASSUME Inv, Books, Return
  PROVE  Books'
<1>1. /\ call.phase = "taking" /\ call'.phase = "idle"
      /\ UNCHANGED <<ledgerVars, registryVars, paid, usedTradeNonce, signedTrades>>
  BY DEF Return, Idle, hookVars
<1>2. ~Settling /\ ~Settling' /\ Continues /\ PoolOK'
  BY <1>1 DEF Settling, Continues, PoolOK
<1>3. \A w \in Wallets : Due(w) = 0 /\ Due(w)' = 0
  BY <1>1 DEF Due
<1>4. SignedOK'
  BY <1>1, <1>2, <1>3, SignedKept DEF Books, SignedOK
<1> QED BY <1>1, <1>2, <1>4, BooksKept DEF Books

\* A wallet signs another intent, or the platform trusts another router.
LEMMA BooksAtRest ==
  ASSUME Inv, Books,
         \/ \E trade \in Trades : SignTrade(trade)
         \/ \E caller \in {Platform}, router \in {Executor, OtherRouter, Zero} :
              SetTrustedRouter(caller, router)
  PROVE  Books'
<1>1. /\ call.phase = "idle"
      /\ UNCHANGED <<ledgerVars, registryVars, paid, usedTradeNonce, call, saved>>
  BY DEF SignTrade, SetTrustedRouter, chainVars, hookVars
<1>2. ~Settling /\ ~Settling' /\ Continues /\ PoolOK'
  BY <1>1 DEF Settling, Continues, PoolOK
<1>3. \A w \in Wallets : Due(w) = 0 /\ Due(w)' = 0
  BY <1>1 DEF Due
<1>4. \/ signedTrades' = signedTrades
      \/ \E trade \in Trades : signedTrades' = signedTrades \cup {trade}
  BY DEF SignTrade, SetTrustedRouter
<1>5. /\ signedTrades \subseteq signedTrades' /\ signedTrades' \subseteq Trades
      /\ IsFiniteSet(signedTrades')
  BY <1>4, FS_AddElement DEF Books, SignedOK
<1>6. SignedOK'
  BY <1>1, <1>2, <1>3, <1>5, SignedKept
<1> QED BY <1>1, <1>2, <1>6, BooksKept DEF Books

\* Nothing happens.
LEMMA BooksStutter ==
  ASSUME Inv, Books, UNCHANGED vars
  PROVE  Books'
<1>1. UNCHANGED <<ledgerVars, registryVars, paid, usedTradeNonce, call, saved, signedTrades>>
  BY DEF vars, chainVars, hookVars
<1>2. UNCHANGED allocationIdByWallet /\ UNCHANGED spentByAllocation
  BY <1>1 DEF ledgerVars
<1>3. RegistryOK'
  BY <1>1, RegistryStays, SavedStays DEF Books, RegistryOK
<1>4. PoolOK' /\ SettlingOK'
  BY <1>1, <1>2 DEF Books, PoolOK, SettlingOK, Settling, registryVars
<1>5. MembersOK'
  BY <1>1, <1>2 DEF Books, MembersOK, Bound
<1>6. BooksOK'
  BY <1>1, <1>2 DEF Books, BooksOK, MembersOf, Owed, Settling
<1>7. SignedOK'
  BY <1>1 DEF Books, SignedOK, Due
<1> QED BY <1>3, <1>4, <1>5, <1>6, <1>7 DEF Books

\* Whatever the registry does, a wallet that joins a human brings no payments.
LEMMA BooksOutside ==
  ASSUME Inv, Books, OutsideCall \/ Tick
  PROVE  Books'
<1>1. /\ call.phase \in {"idle", "taking"}
      /\ Reg!RegistryNext \/ Reg!Register \/ Reg!Tick
      /\ UNCHANGED <<paid, usedTradeNonce, call, saved, signedTrades>>
      /\ spentByAllocation' = spentByAllocation
  <2>1. CASE OutsideCall
    BY <2>1, RegistryLeavesSpend DEF OutsideCall, hookVars
  <2>2. CASE Tick
    BY <2>2 DEF Tick, Reg!Tick, Reg!Ledger!Tick, Reg!Ledger!ledgerVars, Reg!Ledger!spendVars,
                hookVars
  <2> QED BY <2>1, <2>2
<1>2. ~Settling /\ ~Settling' /\ Continues /\ PoolOK'
  BY <1>1 DEF Settling, Continues, PoolOK
<1>3. /\ Offers!OfferingsInv' /\ Offers!BudgetsInv'
      /\ \A w \in Wallets : allocationIdByWallet[w] # Zero =>
           allocationIdByWallet'[w] = allocationIdByWallet[w]
  BY <1>1, RegistrySteps DEF Books, RegistryOK
<1>4. RegistryOK'
  BY <1>1, <1>3, SavedStays DEF Books, RegistryOK
<1>5. MembersOK'
  <2>1. Bound(allocationIdByWallet, paid)'
    BY <1>1, <1>3 DEF Books, MembersOK, Bound
  <2>2. ASSUME call'.phase # "idle"
        PROVE  /\ Bound(saved.allocationIdByWallet, saved.paid)'
               /\ \A w \in Wallets : saved'.allocationIdByWallet[w] # Zero =>
                    allocationIdByWallet'[w] = saved'.allocationIdByWallet[w]
    BY <1>1, <1>3, <2>2 DEF Books, MembersOK, Bound
  <2> QED BY <2>1, <2>2 DEF MembersOK
<1>6. SettlingOK'
  BY <1>2 DEF SettlingOK
<1>7. BooksOK'
  <2>1. ASSUME NEW a \in Allocations, NEW g \in Groups
        PROVE  PaidTogether(paid, MembersOf(a)', g) = PaidTogether(paid, MembersOf(a), g)
    <3> DEFINE U == MembersOf(a)
               V == MembersOf(a)'
    <3>1. a # Zero
      OBVIOUS
    <3>2. U \subseteq V /\ V \subseteq Wallets
      BY <1>3, <3>1 DEF MembersOf
    <3>3. \A w \in V \ U : paid[<<w, g>>] = 0
      BY <1>3 DEF MembersOf, Books, MembersOK, Bound
    <3>4. paid \in Payments
      BY DEF Inv, SavedOK
    <3> HIDE DEF U, V
    <3>5. PaidTogether(paid, V, g) = PaidTogether(paid, U, g)
      BY <3>2, <3>3, <3>4, UnpaidJoin
    <3> QED BY <3>5 DEF U, V
  <2>2. \A a \in Allocations, g \in Groups : Owed(a, g)' = Owed(a, g)
    BY <1>2, NobodyOwes
  <2> QED BY <1>1, <2>1, <2>2 DEF Books, BooksOK
<1>8. SignedOK'
  <2>1. \A w \in Wallets : Due(w) = 0 /\ Due(w)' = 0
    BY <1>1 DEF Due
  <2> QED BY <1>1, <1>2, <2>1, SignedKept DEF Books, SignedOK
<1> QED BY <1>2, <1>4, <1>5, <1>6, <1>7, <1>8 DEF Books

-----------------------------------------------------------------------------
(* Spend and payments *)

\* What the hook records: spend of the human the buyer belongs to, in the group of
\* the pool's offering.
LEMMA RecordedInOffering ==
  ASSUME Inv, Books, NEW settled \in Amounts, NEW filled \in BOOLEAN, AfterSwap(settled, filled)
  PROVE  LET j == allocationIdByWallet[call.trade.wallet] IN
         /\ call.trade.wallet \in Wallets /\ j \in Allocations /\ purchase.groupId \in Groups
         /\ \E q \in Periods :
              Records(spentByAllocation, spentByAllocation', j, <<purchase.groupId, q>>, settled)
         /\ UNCHANGED allocationIdByWallet
         /\ Offers!OfferingsInv' /\ Offers!BudgetsInv'
<1> DEFINE w  == call.trade.wallet
           id == poolToOffering[call.key]
           o  == offerings[id]
           j  == allocationIdByWallet[w]
<1>1. /\ call.phase = "swapping" /\ call \in SwapCalls
      /\ Reg!Ledger!RecordSpend(Hook, purchase.trader, purchase.groupId, purchase.periodId, settled)
      /\ UNCHANGED registryVars
  BY DEF AfterSwap, SettledInput, Inv, CallOK
<1>2. /\ purchase.trader = w /\ purchase.groupId = o.groupId /\ purchase.periodId = o.periodId
  BY <1>1 DEF Inv, SwapOK
<1>3. id \in DOMAIN offerings
  <2>1. /\ call.key \in PoolKeys /\ poolToOffering \in [PoolKeys -> 0..Len(offerings)]
        /\ offerings \in Seq(Offers!Offerings) /\ id # 0
    BY <1>1 DEF Books, RegistryOK, Offers!OfferingsInv, Offers!OfferingsOK, PoolOK, SwapCalls
  <2> QED BY <2>1
<1>4. w \in Wallets
  <2>1. w \in Wallets \cup {Zero}
    BY <1>1 DEF SwapCalls
  <2>2. w # Zero
    BY <1>1, <1>2 DEF Reg!Ledger!RecordSpend, Reg!Ledger!HasBudget
  <2> QED BY <2>1, <2>2
<1>5. Offers!Ledger!RecordSpend(Hook, w, o.groupId, o.periodId, settled)
  BY <1>1, <1>2, SameSpend
<1>6. Offers!OfferingsInv /\ Offers!BudgetsInv
  BY DEF Books, RegistryOK
<1>7. /\ j \in Allocations /\ <<o.groupId, o.periodId>> \in Groups \X Periods
      /\ spentByAllocation' = [spentByAllocation EXCEPT
           ![<<j, <<o.groupId, o.periodId>>>>] =
              spentByAllocation[<<j, <<o.groupId, o.periodId>>>>] + settled]
  BY <1>3, <1>4, <1>5, <1>6, OffersAssumed, Offers!HookSpend DEF Offers!Budgets
<1>8. UNCHANGED allocationIdByWallet
  BY <1>1 DEF Reg!Ledger!RecordSpend, Reg!Ledger!memberVars
<1>9. Offers!OfferingsInv' /\ Offers!BudgetsInv'
  <2>1. UNCHANGED Offers!registryVars
    BY <1>1 DEF registryVars, Offers!registryVars, Offers!offeringVars, Offers!issuerVars,
                Offers!poolVars, Offers!accessVars, Offers!revokeVars
  <2>2. Offers!HookRecordsSpend
    BY <1>3, <1>4, <1>5, <2>1 DEF Offers!HookRecordsSpend
  <2>3. Offers!Next
    BY <2>2 DEF Offers!Next
  <2> QED BY <1>6, <2>3, OffersAssumed, Offers!OfferingsStep, Offers!BudgetsStep
<1> HIDE DEF w, id, j
<1>10. o.groupId \in Groups /\ o.periodId \in Periods
  BY <1>7
<1>11. Records(spentByAllocation, spentByAllocation', j, <<o.groupId, o.periodId>>, settled)
  <2> DEFINE k == <<j, <<o.groupId, o.periodId>>>>
  <2>1. spentByAllocation' = [spentByAllocation EXCEPT ![k] = spentByAllocation[k] + settled]
    BY <1>7
  <2>2. spentByAllocation \in Spends
    BY DEF Inv, SavedOK
  <2>3. \A x \in Allocations \X (Groups \X Periods) :
          spentByAllocation'[x] = IF x = k THEN spentByAllocation[x] + settled
                                           ELSE spentByAllocation[x]
    <3> HIDE DEF k
    <3> QED BY <2>1, <2>2 DEF Spends
  <2> QED BY <2>3 DEF Records
<1> QED BY <1>2, <1>4, <1>7, <1>8, <1>9, <1>10, <1>11 DEF w, j

\* The hook records what the pool charged, and the transaction owes it.
LEMMA BooksAfterSwap ==
  ASSUME Inv, Books, NEW settled \in Amounts, NEW filled \in BOOLEAN, AfterSwap(settled, filled)
  PROVE  Books'
<1> DEFINE w == call.trade.wallet
           h == purchase.groupId
           j == allocationIdByWallet[w]
<1>1. /\ call.phase = "swapping" /\ UNCHANGED <<paid, usedTradeNonce, saved, signedTrades>>
      /\ call'.phase = "settling" /\ call'.trade = call.trade /\ call'.groupId = h
      /\ call'.settled = settled
  BY DEF AfterSwap
<1>2. /\ w \in Wallets /\ j \in Allocations /\ h \in Groups
      /\ UNCHANGED allocationIdByWallet
      /\ Offers!OfferingsInv' /\ Offers!BudgetsInv'
  BY RecordedInOffering
<1>3. PICK q \in Periods :
        Records(spentByAllocation, spentByAllocation', j, <<h, q>>, settled)
  BY RecordedInOffering
<1>4. ~Settling /\ Settling'
  BY <1>1 DEF Settling
<1>5. RegistryOK'
  BY <1>1, <1>2, SavedStays DEF Books, RegistryOK
<1>6. PoolOK' /\ MembersOK'
  BY <1>1, <1>2 DEF Books, PoolOK, MembersOK, Bound
<1>7. SettlingOK'
  BY <1>1, <1>2 DEF SettlingOK
<1>8. SignedOK'
  <2>1. \A v \in Wallets : Due(v)' = Due(v)
    BY <1>1 DEF Due
  <2>2. Continues
    BY <1>1 DEF Continues
  <2> QED BY <1>1, <2>1, <2>2, SignedKept DEF Books, SignedOK
<1>9. BooksOK'
  <2>1. ASSUME NEW a \in Allocations, NEW g \in Groups
        PROVE  PaidTogether(paid', MembersOf(a)', g) + Owed(a, g)'
                 = SpentInGroup(spentByAllocation', a, g)
    <3>1. Owed(a, g) = 0 /\ Owed(a, g)' = IF h = g /\ j = a THEN settled ELSE 0
      BY <1>1, <1>2, <1>4, NobodyOwes DEF Owed
    <3> HIDE DEF w, h, j
    <3>2. spentByAllocation \in Spends /\ paid \in Payments /\ MembersOf(a) \in SUBSET Wallets
      BY DEF Inv, SavedOK, MembersOf
    <3>3. SpentInGroup(spentByAllocation', a, g)
            = SpentInGroup(spentByAllocation, a, g) + (IF h = g /\ j = a THEN settled ELSE 0)
      <4>1. settled \in Nat
        OBVIOUS
      <4> QED BY ONLY <1>2, <1>3, <3>2, <4>1, a \in Allocations, g \in Groups, OneSpends
    <3>4. PaidTogether(paid, MembersOf(a), g) \in Nat
      BY <3>2, SumsAreNat
    <3>5. PaidTogether(paid, MembersOf(a), g) + Owed(a, g) = SpentInGroup(spentByAllocation, a, g)
      BY DEF Books, BooksOK
    <3>6. MembersOf(a)' = MembersOf(a)
      BY <1>2 DEF MembersOf
    <3> QED BY <1>1, <3>1, <3>3, <3>4, <3>5, <3>6
  <2> QED BY <1>1, <2>1 DEF Books, BooksOK
<1> QED BY <1>5, <1>6, <1>7, <1>8, <1>9 DEF Books

\* What is due is paid, and nothing is owed any more.
LEMMA BooksSettle ==
  ASSUME Inv, Books, Settle
  PROVE  Books'
<1> DEFINE w == call.trade.wallet
           h == call.groupId
           n == call.settled
           j == allocationIdByWallet[w]
<1>1. /\ call.phase = "settling"
      /\ paid' = [paid EXCEPT ![<<w, h>>] = paid[<<w, h>>] + n]
      /\ UNCHANGED <<ledgerVars, registryVars, usedTradeNonce, saved, signedTrades>>
  BY DEF Settle, hookVars
<1>2. /\ call'.phase = "taking" /\ n \in Nat /\ call.trade \in signedTrades
      /\ n <= call.trade.amountIn
  BY <1>1 DEF Settle, Inv, SettleOK
<1>3. Settling /\ ~Settling' /\ Continues /\ PoolOK'
  BY <1>1, <1>2 DEF Settling, Continues, PoolOK
<1>4. w \in Wallets /\ h \in Groups /\ j # Zero
  BY <1>3 DEF Books, SettlingOK
<1>5. /\ UNCHANGED <<allocationIdByWallet, spentByAllocation>>
      /\ paid \in Payments
  BY <1>1 DEF ledgerVars, Inv, SavedOK
<1>6. Pays(paid, paid', w, h, n)
  <2> DEFINE k == <<w, h>>
  <2>1. paid' = [paid EXCEPT ![k] = paid[k] + n]
    BY <1>1
  <2>2. \A x \in Wallets \X Groups : paid'[x] = IF x = k THEN paid[x] + n ELSE paid[x]
    <3> HIDE DEF k, n
    <3> QED BY <1>5, <2>1 DEF Payments
  <2> QED BY <2>2 DEF Pays
<1>7. RegistryOK'
  BY <1>1, <1>2, RegistryStays, SavedStays DEF Books, RegistryOK
<1>8. MembersOK'
  <2>1. ASSUME NEW v \in Wallets, NEW g \in Groups, allocationIdByWallet[v] = Zero
        PROVE  paid'[<<v, g>>] = 0
    <3>1. v # w
      BY <1>4, <2>1
    <3> HIDE DEF w, h, n, j
    <3>2. <<v, g>> \in Wallets \X Groups /\ <<v, g>> # <<w, h>>
      BY <3>1
    <3>3. paid'[<<v, g>>] = paid[<<v, g>>]
      BY <1>6, <3>2 DEF Pays
    <3> QED BY <2>1, <3>3 DEF Books, MembersOK, Bound
  <2>2. Bound(allocationIdByWallet, paid)'
    BY <1>5, <2>1 DEF Bound
  <2> QED BY <1>1, <1>5, <2>2 DEF Books, MembersOK, Bound
<1>9. SettlingOK'
  BY <1>3 DEF SettlingOK
<1>10. BooksOK'
  <2>1. ASSUME NEW a \in Allocations, NEW g \in Groups
        PROVE  PaidTogether(paid', MembersOf(a)', g) + Owed(a, g)'
                 = SpentInGroup(spentByAllocation', a, g)
    <3>1. Owed(a, g) = (IF h = g /\ j = a THEN n ELSE 0) /\ Owed(a, g)' = 0
      BY <1>3, NobodyOwes DEF Owed
    <3>2. MembersOf(a) \in SUBSET Wallets /\ (w \in MembersOf(a) <=> j = a)
          /\ MembersOf(a)' = MembersOf(a)
      BY <1>4, <1>5 DEF MembersOf
    <3>3. PaidTogether(paid, MembersOf(a), g) + Owed(a, g) = SpentInGroup(spentByAllocation, a, g)
      BY DEF Books, BooksOK
    <3> HIDE DEF w, h, n, j
    <3>4. PaidTogether(paid', MembersOf(a), g) = PaidTogether(paid, MembersOf(a), g)
            + (IF h = g /\ w \in MembersOf(a) THEN n ELSE 0)
      BY ONLY <1>2, <1>5, <1>6, <3>2, g \in Groups, OnePays
    <3>5. PaidTogether(paid, MembersOf(a), g) \in Nat
      BY <1>5, <3>2, SumsAreNat
    <3> QED BY <1>2, <1>5, <3>1, <3>2, <3>3, <3>4, <3>5
  <2> QED BY <1>1, <1>2, <2>1 DEF Books, BooksOK
<1>11. SignedOK'
  <2>1. ASSUME NEW v \in Wallets
        PROVE  InAllGroups(paid', v) + Due(v)' <= SignedIn(signedTrades', v, usedTradeNonce')
    <3>1. /\ Due(v) = (IF w = v THEN call.trade.amountIn ELSE 0) /\ Due(v)' = 0
      BY <1>1, <1>2 DEF Due
    <3>2. call.trade.amountIn \in Nat
      BY <1>2 DEF Books, SignedOK
    <3>3. InAllGroups(paid, v) + Due(v) <= SignedIn(signedTrades, v, usedTradeNonce)
      BY DEF Books, SignedOK
    <3>4. SignedIn(signedTrades, v, usedTradeNonce) \in Nat
      BY SignedIsNat DEF Books, SignedOK
    <3>5. InAllGroups(paid, v) \in Nat
      BY <1>5, SumsAreNat
    <3> HIDE DEF w, h, n, j
    <3>6. InAllGroups(paid', v) = InAllGroups(paid, v) + (IF w = v THEN n ELSE 0)
      BY ONLY <1>2, <1>4, <1>5, <1>6, v \in Wallets, OnePaysInAll
    <3> QED BY <1>1, <1>2, <3>1, <3>2, <3>3, <3>4, <3>5, <3>6
  <2> QED BY <1>1, <1>2, <2>1 DEF Books, SignedOK
<1> QED BY <1>3, <1>7, <1>8, <1>9, <1>10, <1>11 DEF Books

\* A revert goes back to books that were in order.
LEMMA BooksRevert ==
  ASSUME Inv, Books, Revert
  PROVE  Books'
<1>1. /\ call.phase # "idle" /\ call'.phase = "idle" /\ Restore(saved)
      /\ signedTrades' = signedTrades
      /\ allocationIdByWallet' = saved.allocationIdByWallet
      /\ spentByAllocation' = saved.spentByAllocation
      /\ usedTradeNonce' = saved.usedTradeNonce /\ paid' = saved.paid
  BY DEF Revert, Restore, Idle
<1>2. ~Settling' /\ PoolOK'
  BY <1>1 DEF Settling, PoolOK
<1>3. RegistryOK'
  BY <1>1, RegistryRestored DEF Books, RegistryOK
<1>4. MembersOK' /\ SettlingOK'
  BY <1>1, <1>2 DEF Books, MembersOK, Bound, SettlingOK
<1>5. paid' \in Payments /\ spentByAllocation' \in Spends
  BY <1>1 DEF Inv, SavedOK
<1>6. BooksOK'
  <2>1. ASSUME NEW a \in Allocations, NEW g \in Groups
        PROVE  PaidTogether(paid', MembersOf(a)', g) + Owed(a, g)'
                 = SpentInGroup(spentByAllocation', a, g)
    <3>1. PaidTogether(paid', MembersOf(a)', g) = SpentInGroup(spentByAllocation', a, g)
      BY <1>1 DEF Books, BooksOK, MembersOf
    <3>2. SpentInGroup(spentByAllocation', a, g) \in Nat
      BY <1>5, SumsAreNat
    <3> QED BY <1>2, <3>1, <3>2, NobodyOwes
  <2> QED BY <1>1, <2>1 DEF BooksOK
<1>7. SignedOK'
  <2>1. ASSUME NEW w \in Wallets
        PROVE  InAllGroups(paid', w) + Due(w)' <= SignedIn(signedTrades', w, usedTradeNonce')
    <3>1. Due(w)' = 0
      BY <1>1 DEF Due
    <3>2. InAllGroups(paid', w) <= SignedIn(signedTrades', w, usedTradeNonce')
      BY <1>1 DEF Books, SignedOK
    <3>3. InAllGroups(paid', w) \in Nat
      BY <1>5, SumsAreNat
    <3> QED BY <3>1, <3>2, <3>3
  <2> QED BY <1>1, <2>1 DEF Books, SignedOK
<1> QED BY <1>2, <1>3, <1>4, <1>6, <1>7 DEF Books

-----------------------------------------------------------------------------
(* The books, always *)

\* In the marketplace as deployed nothing is spent, paid, owed or due.
LEMMA InitBooks ==
  Init => Books
<1> SUFFICES ASSUME Init PROVE Books
  OBVIOUS
<1>1. /\ call.phase = "idle" /\ usedTradeNonce = {} /\ signedTrades = {}
      /\ paid = [x \in Wallets \X Groups |-> 0]
      /\ spentByAllocation = [x \in Allocations \X (Groups \X Periods) |-> 0]
  BY DEF Init, Idle, Reg!Init
<1>2. RegistryOK
  BY <1>1, RegistryInit DEF Init, RegistryOK
<1>3. PoolOK /\ SettlingOK /\ ~Settling
  BY <1>1 DEF PoolOK, SettlingOK, Settling
<1>4. MembersOK
  BY <1>1 DEF MembersOK, Bound
<1>5. BooksOK
  <2>1. ASSUME NEW a \in Allocations, NEW g \in Groups
        PROVE  PaidTogether(paid, MembersOf(a), g) + Owed(a, g)
                 = SpentInGroup(spentByAllocation, a, g)
    <3>1. MembersOf(a) \in SUBSET Wallets
      BY DEF MembersOf
    <3>2. /\ PaidTogether(paid, MembersOf(a), g) = 0
          /\ SpentInGroup(spentByAllocation, a, g) = 0
      BY <1>1, <3>1, NothingYet
    <3> QED BY <1>3, <3>2, NobodyOwes
  <2> QED BY <1>1, <2>1 DEF BooksOK
<1>6. SignedOK
  <2>1. signedTrades \in SUBSET Trades /\ IsFiniteSet(signedTrades) /\ IsFiniteSet(usedTradeNonce)
    BY <1>1, FS_EmptySet
  <2>2. ASSUME NEW w \in Wallets
        PROVE  InAllGroups(paid, w) + Due(w) <= SignedIn(signedTrades, w, usedTradeNonce)
    <3>1. Due(w) = 0 /\ InAllGroups(paid, w) = 0
      BY <1>1, NothingYet DEF Due
    <3>2. SignedIn(signedTrades, w, usedTradeNonce) \in Nat
      BY <2>1, SignedIsNat
    <3> QED BY <3>1, <3>2
  <2> QED BY <1>1, <2>1, <2>2 DEF SignedOK
<1> QED BY <1>2, <1>3, <1>4, <1>5, <1>6 DEF Books

\* Every step keeps the books.
LEMMA StepKeepsBooks ==
  Inv /\ Books /\ [Next]_vars => Books'
<1> SUFFICES ASSUME Inv, Books, [Next]_vars PROVE Books'
  OBVIOUS
<1>1. CASE PurchaseStep
  <2>1. CASE \E trade \in Trades, key \in PoolKeys :
               SwapWithIntent(key, trade) \/ SwapElsewhere(key, trade)
    BY <2>1, BooksBegin
  <2>2. CASE \E settled \in Amounts, filled \in BOOLEAN : AfterSwap(settled, filled)
    BY <2>2, BooksAfterSwap
  <2> QED BY <1>1, <2>1, <2>2, BooksBeforeSwap, BooksSettle, BooksReturn, BooksRevert
          DEF PurchaseStep
<1> QED BY <1>1, BooksOutside, BooksAtRest, BooksStutter DEF Next

\* The books are in order in every state, also in the middle of a purchase: for
\* every human and offering group, the money paid and the charge still to be paid
\* make up the spend the ledger recorded; the nonces taken cover both.
THEOREM TradeBooks ==
  Spec => [](Inv /\ Books)
BY InitInv, InitBooks, StepKeeps, StepKeepsBooks, PTL DEF Spec

\* SettledAtRest, for every marketplace: whenever no transaction runs no lock is
\* left, and what the wallets of a human paid in an offering's group is exactly
\* what the ledger recorded for it, through partial fills, failed settlements,
\* reverts and the token's calls.
THEOREM AlwaysSettledAtRest ==
  Spec => []SettledAtRest
<1>1. Inv /\ Books => SettledAtRest
  <2> SUFFICES ASSUME Inv, Books PROVE SettledAtRest
    OBVIOUS
  <2>1. NothingLeftOpen
    BY DEF Inv, OpenOK, NothingLeftOpen, AtRest
  <2>2. ASSUME AtRest, NEW a \in Allocations, NEW g \in Groups
        PROVE  PaidTogether(paid, MembersOf(a), g) = SpentInGroup(spentByAllocation, a, g)
    <3>1. Owed(a, g) = 0
      BY <2>2, NobodyOwes DEF Settling, AtRest
    <3>2. MembersOf(a) \in SUBSET Wallets /\ paid \in Payments
      BY DEF Inv, SavedOK, MembersOf
    <3>3. PaidTogether(paid, MembersOf(a), g) \in Nat
      BY <3>2, SumsAreNat
    <3> QED BY <3>1, <3>3 DEF Books, BooksOK
  <2> QED BY <2>1, <2>2 DEF SettledAtRest, PaidIsRecorded
<1> QED BY <1>1, TradeBooks, PTL

\* PaidWithinSignatures, for every marketplace and however many intents a wallet
\* signs, under the same nonce or others: what it paid is covered by the largest
\* intent it signed under each nonce the hook took.
THEOREM AlwaysWithinSignatures ==
  Spec => []PaidWithinSignatures
<1>1. Inv /\ Books => PaidWithinSignatures
  <2> SUFFICES ASSUME Inv, Books, AtRest, NEW w \in Wallets
               PROVE  PaidInAll(w) <= SignedInAll(w, usedTradeNonce)
    BY DEF PaidWithinSignatures
  <2>1. InAllGroups(paid, w) + Due(w) <= SignedIn(signedTrades, w, usedTradeNonce)
    BY DEF Books, SignedOK
  <2>2. Due(w) = 0
    BY DEF Due, AtRest
  <2>3. InAllGroups(paid, w) \in Nat
    BY SumsAreNat DEF Inv, SavedOK
  <2> QED BY <2>1, <2>2, <2>3, SignedNow DEF PaidInAll
<1> QED BY <1>1, TradeBooks, PTL

-----------------------------------------------------------------------------
(* Seen from outside *)

\* The spend that counts outside the transaction in progress.
SpentInTheEnd == IF AtRest THEN spentByAllocation ELSE saved.spentByAllocation

\* What a human paid in the end is that spend.
EndsOK ==
  \A a \in Allocations, g \in Groups : PaidInTheEnd(a, g) = SpentInGroup(SpentInTheEnd, a, g)

\* Whoever joined a human since the transaction began had paid nothing by then.
LEMMA PaidByThen ==
  ASSUME Inv, Books, call.phase # "idle", NEW a \in Allocations, NEW g \in Groups
  PROVE  PaidTogether(saved.paid, MembersOf(a), g) = SpentInGroup(saved.spentByAllocation, a, g)
<1> DEFINE U == {w \in Wallets : saved.allocationIdByWallet[w] = a}
           V == MembersOf(a)
           money == saved.paid
<1>1. /\ Bound(saved.allocationIdByWallet, money)
      /\ \A w \in Wallets : saved.allocationIdByWallet[w] # Zero =>
           allocationIdByWallet[w] = saved.allocationIdByWallet[w]
  BY DEF Books, MembersOK
<1>2. a # Zero
  OBVIOUS
<1>3. U \subseteq V /\ V \subseteq Wallets
  BY <1>1, <1>2 DEF MembersOf
<1>4. \A w \in V \ U : money[<<w, g>>] = 0
  <2>1. ASSUME NEW w \in V \ U
        PROVE  w \in Wallets /\ saved.allocationIdByWallet[w] = Zero
    BY <1>1, <1>3 DEF MembersOf
  <2> QED BY <1>1, <2>1 DEF Bound
<1>5. PaidTogether(money, U, g) = SpentInGroup(saved.spentByAllocation, a, g)
  BY DEF Books, BooksOK
<1>6. money \in Payments
  BY DEF Inv, SavedOK
<1>7. PaidTogether(money, V, g) = PaidTogether(money, U, g)
  <2> HIDE DEF U, V, money
  <2> QED BY <1>3, <1>4, <1>6, UnpaidJoin
<1> QED BY <1>5, <1>7

\* So the money and the spend agree in the end, in every state.
LEMMA MoneyIsSpend ==
  Inv /\ Books => EndsOK
<1> SUFFICES ASSUME Inv, Books, NEW a \in Allocations, NEW g \in Groups
             PROVE  PaidInTheEnd(a, g) = SpentInGroup(SpentInTheEnd, a, g)
  BY DEF EndsOK
<1>1. CASE AtRest
  <2>1. Owed(a, g) = 0
    BY <1>1, NobodyOwes DEF Settling, AtRest
  <2>2. MembersOf(a) \in SUBSET Wallets /\ paid \in Payments
    BY DEF Inv, SavedOK, MembersOf
  <2>3. PaidTogether(paid, MembersOf(a), g) \in Nat
    BY <2>2, SumsAreNat
  <2> QED BY <1>1, <2>1, <2>3 DEF Books, BooksOK, PaidInTheEnd, SpentInTheEnd
<1>2. CASE ~AtRest
  BY <1>2, PaidByThen DEF AtRest, PaidInTheEnd, SpentInTheEnd
<1> QED BY <1>1, <1>2

\* The cap of a group is the greatest of its periods' caps.
GroupCap(g) == Max({policyByGroupPeriod[<<g, p>>].cap : p \in Periods})

\* A group has one offering, so a human spends in one of its periods only.
LEMMA OnePeriod ==
  ASSUME Offers!OfferingsInv, Offers!BudgetsInv, NEW a \in Allocations, NEW g \in Groups,
         NEW p \in Periods, NEW q \in Periods,
         spentByAllocation[<<a, <<g, p>>>>] # 0, spentByAllocation[<<a, <<g, q>>>>] # 0
  PROVE  p = q
<1>1. ASSUME NEW r \in Periods, spentByAllocation[<<a, <<g, r>>>>] # 0
      PROVE  \E id \in DOMAIN offerings : offerings[id].groupId = g /\ offerings[id].periodId = r
  <2>1. <<g, r>> \in Groups \X Periods /\ <<a, <<g, r>>>> \in Allocations \X (Groups \X Periods)
    OBVIOUS
  <2>2. /\ spentByAllocation[<<a, <<g, r>>>>] \in Nat
        /\ spentByAllocation[<<a, <<g, r>>>>] <= highestSpendByGroupPeriod[<<g, r>>]
        /\ highestSpendByGroupPeriod[<<g, r>>] \in Nat
        /\ highestSpendByGroupPeriod[<<g, r>>] <= policyByGroupPeriod[<<g, r>>].cap
        /\ policyByGroupPeriod[<<g, r>>].cap \in Nat
    BY <2>1 DEF Offers!OfferingsInv, Offers!LedgerShape, Offers!BudgetsInv, Offers!CountersOK,
                Offers!Budgets
  <2>3. policyByGroupPeriod[<<g, r>>].cap # 0
    BY <1>1, <2>2
  <2> QED BY <2>3 DEF Offers!BudgetsInv, Offers!PoliciesOffered
<1>2. PICK i \in DOMAIN offerings : offerings[i].groupId = g /\ offerings[i].periodId = p
  BY <1>1
<1>3. PICK k \in DOMAIN offerings : offerings[k].groupId = g /\ offerings[k].periodId = q
  BY <1>1
<1> QED BY <1>2, <1>3 DEF Offers!OfferingsInv, Offers!GroupsDisjoint

\* The greatest cap of a group's periods is an amount no period's cap exceeds.
LEMMA GroupCapOK ==
  ASSUME Offers!OfferingsInv, NEW g \in Groups
  PROVE  /\ GroupCap(g) \in Nat
         /\ \A p \in Periods : /\ policyByGroupPeriod[<<g, p>>].cap \in Nat
                               /\ policyByGroupPeriod[<<g, p>>].cap <= GroupCap(g)
<1> DEFINE c == [p \in Periods |-> policyByGroupPeriod[<<g, p>>].cap]
<1>1. \A p \in Periods : c[p] = policyByGroupPeriod[<<g, p>>].cap /\ c[p] \in Nat
  BY DEF Offers!OfferingsInv, Offers!LedgerShape, Offers!Budgets
<1>2. IsFiniteSet(Periods) /\ Periods # {}
  BY TradeIsFinite
<1>3. GroupCap(g) = Max(ValuesOn(c, Periods))
  BY DEF GroupCap, ValuesOn
<1> HIDE DEF c
<1>4. IsFiniteSet(ValuesOn(c, Periods))
  BY <1>2, FinitelyMany
<1>5. /\ ValuesOn(c, Periods) # {} /\ \A x \in ValuesOn(c, Periods) : x \in Nat
      /\ \A p \in Periods : c[p] \in ValuesOn(c, Periods)
  BY <1>1, <1>2 DEF ValuesOn
<1>6. /\ Max(ValuesOn(c, Periods)) \in Nat
      /\ \A p \in Periods : c[p] <= Max(ValuesOn(c, Periods))
  BY <1>4, <1>5, MaxOf
<1> QED BY <1>1, <1>3, <1>6

\* No human spends more in a group than its cap.
LEMMA WithinGroupCap ==
  ASSUME Offers!OfferingsInv, Offers!BudgetsInv, NEW a \in Allocations, NEW g \in Groups
  PROVE  SpentInGroup(spentByAllocation, a, g) <= GroupCap(g)
<1> DEFINE f == [p \in Periods |-> spentByAllocation[<<a, <<g, p>>>>]]
<1>1. ASSUME NEW p \in Periods
      PROVE  f[p] \in Nat /\ f[p] <= GroupCap(g)
  <2>1. <<g, p>> \in Groups \X Periods /\ <<a, <<g, p>>>> \in Allocations \X (Groups \X Periods)
    OBVIOUS
  <2>2. /\ f[p] \in Nat /\ f[p] <= highestSpendByGroupPeriod[<<g, p>>]
        /\ highestSpendByGroupPeriod[<<g, p>>] \in Nat
        /\ highestSpendByGroupPeriod[<<g, p>>] <= policyByGroupPeriod[<<g, p>>].cap
    BY <2>1 DEF Offers!OfferingsInv, Offers!LedgerShape, Offers!BudgetsInv, Offers!CountersOK,
                Offers!Budgets
  <2>3. /\ policyByGroupPeriod[<<g, p>>].cap \in Nat /\ GroupCap(g) \in Nat
        /\ policyByGroupPeriod[<<g, p>>].cap <= GroupCap(g)
    BY GroupCapOK
  <2> QED BY <2>2, <2>3
<1>2. IsFiniteSet(Periods) /\ GroupCap(g) \in Nat
  BY TradeIsFinite, GroupCapOK
<1>3. \A p, q \in Periods : f[p] # 0 /\ f[q] # 0 => p = q
  BY OnePeriod
<1>4. SpentInGroup(spentByAllocation, a, g) = SumFunctionOnSet(f, Periods)
  BY DEF SpentInGroup
<1> HIDE DEF f
<1>5. CASE \A p \in Periods : f[p] = 0
  <2>1. SumFunctionOnSet(f, Periods) = 0
    BY <1>2, <1>5, SumZero
  <2> QED BY <1>2, <1>4, <2>1
<1>6. CASE \E p \in Periods : f[p] # 0
  <2>1. PICK p \in Periods : f[p] # 0
    BY <1>6
  <2>2. IsFiniteSet(Periods \ {p}) /\ \A q \in Periods \ {p} : f[q] = 0
    BY <1>2, <1>3, <2>1, FS_Subset
  <2>3. SumFunctionOnSet(f, Periods \ {p}) = 0
    BY <2>2, SumZero
  <2>4. SumFunctionOnSet(f, Periods) = f[p] + SumFunctionOnSet(f, Periods \ {p})
    <3>1. \A q \in Periods : f[q] \in Nat
      BY <1>1
    <3> QED BY ONLY <3>1, <1>2, p \in Periods, SumRemove
  <2>5. f[p] \in Nat /\ f[p] <= GroupCap(g)
    BY <1>1
  <2> QED BY <1>4, <2>3, <2>4, <2>5
<1> QED BY <1>5, <1>6

\* Nor does what counts in the end exceed what is spent now, and that the cap.
CapsOK ==
  \A g \in Groups :
    /\ GroupCap(g) \in Nat
    /\ \A a \in Allocations :
         /\ SpentInGroup(SpentInTheEnd, a, g) \in Nat
         /\ SpentInGroup(SpentInTheEnd, a, g) <= SpentInGroup(spentByAllocation, a, g)
         /\ SpentInGroup(spentByAllocation, a, g) \in Nat
         /\ SpentInGroup(spentByAllocation, a, g) <= GroupCap(g)

\* So it is in every state.
LEMMA CapsHold ==
  Inv /\ Books => CapsOK
<1> SUFFICES ASSUME Inv, Books, NEW g \in Groups
             PROVE  /\ GroupCap(g) \in Nat
                    /\ \A a \in Allocations :
                         /\ SpentInGroup(SpentInTheEnd, a, g) \in Nat
                         /\ SpentInGroup(SpentInTheEnd, a, g)
                              <= SpentInGroup(spentByAllocation, a, g)
                         /\ SpentInGroup(spentByAllocation, a, g) \in Nat
                         /\ SpentInGroup(spentByAllocation, a, g) <= GroupCap(g)
  BY DEF CapsOK
<1>1. Offers!OfferingsInv /\ Offers!BudgetsInv
  BY DEF Books, RegistryOK
<1>2. spentByAllocation \in Spends /\ SpentInTheEnd \in Spends
  BY DEF Inv, SavedOK, SpentInTheEnd, AtRest
<1>3. \A x \in Allocations \X (Groups \X Periods) : SpentInTheEnd[x] <= spentByAllocation[x]
  <2>1. DOMAIN spentByAllocation = Allocations \X (Groups \X Periods)
    BY <1>2 DEF Spends
  <2>2. \A x \in Allocations \X (Groups \X Periods) : spentByAllocation[x] <= spentByAllocation[x]
    BY <1>2 DEF Spends
  <2>3. CASE AtRest
    BY <2>2, <2>3 DEF SpentInTheEnd
  <2>4. CASE ~AtRest
    BY <2>1, <2>4 DEF SpentInTheEnd, AtRest, Inv, SavedOK
  <2> QED BY <2>3, <2>4
<1>4. GroupCap(g) \in Nat
  BY <1>1, GroupCapOK
<1>5. ASSUME NEW a \in Allocations
      PROVE  /\ SpentInGroup(SpentInTheEnd, a, g) \in Nat
             /\ SpentInGroup(SpentInTheEnd, a, g) <= SpentInGroup(spentByAllocation, a, g)
             /\ SpentInGroup(spentByAllocation, a, g) \in Nat
             /\ SpentInGroup(spentByAllocation, a, g) <= GroupCap(g)
  <2>1. SpentInGroup(spentByAllocation, a, g) <= GroupCap(g)
    BY <1>1, WithinGroupCap
  <2>2. SpentInGroup(SpentInTheEnd, a, g) <= SpentInGroup(spentByAllocation, a, g)
    BY ONLY <1>2, <1>3, a \in Allocations, g \in Groups, MoreSpent
  <2>3. SpentInGroup(SpentInTheEnd, a, g) \in Nat /\ SpentInGroup(spentByAllocation, a, g) \in Nat
    BY <1>2, SumsAreNat
  <2> QED BY <2>1, <2>2, <2>3
<1> QED BY <1>4, <1>5

\* What counts in the end moves when a transaction returns, and then only.
LEMMA SeenFromOutside ==
  ASSUME Inv, [Next]_vars
  PROVE  \/ UNCHANGED SpentInTheEnd
         \/ SpentInTheEnd' = spentByAllocation /\ UNCHANGED policyByGroupPeriod
<1>1. CASE \E trade \in Trades, key \in PoolKeys :
             SwapWithIntent(key, trade) \/ SwapElsewhere(key, trade)
  <2>1. /\ call.phase = "idle" /\ call'.phase = "unlocked" /\ saved' = Snapshot
    BY <1>1 DEF SwapWithIntent, SwapElsewhere
  <2> QED BY <2>1, SnapshotTaken DEF SpentInTheEnd, AtRest
<1>2. CASE BeforeSwap \/ Settle \/ \E settled \in Amounts, filled \in BOOLEAN :
             AfterSwap(settled, filled)
  <2>1. call.phase # "idle" /\ saved' = saved
    BY <1>2 DEF BeforeSwap, AfterSwap, Settle
  <2>2. CASE BeforeSwap
    <3>1. call \in SwapCalls /\ call' = [call EXCEPT !.phase = "swapping"]
      BY <2>2 DEF BeforeSwap, Inv, CallOK
    <3>2. call'.phase = "swapping"
      BY <3>1 DEF SwapCalls
    <3> QED BY <2>1, <3>2 DEF SpentInTheEnd, AtRest
  <2>3. CASE Settle
    <3>1. "phase" \in DOMAIN call /\ call' = [call EXCEPT !.phase = "taking"]
      BY <2>3 DEF Settle, Inv, SettleOK
    <3>2. call'.phase = "taking"
      BY <3>1
    <3> QED BY <2>1, <3>2 DEF SpentInTheEnd, AtRest
  <2>4. CASE \E settled \in Amounts, filled \in BOOLEAN : AfterSwap(settled, filled)
    <3>1. call'.phase = "settling"
      BY <2>4 DEF AfterSwap
    <3> QED BY <2>1, <3>1 DEF SpentInTheEnd, AtRest
  <2> QED BY <1>2, <2>2, <2>3, <2>4
<1>3. CASE Return
  <2>1. call'.phase = "idle" /\ UNCHANGED <<spentByAllocation, policyByGroupPeriod>>
    BY <1>3 DEF Return, Idle, ledgerVars
  <2> QED BY <2>1 DEF SpentInTheEnd, AtRest
<1>4. CASE Revert
  BY <1>4 DEF Revert, Restore, Idle, SpentInTheEnd, AtRest
<1>5. CASE \/ OutsideCall \/ Tick \/ UNCHANGED vars
           \/ \E trade \in Trades : SignTrade(trade)
           \/ \E caller \in {Platform}, router \in {Executor, OtherRouter, Zero} :
                SetTrustedRouter(caller, router)
  <2>1. UNCHANGED <<call, saved>>
    BY <1>5 DEF OutsideCall, Tick, SignTrade, SetTrustedRouter, vars
  <2>2. UNCHANGED spentByAllocation
    <3>1. CASE OutsideCall
      BY <3>1, RegistryLeavesSpend DEF OutsideCall
    <3>2. CASE Tick
      BY <3>2 DEF Tick, Reg!Tick, Reg!Ledger!Tick, Reg!Ledger!ledgerVars, Reg!Ledger!spendVars
    <3>3. CASE \/ UNCHANGED vars
               \/ \E trade \in Trades : SignTrade(trade)
               \/ \E caller \in {Platform}, router \in {Executor, OtherRouter, Zero} :
                    SetTrustedRouter(caller, router)
      BY <3>3 DEF vars, chainVars, ledgerVars, SignTrade, SetTrustedRouter
    <3> QED BY <1>5, <3>1, <3>2, <3>3
  <2> QED BY <2>1, <2>2 DEF SpentInTheEnd, AtRest
<1> QED BY <1>1, <1>2, <1>3, <1>4, <1>5 DEF Next, PurchaseStep

\* Each of these is a step of the human budgets.
LEMMA StepRefines ==
  Inv /\ EndsOK /\ EndsOK' /\ CapsOK /\ CapsOK' /\ [Next]_vars => [Human!Next]_Human!vars
<1> SUFFICES ASSUME Inv, EndsOK, EndsOK', CapsOK, CapsOK', [Next]_vars
             PROVE  [Human!Next]_Human!vars
  OBVIOUS
<1> DEFINE cap    == [g \in Groups |-> Max({policyByGroupPeriod[<<g, p>>].cap : p \in Periods})]
           bought == [ag \in Allocations \X Groups |-> PaidInTheEnd(ag[1], ag[2])]
<1>1. /\ \A a \in Allocations, g \in Groups : bought[<<a, g>>] = SpentInGroup(SpentInTheEnd, a, g)
      /\ \A a \in Allocations, g \in Groups : bought'[<<a, g>>] = SpentInGroup(SpentInTheEnd', a, g)
  BY DEF EndsOK
<1>2. SpentInTheEnd' = SpentInTheEnd => bought' = bought
  BY DEF EndsOK
<1>3. \A g \in Groups : cap[g] = GroupCap(g) /\ cap'[g] = GroupCap(g)'
  BY DEF GroupCap
<1>4. CASE UNCHANGED SpentInTheEnd
  <2>1. cap' \in [Groups -> Nat]
    <3>1. \A g \in Groups : cap'[g] \in Nat
      BY <1>3 DEF CapsOK
    <3> QED BY <3>1
  <2>2. ASSUME NEW a \in Allocations, NEW g \in Groups
        PROVE  bought[<<a, g>>] <= cap'[g]
    <3>1. bought[<<a, g>>] = SpentInGroup(SpentInTheEnd', a, g) /\ cap'[g] = GroupCap(g)'
      BY <1>1, <1>3, <1>4
    <3>2. /\ SpentInGroup(SpentInTheEnd', a, g) \in Nat
          /\ SpentInGroup(SpentInTheEnd', a, g) <= SpentInGroup(spentByAllocation', a, g)
          /\ SpentInGroup(spentByAllocation', a, g) \in Nat
          /\ SpentInGroup(spentByAllocation', a, g) <= GroupCap(g)'
          /\ GroupCap(g)' \in Nat
      BY DEF CapsOK
    <3> HIDE DEF bought, cap
    <3> QED BY <3>1, <3>2
  <2>3. Human!SetCaps
    BY <1>2, <1>4, <2>1, <2>2 DEF Human!SetCaps
  <2> QED BY <2>3 DEF Human!Next
<1>5. CASE SpentInTheEnd' = spentByAllocation /\ UNCHANGED policyByGroupPeriod
  <2>1. ASSUME NEW a \in Allocations, NEW g \in Groups
        PROVE  /\ bought'[<<a, g>>] \in Nat
               /\ bought[<<a, g>>] <= bought'[<<a, g>>] /\ bought'[<<a, g>>] <= cap[g]
    <3>1. /\ bought[<<a, g>>] = SpentInGroup(SpentInTheEnd, a, g)
          /\ bought'[<<a, g>>] = SpentInGroup(spentByAllocation, a, g)
          /\ cap[g] = GroupCap(g)
      BY <1>1, <1>3, <1>5
    <3>2. /\ SpentInGroup(SpentInTheEnd, a, g) <= SpentInGroup(spentByAllocation, a, g)
          /\ SpentInGroup(spentByAllocation, a, g) \in Nat
          /\ SpentInGroup(spentByAllocation, a, g) <= GroupCap(g)
      BY DEF CapsOK
    <3> HIDE DEF bought, cap
    <3> QED BY <3>1, <3>2
  <2>2. bought' \in [Allocations \X Groups -> Nat]
    <3>1. ASSUME NEW x \in Allocations \X Groups
          PROVE  PaidInTheEnd(x[1], x[2])' \in Nat
      <4>1. x[1] \in Allocations /\ x[2] \in Groups /\ x = <<x[1], x[2]>>
        OBVIOUS
      <4> QED BY <2>1, <4>1
    <3> QED BY <3>1
  <2>3. cap' = cap
    BY <1>5
  <2>4. Human!Buy
    BY <2>1, <2>2, <2>3 DEF Human!Buy
  <2> QED BY <2>4 DEF Human!Next
<1> QED BY <1>4, <1>5, SeenFromOutside

\* ImplementsHumanBudget, for every marketplace: with all its calls, re-entrant
\* calls, reverts, offerings and signatures it is one capped budget for each human
\* and offering group, in money that changed hands.
THEOREM TradeIsHumanBudget ==
  Spec => ImplementsHumanBudget
<1>1. Init => Human!Init
  <2> SUFFICES ASSUME Init PROVE Human!Init
    OBVIOUS
  <2>1. EndsOK /\ CapsOK
    BY InitInv, InitBooks, MoneyIsSpend, CapsHold
  <2>2. SpentInTheEnd = [x \in Allocations \X (Groups \X Periods) |-> 0]
    BY DEF Init, Reg!Init, SpentInTheEnd, AtRest, Idle
  <2>3. \A a \in Allocations, g \in Groups : PaidInTheEnd(a, g) = 0
    BY <2>1, <2>2, NothingYet DEF EndsOK
  <2>4. \A ag \in Allocations \X Groups : PaidInTheEnd(ag[1], ag[2]) = 0
    BY <2>3
  <2>5. [g \in Groups |-> Max({policyByGroupPeriod[<<g, p>>].cap : p \in Periods})]
          \in [Groups -> Nat]
    <3>1. \A g \in Groups : Max({policyByGroupPeriod[<<g, p>>].cap : p \in Periods}) \in Nat
      BY <2>1 DEF CapsOK, GroupCap
    <3> QED BY <3>1
  <2> QED BY <2>4, <2>5 DEF Human!Init
<1> QED BY <1>1, StepRefines, MoneyIsSpend, CapsHold, TradeBooks, PTL
        DEF Spec, ImplementsHumanBudget, Human!Spec
\* No human's money above the cap, neither what counts in the end nor what was
\* paid so far.
NobodyAboveCap ==
  \A a \in Allocations, g \in Groups :
    /\ PaidTogether(paid, MembersOf(a), g) <= GroupCap(g)
    /\ PaidInTheEnd(a, g) <= GroupCap(g)

\* A human's money never exceeds the cap of the offering group it was paid for,
\* between two transactions or between two calls of one, however many wallets,
\* signatures and pools it went through: the rule of _writePolicies and
\* recordSpend, in money.
THEOREM NobodyPaysMore ==
  Spec => []NobodyAboveCap
<1>1. Inv /\ Books => NobodyAboveCap
  <2> SUFFICES ASSUME Inv, Books, NEW a \in Allocations, NEW g \in Groups
               PROVE  /\ PaidTogether(paid, MembersOf(a), g) <= GroupCap(g)
                      /\ PaidInTheEnd(a, g) <= GroupCap(g)
    BY DEF NobodyAboveCap
  <2>1. /\ GroupCap(g) \in Nat
        /\ SpentInGroup(SpentInTheEnd, a, g) \in Nat
        /\ SpentInGroup(spentByAllocation, a, g) \in Nat
        /\ SpentInGroup(SpentInTheEnd, a, g) <= SpentInGroup(spentByAllocation, a, g)
        /\ SpentInGroup(spentByAllocation, a, g) <= GroupCap(g)
    BY CapsHold DEF CapsOK
  <2>2. PaidTogether(paid, MembersOf(a), g) + Owed(a, g) = SpentInGroup(spentByAllocation, a, g)
    BY DEF Books, BooksOK
  <2>3. Owed(a, g) \in Nat
    BY DEF Owed, Settling, Inv, SettleOK
  <2>4. PaidTogether(paid, MembersOf(a), g) \in Nat
    <3>1. MembersOf(a) \in SUBSET Wallets /\ paid \in Payments
      BY DEF Inv, SavedOK, MembersOf
    <3> QED BY <3>1, SumsAreNat
  <2>5. PaidInTheEnd(a, g) = SpentInGroup(SpentInTheEnd, a, g)
    BY MoneyIsSpend DEF EndsOK
  <2> QED BY <2>1, <2>2, <2>3, <2>4, <2>5
<1> QED BY <1>1, TradeBooks, PTL
=============================================================================
