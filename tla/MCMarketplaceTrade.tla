------------------------ MODULE MCMarketplaceTrade ------------------------
(* Finite instances of the marketplace, from the state where its offering is *)
(* on sale: one issuer created it, registered its pools and gave the wallets *)
(* a tier, and the backend registered the wallets.                           *)
EXTENDS MarketplaceTrade, TLC

CONSTANTS rwa, issuer, w1, w2, w3, a1, a2, g1, n1, n2, n3

\* Two pools of one offering differ in their fee.
Key(fee) == [tokens |-> {Usdc, rwa}, hooks |-> Hook, fee |-> fee]
MCPoolKeys == {Key(1), Key(2)}

Trade(wallet, recipient, key, amount, version, nonce) ==
  [wallet |-> wallet, recipient |-> recipient, poolId |-> key, policyId |-> 1,
   groupId |-> g1, periodId |-> 1, amountIn |-> amount, version |-> version,
   nonce |-> nonce, deadline |-> MaxTime, executor |-> Executor]

\* w1 and w2 are one human, w3 another; intents share a nonce, two together
\* exceed the cap, and some wait for the cap to change.
BudgetTrades ==
  {Trade(w1, w1, Key(1), 2, 1, n1), Trade(w1, w3, Key(2), 1, 1, n1),
   Trade(w1, w3, Key(2), 2, 1, n2), Trade(w2, w2, Key(1), 2, 2, n3),
   Trade(w3, w3, Key(1), 1, 2, n3)}

\* An intent for the first terms, one for the second, one that expires, and
\* one made for another router.
EligibilityTrades ==
  {Trade(w1, w1, Key(1), 1, 1, n1), Trade(w1, w1, Key(1), 1, 2, n2),
   [Trade(w1, w1, Key(1), 1, 1, n2) EXCEPT !.deadline = 0],
   [Trade(w1, w1, Key(1), 1, 1, n1) EXCEPT !.executor = OtherRouter]}

Offering ==
  [issuer |-> issuer, rwa |-> rwa, groupId |-> g1, periodId |-> 1, cap |-> MAX_CAP,
   startTime |-> 0, endTime |-> 1, version |-> 1, poolId |-> Key(1),
   liquidityOperator |-> Zero, paused |-> FALSE, tokenReviewed |-> FALSE]

OnSale ==
  /\ owner = Registry /\ backendSigner = Signer /\ authorizedHook = Hook
  /\ allocationIdByWallet = [w \in Wallets |-> IF w = w3 THEN a2 ELSE a1]
  /\ policyByGroupPeriod = [b \in Groups \X Periods |-> [cap |-> Offering.cap, usdc |-> Usdc]]
  /\ spentByAllocation = [ab \in Allocations \X (Groups \X Periods) |-> 0]
  /\ highestSpendByGroupPeriod = [b \in Groups \X Periods |-> 0]
  /\ quoteTokenByGroup = [g \in Groups |-> Usdc]
  /\ usedNonce = Nonces
  /\ now = 0
  /\ authorizedIssuer = {issuer}
  /\ offerings = <<Offering>>
  /\ groupUsed = {g1}
  /\ poolToOffering = [k \in PoolKeys |-> 1]
  /\ tokenReviewed = {}
  /\ investorTier = [x \in (1..MaxOfferings) \X Wallets |-> 1]
  /\ revocationEpoch = [x \in (0..MaxOfferings) \X Wallets |-> 0]
  /\ restoredEpoch = [x \in (0..MaxOfferings) \X Wallets |-> 0]
  /\ restorations = {}
  /\ approvedRwa = {rwa}
  /\ trustedRouter = Executor
  /\ purchase = NoPurchase /\ usedTradeNonce = {}
  /\ inSwap = FALSE /\ activeTrade = Zero
  /\ call = Idle /\ saved = <<>>
  /\ signedTrades = {}
  /\ paid = [x \in Wallets \X Groups |-> 0]

MCTrades == BudgetTrades \cup EligibilityTrades

OnSaleSpec == OnSale /\ [][Next]_vars

\* Everything about the offering but its cap and version, and everything about
\* the wallets, is as it was.
OnlyCapMoves ==
  /\ offerings[1] \in {[Offering EXCEPT !.cap = cap, !.version = v] :
                        cap \in Amounts, v \in 1..MaxVersion}
  /\ \A x \in DOMAIN investorTier : investorTier[x] = 1
  /\ \A x \in DOMAIN revocationEpoch : revocationEpoch[x] = 0
  /\ now = 0

\* Everything that may stop a purchase of w1 moves, and the cap stays.
OnlyTermsMove ==
  /\ \A x \in DOMAIN investorTier : investorTier[x] \in (IF x[2] = w1 THEN {0, 1} ELSE {1})
  /\ \E id \in 0..MaxOfferings :
       \A x \in DOMAIN revocationEpoch : revocationEpoch[x] = 0 \/ x = <<id, w1>>
  /\ \A id \in DOMAIN offerings :
       /\ offerings[id].liquidityOperator = Zero
       /\ offerings[id].cap = MAX_CAP /\ offerings[id].endTime = 1
  /\ \A r \in restorations : r.expiry = MaxTime
  /\ "key" \in DOMAIN call => call.key = Key(1)

\* The run explores two stories from one state: wallets that share budgets, and
\* one wallet whose right to buy comes and goes.
Intents == signedTrades \cup (IF "trade" \in DOMAIN call THEN {call.trade} ELSE {})
Focus ==
  /\ authorizedIssuer = {issuer} /\ tokenReviewed = {}
  /\ \/ OnlyCapMoves /\ Intents \subseteq BudgetTrades
     \/ OnlyTermsMove /\ Intents \subseteq EligibilityTrades /\ Cardinality(signedTrades) <= 2
=============================================================================
