------------------------- MODULE SingleMarketProofs -------------------------
(***************************************************************************)
(* Proofs about the single-market stack, for every set of wallets, budgets *)
(* and amounts and however many transactions: what is open ends with its   *)
(* transaction, and every charge is the caller's and on the terms in force.*)
(***************************************************************************)
EXTENDS SingleMarket, SumTheorems

USE MarketAssumption

-----------------------------------------------------------------------------
(* The parts of the invariant *)

HookSettings ==
  [userTier : [Wallets \cup {Helper} -> Tiers], trustedRouter : {Zero, Executor, OtherRouter},
   usdc : Tokens \cup {Zero}, rwaToken : Tokens \cup {Zero}, ledger : BOOLEAN,
   allocation : Budgets \cup {NoBudget}, poolPaused : BOOLEAN,
   volatilityThreshold : Volatilities, retailSwapCap : RetailCaps]

\* The stack of calls: only the running call is not in its token transfer, and
\* the executor's call is the first of the transaction.
StackOK ==
  /\ call \in Seq(Frames)
  /\ \A i \in DOMAIN call : i # 1 => call[i].phase = "taking"
  /\ \A i \in DOMAIN call : call[i].router = Executor => i = Len(call)

\* The executor works for the caller of its call, and for nobody without one.
ExecutorOK ==
  /\ \A i \in DOMAIN call : call[i].router = Executor =>
       /\ executor.inSwap
       /\ executor.trader = call[i].trader /\ call[i].caller = call[i].trader
  /\ executor # NoSwap => \E i \in DOMAIN call : call[i].router = Executor

\* The hook's purchase is open during the pool's swap only.
PurchaseOK ==
  purchase # NoPurchase => call # <<>> /\ Top.phase = "swapping"

\* A call the hook let through was let through under the settings there are.
Admitted(f) ==
  /\ f.router = hook.trustedRouter
  /\ ~hook.poolPaused
  /\ TierAllows(f.trader, f.amount)
  /\ f.fee = SwapFee(f)

AdmittedOK ==
  /\ hook \in HookSettings
  /\ \A i \in DOMAIN call : call[i].phase # "unlocked" => Admitted(call[i])
  /\ call # <<>> /\ Top.phase = "swapping" => purchase.budget = hook.allocation
  /\ call # <<>> /\ Top.phase = "settling" => Top.budget = hook.allocation

\* A revert goes back to a state between two transactions, with less money paid.
SavedOK ==
  /\ paid \in [Wallets \X Budgets -> Nat]
  /\ call # <<>> =>
       /\ saved.purchase = NoPurchase /\ saved.executor = NoSwap
       /\ saved.paid \in [Wallets \X Budgets -> Nat]
       /\ \A x \in Wallets \X Budgets : saved.paid[x] <= paid[x]

Inv == StackOK /\ ExecutorOK /\ PurchaseOK /\ AdmittedOK /\ SavedOK

-----------------------------------------------------------------------------
(* Stacks *)

\* A call on top of the others.
LEMMA Pushed ==
  ASSUME NEW S, NEW s \in Seq(S), NEW f \in S
  PROVE  /\ <<f>> \o s \in Seq(S)
         /\ Len(s) \in Nat /\ Len(<<f>> \o s) = Len(s) + 1
         /\ DOMAIN s = 1..Len(s) /\ DOMAIN (<<f>> \o s) = 1..(Len(s) + 1)
         /\ (<<f>> \o s)[1] = f
         /\ \A i \in DOMAIN s : (<<f>> \o s)[i + 1] = s[i]
OBVIOUS

\* The calls without the top one.
LEMMA Popped ==
  ASSUME NEW S, NEW s \in Seq(S), s # <<>>
  PROVE  /\ Tail(s) \in Seq(S)
         /\ Len(s) \in Nat /\ Len(s) > 0 /\ Len(Tail(s)) = Len(s) - 1
         /\ DOMAIN s = 1..Len(s) /\ DOMAIN Tail(s) = 1..(Len(s) - 1)
         /\ Head(s) = s[1] /\ s[1] \in S /\ 1 \in DOMAIN s
         /\ \A i \in DOMAIN Tail(s) : Tail(s)[i] = s[i + 1] /\ i + 1 \in DOMAIN s
OBVIOUS

\* The top call changed, the others in place.
LEMMA TopReplaced ==
  ASSUME NEW S, NEW s \in Seq(S), s # <<>>, NEW f \in S
  PROVE  LET r == <<f>> \o Tail(s) IN
         /\ r \in Seq(S) /\ r # <<>>
         /\ DOMAIN r = DOMAIN s /\ Len(r) = Len(s)
         /\ r[1] = f /\ Head(r) = f
         /\ \A i \in DOMAIN s : i # 1 => r[i] = s[i]
<1> DEFINE r == <<f>> \o Tail(s)
<1>1. /\ Tail(s) \in Seq(S) /\ Len(s) \in Nat /\ Len(s) > 0 /\ Len(Tail(s)) = Len(s) - 1
      /\ DOMAIN s = 1..Len(s)
      /\ \A i \in DOMAIN Tail(s) : Tail(s)[i] = s[i + 1]
      /\ DOMAIN Tail(s) = 1..(Len(s) - 1)
  BY Popped
<1>2. /\ r \in Seq(S) /\ Len(r) = Len(Tail(s)) + 1
      /\ DOMAIN r = 1..(Len(Tail(s)) + 1)
      /\ r[1] = f /\ \A i \in DOMAIN Tail(s) : r[i + 1] = Tail(s)[i]
  BY <1>1, Pushed
<1>3. ASSUME NEW i \in DOMAIN s, i # 1
      PROVE  r[i] = s[i]
  <2>1. i - 1 \in DOMAIN Tail(s) /\ (i - 1) + 1 = i
    BY <1>1, <1>3
  <2> QED BY <1>1, <1>2, <2>1
<1>4. r # <<>> /\ Head(r) = r[1]
  <2> HIDE DEF r
  <2> QED BY <1>1, <1>2
<1> QED BY <1>1, <1>2, <1>3, <1>4

-----------------------------------------------------------------------------
(* Steps that leave the calls alone *)

\* While no call runs, anything but the calls' own state may change.
LEMMA AtRestKeeps ==
  ASSUME Inv, call = <<>>, hook' \in HookSettings,
         UNCHANGED <<purchase, executor, paid, call, saved>>
  PROVE  Inv'
<1>1. DOMAIN call = {}
  OBVIOUS
<1> QED BY <1>1 DEF Inv, StackOK, ExecutorOK, PurchaseOK, AdmittedOK, SavedOK

\* The setters keep the settings in their type.
LEMMA SettingsKept ==
  ASSUME hook \in HookSettings, ChangeSetting
  PROVE  hook' \in HookSettings
<1>1. CASE \E x \in Wallets \cup {Helper}, t \in Tiers : hook' = [hook EXCEPT !.userTier[x] = t]
  <2>1. PICK x \in Wallets \cup {Helper}, t \in Tiers : hook' = [hook EXCEPT !.userTier[x] = t]
    BY <1>1
  <2>2. [hook.userTier EXCEPT ![x] = t] \in [Wallets \cup {Helper} -> Tiers]
    BY DEF HookSettings
  <2>3. hook' = [hook EXCEPT !.userTier = [hook.userTier EXCEPT ![x] = t]]
    BY <2>1
  <2> QED BY <2>2, <2>3 DEF HookSettings
<1>2. CASE \E b \in BOOLEAN : hook' = [hook EXCEPT !.poolPaused = b]
  BY <1>2 DEF HookSettings
<1>3. CASE \E v \in Volatilities : hook' = [hook EXCEPT !.volatilityThreshold = v]
  BY <1>3 DEF HookSettings
<1>4. CASE \E c \in RetailCaps : hook' = [hook EXCEPT !.retailSwapCap = c]
  BY <1>4 DEF HookSettings
<1>5. CASE \E r \in {Executor, OtherRouter} : hook' = [hook EXCEPT !.trustedRouter = r]
  BY <1>5 DEF HookSettings
<1>6. CASE \E t \in Tokens \X Tokens : hook' = [hook EXCEPT !.usdc = t[1], !.rwaToken = t[2]]
  <2>1. PICK t \in Tokens \X Tokens : hook' = [hook EXCEPT !.usdc = t[1], !.rwaToken = t[2]]
    BY <1>6
  <2> DEFINE h == [hook EXCEPT !.usdc = t[1]]
  <2>2. t[1] \in Tokens /\ t[2] \in Tokens
    OBVIOUS
  <2>3. h \in HookSettings
    BY <2>2 DEF HookSettings
  <2>4. hook' = [h EXCEPT !.rwaToken = t[2]]
    BY <2>1
  <2> HIDE DEF h
  <2> QED BY <2>2, <2>3, <2>4 DEF HookSettings
<1>7. CASE hook' = [hook EXCEPT !.ledger = TRUE]
  BY <1>7 DEF HookSettings
<1>8. CASE \E b \in Budgets : hook' = [hook EXCEPT !.allocation = b]
  BY <1>8 DEF HookSettings
<1> QED BY <1>1, <1>2, <1>3, <1>4, <1>5, <1>6, <1>7, <1>8 DEF ChangeSetting

\* A step that touches nothing the invariant is about.
LEMMA QuietKeeps ==
  ASSUME Inv, UNCHANGED <<hook, volatility, purchase, executor, paid, call, saved>>
  PROVE  Inv'
BY DEF Inv, StackOK, ExecutorOK, PurchaseOK, AdmittedOK, SavedOK, Admitted, TierAllows,
       SwapFee, FeeFor, Top

\* Steps of the owners, of providers and of the registration.
LEMMA OutsideKeeps ==
  ASSUME Inv,
         \/ Administer
         \/ \E sender \in Wallets \cup {Helper}, pool \in Pools : AddLiquidity(sender, pool)
         \/ Register
         \/ UNCHANGED vars
  PROVE  Inv'
<1>1. CASE SetHook
  BY <1>1, AtRestKeeps, SettingsKept DEF SetHook, Inv, AdmittedOK
<1>2. CASE (\E v \in Volatilities : SetVolatility(v)) \/ AdministerLedger
           \/ \E sender \in Wallets \cup {Helper}, pool \in Pools : AddLiquidity(sender, pool)
  BY <1>2, AtRestKeeps DEF SetVolatility, AdministerLedger, AddLiquidity, Inv, AdmittedOK
<1>3. CASE Register \/ UNCHANGED vars
  BY <1>3, QuietKeeps DEF Register, vars
<1> QED BY <1>1, <1>2, <1>3 DEF Administer

-----------------------------------------------------------------------------
(* Steps of a transaction *)

\* A wallet calls the executor.
LEMMA SwapExactInputKeeps ==
  ASSUME Inv, NEW w \in Wallets, NEW tokens \in Tokens \X Tokens,
         NEW pool \in Pools, NEW amount \in Amounts,
         SwapExactInput(w, tokens, pool, amount)
  PROVE  Inv'
<1> DEFINE f == Frame(Executor, w, w, tokens, pool, TRUE, amount)
<1>1. f \in Frames
  BY DEF Frame, Frames
<1>2. call = <<>> /\ call' = <<f>> /\ DOMAIN call = {}
  BY DEF SwapExactInput
<1>3. call' \in Seq(Frames) /\ DOMAIN call' = {1} /\ Len(call') = 1 /\ call'[1] = f /\ Head(call') = f
  <2> HIDE DEF f
  <2> QED BY <1>1, <1>2
<1>4. f.phase = "unlocked" /\ f.router = Executor /\ f.trader = w /\ f.caller = w
  BY DEF Frame
<1>5. executor'.inSwap /\ executor'.trader = w
  BY DEF SwapExactInput
<1> HIDE DEF f
<1>6. purchase = NoPurchase /\ executor = NoSwap
  BY <1>2 DEF Inv, PurchaseOK, ExecutorOK
<1>7. StackOK'
  BY <1>3, <1>4 DEF StackOK
<1>8. ExecutorOK'
  BY <1>3, <1>4, <1>5 DEF ExecutorOK
<1>9. PurchaseOK'
  BY <1>6 DEF PurchaseOK, SwapExactInput
<1>10. AdmittedOK'
  BY <1>3, <1>4 DEF AdmittedOK, Top, Inv, SwapExactInput
<1>11. SavedOK'
  BY <1>6 DEF SavedOK, Inv, SwapExactInput, Snapshot
<1> QED BY <1>7, <1>8, <1>9, <1>10, <1>11 DEF Inv

\* A wallet calls another router, also from inside a purchase.
LEMMA SwapElsewhereKeeps ==
  ASSUME Inv, NEW w \in Wallets, NEW tokens \in Tokens \X Tokens,
         NEW pool \in Pools, NEW amount \in Amounts,
         NEW exactInput \in BOOLEAN, SwapElsewhere(w, tokens, pool, exactInput, amount)
  PROVE  Inv'
<1> DEFINE f == Frame(OtherRouter, Zero, w, tokens, pool, exactInput, amount)
<1>1. f \in Frames
  BY DEF Frame, Frames
<1>2. f.phase = "unlocked" /\ f.router = OtherRouter
  BY DEF Frame
<1>3. call' = <<f>> \o call /\ call \in Seq(Frames)
  BY DEF SwapElsewhere, Inv, StackOK
<1> HIDE DEF f
<1>4. /\ call' \in Seq(Frames)
      /\ Len(call) \in Nat /\ Len(call') = Len(call) + 1
      /\ DOMAIN call = 1..Len(call) /\ DOMAIN call' = 1..(Len(call) + 1)
      /\ call'[1] = f
      /\ \A i \in DOMAIN call : call'[i + 1] = call[i]
  BY <1>1, <1>3, Pushed
<1>5. Head(call') = f /\ call' # <<>>
  BY <1>4
<1>6. ASSUME NEW i \in DOMAIN call', i # 1
      PROVE  i - 1 \in DOMAIN call /\ call'[i] = call[i - 1]
  BY <1>4, <1>6
<1>7. call # <<>> => call[1].phase = "taking" /\ Top.phase = "taking" /\ Len(call) = 1
  BY DEF SwapElsewhere, Top
<1>8. purchase = NoPurchase
  BY <1>7 DEF Inv, PurchaseOK
<1>9. StackOK'
  <2>1. ASSUME NEW i \in DOMAIN call', i # 1
        PROVE  call'[i].phase = "taking"
    BY <1>4, <1>6, <1>7, <2>1
  <2>2. ASSUME NEW i \in DOMAIN call', call'[i].router = Executor
        PROVE  i = Len(call')
    <3>1. i # 1
      BY <1>2, <1>4, <2>2
    <3> QED BY <1>4, <1>6, <2>2, <3>1 DEF Inv, StackOK
  <2> QED BY <1>4, <2>1, <2>2 DEF StackOK
<1>10. ExecutorOK'
  <2>1. executor' = executor
    BY DEF SwapElsewhere
  <2>2. ASSUME NEW i \in DOMAIN call', call'[i].router = Executor
        PROVE  /\ executor'.inSwap
               /\ executor'.trader = call'[i].trader /\ call'[i].caller = call'[i].trader
    <3>1. i # 1
      BY <1>2, <1>4, <2>2
    <3> QED BY <1>6, <2>1, <2>2, <3>1 DEF Inv, ExecutorOK
  <2>3. ASSUME executor' # NoSwap
        PROVE  \E i \in DOMAIN call' : call'[i].router = Executor
    <3>1. PICK i \in DOMAIN call : call[i].router = Executor
      BY <2>1, <2>3 DEF Inv, ExecutorOK
    <3>2. i + 1 \in DOMAIN call' /\ call'[i + 1].router = Executor
      BY <1>4, <3>1
    <3> QED BY <3>2
  <2> QED BY <2>2, <2>3 DEF ExecutorOK
<1>11. PurchaseOK'
  BY <1>8 DEF PurchaseOK, SwapElsewhere
<1>12. AdmittedOK'
  <2>1. UNCHANGED <<hook, volatility>>
    BY DEF SwapElsewhere
  <2>2. ASSUME NEW i \in DOMAIN call', call'[i].phase # "unlocked"
        PROVE  Admitted(call[i])'
    <3>1. i # 1
      BY <1>2, <1>4, <2>2
    <3>2. Admitted(call[i - 1])
      BY <1>6, <2>2, <3>1 DEF Inv, AdmittedOK
    <3> QED BY <1>6, <2>1, <3>1, <3>2 DEF Admitted, TierAllows, SwapFee, FeeFor
  <2> QED BY <1>2, <1>5, <2>1, <2>2 DEF AdmittedOK, Top, Inv
<1>13. SavedOK'
  <2>1. CASE call = <<>>
    <3>1. executor = NoSwap
      BY <2>1 DEF Inv, ExecutorOK
    <3> QED BY <1>8, <2>1, <3>1 DEF SavedOK, Inv, SwapElsewhere, Snapshot
  <2>2. CASE call # <<>>
    BY <2>2 DEF SavedOK, Inv, SwapElsewhere
  <2> QED BY <2>1, <2>2
<1> QED BY <1>9, <1>10, <1>11, <1>12, <1>13 DEF Inv

\* A call that stays where it is leaves the calls below it as they were.
LEMMA TopChanges ==
  ASSUME Inv, call # <<>>, NEW f \in Frames, call' = <<f>> \o Tail(call), f.router = Top.router,
         f.trader = Top.trader, f.caller = Top.caller, f.amount = Top.amount /\ f.pool = Top.pool,
         UNCHANGED <<hook, volatility, executor>>,
         f.phase # "unlocked", f.fee = SwapFee(Top),
         Admitted(Top) \/ (TrustedSender(Top.router) /\ ~hook.poolPaused
                           /\ TierAllows(Top.trader, Top.amount))
  PROVE  /\ StackOK' /\ ExecutorOK'
         /\ \A i \in DOMAIN call' : call'[i].phase # "unlocked" => Admitted(call[i])'
         /\ Top' = f /\ call' # <<>>
<1>1. call \in Seq(Frames) /\ Top = call[1] /\ 1 \in DOMAIN call
  <2>1. call \in Seq(Frames)
    BY DEF Inv, StackOK
  <2> QED BY <2>1, Popped DEF Top
<1>2. /\ call' \in Seq(Frames) /\ call' # <<>>
      /\ DOMAIN call' = DOMAIN call /\ Len(call') = Len(call)
      /\ call'[1] = f /\ Head(call') = f
      /\ \A i \in DOMAIN call : i # 1 => call'[i] = call[i]
  BY <1>1, TopReplaced
<1>3. StackOK'
  <2>1. ASSUME NEW i \in DOMAIN call', i # 1
        PROVE  call'[i].phase = "taking"
    BY <1>2, <2>1 DEF Inv, StackOK
  <2>2. ASSUME NEW i \in DOMAIN call', call'[i].router = Executor
        PROVE  i = Len(call')
    <3>1. call[i].router = Executor
      BY <1>1, <1>2, <2>2
    <3> QED BY <1>2, <3>1 DEF Inv, StackOK
  <2> QED BY <1>2, <2>1, <2>2 DEF StackOK
<1>4. ASSUME NEW i \in DOMAIN call
      PROVE  /\ call'[i].router = call[i].router /\ call'[i].trader = call[i].trader
             /\ call'[i].caller = call[i].caller
  BY <1>1, <1>2
<1>5. ExecutorOK'
  <2>1. ASSUME NEW i \in DOMAIN call', call'[i].router = Executor
        PROVE  /\ executor'.inSwap
               /\ executor'.trader = call'[i].trader /\ call'[i].caller = call'[i].trader
    <3>1. i \in DOMAIN call /\ call[i].router = Executor
      BY <1>2, <1>4, <2>1
    <3> QED BY <1>4, <3>1 DEF Inv, ExecutorOK
  <2>2. ASSUME executor' # NoSwap
        PROVE  \E i \in DOMAIN call' : call'[i].router = Executor
    <3>1. PICK i \in DOMAIN call : call[i].router = Executor
      BY <2>2 DEF Inv, ExecutorOK
    <3> QED BY <1>2, <1>4, <3>1
  <2> QED BY <2>1, <2>2 DEF ExecutorOK
<1>6. ASSUME NEW i \in DOMAIN call', call'[i].phase # "unlocked"
      PROVE  Admitted(call[i])'
  <2>1. CASE i = 1
    BY <1>2, <2>1 DEF Admitted, TrustedSender, TierAllows, SwapFee, FeeFor
  <2>2. CASE i # 1
    <3>1. Admitted(call[i])
      BY <1>2, <1>6, <2>2 DEF Inv, AdmittedOK
    <3> QED BY <1>2, <2>2, <3>1 DEF Admitted, TierAllows, SwapFee, FeeFor
  <2> QED BY <2>1, <2>2
<1> QED BY <1>2, <1>3, <1>5, <1>6 DEF Top

\* The running call is one of the calls, and was admitted once it is past the hook.
LEMMA Running ==
  ASSUME Inv, call # <<>>
  PROVE  /\ Top \in Frames /\ Top = call[1] /\ 1 \in DOMAIN call
         /\ Top.phase # "unlocked" => Admitted(Top)
<1>1. call \in Seq(Frames)
  BY DEF Inv, StackOK
<1>2. Top \in Frames /\ Top = call[1] /\ 1 \in DOMAIN call
  BY <1>1, Popped DEF Top
<1> QED BY <1>2 DEF Inv, AdmittedOK

\* What a call settles is an amount of money.
LEMMA SettledIsNat ==
  ASSUME NEW f \in Frames
  PROVE  f.settled \in Nat /\ f.amount \in Nat
<1>1. f.settled \in Amounts \cup {0} /\ f.amount \in Amounts
  BY DEF Frames
<1>2. Amounts \subseteq Nat
  BY MarketAssumption
<1> QED BY <1>1, <1>2

\* A field of a call is written and the others stay.
Same(c, d) ==
  /\ c \in Frames /\ c.router = d.router /\ c.trader = d.trader
  /\ c.caller = d.caller /\ c.amount = d.amount /\ c.pool = d.pool

\* Writing the phase of a call changes nothing else of it.
LEMMA PhaseWritten ==
  ASSUME NEW c \in Frames, NEW p \in {"unlocked", "swapping", "settling", "taking"}
  PROVE  LET d == [c EXCEPT !.phase = p] IN Same(d, c) /\ d.phase = p /\ d.fee = c.fee
BY DEF Frames, Same

\* Nor does writing its fee,
LEMMA FeeWritten ==
  ASSUME NEW c \in Frames, NEW fee \in {0, 500, 1000, 5000} \cup Pools,
         NEW d, d = [c EXCEPT !.fee = fee]
  PROVE  Same(d, c) /\ d.phase = c.phase /\ d.fee = fee
BY DEF Frames, Same

\* what was settled,
LEMMA SettledWritten ==
  ASSUME NEW c \in Frames, NEW settled \in Amounts, NEW d, d = [c EXCEPT !.settled = settled]
  PROVE  Same(d, c) /\ d.phase = c.phase /\ d.fee = c.fee /\ d.settled = settled
BY DEF Frames, Same

\* whether it was filled,
LEMMA FilledWritten ==
  ASSUME NEW c \in Frames, NEW filled \in BOOLEAN, NEW d, d = [c EXCEPT !.filled = filled]
  PROVE  Same(d, c) /\ d.phase = c.phase /\ d.fee = c.fee /\ d.settled = c.settled
BY DEF Frames, Same

\* or its budget.
LEMMA BudgetWritten ==
  ASSUME NEW c \in Frames, NEW b \in Budgets \cup {NoBudget}, NEW d, d = [c EXCEPT !.budget = b]
  PROVE  /\ Same(d, c) /\ d.phase = c.phase /\ d.fee = c.fee /\ d.settled = c.settled
         /\ d.budget = b
BY DEF Frames, Same

\* The fee of a swap is one of the tiers' or that of its pool.
LEMMA FeeOfSwap ==
  ASSUME NEW f \in Frames
  PROVE  SwapFee(f) \in {0, 500, 1000, 5000} \cup Pools
<1>1. f.pool \in Pools
  BY DEF Frames
<1>2. FeeFor(f.trader) \in {500, 1000, 5000}
  BY DEF FeeFor, Fee
<1> QED BY <1>1, <1>2 DEF SwapFee

\* The hook admits the running swap.
LEMMA BeforeSwapKeeps ==
  ASSUME Inv, BeforeSwap
  PROVE  Inv'
<1> DEFINE g == [Top EXCEPT !.phase = "swapping"]
           f == [g EXCEPT !.fee = SwapFee(Top)]
<1>1. call # <<>> /\ Top \in Frames /\ call' = <<f>> \o Tail(call)
  BY Running DEF BeforeSwap
<1>2. SwapFee(Top) \in {0, 500, 1000, 5000} \cup Pools
  BY <1>1, FeeOfSwap
<1>3. f \in Frames /\ f.phase = "swapping" /\ f.fee = SwapFee(Top)
      /\ f.router = Top.router /\ f.trader = Top.trader /\ f.caller = Top.caller
      /\ f.amount = Top.amount /\ f.pool = Top.pool
  <2>1. Same(g, Top) /\ g.phase = "swapping"
    BY <1>1, PhaseWritten
  <2> HIDE DEF g
  <2>2. g \in Frames
    BY <2>1 DEF Same
  <2>3. Same(f, g) /\ f.phase = g.phase /\ f.fee = SwapFee(Top)
    <3>1. f = [g EXCEPT !.fee = SwapFee(Top)]
      OBVIOUS
    <3> HIDE DEF f
    <3> QED BY <1>2, <2>2, <3>1, FeeWritten
  <2> QED BY <2>1, <2>3 DEF Same
<1> HIDE DEF f
<1>4. /\ StackOK' /\ ExecutorOK'
      /\ \A i \in DOMAIN call' : call'[i].phase # "unlocked" => Admitted(call[i])'
      /\ Top' = f /\ call' # <<>>
  BY <1>1, <1>3, TopChanges DEF BeforeSwap
<1>5. PurchaseOK'
  BY <1>3, <1>4 DEF PurchaseOK
<1>6. AdmittedOK'
  <2>1. purchase'.budget = hook.allocation /\ hook' = hook
    BY DEF BeforeSwap
  <2> QED BY <1>3, <1>4, <2>1 DEF AdmittedOK, Inv
<1>7. SavedOK'
  BY <1>1 DEF SavedOK, Inv, BeforeSwap
<1> QED BY <1>4, <1>5, <1>6, <1>7 DEF Inv

\* A call that was charged says so, and is the same call otherwise.
LEMMA CallSettles ==
  ASSUME Inv, NEW settled \in Amounts, NEW filled \in BOOLEAN, AfterSwap(settled, filled)
  PROVE  \E f \in Frames :
           /\ call' = <<f>> \o Tail(call)
           /\ Same(f, Top) /\ f.fee = Top.fee
           /\ f.phase = "settling" /\ f.settled = settled /\ f.budget = purchase.budget
<1> DEFINE g == [Top EXCEPT !.phase = "settling"]
           h == [g EXCEPT !.settled = settled]
           k == [h EXCEPT !.filled = filled]
           f == [k EXCEPT !.budget = purchase.budget]
<1>1. call # <<>> /\ Top \in Frames /\ call' = <<f>> \o Tail(call)
  BY Running DEF AfterSwap
<1>2. purchase.budget \in Budgets \cup {NoBudget}
  BY DEF AfterSwap, Inv, AdmittedOK, HookSettings
<1>3. /\ f \in Frames /\ Same(f, Top) /\ f.fee = Top.fee
      /\ f.phase = "settling" /\ f.settled = settled /\ f.budget = purchase.budget
  <2>1. Same(g, Top) /\ g.phase = "settling" /\ g.fee = Top.fee
    BY <1>1, PhaseWritten
  <2> HIDE DEF g
  <2>2. Same(h, g) /\ h.phase = g.phase /\ h.fee = g.fee /\ h.settled = settled
    <3>1. g \in Frames
      BY <2>1 DEF Same
    <3> QED BY <3>1, SettledWritten
  <2> HIDE DEF h
  <2>3. Same(k, h) /\ k.phase = h.phase /\ k.fee = h.fee /\ k.settled = h.settled
    <3>1. h \in Frames
      BY <2>2 DEF Same
    <3> QED BY <3>1, FilledWritten
  <2> HIDE DEF k
  <2>4. /\ Same(f, k) /\ f.phase = k.phase /\ f.fee = k.fee /\ f.settled = k.settled
        /\ f.budget = purchase.budget
    <3>1. k \in Frames
      BY <2>3 DEF Same
    <3>2. f = [k EXCEPT !.budget = purchase.budget]
      OBVIOUS
    <3> HIDE DEF f
    <3> QED BY <1>2, <3>1, <3>2, BudgetWritten
  <2> QED BY <2>1, <2>2, <2>3, <2>4 DEF Same
<1> QED BY <1>1, <1>3

\* The hook records the fill and closes its purchase.
LEMMA AfterSwapKeeps ==
  ASSUME Inv, NEW settled \in Amounts, NEW filled \in BOOLEAN, AfterSwap(settled, filled)
  PROVE  Inv'
<1>1. call # <<>> /\ Top \in Frames /\ Admitted(Top)
  BY Running DEF AfterSwap
<1>2. purchase.budget = hook.allocation
  BY DEF AfterSwap, Inv, AdmittedOK
<1>3. PICK f \in Frames :
        /\ call' = <<f>> \o Tail(call)
        /\ f.phase = "settling" /\ f.fee = SwapFee(Top)
        /\ f.router = Top.router /\ f.trader = Top.trader /\ f.caller = Top.caller
        /\ f.amount = Top.amount /\ f.pool = Top.pool /\ f.budget = hook.allocation
  BY <1>1, <1>2, CallSettles DEF Same, Admitted
<1>4. /\ StackOK' /\ ExecutorOK'
      /\ \A i \in DOMAIN call' : call'[i].phase # "unlocked" => Admitted(call[i])'
      /\ Top' = f /\ call' # <<>>
  BY <1>1, <1>3, TopChanges DEF AfterSwap
<1>5. PurchaseOK'
  BY DEF PurchaseOK, AfterSwap, ClosedPurchase
<1>6. AdmittedOK'
  <2>1. hook' = hook
    BY DEF AfterSwap
  <2> QED BY <1>3, <1>4, <2>1 DEF AdmittedOK, Inv
<1>7. SavedOK'
  BY <1>1 DEF SavedOK, Inv, AfterSwap
<1> QED BY <1>4, <1>5, <1>6, <1>7 DEF Inv

\* The frame is paid for by the account it names.
LEMMA SettleKeeps ==
  ASSUME Inv, Settle
  PROVE  Inv'
<1> DEFINE f == [Top EXCEPT !.phase = "taking"]
<1>1. call # <<>> /\ Top \in Frames /\ Admitted(Top) /\ call' = <<f>> \o Tail(call)
  BY Running DEF Settle
<1>2. f \in Frames /\ f.phase = "taking" /\ f.fee = SwapFee(Top)
      /\ f.router = Top.router /\ f.trader = Top.trader /\ f.caller = Top.caller
      /\ f.amount = Top.amount /\ f.pool = Top.pool
  BY <1>1, PhaseWritten DEF Same, Admitted
<1>3. Top.settled \in Nat
  BY <1>1, SettledIsNat
<1> HIDE DEF f
<1>4. /\ StackOK' /\ ExecutorOK'
      /\ \A i \in DOMAIN call' : call'[i].phase # "unlocked" => Admitted(call[i])'
      /\ Top' = f /\ call' # <<>>
  BY <1>1, <1>2, TopChanges DEF Settle
<1>5. PurchaseOK'
  BY DEF PurchaseOK, Settle, Inv
<1>6. AdmittedOK'
  <2>1. hook' = hook
    BY DEF Settle
  <2> QED BY <1>2, <1>4, <2>1 DEF AdmittedOK, Inv
<1>7. SavedOK'
  <2>1. /\ paid \in [Wallets \X Budgets -> Nat]
        /\ saved.purchase = NoPurchase /\ saved.executor = NoSwap
        /\ saved.paid \in [Wallets \X Budgets -> Nat]
        /\ \A x \in Wallets \X Budgets : saved.paid[x] <= paid[x]
    BY <1>1 DEF Inv, SavedOK
  <2>2. paid' = [paid EXCEPT ![<<Top.trader, Top.budget>>] = @ + Top.settled] /\ saved' = saved
    BY DEF Settle
  <2>3. ASSUME NEW x \in Wallets \X Budgets
        PROVE  paid'[x] \in Nat /\ paid[x] <= paid'[x] /\ saved.paid[x] <= paid'[x]
    <3>1. paid[x] \in Nat /\ saved.paid[x] \in Nat /\ saved.paid[x] <= paid[x]
      BY <2>1
    <3>2. paid'[x] = paid[x] \/ paid'[x] = paid[x] + Top.settled
      BY <2>1, <2>2
    <3> QED BY <1>3, <3>1, <3>2
  <2>4. paid' \in [Wallets \X Budgets -> Nat]
    BY <2>1, <2>2, <2>3
  <2> QED BY <2>1, <2>2, <2>3, <2>4 DEF SavedOK
<1> QED BY <1>4, <1>5, <1>6, <1>7 DEF Inv

\* The top call returns.
LEMMA ReturnKeeps ==
  ASSUME Inv, Return
  PROVE  Inv'
<1>1. call # <<>> /\ call \in Seq(Frames) /\ call' = Tail(call) /\ Top.phase = "taking"
  BY DEF Return, Inv, StackOK
<1>2. /\ call' \in Seq(Frames)
      /\ Len(call) \in Nat /\ Len(call) > 0 /\ Len(call') = Len(call) - 1
      /\ DOMAIN call = 1..Len(call) /\ DOMAIN call' = 1..(Len(call) - 1)
      /\ Top = call[1] /\ 1 \in DOMAIN call
      /\ \A i \in DOMAIN call' : call'[i] = call[i + 1] /\ i + 1 \in DOMAIN call
  BY <1>1, Popped DEF Top
<1>3. ASSUME NEW i \in DOMAIN call'
      PROVE  i + 1 # 1 /\ call'[i].phase = "taking"
  BY <1>2 DEF Inv, StackOK
<1>4. call' # <<>> => Top' = call'[1] /\ 1 \in DOMAIN call'
  <2>1. call' # <<>> => Head(call') = call'[1] /\ 1 \in DOMAIN call'
    BY <1>2, Popped
  <2> QED BY <2>1 DEF Top
<1>5. call' # <<>> => Top'.phase = "taking"
  BY <1>3, <1>4
<1>6. StackOK'
  <2>1. ASSUME NEW i \in DOMAIN call', call'[i].router = Executor
        PROVE  i = Len(call')
    BY <1>2, <2>1 DEF Inv, StackOK
  <2> QED BY <1>2, <1>3, <2>1 DEF StackOK
<1>7. ExecutorOK'
  <2>1. CASE Top.router = Executor
    <3>1. Len(call) = 1
      BY <1>2, <2>1 DEF Inv, StackOK
    <3>2. DOMAIN call' = {} /\ executor' = NoSwap
      BY <1>2, <2>1, <3>1 DEF Return
    <3> QED BY <3>2 DEF ExecutorOK
  <2>2. CASE Top.router # Executor
    <3>1. executor' = executor
      BY <2>2 DEF Return
    <3>2. ASSUME NEW i \in DOMAIN call', call'[i].router = Executor
          PROVE  /\ executor'.inSwap
                 /\ executor'.trader = call'[i].trader /\ call'[i].caller = call'[i].trader
      BY <1>2, <3>1, <3>2 DEF Inv, ExecutorOK
    <3>3. ASSUME executor' # NoSwap
          PROVE  \E i \in DOMAIN call' : call'[i].router = Executor
      <4>1. PICK i \in DOMAIN call : call[i].router = Executor
        BY <3>1, <3>3 DEF Inv, ExecutorOK
      <4>2. i # 1
        BY <1>2, <2>2, <4>1
      <4>3. i - 1 \in DOMAIN call' /\ (i - 1) + 1 = i
        BY <1>2, <4>2
      <4> QED BY <1>2, <4>1, <4>3
    <3> QED BY <3>2, <3>3 DEF ExecutorOK
  <2> QED BY <2>1, <2>2
<1>8. PurchaseOK'
  BY <1>1 DEF PurchaseOK, Inv, Return
<1>9. AdmittedOK'
  <2>1. UNCHANGED <<hook, volatility, purchase>>
    BY DEF Return
  <2>2. ASSUME NEW i \in DOMAIN call', call'[i].phase # "unlocked"
        PROVE  Admitted(call[i])'
    <3>1. Admitted(call[i + 1])
      BY <1>2, <2>2 DEF Inv, AdmittedOK
    <3> QED BY <1>2, <2>1, <3>1 DEF Admitted, TierAllows, SwapFee, FeeFor
  <2> QED BY <1>5, <2>1, <2>2 DEF AdmittedOK, Inv
<1>10. SavedOK'
  BY <1>1 DEF SavedOK, Inv, Return
<1> QED BY <1>6, <1>7, <1>8, <1>9, <1>10 DEF Inv

\* A revert restores a state between transactions.
LEMMA RevertKeeps ==
  ASSUME Inv, Revert
  PROVE  Inv'
<1>1. /\ call' = <<>> /\ DOMAIN call' = {} /\ call' \in Seq(Frames)
      /\ purchase' = NoPurchase /\ executor' = NoSwap
      /\ paid' \in [Wallets \X Budgets -> Nat] /\ hook' = hook
  BY DEF Revert, Inv, SavedOK
<1> QED BY <1>1 DEF Inv, StackOK, ExecutorOK, PurchaseOK, AdmittedOK, SavedOK

-----------------------------------------------------------------------------
(* The invariant *)

\* The constructor's threshold and cap are among those the owner may set.
LEMMA LeastVolatility == Min(Volatilities) \in Volatilities
<1>1. \E v \in Volatilities : \A u \in Volatilities : v <= u
  BY MarketIsFinite, Extremes
<1> QED BY <1>1 DEF Min

\* As above, for the cap.
LEMMA GreatestCap == Max(RetailCaps) \in RetailCaps
<1>1. \E c \in RetailCaps : \A d \in RetailCaps : d <= c
  BY MarketIsFinite, Extremes
<1> QED BY <1>1 DEF Max

\* The deployed market satisfies the invariant.
LEMMA InitInv ==
  Init => Inv
<1> SUFFICES ASSUME Init PROVE Inv
  OBVIOUS
<1>1. call = <<>> /\ DOMAIN call = {} /\ call \in Seq(Frames)
  BY DEF Init
<1>2. hook \in HookSettings
  BY LeastVolatility, GreatestCap DEF Init, HookSettings, NoBudget
<1>3. purchase = NoPurchase /\ executor = NoSwap /\ paid \in [Wallets \X Budgets -> Nat]
  BY DEF Init
<1> QED BY <1>1, <1>2, <1>3 DEF Inv, StackOK, ExecutorOK, PurchaseOK, AdmittedOK, SavedOK

\* Every step keeps it.
LEMMA StepKeeps ==
  Inv /\ [Next]_vars => Inv'
<1> SUFFICES ASSUME Inv, [Next]_vars PROVE Inv'
  OBVIOUS
<1>1. CASE \/ Administer
           \/ \E sender \in Wallets \cup {Helper}, pool \in Pools : AddLiquidity(sender, pool)
           \/ Register
           \/ UNCHANGED vars
  BY <1>1, OutsideKeeps
<1>2. CASE Swaps
  BY <1>2, SwapExactInputKeeps, SwapElsewhereKeeps, BeforeSwapKeeps, AfterSwapKeeps,
     SettleKeeps, ReturnKeeps, RevertKeeps DEF Swaps
<1> QED BY <1>1, <1>2 DEF Next

\* The invariant holds throughout.
THEOREM MarketInvariant ==
  Spec => []Inv
BY InitInv, StepKeeps, PTL DEF Spec

-----------------------------------------------------------------------------
(* What the invariant says of every transaction *)

\* Between transactions the hook holds no purchase and the executor no trader, so
\* that no later purchase is refused and nobody is charged for another's.
THEOREM NothingStaysOpen ==
  Spec => []NothingLeftOpen
<1>1. Inv => NothingLeftOpen
  BY DEF Inv, PurchaseOK, ExecutorOK, NothingLeftOpen, AtRest
<1> QED BY MarketInvariant, <1>1, PTL

\* Money is paid in Settle only: a revert takes payments back.
LEMMA PaidInSettle ==
  ASSUME Inv, [Next]_vars, NEW x \in Wallets \X Budgets, paid'[x] > paid[x]
  PROVE  /\ Settle /\ call # <<>>
         /\ x = <<Top.trader, Top.budget>> /\ paid'[x] = paid[x] + Top.settled
<1>1. paid[x] \in Nat
  BY DEF Inv, SavedOK
<1>2. paid' # paid
  BY <1>1
<1>3. ~Revert
  <2>1. SUFFICES ASSUME Revert PROVE FALSE
    OBVIOUS
  <2>2. saved.paid[x] \in Nat /\ saved.paid[x] <= paid[x] /\ paid' = saved.paid
    BY <2>1 DEF Revert, Inv, SavedOK
  <2> QED BY <1>1, <2>2
<1>4. Settle
  BY <1>2, <1>3
  DEF Next, Swaps, Administer, SetHook, SetVolatility, AdministerLedger, AddLiquidity, Register,
      SwapExactInput, SwapElsewhere, BeforeSwap, AfterSwap, Return, vars
<1>5. call # <<>> /\ paid \in [Wallets \X Budgets -> Nat]
      /\ paid' = [paid EXCEPT ![<<Top.trader, Top.budget>>] = @ + Top.settled]
  BY <1>4 DEF Settle, Inv, SavedOK
<1>6. x = <<Top.trader, Top.budget>>
  BY <1>1, <1>5
<1>7. paid'[x] = paid[x] + Top.settled
  BY <1>5, <1>6
<1> QED BY <1>4, <1>5, <1>6, <1>7

\* While the hook trusts the executor, a wallet pays only in a swap that wallet
\* called the executor for, and at most what it asked.
THEOREM CallerAlwaysPays ==
  Spec => OnlyTheCallerPays
<1>1. ASSUME Inv, [Next]_vars, NEW w \in Wallets, NEW b \in Budgets,
             paid'[<<w, b>>] > paid[<<w, b>>], hook.trustedRouter = Executor
      PROVE  /\ executor.inSwap /\ executor.trader = w /\ call[Len(call)].caller = w
             /\ paid'[<<w, b>>] - paid[<<w, b>>] <= executor.amount
  <2>1. /\ Settle /\ call # <<>> /\ Top.trader = w
        /\ paid'[<<w, b>>] = paid[<<w, b>>] + Top.settled /\ paid[<<w, b>>] \in Nat
    BY <1>1, PaidInSettle DEF Inv, SavedOK
  <2>2. Top.phase # "unlocked" /\ Top \in Frames /\ Top = call[1] /\ 1 \in DOMAIN call /\ Admitted(Top)
    BY <1>1, <2>1, Running DEF Settle
  <2>3. Top.router = Executor
    BY <1>1, <2>2 DEF Admitted
  <2>4. /\ executor.inSwap /\ executor.trader = w /\ Top.caller = w
        /\ call[Len(call)] = Top
    BY <1>1, <2>1, <2>2, <2>3 DEF Inv, ExecutorOK, StackOK
  <2>5. Top.settled <= executor.amount /\ Top.settled \in Nat
    BY <2>1, <2>2, <2>3, SettledIsNat DEF Settle
  <2> QED BY <2>1, <2>4, <2>5
<1>2. Inv /\ [Next]_vars =>
        \A w \in Wallets, b \in Budgets :
          paid'[<<w, b>>] > paid[<<w, b>>] /\ hook.trustedRouter = Executor =>
            /\ executor.inSwap /\ executor.trader = w /\ call[Len(call)].caller = w
            /\ paid'[<<w, b>>] - paid[<<w, b>>] <= executor.amount
  BY <1>1
<1> QED BY <1>2, MarketInvariant, PTL DEF Spec, OnlyTheCallerPays

-----------------------------------------------------------------------------
(* The books: what is recorded and what is paid *)

\* The rest of the types.
TypesOK ==
  /\ executor \in [inSwap : BOOLEAN, trader : Wallets \cup {Zero}, amount : Amounts \cup {0}]
  /\ volatility \in Volatilities /\ liquid \subseteq Pools
  /\ Len(call) <= 2

\* Counters in order: nobody above the maximum, and that within the cap in force.
InOrder(spent, highest) ==
  /\ spent \in [Allocations \X Budgets -> Nat] /\ highest \in [Budgets -> Nat]
  /\ \A a \in Allocations, b \in Budgets : spent[<<a, b>>] <= highest[b]
  /\ \A b \in Budgets : highest[b] <= policyByGroupPeriod[b].cap

\* Spend is in order, and was when the transaction began; it only grew since.
SpendOK ==
  /\ policyByGroupPeriod \in [Budgets -> [cap : Nat, usdc : Tokens \cup {Zero}]]
  /\ InOrder(spentByAllocation, highestSpendByGroupPeriod)
  /\ call # <<>> =>
       /\ InOrder(saved.spentByAllocation, saved.highestSpendByGroupPeriod)
       /\ \A x \in Allocations \X Budgets : saved.spentByAllocation[x] <= spentByAllocation[x]

\* A wallet that belongs to nobody paid nothing.
Bound(member, money) ==
  /\ member \in [Wallets -> Allocations \cup {Zero}]
  /\ \A w \in Wallets : member[w] = Zero => \A b \in Budgets : money[<<w, b>>] = 0

\* So it is, and was when the transaction began; nobody left an allocation since.
MembersOK ==
  /\ Bound(allocationIdByWallet, paid)
  /\ call # <<>> =>
       /\ Bound(saved.allocationIdByWallet, saved.paid)
       /\ \A w \in Wallets : saved.allocationIdByWallet[w] # Zero =>
            allocationIdByWallet[w] = saved.allocationIdByWallet[w]

\* The call that is being paid for, of a registered wallet and a budget.
Settling == call # <<>> /\ Top.phase = "settling"

SettlingOK == Settling => Top.budget \in Budgets /\ allocationIdByWallet[Top.trader] # Zero

\* What the hook recorded and nobody has paid yet.
Owed(a, b) ==
  IF Settling /\ Top.budget = b /\ allocationIdByWallet[Top.trader] = a
    THEN Top.settled ELSE 0

\* The money paid and owed for a human is the spend recorded; when the
\* transaction began nothing was owed.
BooksOK ==
  /\ \A a \in Allocations, b \in Budgets :
       PaidTogether(paid, MembersOf(a), b) + Owed(a, b) = spentByAllocation[<<a, b>>]
  /\ call # <<>> =>
       \A a \in Allocations, b \in Budgets :
         PaidTogether(saved.paid, {w \in Wallets : saved.allocationIdByWallet[w] = a}, b)
           = saved.spentByAllocation[<<a, b>>]

Books == TypesOK /\ SpendOK /\ MembersOK /\ SettlingOK /\ BooksOK

-----------------------------------------------------------------------------
(* Money paid together *)

\* What wallets paid together is an amount.
LEMMA TogetherIsNat ==
  ASSUME NEW money \in [Wallets \X Budgets -> Nat], NEW U \in SUBSET Wallets, NEW b \in Budgets
  PROVE  PaidTogether(money, U, b) \in Nat
<1> DEFINE f == [w \in Wallets |-> money[<<w, b>>]]
<1>1. IsFiniteSet(U)
  BY MarketIsFinite, FS_Subset
<1>2. \A w \in U : f[w] \in Nat
  OBVIOUS
<1>3. SumFunctionOnSet(f, U) \in Nat
  <2> HIDE DEF f
  <2> QED BY <1>1, <1>2, SumNat
<1> QED BY <1>3 DEF PaidTogether

\* A payment of one wallet is one of every group it belongs to.
LEMMA OnePays ==
  ASSUME NEW money, NEW new, NEW U, NEW b, NEW w, U \subseteq Wallets, w \in Wallets,
         \A v \in U : money[<<v, b>>] \in Nat /\ new[<<v, b>>] \in Nat,
         \A v \in U \ {w} : new[<<v, b>>] = money[<<v, b>>]
  PROVE  PaidTogether(new, U, b)
           = PaidTogether(money, U, b) + (IF w \in U THEN new[<<w, b>>] - money[<<w, b>>] ELSE 0)
<1> DEFINE f == [v \in Wallets |-> money[<<v, b>>]]
           g == [v \in Wallets |-> new[<<v, b>>]]
<1>1. IsFiniteSet(U)
  BY MarketIsFinite, FS_Subset
<1>2. \A v \in U : f[v] = money[<<v, b>>] /\ g[v] = new[<<v, b>>]
  OBVIOUS
<1>3. \A v \in U : f[v] \in Nat /\ g[v] \in Nat
  BY <1>2
<1>4. \A v \in U \ {w} : f[v] = g[v]
  BY <1>2
<1>5. SumFunctionOnSet(g, U)
        = SumFunctionOnSet(f, U) + (IF w \in U THEN g[w] - f[w] ELSE 0)
  <2> HIDE DEF f, g
  <2>1. SumFunctionOnSet(f, U) \in Nat /\ SumFunctionOnSet(g, U) \in Nat
    BY <1>1, <1>3, SumNat
  <2>2. CASE w \in U
    BY <1>1, <1>3, <1>4, <2>2, SumPoint
  <2>3. CASE w \notin U
    <3>1. \A v \in U : f[v] = g[v]
      BY <1>4, <2>3
    <3>2. SumFunctionOnSet(f, U) = SumFunctionOnSet(g, U)
      BY <1>1, <3>1, SumEqual
    <3> QED BY <2>1, <2>3, <3>2
  <2> QED BY <2>2, <2>3
<1>6. w \in U => f[w] = money[<<w, b>>] /\ g[w] = new[<<w, b>>]
  BY <1>2
<1> QED
  <2> HIDE DEF f, g
  <2>1. PaidTogether(new, U, b) = SumFunctionOnSet(g, U)
        /\ PaidTogether(money, U, b) = SumFunctionOnSet(f, U)
    BY DEF PaidTogether, f, g
  <2> QED BY <1>5, <1>6, <2>1

\* Wallets that paid nothing may join.
LEMMA UnpaidJoin ==
  ASSUME NEW money \in [Wallets \X Budgets -> Nat], NEW U, NEW V, U \subseteq V, V \subseteq Wallets,
         NEW b \in Budgets, \A w \in V \ U : money[<<w, b>>] = 0
  PROVE  PaidTogether(money, V, b) = PaidTogether(money, U, b)
<1> DEFINE f == [w \in Wallets |-> money[<<w, b>>]]
<1>1. IsFiniteSet(V)
  BY MarketIsFinite, FS_Subset
<1>2. (\A w \in V : f[w] \in Nat) /\ \A w \in V \ U : f[w] = 0
  OBVIOUS
<1>3. SumFunctionOnSet(f, V) = SumFunctionOnSet(f, U)
  <2> HIDE DEF f
  <2> QED BY <1>1, <1>2, SumSupport
<1> QED BY <1>3 DEF PaidTogether

\* Before anybody paid, nobody paid anything together.
LEMMA NothingTogether ==
  ASSUME NEW U \in SUBSET Wallets, NEW b \in Budgets
  PROVE  PaidTogether([x \in Wallets \X Budgets |-> 0], U, b) = 0
<1> DEFINE f == [w \in Wallets |-> [x \in Wallets \X Budgets |-> 0][<<w, b>>]]
<1>1. IsFiniteSet(U)
  BY MarketIsFinite, FS_Subset
<1>2. \A w \in U : f[w] = 0
  OBVIOUS
<1>3. SumFunctionOnSet(f, U) = 0
  <2> HIDE DEF f
  <2> QED BY <1>1, <1>2, SumZero
<1> QED BY <1>3 DEF PaidTogether
-----------------------------------------------------------------------------
(* Steps that neither record nor pay *)

\* Without a settling call nobody owes anything.
LEMMA NobodyOwes ==
  /\ ~Settling  => \A a \in Allocations, b \in Budgets : Owed(a, b) = 0
  /\ ~Settling' => \A a \in Allocations, b \in Budgets : Owed(a, b)' = 0
BY DEF Owed

\* The state a transaction begins with is as good as the one it is taken from.
LEMMA SnapshotTaken ==
  /\ Snapshot.allocationIdByWallet = allocationIdByWallet
  /\ Snapshot.spentByAllocation = spentByAllocation
  /\ Snapshot.highestSpendByGroupPeriod = highestSpendByGroupPeriod
  /\ Snapshot.purchase = purchase /\ Snapshot.executor = executor /\ Snapshot.paid = paid
BY DEF Snapshot

\* A call may come or go, or change, as long as it neither was nor is settling.
LEMMA BooksKept ==
  ASSUME Inv, Books, ~Settling, ~Settling', TypesOK',
         UNCHANGED <<allocationIdByWallet, policyByGroupPeriod, spendVars, paid>>,
         call' # <<>> => \/ call # <<>> /\ saved' = saved
                         \/ call = <<>> /\ saved' = Snapshot
  PROVE  Books'
<1>1. UNCHANGED <<spentByAllocation, highestSpendByGroupPeriod>>
  BY DEF spendVars
<1>2. \A a \in Allocations, b \in Budgets :
        /\ MembersOf(a)' = MembersOf(a)
        /\ PaidTogether(paid, MembersOf(a), b) = spentByAllocation[<<a, b>>]
  <2>1. ASSUME NEW a \in Allocations, NEW b \in Budgets
        PROVE  PaidTogether(paid, MembersOf(a), b) = spentByAllocation[<<a, b>>]
    <3>1. Owed(a, b) = 0
      BY NobodyOwes
    <3>2. PaidTogether(paid, MembersOf(a), b) \in Nat
      BY TogetherIsNat DEF Inv, SavedOK, MembersOf
    <3> QED BY <3>1, <3>2 DEF Books, BooksOK
  <2> QED BY <2>1 DEF MembersOf
<1>3. SpendOK'
  <2>1. InOrder(spentByAllocation, highestSpendByGroupPeriod)'
    BY <1>1 DEF Books, SpendOK, InOrder
  <2>2. ASSUME call' # <<>>
        PROVE  /\ InOrder(saved.spentByAllocation, saved.highestSpendByGroupPeriod)'
               /\ \A x \in Allocations \X Budgets : saved'.spentByAllocation[x] <= spentByAllocation'[x]
    <3>1. CASE call # <<>> /\ saved' = saved
      BY <1>1, <3>1 DEF Books, SpendOK, InOrder
    <3>2. CASE call = <<>> /\ saved' = Snapshot
      <4>1. /\ saved'.spentByAllocation = spentByAllocation
            /\ saved'.highestSpendByGroupPeriod = highestSpendByGroupPeriod
        BY <3>2, SnapshotTaken
      <4>2. \A x \in Allocations \X Budgets : spentByAllocation[x] \in Nat
        BY DEF Books, SpendOK, InOrder
      <4> QED BY <1>1, <4>1, <4>2 DEF Books, SpendOK, InOrder
    <3> QED BY <2>2, <3>1, <3>2
  <2> QED BY <2>1, <2>2 DEF Books, SpendOK
<1>4. MembersOK'
  <2>1. Bound(allocationIdByWallet, paid)'
    BY DEF Books, MembersOK, Bound
  <2>2. ASSUME call' # <<>>
        PROVE  /\ Bound(saved.allocationIdByWallet, saved.paid)'
               /\ \A w \in Wallets : saved'.allocationIdByWallet[w] # Zero =>
                    allocationIdByWallet'[w] = saved'.allocationIdByWallet[w]
    <3>1. CASE call # <<>> /\ saved' = saved
      BY <3>1 DEF Books, MembersOK, Bound
    <3>2. CASE call = <<>> /\ saved' = Snapshot
      BY <3>2, SnapshotTaken DEF Books, MembersOK, Bound
    <3> QED BY <2>2, <3>1, <3>2
  <2> QED BY <2>1, <2>2 DEF MembersOK
<1>5. SettlingOK'
  BY DEF SettlingOK
<1>6. BooksOK'
  <2>1. ASSUME NEW a \in Allocations, NEW b \in Budgets
        PROVE  PaidTogether(paid', MembersOf(a)', b) + Owed(a, b)' = spentByAllocation'[<<a, b>>]
    <3>1. Owed(a, b)' = 0
      BY NobodyOwes
    <3>2. spentByAllocation[<<a, b>>] \in Nat
      BY DEF Books, SpendOK, InOrder
    <3> QED BY <1>1, <1>2, <3>1, <3>2
  <2>2. ASSUME call' # <<>>, NEW a \in Allocations, NEW b \in Budgets
        PROVE  PaidTogether(saved'.paid, {w \in Wallets : saved'.allocationIdByWallet[w] = a}, b)
                 = saved'.spentByAllocation[<<a, b>>]
    <3>1. CASE call # <<>> /\ saved' = saved
      BY <3>1 DEF Books, BooksOK
    <3>2. CASE call = <<>> /\ saved' = Snapshot
      BY <1>2, <3>2, SnapshotTaken DEF MembersOf
    <3> QED BY <2>2, <3>1, <3>2
  <2> QED BY <2>1, <2>2 DEF BooksOK
<1> QED BY <1>3, <1>4, <1>5, <1>6 DEF Books

\* Nothing happens.
LEMMA BooksStutter ==
  ASSUME Books, UNCHANGED vars
  PROVE  Books'
<1>1. Top' = Top /\ Settling' = Settling
  BY DEF Top, Settling, vars
<1>2. \A a \in Allocations, b \in Budgets :
        MembersOf(a)' = MembersOf(a) /\ Owed(a, b)' = Owed(a, b)
  BY <1>1 DEF MembersOf, Owed, vars, ledgerVars, memberVars
<1>3. TypesOK' /\ SpendOK' /\ MembersOK' /\ SettlingOK'
  BY <1>1 DEF Books, TypesOK, SpendOK, InOrder, MembersOK, Bound, SettlingOK, vars, ledgerVars,
              memberVars, policyVars, spendVars
<1>4. BooksOK'
  BY <1>2 DEF Books, BooksOK, vars, ledgerVars, spendVars, memberVars
<1> QED BY <1>3, <1>4 DEF Books

\* The owner sets something other than a policy, or somebody adds liquidity.
LEMMA BooksAtRest ==
  ASSUME Inv, Books,
         \/ SetHook \/ \E v \in Volatilities : SetVolatility(v)
         \/ AdministerLedger /\ Ledger!SetAuthorizedHook(Owner, Hook)
         \/ \E sender \in Wallets \cup {Helper}, pool \in Pools : AddLiquidity(sender, pool)
  PROVE  Books'
<1>1. /\ call = <<>> /\ call' = <<>>
      /\ UNCHANGED <<allocationIdByWallet, policyByGroupPeriod, spendVars, paid, executor>>
  BY DEF SetHook, SetVolatility, AdministerLedger, Ledger!SetAuthorizedHook, AddLiquidity,
         ledgerVars, memberVars, policyVars, spendVars, Ledger!memberVars, Ledger!policyVars,
         Ledger!spendVars
<1>2. volatility' \in Volatilities /\ liquid' \subseteq Pools
  BY DEF Books, TypesOK, SetHook, SetVolatility, AdministerLedger, AddLiquidity
<1>3. ~Settling /\ ~Settling'
  BY <1>1 DEF Settling
<1>4. TypesOK'
  BY <1>1, <1>2 DEF Books, TypesOK
<1> QED BY <1>1, <1>3, <1>4, BooksKept

\* The owner sets a policy, at or above what anybody spent.
LEMMA BooksPolicy ==
  ASSUME Inv, Books, AdministerLedger, NEW b \in Budgets, NEW cap \in Amounts,
         NEW token \in Tokens, Ledger!SetPolicy(Owner, b[1], b[2], cap, token)
  PROVE  Books'
<1>1. /\ call = <<>> /\ call' = <<>>
      /\ UNCHANGED <<allocationIdByWallet, spentByAllocation, highestSpendByGroupPeriod, paid,
                     executor, volatility, liquid>>
  BY DEF AdministerLedger, Ledger!SetPolicy, Ledger!memberVars, Ledger!spendVars
<1>2. b = <<b[1], b[2]>> /\ cap \in Nat
  BY DEF Budgets
<1>3. policyByGroupPeriod' = [policyByGroupPeriod EXCEPT ![b] = [cap |-> cap, usdc |-> token]]
      /\ highestSpendByGroupPeriod[b] <= cap
  BY <1>2 DEF Ledger!SetPolicy, Ledger!CoversRecordedSpend
<1>4. ~Settling /\ ~Settling'
  BY <1>1 DEF Settling
<1>5. TypesOK' /\ MembersOK' /\ SettlingOK'
  BY <1>1, <1>4 DEF Books, TypesOK, MembersOK, Bound, SettlingOK
<1>6. SpendOK'
  <2>1. policyByGroupPeriod' \in [Budgets -> [cap : Nat, usdc : Tokens \cup {Zero}]]
    BY <1>2, <1>3 DEF Books, SpendOK
  <2>2. ASSUME NEW c \in Budgets
        PROVE  highestSpendByGroupPeriod[c] <= policyByGroupPeriod'[c].cap
    <3>1. policyByGroupPeriod'[c] = IF c = b THEN [cap |-> cap, usdc |-> token]
                                             ELSE policyByGroupPeriod[c]
      BY <1>3 DEF Books, SpendOK
    <3>2. highestSpendByGroupPeriod[c] <= policyByGroupPeriod[c].cap
      BY DEF Books, SpendOK, InOrder
    <3> QED BY <1>3, <3>1, <3>2
  <2>3. InOrder(spentByAllocation, highestSpendByGroupPeriod)'
    BY <1>1, <2>2 DEF Books, SpendOK, InOrder
  <2> QED BY <1>1, <2>1, <2>3 DEF SpendOK
<1>7. BooksOK'
  <2>1. ASSUME NEW a \in Allocations, NEW c \in Budgets
        PROVE  /\ MembersOf(a)' = MembersOf(a) /\ Owed(a, c)' = Owed(a, c)
               /\ PaidTogether(paid, MembersOf(a), c) + Owed(a, c) = spentByAllocation[<<a, c>>]
    BY <1>1, <1>4, NobodyOwes DEF MembersOf, Books, BooksOK
  <2> QED BY <1>1, <2>1 DEF BooksOK
<1> QED BY <1>5, <1>6, <1>7 DEF Books

\* A wallet that paid nothing yet joins a human, or one that is a member comes again.
LEMMA BooksRegister ==
  ASSUME Inv, Books, Register
  PROVE  Books'
<1>1. /\ ~Settling /\ call' = call /\ saved' = saved
      /\ UNCHANGED <<policyByGroupPeriod, spentByAllocation, highestSpendByGroupPeriod, paid,
                     executor, volatility, liquid>>
  BY DEF Register, Settling, Ledger!Register, Ledger!RegisterWallet, Ledger!policyVars,
         Ledger!spendVars
<1>2. PICK v \in Wallets, j \in Allocations :
        /\ allocationIdByWallet[v] \in {Zero, j}
        /\ allocationIdByWallet' = [allocationIdByWallet EXCEPT ![v] = j]
  <2>1. PICK auth \in Ledger!Authorizations : Ledger!RegisterWallet(auth)
    BY DEF Register, Ledger!Register
  <2>2. auth.wallet \in Wallets \cup {Zero} /\ auth.allocationId \in Allocations \cup {Zero}
    BY DEF Ledger!Authorizations
  <2> QED BY <2>1, <2>2 DEF Ledger!RegisterWallet, Ledger!KeepsAllocation
<1>3. ~Settling'
  BY <1>1 DEF Settling, Top
<1>4. /\ allocationIdByWallet \in [Wallets -> Allocations \cup {Zero}]
      /\ paid \in [Wallets \X Budgets -> Nat] /\ j # Zero
  BY MarketAssumption DEF Books, MembersOK, Bound, Inv, SavedOK
<1>5. ASSUME NEW w \in Wallets
      PROVE  /\ allocationIdByWallet'[w] = IF w = v THEN j ELSE allocationIdByWallet[w]
             /\ allocationIdByWallet[w] # Zero => allocationIdByWallet'[w] = allocationIdByWallet[w]
             /\ allocationIdByWallet'[w] = Zero => allocationIdByWallet[w] = Zero
  BY <1>2, <1>4
<1>6. TypesOK' /\ SpendOK' /\ SettlingOK'
  BY <1>1, <1>3 DEF Books, TypesOK, SpendOK, InOrder, SettlingOK
<1>7. MembersOK'
  <2>1. allocationIdByWallet' \in [Wallets -> Allocations \cup {Zero}]
    BY <1>2, <1>4
  <2>2. Bound(allocationIdByWallet, paid)'
    BY <1>1, <1>5, <2>1 DEF Books, MembersOK, Bound
  <2> QED BY <1>1, <1>5, <2>2 DEF Books, MembersOK, Bound
<1>8. BooksOK'
  <2>1. ASSUME NEW a \in Allocations, NEW b \in Budgets
        PROVE  PaidTogether(paid', MembersOf(a)', b) = PaidTogether(paid, MembersOf(a), b)
    <3> DEFINE U == MembersOf(a)
               V == MembersOf(a)'
    <3>1. V \in SUBSET Wallets /\ U \in SUBSET V
      BY <1>4, <1>5, MarketAssumption DEF MembersOf
    <3>2. \A w \in V \ U : paid[<<w, b>>] = 0
      BY <1>2, <1>5 DEF MembersOf, Books, MembersOK, Bound
    <3> HIDE DEF U, V
    <3>3. PaidTogether(paid, V, b) = PaidTogether(paid, U, b)
      <4>1. paid \in [Wallets \X Budgets -> Nat]
        BY <1>4
      <4>2. U \subseteq V /\ V \subseteq Wallets
        BY <3>1
      <4> QED BY <3>2, <4>1, <4>2, UnpaidJoin
    <3> QED BY <1>1, <3>3 DEF U, V
  <2>2. \A a \in Allocations, b \in Budgets : Owed(a, b)' = Owed(a, b)
    BY <1>1, <1>3, NobodyOwes
  <2> QED BY <1>1, <2>1, <2>2 DEF Books, BooksOK
<1> QED BY <1>6, <1>7, <1>8 DEF Books

\* A wallet calls the executor, and nothing is recorded yet.
LEMMA BooksSwapExactInput ==
  ASSUME Inv, Books, NEW w \in Wallets, NEW tokens \in Tokens \X Tokens,
         NEW pool \in Pools, NEW amount \in Amounts,
         SwapExactInput(w, tokens, pool, amount)
  PROVE  Books'
<1> DEFINE f == Frame(Executor, w, w, tokens, pool, TRUE, amount)
<1>1. /\ call = <<>> /\ call' = <<f>> /\ saved' = Snapshot
      /\ executor' = [inSwap |-> TRUE, trader |-> w, amount |-> amount]
      /\ UNCHANGED <<allocationIdByWallet, policyByGroupPeriod, spendVars, paid, volatility, liquid>>
  BY DEF SwapExactInput, ledgerVars, memberVars, policyVars
<1>2. f.phase = "unlocked"
  BY DEF Frame
<1> HIDE DEF f
<1>3. ~Settling /\ ~Settling' /\ Len(call') = 1
  BY <1>1, <1>2 DEF Settling, Top
<1>4. TypesOK'
  BY <1>1, <1>3 DEF Books, TypesOK
<1> QED BY <1>1, <1>3, <1>4, BooksKept

\* A swap through another router, on its own or while the token has control.
LEMMA BooksSwapElsewhere ==
  ASSUME Inv, Books, NEW w \in Wallets, NEW tokens \in Tokens \X Tokens,
         NEW pool \in Pools, NEW amount \in Amounts,
         NEW exactInput \in BOOLEAN, SwapElsewhere(w, tokens, pool, exactInput, amount)
  PROVE  Books'
<1> DEFINE f == Frame(OtherRouter, Zero, w, tokens, pool, exactInput, amount)
<1>1. /\ call = <<>> \/ (Len(call) = 1 /\ Top.phase = "taking")
      /\ call' = <<f>> \o call /\ saved' = IF call = <<>> THEN Snapshot ELSE saved
      /\ UNCHANGED <<allocationIdByWallet, policyByGroupPeriod, spendVars, paid, executor,
                     volatility, liquid>>
  BY DEF SwapElsewhere, ledgerVars, memberVars, policyVars
<1>2. f.phase = "unlocked" /\ f \in Frames
  BY DEF Frame, Frames
<1> HIDE DEF f
<1>3. Head(call') = f /\ Len(call') = Len(call) + 1 /\ Len(call) \in 0..1
  <2>1. call \in Seq(Frames)
    BY DEF Inv, StackOK
  <2>2. Len(<<f>> \o call) = Len(call) + 1 /\ (<<f>> \o call)[1] = f /\ Len(call) \in Nat
        /\ <<f>> \o call \in Seq(Frames)
    BY <1>2, <2>1, Pushed
  <2>3. Len(call) \in 0..1
    BY <1>1
  <2> QED BY <1>1, <2>2, <2>3
<1>4. ~Settling /\ ~Settling'
  BY <1>1, <1>2, <1>3 DEF Settling, Top
<1>5. TypesOK'
  BY <1>1, <1>3 DEF Books, TypesOK
<1> QED BY <1>1, <1>4, <1>5, BooksKept

\* The hook admits a swap, before anything is charged.
LEMMA BooksBeforeSwap ==
  ASSUME Inv, Books, BeforeSwap
  PROVE  Books'
<1> DEFINE g == [Top EXCEPT !.phase = "swapping"]
           f == [g EXCEPT !.fee = SwapFee(Top)]
<1>1. /\ call # <<>> /\ Top.phase = "unlocked" /\ call' = <<f>> \o Tail(call)
      /\ UNCHANGED <<allocationIdByWallet, policyByGroupPeriod, spendVars, paid, executor,
                     volatility, liquid, saved>>
  BY DEF BeforeSwap, ledgerVars, memberVars, policyVars
<1>2. Top \in Frames /\ call \in Seq(Frames)
  BY <1>1, Running DEF Inv, StackOK
<1>3. f.phase = "swapping" /\ f \in Frames
  <2>1. SwapFee(Top) \in {0, 500, 1000, 5000} \cup Pools
    BY <1>2, FeeOfSwap
  <2>2. g \in Frames /\ g.phase = "swapping"
    BY <1>2, PhaseWritten DEF Same
  <2> HIDE DEF g
  <2> QED BY <2>1, <2>2 DEF Frames
<1> HIDE DEF f
<1>4. Head(call') = f /\ call' # <<>> /\ Len(call') = Len(call)
  BY <1>1, <1>2, <1>3, TopReplaced
<1>5. ~Settling /\ ~Settling'
  BY <1>1, <1>3, <1>4 DEF Settling, Top
<1>6. TypesOK'
  BY <1>1, <1>4 DEF Books, TypesOK
<1> QED BY <1>1, <1>5, <1>6, BooksKept

\* A call returns.
LEMMA BooksReturn ==
  ASSUME Inv, Books, Return
  PROVE  Books'
<1>1. /\ call # <<>> /\ call \in Seq(Frames) /\ Top.phase = "taking" /\ call' = Tail(call)
      /\ call' # <<>> => saved' = saved
      /\ UNCHANGED <<allocationIdByWallet, policyByGroupPeriod, spendVars, paid, volatility, liquid>>
  BY DEF Return, Inv, StackOK, ledgerVars, memberVars, policyVars
<1>2. executor' \in [inSwap : BOOLEAN, trader : Wallets \cup {Zero}, amount : Amounts \cup {0}]
  BY DEF Books, TypesOK, Return, NoSwap
<1>3. /\ Len(call') = Len(call) - 1 /\ Len(call) \in Nat
      /\ call' # <<>> => Top'.phase = "taking"
  <2>1. /\ Tail(call) \in Seq(Frames) /\ Len(call) \in Nat /\ Len(Tail(call)) = Len(call) - 1
        /\ \A i \in DOMAIN Tail(call) : Tail(call)[i] = call[i + 1] /\ i + 1 \in DOMAIN call
        /\ DOMAIN call = 1..Len(call)
    BY <1>1, Popped
  <2>2. Tail(call) # <<>> => Head(Tail(call)) = Tail(call)[1] /\ 1 \in DOMAIN Tail(call)
    BY <2>1, Popped
  <2>3. Tail(call) # <<>> => Head(Tail(call)).phase = "taking"
    BY <2>1, <2>2 DEF Inv, StackOK
  <2> QED BY <1>1, <2>1, <2>3 DEF Top
<1>4. ~Settling /\ ~Settling'
  BY <1>1, <1>3 DEF Settling
<1>5. TypesOK'
  BY <1>1, <1>2, <1>3 DEF Books, TypesOK
<1> QED BY <1>1, <1>4, <1>5, BooksKept

\* A revert goes back to books that were in order.
LEMMA BooksRevert ==
  ASSUME Inv, Books, Revert
  PROVE  Books'
<1>1. /\ call # <<>> /\ call' = <<>>
      /\ allocationIdByWallet' = saved.allocationIdByWallet
      /\ spentByAllocation' = saved.spentByAllocation
      /\ highestSpendByGroupPeriod' = saved.highestSpendByGroupPeriod
      /\ paid' = saved.paid /\ executor' = NoSwap
      /\ UNCHANGED <<policyByGroupPeriod, volatility, liquid>>
  BY DEF Revert, Inv, SavedOK, policyVars
<1>2. ~Settling'
  BY <1>1 DEF Settling
<1>3. TypesOK'
  BY <1>1 DEF Books, TypesOK, NoSwap
<1>4. SpendOK' /\ MembersOK' /\ SettlingOK'
  BY <1>1, <1>2 DEF Books, SpendOK, InOrder, MembersOK, Bound, SettlingOK
<1>5. BooksOK'
  <2>1. ASSUME NEW a \in Allocations, NEW b \in Budgets
        PROVE  PaidTogether(paid', MembersOf(a)', b) + Owed(a, b)' = spentByAllocation'[<<a, b>>]
    <3>1. PaidTogether(paid', MembersOf(a)', b) = spentByAllocation'[<<a, b>>]
      BY <1>1 DEF Books, BooksOK, MembersOf
    <3>2. spentByAllocation'[<<a, b>>] \in Nat
      BY <1>1 DEF Books, SpendOK, InOrder
    <3> QED BY <1>2, <3>1, <3>2, NobodyOwes
  <2> QED BY <1>1, <2>1 DEF BooksOK
<1> QED BY <1>3, <1>4, <1>5 DEF Books

\* What recordSpend does to the counters of the wallet's allocation.
LEMMA SpendRecorded ==
  ASSUME Books, NEW w \in Wallets, NEW b \in Budgets, NEW n \in Nat,
         Ledger!RecordSpend(Hook, w, b[1], b[2], n)
  PROVE  LET a == allocationIdByWallet[w] IN
         /\ a \in Allocations
         /\ spentByAllocation' = [spentByAllocation EXCEPT ![<<a, b>>] = @ + n]
         /\ InOrder(spentByAllocation, highestSpendByGroupPeriod)'
         /\ policyByGroupPeriod' = policyByGroupPeriod
         /\ \A x \in Allocations \X Budgets : spentByAllocation[x] <= spentByAllocation'[x]
<1> DEFINE a == allocationIdByWallet[w]
           spent == spentByAllocation[<<a, b>>]
<1>1. b = <<b[1], b[2]>>
  BY DEF Budgets
<1>2. /\ a \in Allocations
      /\ spentByAllocation \in [Allocations \X Budgets -> Nat]
      /\ highestSpendByGroupPeriod \in [Budgets -> Nat]
      /\ policyByGroupPeriod \in [Budgets -> [cap : Nat, usdc : Tokens \cup {Zero}]]
  BY DEF Ledger!RecordSpend, Ledger!HasBudget, Books, MembersOK, Bound, SpendOK, InOrder
<1>3. /\ spent + n <= policyByGroupPeriod[b].cap
      /\ spentByAllocation' = [spentByAllocation EXCEPT ![<<a, b>>] = spent + n]
      /\ highestSpendByGroupPeriod' =
           [highestSpendByGroupPeriod EXCEPT ![b] = IF spent + n > @ THEN spent + n ELSE @]
      /\ policyByGroupPeriod' = policyByGroupPeriod
  BY <1>1 DEF Ledger!RecordSpend, Ledger!FitsCap, Ledger!Spent, Ledger!Increased,
              Ledger!HigherSpend, Ledger!policyVars
<1>4. spent \in Nat /\ <<a, b>> \in Allocations \X Budgets
  BY <1>2
<1>5. spentByAllocation' = [spentByAllocation EXCEPT ![<<a, b>>] = @ + n]
  BY <1>2, <1>3, <1>4
<1> HIDE DEF a, spent
<1>6. ASSUME NEW x \in Allocations \X Budgets
      PROVE  /\ spentByAllocation'[x] = IF x = <<a, b>> THEN spent + n ELSE spentByAllocation[x]
             /\ spentByAllocation[x] \in Nat
  BY <1>2, <1>3
<1>7. ASSUME NEW c \in Budgets
      PROVE  /\ highestSpendByGroupPeriod[c] \in Nat
             /\ highestSpendByGroupPeriod'[c] =
                  IF c = b /\ spent + n > highestSpendByGroupPeriod[c]
                    THEN spent + n ELSE highestSpendByGroupPeriod[c]
  BY <1>2, <1>3
<1>8. /\ \A d \in Allocations, c \in Budgets :
           spentByAllocation[<<d, c>>] <= highestSpendByGroupPeriod[c]
      /\ \A c \in Budgets : highestSpendByGroupPeriod[c] <= policyByGroupPeriod[c].cap
  BY DEF Books, SpendOK, InOrder
<1>9. InOrder(spentByAllocation, highestSpendByGroupPeriod)'
  <2>1. spentByAllocation' \in [Allocations \X Budgets -> Nat]
    BY <1>2, <1>3, <1>4
  <2>2. highestSpendByGroupPeriod' \in [Budgets -> Nat]
    BY <1>2, <1>3, <1>4
  <2>3. ASSUME NEW d \in Allocations, NEW c \in Budgets
        PROVE  spentByAllocation'[<<d, c>>] <= highestSpendByGroupPeriod'[c]
    <3>1. <<d, c>> \in Allocations \X Budgets /\ (<<d, c>> = <<a, b>> => c = b)
      OBVIOUS
    <3> QED BY <1>4, <1>6, <1>7, <1>8, <3>1
  <2>4. ASSUME NEW c \in Budgets
        PROVE  highestSpendByGroupPeriod'[c] <= policyByGroupPeriod'[c].cap
    BY <1>3, <1>7, <1>8
  <2> QED BY <2>1, <2>2, <2>3, <2>4 DEF InOrder
<1>10. \A x \in Allocations \X Budgets : spentByAllocation[x] <= spentByAllocation'[x]
  BY <1>4, <1>6 DEF spent
<1> QED BY <1>2, <1>3, <1>5, <1>9, <1>10 DEF a

\* The hook records what the pool charged, and the call owes it.
LEMMA BooksAfterSwap ==
  ASSUME Inv, Books, NEW settled \in Amounts, NEW filled \in BOOLEAN, AfterSwap(settled, filled)
  PROVE  Books'
<1> DEFINE w == Top.trader
           c == purchase.budget
           j == allocationIdByWallet[w]
<1>1. /\ call # <<>> /\ Top.phase = "swapping"
      /\ Ledger!RecordSpend(Hook, w, c[1], c[2], settled)
      /\ UNCHANGED <<paid, executor, volatility, liquid, saved>>
  BY DEF AfterSwap, SettledInput
<1>2. Top \in Frames /\ call \in Seq(Frames) /\ w \in Wallets /\ settled \in Nat
  BY <1>1, Running, MarketAssumption DEF Inv, StackOK, Frames
<1>3. c \in Budgets
  <2>1. c = hook.allocation /\ hook.allocation \in Budgets \cup {NoBudget}
    BY <1>1 DEF Inv, AdmittedOK, HookSettings
  <2>2. c[1] # Zero
    BY <1>1 DEF Ledger!RecordSpend, Ledger!HasBudget
  <2> QED BY <2>1, <2>2 DEF NoBudget
<1>4. /\ j \in Allocations
      /\ spentByAllocation' = [spentByAllocation EXCEPT ![<<j, c>>] = @ + settled]
      /\ InOrder(spentByAllocation, highestSpendByGroupPeriod)'
      /\ policyByGroupPeriod' = policyByGroupPeriod
      /\ \A x \in Allocations \X Budgets : spentByAllocation[x] <= spentByAllocation'[x]
  BY <1>1, <1>2, <1>3, SpendRecorded
<1>5. UNCHANGED allocationIdByWallet
  BY <1>1 DEF Ledger!RecordSpend, Ledger!memberVars
<1>6. PICK f \in Frames :
        /\ call' = <<f>> \o Tail(call)
        /\ f.phase = "settling" /\ f.settled = settled /\ f.budget = c /\ f.trader = w
  BY CallSettles DEF Same
<1>7. Head(call') = f /\ call' # <<>> /\ Len(call') = Len(call)
  BY <1>1, <1>2, <1>6, TopReplaced
<1>8. ~Settling /\ Settling' /\ Top' = f
  BY <1>1, <1>6, <1>7 DEF Settling, Top
<1> HIDE DEF w, c, j
<1>9. TypesOK'
  BY <1>1, <1>7 DEF Books, TypesOK
<1>10. SpendOK'
  <2>1. ASSUME NEW x \in Allocations \X Budgets
        PROVE  saved.spentByAllocation[x] <= spentByAllocation'[x]
    <3>1. saved.spentByAllocation[x] <= spentByAllocation[x]
      BY <1>1 DEF Books, SpendOK
    <3>2. spentByAllocation[x] <= spentByAllocation'[x]
      BY <1>4
    <3>3. /\ saved.spentByAllocation[x] \in Nat /\ spentByAllocation[x] \in Nat
          /\ spentByAllocation'[x] \in Nat
      BY <1>1, <1>4 DEF Books, SpendOK, InOrder
    <3> QED BY <3>1, <3>2, <3>3
  <2>2. \A x \in Allocations \X Budgets : saved'.spentByAllocation[x] <= spentByAllocation'[x]
    BY <1>1, <2>1
  <2> QED BY <1>1, <1>4, <2>2 DEF Books, SpendOK, InOrder
<1>11. MembersOK'
  BY <1>1, <1>5 DEF Books, MembersOK, Bound
<1>12. SettlingOK'
  BY <1>3, <1>4, <1>5, <1>6, <1>8, MarketAssumption DEF SettlingOK, j
<1>13. BooksOK'
  <2>1. ASSUME NEW a \in Allocations, NEW b \in Budgets
        PROVE  PaidTogether(paid', MembersOf(a)', b) + Owed(a, b)' = spentByAllocation'[<<a, b>>]
    <3>1. Owed(a, b) = 0 /\ Owed(a, b)' = IF c = b /\ j = a THEN settled ELSE 0
      BY <1>5, <1>6, <1>8, NobodyOwes DEF Owed, j
    <3>2. /\ PaidTogether(paid, MembersOf(a), b) + Owed(a, b) = spentByAllocation[<<a, b>>]
          /\ PaidTogether(paid, MembersOf(a), b) \in Nat
      BY TogetherIsNat DEF Books, BooksOK, Inv, SavedOK, MembersOf
    <3>3. PaidTogether(paid', MembersOf(a)', b) = PaidTogether(paid, MembersOf(a), b)
      BY <1>1, <1>5 DEF MembersOf
    <3>4. spentByAllocation'[<<a, b>>]
            = spentByAllocation[<<a, b>>] + (IF c = b /\ j = a THEN settled ELSE 0)
      <4>1. <<a, b>> \in Allocations \X Budgets
            /\ spentByAllocation \in [Allocations \X Budgets -> Nat]
        BY DEF Books, SpendOK, InOrder
      <4> QED BY <1>4, <4>1
    <3> QED BY <1>2, <3>1, <3>2, <3>3, <3>4
  <2> QED BY <1>1, <1>7, <2>1 DEF Books, BooksOK
<1> QED BY <1>9, <1>10, <1>11, <1>12, <1>13 DEF Books

\* The call is paid for, and owes nothing any more.
LEMMA BooksSettle ==
  ASSUME Inv, Books, Settle
  PROVE  Books'
<1> DEFINE f == [Top EXCEPT !.phase = "taking"]
           w == Top.trader
           c == Top.budget
           n == Top.settled
           j == allocationIdByWallet[w]
<1>1. /\ call # <<>> /\ Top.phase = "settling" /\ call' = <<f>> \o Tail(call)
      /\ paid' = [paid EXCEPT ![<<w, c>>] = @ + n]
      /\ UNCHANGED <<allocationIdByWallet, policyByGroupPeriod, spentByAllocation,
                     highestSpendByGroupPeriod, executor, volatility, liquid, saved>>
  BY DEF Settle, ledgerVars, memberVars, policyVars, spendVars
<1>2. Top \in Frames /\ call \in Seq(Frames) /\ w \in Wallets /\ n \in Nat
  BY <1>1, Running, SettledIsNat DEF Inv, StackOK, Frames
<1>3. Settling /\ c \in Budgets /\ j # Zero
  BY <1>1 DEF Settling, Books, SettlingOK
<1>4. f.phase = "taking" /\ f \in Frames
  BY <1>2, PhaseWritten DEF Same
<1> HIDE DEF f
<1>5. Head(call') = f /\ call' # <<>> /\ Len(call') = Len(call)
  BY <1>1, <1>2, <1>4, TopReplaced
<1>6. ~Settling'
  BY <1>4, <1>5 DEF Settling, Top
<1>7. paid \in [Wallets \X Budgets -> Nat]
  BY DEF Inv, SavedOK
<1>8. \A a \in Allocations, b \in Budgets :
        Owed(a, b) = (IF c = b /\ j = a THEN n ELSE 0) /\ Owed(a, b)' = 0
  BY <1>3, <1>6, NobodyOwes DEF Owed
<1> HIDE DEF w, c, n
<1>9. TypesOK' /\ SpendOK' /\ SettlingOK'
  BY <1>1, <1>5, <1>6 DEF Books, TypesOK, SpendOK, InOrder, SettlingOK
<1>10. MembersOK'
  <2>1. ASSUME NEW v \in Wallets, NEW b \in Budgets, allocationIdByWallet[v] = Zero
        PROVE  paid'[<<v, b>>] = 0
    <3>1. v # w
      BY <1>3, <2>1
    <3>2. paid'[<<v, b>>] = paid[<<v, b>>]
      BY <1>1, <1>7, <3>1
    <3> QED BY <2>1, <3>2 DEF Books, MembersOK, Bound
  <2>2. Bound(allocationIdByWallet, paid)'
    BY <1>1, <2>1 DEF Books, MembersOK, Bound
  <2> QED BY <1>1, <1>5, <2>2 DEF Books, MembersOK, Bound
<1>11. BooksOK'
  <2>1. ASSUME NEW a \in Allocations, NEW b \in Budgets
        PROVE  PaidTogether(paid', MembersOf(a)', b) + Owed(a, b)' = spentByAllocation'[<<a, b>>]
    <3> DEFINE U == MembersOf(a)
    <3>1. U \in SUBSET Wallets /\ (w \in U <=> j = a) /\ MembersOf(a)' = U
      BY <1>1, <1>2 DEF MembersOf
    <3> HIDE DEF U, j
    <3>2. PaidTogether(paid', U, b)
            = PaidTogether(paid, U, b) + (IF w \in U /\ b = c THEN n ELSE 0)
      <4>1. U \subseteq Wallets /\ w \in Wallets
        BY <1>2, <3>1
      <4>2. ASSUME NEW v \in Wallets
            PROVE  /\ paid[<<v, b>>] \in Nat /\ paid'[<<v, b>>] \in Nat
                   /\ ~ (v = w /\ b = c) => paid'[<<v, b>>] = paid[<<v, b>>]
                   /\ v = w /\ b = c => paid'[<<v, b>>] = paid[<<v, b>>] + n
        <5>1. ASSUME NEW x \in Wallets \X Budgets
              PROVE  /\ paid[x] \in Nat
                     /\ paid'[x] = IF x = <<w, c>> THEN paid[x] + n ELSE paid[x]
          BY <1>1, <1>7
        <5>2. <<v, b>> \in Wallets \X Budgets
          OBVIOUS
        <5>3. paid[<<v, b>>] \in Nat
          BY <5>1, <5>2
        <5>4. paid'[<<v, b>>] = IF v = w /\ b = c THEN paid[<<v, b>>] + n ELSE paid[<<v, b>>]
          BY <5>1, <5>2
        <5> QED BY <1>2, <5>3, <5>4
      <4>3. PaidTogether(paid', U, b) = PaidTogether(paid, U, b)
              + (IF w \in U THEN paid'[<<w, b>>] - paid[<<w, b>>] ELSE 0)
        <5>1. \A v \in U : paid[<<v, b>>] \in Nat /\ paid'[<<v, b>>] \in Nat
          BY <4>1, <4>2
        <5>2. \A v \in U \ {w} : paid'[<<v, b>>] = paid[<<v, b>>]
          BY <4>1, <4>2
        <5> QED BY <4>1, <5>1, <5>2, OnePays
      <4>4. PaidTogether(paid, U, b) \in Nat
        BY <1>7, <3>1, TogetherIsNat
      <4> QED BY <1>2, <4>1, <4>2, <4>3, <4>4
    <3>3. PaidTogether(paid, U, b) \in Nat
      BY <1>7, <3>1, TogetherIsNat
    <3>4. PaidTogether(paid, U, b) + Owed(a, b) = spentByAllocation[<<a, b>>]
      BY DEF Books, BooksOK, U
    <3> QED BY <1>1, <1>2, <1>8, <3>1, <3>2, <3>3, <3>4
  <2> QED BY <1>1, <1>5, <2>1 DEF Books, BooksOK
<1> QED BY <1>9, <1>10, <1>11 DEF Books

-----------------------------------------------------------------------------
(* The books, always *)

\* Before anything happens nothing is spent, paid or owed.
LEMMA InitBooks ==
  Init => Books
<1> SUFFICES ASSUME Init PROVE Books
  OBVIOUS
<1>1. /\ call = <<>> /\ executor = NoSwap /\ volatility \in Volatilities /\ liquid = {}
      /\ paid = [x \in Wallets \X Budgets |-> 0]
      /\ allocationIdByWallet = [w \in Wallets |-> Zero]
      /\ policyByGroupPeriod = [b \in Budgets |-> [cap |-> 0, usdc |-> Zero]]
      /\ spentByAllocation = [ab \in Allocations \X Budgets |-> 0]
      /\ highestSpendByGroupPeriod = [b \in Budgets |-> 0]
  BY DEF Init, Ledger!Init, Ledger!Budgets, Budgets
<1>2. ~Settling
  BY <1>1 DEF Settling
<1>3. TypesOK
  <2>1. executor \in [inSwap : BOOLEAN, trader : Wallets \cup {Zero}, amount : Amounts \cup {0}]
    BY <1>1 DEF NoSwap
  <2>2. Len(call) <= 2
    BY <1>1
  <2> QED BY <1>1, <2>1, <2>2 DEF TypesOK
<1>4. SpendOK
  BY <1>1 DEF SpendOK, InOrder
<1>5. MembersOK /\ SettlingOK
  BY <1>1, <1>2 DEF MembersOK, Bound, SettlingOK
<1>6. BooksOK
  <2>1. ASSUME NEW a \in Allocations, NEW b \in Budgets
        PROVE  PaidTogether(paid, MembersOf(a), b) + Owed(a, b) = spentByAllocation[<<a, b>>]
    <3>1. PaidTogether(paid, MembersOf(a), b) = 0
      BY <1>1, NothingTogether DEF MembersOf
    <3>2. Owed(a, b) = 0 /\ spentByAllocation[<<a, b>>] = 0
      BY <1>1, <1>2, NobodyOwes
    <3> QED BY <3>1, <3>2
  <2> QED BY <1>1, <2>1 DEF BooksOK
<1> QED BY <1>3, <1>4, <1>5, <1>6 DEF Books

\* Every step keeps the books.
LEMMA StepKeepsBooks ==
  Inv /\ Books /\ [Next]_vars => Books'
<1> SUFFICES ASSUME Inv, Books, [Next]_vars PROVE Books'
  OBVIOUS
<1>1. CASE Swaps
  <2>1. CASE \E w \in Wallets, tokens \in Tokens \X Tokens, pool \in Pools, amount \in Amounts :
               SwapExactInput(w, tokens, pool, amount)
    BY <2>1, BooksSwapExactInput
  <2>2. CASE \E w \in Wallets, tokens \in Tokens \X Tokens, pool \in Pools, amount \in Amounts,
                exactInput \in BOOLEAN : SwapElsewhere(w, tokens, pool, exactInput, amount)
    BY <2>2, BooksSwapElsewhere
  <2>3. CASE \E settled \in Amounts, filled \in BOOLEAN : AfterSwap(settled, filled)
    BY <2>3, BooksAfterSwap
  <2> QED BY <1>1, <2>1, <2>2, <2>3, BooksBeforeSwap, BooksSettle, BooksReturn, BooksRevert
          DEF Swaps
<1>2. CASE Administer
  <2>1. CASE AdministerLedger
    <3>1. CASE \E b \in Budgets, cap \in Amounts, token \in Tokens :
                 Ledger!SetPolicy(Owner, b[1], b[2], cap, token)
      BY <2>1, <3>1, BooksPolicy
    <3>2. CASE Ledger!SetAuthorizedHook(Owner, Hook)
      BY <2>1, <3>2, BooksAtRest
    <3> QED BY <2>1, <3>1, <3>2 DEF AdministerLedger
  <2>2. CASE SetHook \/ \E v \in Volatilities : SetVolatility(v)
    BY <2>2, BooksAtRest
  <2> QED BY <1>2, <2>1, <2>2 DEF Administer
<1>3. CASE \E sender \in Wallets \cup {Helper}, pool \in Pools : AddLiquidity(sender, pool)
  BY <1>3, BooksAtRest
<1>4. CASE Register
  BY <1>4, BooksRegister
<1>5. CASE UNCHANGED vars
  BY <1>5, BooksStutter
<1> QED BY <1>1, <1>2, <1>3, <1>4, <1>5 DEF Next

\* The books are in order in every state, also in the middle of a purchase:
\* for every human and budget, the money paid and the charge of the call that
\* still has to pay make up the spend the ledger recorded.
THEOREM BooksInvariant ==
  Spec => [](Inv /\ Books)
BY InitInv, InitBooks, StepKeeps, StepKeepsBooks, PTL DEF Spec

\* SettledAtRest, for every market and however many purchases, some inside
\* others, however many of them reverted: whenever no transaction runs, no lock
\* is left, and what the wallets of a human paid the pool manager is exactly
\* what the ledger recorded.
THEOREM AlwaysSettledAtRest ==
  Spec => []SettledAtRest
<1>1. Inv /\ Books => SettledAtRest
  <2> SUFFICES ASSUME Inv, Books PROVE SettledAtRest
    OBVIOUS
  <2>1. TypeOK
    BY DEF Inv, StackOK, AdmittedOK, HookSettings, SavedOK, Books, TypesOK, TypeOK
  <2>2. NothingLeftOpen
    BY DEF Inv, ExecutorOK, PurchaseOK, NothingLeftOpen, AtRest
  <2>3. PaidIsRecorded
    <3>1. ASSUME AtRest, NEW a \in Allocations, NEW b \in Budgets
          PROVE  PaidTogether(paid, MembersOf(a), b) = spentByAllocation[<<a, b>>]
      <4>1. Owed(a, b) = 0
        BY <3>1, NobodyOwes DEF Settling, AtRest
      <4>2. PaidTogether(paid, MembersOf(a), b) \in Nat
        BY TogetherIsNat DEF Inv, SavedOK, MembersOf
      <4> QED BY <4>1, <4>2 DEF Books, BooksOK
    <3> QED BY <3>1 DEF PaidIsRecorded
  <2> QED BY <2>1, <2>2, <2>3 DEF SettledAtRest
<1> QED BY <1>1, BooksInvariant, PTL

-----------------------------------------------------------------------------
(* The terms *)

\* An admitted call is one on the terms in force.
LEMMA AdmittedOnTerms ==
  ASSUME NEW f \in Frames, Admitted(f)
  PROVE  OnTerms(f)
<1>1. /\ ~hook.poolPaused /\ hook.userTier[f.trader] # 0
      /\ hook.userTier[f.trader] = RETAIL => f.amount <= hook.retailSwapCap
  BY DEF Admitted, TierAllows
<1>2. f.pool # DYNAMIC_FEE_FLAG => f.fee = f.pool
  BY DEF Admitted, SwapFee
<1>3. ASSUME f.pool = DYNAMIC_FEE_FLAG
      PROVE  f.fee = Fee(hook.userTier[f.trader], volatility > hook.volatilityThreshold)
  BY <1>3 DEF Admitted, SwapFee, FeeFor
<1>4. ASSUME f.pool = DYNAMIC_FEE_FLAG
      PROVE  /\ f.fee \in {500, 1000, 5000}
             /\ f.fee = 5000 <=>
                  hook.userTier[f.trader] = RETAIL /\ volatility > hook.volatilityThreshold
             /\ f.fee = 500 <=>
                  hook.userTier[f.trader] = INSTITUTIONAL /\ volatility > hook.volatilityThreshold
  BY <1>3, <1>4 DEF Fee, RETAIL, INSTITUTIONAL
<1> QED BY <1>1, <1>2, <1>4 DEF OnTerms

\* Spend is recorded in AfterSwap only: a revert takes it back.
LEMMA RecordedInAfterSwap ==
  ASSUME Inv, Books, [Next]_vars, NEW y \in Allocations \X Budgets,
         spentByAllocation'[y] > spentByAllocation[y]
  PROVE  \E settled \in Amounts, filled \in BOOLEAN : AfterSwap(settled, filled)
<1>1. spentByAllocation[y] \in Nat
  BY DEF Books, SpendOK, InOrder
<1>2. spentByAllocation' # spentByAllocation
  BY <1>1
<1>3. ~Revert
  <2>1. SUFFICES ASSUME Revert PROVE FALSE
    OBVIOUS
  <2>2. /\ saved.spentByAllocation[y] \in Nat
        /\ saved.spentByAllocation[y] <= spentByAllocation[y]
        /\ spentByAllocation' = saved.spentByAllocation
    BY <2>1 DEF Revert, Books, SpendOK, InOrder
  <2> QED BY <1>1, <2>2
<1> QED BY <1>2, <1>3
  DEF Next, Swaps, Administer, SetHook, SetVolatility, AdministerLedger, AddLiquidity, Register,
      SwapExactInput, SwapElsewhere, BeforeSwap, Settle, Return, vars, ledgerVars, spendVars,
      Ledger!SetAuthorizedHook, Ledger!SetPolicy, Ledger!Register, Ledger!RegisterWallet,
      Ledger!spendVars

\* Whoever is charged, and whoever pays, does so in an open market, within the
\* limit of the tier, and at the fee of the pool: its own, or in a dynamic pool
\* that of the tier for the volatility of the moment.
THEOREM AlwaysChargedOnTerms ==
  Spec => ChargedOnTerms
<1> DEFINE Recorded ==
      \A y \in Allocations \X Budgets :
        spentByAllocation'[y] > spentByAllocation[y] =>
          y = <<allocationIdByWallet[Top.trader], hook.allocation>> /\ OnTerms(Top)
           Collected ==
      \A x \in Wallets \X Budgets :
        paid'[x] > paid[x] => x = <<Top.trader, hook.allocation>> /\ OnTerms(Top)
<1>1. ASSUME Inv, Books, [Next]_vars, NEW y \in Allocations \X Budgets,
             spentByAllocation'[y] > spentByAllocation[y]
      PROVE  y = <<allocationIdByWallet[Top.trader], hook.allocation>> /\ OnTerms(Top)
  <2>1. PICK settled \in Amounts, filled \in BOOLEAN : AfterSwap(settled, filled)
    BY <1>1, RecordedInAfterSwap
  <2>2. /\ call # <<>> /\ Top.phase = "swapping" /\ Top.trader = purchase.trader
        /\ settled \in Nat
        /\ Ledger!RecordSpend(Hook, purchase.trader, purchase.budget[1], purchase.budget[2],
                              settled)
    BY <2>1 DEF AfterSwap, SettledInput
  <2>3. Top \in Frames /\ Admitted(Top)
    BY <1>1, <2>2, Running
  <2>4. purchase.budget = hook.allocation /\ Top.trader \in Wallets
    BY <1>1, <2>2, <2>3 DEF Inv, AdmittedOK, Frames
  <2>5. purchase.budget \in Budgets
    <3>1. purchase.budget \in Budgets \cup {NoBudget}
      BY <1>1, <2>4 DEF Inv, AdmittedOK, HookSettings
    <3>2. purchase.budget[1] # Zero
      BY <2>2 DEF Ledger!RecordSpend, Ledger!HasBudget
    <3> QED BY <3>1, <3>2 DEF NoBudget
  <2>6. /\ allocationIdByWallet[Top.trader] \in Allocations
        /\ spentByAllocation' =
             [spentByAllocation EXCEPT ![<<allocationIdByWallet[Top.trader], purchase.budget>>] =
                @ + settled]
    BY <1>1, <2>2, <2>4, <2>5, SpendRecorded
  <2>7. y = <<allocationIdByWallet[Top.trader], hook.allocation>>
    <3>1. spentByAllocation[y] \in Nat /\ spentByAllocation \in [Allocations \X Budgets -> Nat]
      BY <1>1 DEF Books, SpendOK, InOrder
    <3> QED BY <1>1, <2>4, <2>6, <3>1
  <2> QED BY <2>3, <2>7, AdmittedOnTerms
<1>2. ASSUME Inv, [Next]_vars, NEW x \in Wallets \X Budgets, paid'[x] > paid[x]
      PROVE  x = <<Top.trader, hook.allocation>> /\ OnTerms(Top)
  <2>1. Settle /\ call # <<>> /\ x = <<Top.trader, Top.budget>>
    BY <1>2, PaidInSettle
  <2>2. Top.phase = "settling" /\ Top \in Frames /\ Admitted(Top)
    BY <1>2, <2>1, Running DEF Settle
  <2>3. Top.budget = hook.allocation
    BY <1>2, <2>1, <2>2 DEF Inv, AdmittedOK
  <2> QED BY <2>1, <2>2, <2>3, AdmittedOnTerms
<1>3. Inv /\ Books /\ [Next]_vars => Recorded /\ Collected
  BY <1>1, <1>2
<1> QED BY <1>3, BooksInvariant, PTL DEF Spec, ChargedOnTerms

-----------------------------------------------------------------------------
(* Seen from outside *)

\* The spend that counts outside the transaction in progress.
SpentInTheEnd == IF AtRest THEN spentByAllocation ELSE saved.spentByAllocation

\* What a human paid in the end is that spend.
EndsOK ==
  \A a \in Allocations, b \in Budgets : PaidInTheEnd(a, b) = SpentInTheEnd[<<a, b>>]

\* Whoever joined a human since the transaction began had paid nothing by then.
LEMMA PaidByThen ==
  ASSUME Inv, Books, call # <<>>, NEW a \in Allocations, NEW b \in Budgets
  PROVE  PaidTogether(saved.paid, MembersOf(a), b) = saved.spentByAllocation[<<a, b>>]
<1> DEFINE U == {w \in Wallets : saved.allocationIdByWallet[w] = a}
           V == MembersOf(a)
<1>1. /\ Bound(saved.allocationIdByWallet, saved.paid)
      /\ \A w \in Wallets : saved.allocationIdByWallet[w] # Zero =>
           allocationIdByWallet[w] = saved.allocationIdByWallet[w]
  BY DEF Books, MembersOK
<1>2. V \subseteq Wallets /\ U \subseteq V
  BY <1>1 DEF MembersOf
<1>3. \A w \in V \ U : saved.paid[<<w, b>>] = 0
  <2>1. ASSUME NEW w \in V \ U
        PROVE  saved.allocationIdByWallet[w] = Zero
    BY <1>1, <1>2 DEF MembersOf
  <2> QED BY <1>1, <1>2, <2>1 DEF Bound
<1>4. PaidTogether(saved.paid, U, b) = saved.spentByAllocation[<<a, b>>]
  BY DEF Books, BooksOK
<1>5. saved.paid \in [Wallets \X Budgets -> Nat]
  BY DEF Inv, SavedOK
<1>6. PaidTogether(saved.paid, V, b) = PaidTogether(saved.paid, U, b)
  <2> DEFINE money == saved.paid
  <2>1. money \in [Wallets \X Budgets -> Nat]
    BY <1>5
  <2>2. \A w \in V \ U : money[<<w, b>>] = 0
    BY <1>3
  <2> HIDE DEF U, V, money
  <2>3. U \subseteq V /\ V \subseteq Wallets
    BY <1>2
  <2>4. PaidTogether(money, V, b) = PaidTogether(money, U, b)
    BY <2>1, <2>2, <2>3, UnpaidJoin
  <2> QED BY <2>4 DEF money
<1> QED BY <1>4, <1>6

\* So the money and the spend agree in the end, in every state.
LEMMA MoneyIsSpend ==
  Inv /\ Books => EndsOK
<1> SUFFICES ASSUME Inv, Books, NEW a \in Allocations, NEW b \in Budgets
             PROVE  PaidInTheEnd(a, b) = SpentInTheEnd[<<a, b>>]
  BY DEF EndsOK
<1>1. CASE AtRest
  <2>1. Owed(a, b) = 0
    BY <1>1, NobodyOwes DEF Settling, AtRest
  <2>2. PaidTogether(paid, MembersOf(a), b) \in Nat
    BY TogetherIsNat DEF Inv, SavedOK, MembersOf
  <2> QED BY <1>1, <2>1, <2>2 DEF Books, BooksOK, PaidInTheEnd, SpentInTheEnd
<1>2. CASE ~AtRest
  BY <1>2, PaidByThen DEF AtRest, PaidInTheEnd, SpentInTheEnd
<1> QED BY <1>1, <1>2

\* From outside a step changes nothing, or a policy between two transactions, or
\* ends a transaction whose spend counts from now on.
LEMMA SeenFromOutside ==
  ASSUME Inv, Books, [Next]_vars
  PROVE  \/ UNCHANGED <<policyByGroupPeriod, SpentInTheEnd>>
         \/ call = <<>> /\ call' = <<>> /\ UNCHANGED spentByAllocation
         \/ /\ call # <<>> /\ SpentInTheEnd' = spentByAllocation
            /\ UNCHANGED policyByGroupPeriod
<1>1. CASE Swaps
  <2>1. UNCHANGED policyByGroupPeriod
    BY <1>1 DEF Swaps, SwapExactInput, SwapElsewhere, BeforeSwap, AfterSwap, Settle, Return, Revert,
                Ledger!RecordSpend, ledgerVars, policyVars, Ledger!policyVars
  <2>2. CASE \E w \in Wallets, tokens \in Tokens \X Tokens, pool \in Pools, amount \in Amounts :
               \/ SwapExactInput(w, tokens, pool, amount)
               \/ \E exactInput \in BOOLEAN : SwapElsewhere(w, tokens, pool, exactInput, amount)
    <3>1. call \in Seq(Frames)
      BY DEF Inv, StackOK
    <3>2. \A f \in Frames : <<f>> \o call # <<>> /\ <<f>> # <<>>
      BY <3>1
    <3>3. call' # <<>>
      <4>1. CASE \E w \in Wallets, tokens \in Tokens \X Tokens, pool \in Pools, amount \in Amounts :
                   SwapExactInput(w, tokens, pool, amount)
        BY <4>1 DEF SwapExactInput
      <4>2. CASE \E w \in Wallets, tokens \in Tokens \X Tokens, pool \in Pools, amount \in Amounts,
                    exactInput \in BOOLEAN : SwapElsewhere(w, tokens, pool, exactInput, amount)
        <5>1. \A f : <<f>> \o call # <<>>
          BY <3>1
        <5> QED BY <4>2, <5>1 DEF SwapElsewhere
      <4> QED BY <2>2, <4>1, <4>2
    <3>4. saved' = IF call = <<>> THEN Snapshot ELSE saved
      BY <2>2 DEF SwapExactInput, SwapElsewhere
    <3> QED BY <2>1, <3>3, <3>4, SnapshotTaken DEF SpentInTheEnd, AtRest
  <2>3. CASE BeforeSwap \/ Settle \/ \E settled \in Amounts, filled \in BOOLEAN :
               AfterSwap(settled, filled)
    <3>1. call # <<>> /\ saved' = saved /\ \E f : call' = <<f>> \o Tail(call)
      BY <2>3 DEF BeforeSwap, AfterSwap, Settle
    <3>2. call' # <<>>
      BY <3>1 DEF Inv, StackOK
    <3> QED BY <2>1, <3>1, <3>2 DEF SpentInTheEnd, AtRest
  <2>4. CASE Return
    BY <2>1, <2>4 DEF Return, SpentInTheEnd, AtRest, ledgerVars, spendVars
  <2>5. CASE Revert
    BY <2>1, <2>5 DEF Revert, SpentInTheEnd, AtRest
  <2> QED BY <1>1, <2>2, <2>3, <2>4, <2>5 DEF Swaps
<1>2. CASE \/ SetHook \/ \E v \in Volatilities : SetVolatility(v)
           \/ AdministerLedger /\ Ledger!SetAuthorizedHook(Owner, Hook)
           \/ \E sender \in Wallets \cup {Helper}, pool \in Pools : AddLiquidity(sender, pool)
           \/ Register
           \/ UNCHANGED vars
  <2>1. UNCHANGED <<policyByGroupPeriod, spentByAllocation, call, saved>>
    BY <1>2 DEF SetHook, SetVolatility, AdministerLedger, Ledger!SetAuthorizedHook, AddLiquidity,
                Register, Ledger!Register, Ledger!RegisterWallet, vars, ledgerVars, policyVars,
                spendVars, Ledger!policyVars, Ledger!spendVars
  <2> QED BY <2>1 DEF SpentInTheEnd, AtRest
<1>3. CASE AdministerLedger /\ \E b \in Budgets, cap \in Amounts, token \in Tokens :
             Ledger!SetPolicy(Owner, b[1], b[2], cap, token)
  BY <1>3 DEF AdministerLedger, Ledger!SetPolicy, Ledger!spendVars
<1> QED BY <1>1, <1>2, <1>3 DEF Next, Administer, AdministerLedger

\* Each of these is a step of the human budgets.
LEMMA StepRefines ==
  Inv /\ Books /\ EndsOK /\ EndsOK' /\ [Next]_vars /\ Books' => [Human!Next]_Human!vars
<1> SUFFICES ASSUME Inv, Books, EndsOK, EndsOK', [Next]_vars, Books'
             PROVE  [Human!Next]_Human!vars
  OBVIOUS
<1> DEFINE cap    == [b \in Budgets |-> policyByGroupPeriod[b].cap]
           bought == [ab \in Allocations \X Budgets |-> PaidInTheEnd(ab[1], ab[2])]
<1>1. /\ \A a \in Allocations, b \in Budgets : bought[<<a, b>>] = SpentInTheEnd[<<a, b>>]
      /\ \A a \in Allocations, b \in Budgets : bought'[<<a, b>>] = SpentInTheEnd'[<<a, b>>]
  BY DEF EndsOK
<1>2. SpentInTheEnd' = SpentInTheEnd => bought' = bought
  BY DEF EndsOK
<1>3. \A b \in Budgets : cap[b] = policyByGroupPeriod[b].cap /\ cap[b] \in Nat
  BY DEF Books, SpendOK
<1>4. CASE UNCHANGED <<policyByGroupPeriod, SpentInTheEnd>>
  BY <1>2, <1>4 DEF Human!vars
<1>5. CASE call = <<>> /\ call' = <<>> /\ UNCHANGED spentByAllocation
  <2>1. SpentInTheEnd' = SpentInTheEnd
    BY <1>5 DEF SpentInTheEnd, AtRest
  <2>2. cap' \in [Budgets -> Nat] /\ \A b \in Budgets : cap'[b] = policyByGroupPeriod'[b].cap
    BY DEF Books, SpendOK
  <2>3. ASSUME NEW a \in Allocations, NEW b \in Budgets
        PROVE  bought[<<a, b>>] <= cap'[b]
    <3>1. bought[<<a, b>>] = spentByAllocation'[<<a, b>>]
      BY <1>1, <1>5 DEF SpentInTheEnd, AtRest
    <3>2. /\ spentByAllocation'[<<a, b>>] <= highestSpendByGroupPeriod'[b]
          /\ spentByAllocation'[<<a, b>>] \in Nat /\ highestSpendByGroupPeriod'[b] \in Nat
          /\ highestSpendByGroupPeriod'[b] <= policyByGroupPeriod'[b].cap
      BY DEF Books, SpendOK, InOrder
    <3>3. cap'[b] \in Nat /\ cap'[b] = policyByGroupPeriod'[b].cap
      BY <2>2
    <3> HIDE DEF bought, cap
    <3> QED BY <3>1, <3>2, <3>3
  <2>4. Human!SetCaps
    BY <1>2, <2>1, <2>2, <2>3 DEF Human!SetCaps
  <2> QED BY <2>4 DEF Human!Next
<1>6. CASE /\ call # <<>> /\ SpentInTheEnd' = spentByAllocation
           /\ UNCHANGED policyByGroupPeriod
  <2>1. ASSUME NEW a \in Allocations, NEW b \in Budgets
        PROVE  /\ bought'[<<a, b>>] \in Nat
               /\ bought[<<a, b>>] <= bought'[<<a, b>>] /\ bought'[<<a, b>>] <= cap[b]
    <3>1. /\ bought[<<a, b>>] = saved.spentByAllocation[<<a, b>>]
          /\ bought'[<<a, b>>] = spentByAllocation[<<a, b>>]
      BY <1>1, <1>6 DEF SpentInTheEnd, AtRest
    <3>2. <<a, b>> \in Allocations \X Budgets
      OBVIOUS
    <3>3. saved.spentByAllocation[<<a, b>>] <= spentByAllocation[<<a, b>>]
      BY <1>6, <3>2 DEF Books, SpendOK
    <3>4. /\ spentByAllocation[<<a, b>>] <= highestSpendByGroupPeriod[b]
          /\ spentByAllocation[<<a, b>>] \in Nat /\ highestSpendByGroupPeriod[b] \in Nat
          /\ highestSpendByGroupPeriod[b] <= policyByGroupPeriod[b].cap
      BY DEF Books, SpendOK, InOrder
    <3> HIDE DEF bought, cap
    <3> QED BY <1>3, <3>1, <3>3, <3>4
  <2>2. bought' \in [Allocations \X Budgets -> Nat]
    <3>1. ASSUME NEW x \in Allocations \X Budgets
          PROVE  PaidInTheEnd(x[1], x[2])' \in Nat
      <4>1. x[1] \in Allocations /\ x[2] \in Budgets /\ x = <<x[1], x[2]>>
        OBVIOUS
      <4> QED BY <2>1, <4>1
    <3> QED BY <3>1
  <2>3. cap' = cap
    BY <1>6
  <2>4. Human!Buy
    BY <2>1, <2>2, <2>3 DEF Human!Buy
  <2> QED BY <2>4 DEF Human!Next
<1> QED BY <1>4, <1>5, <1>6, SeenFromOutside

\* ImplementsHumanBudget, for every market: with all its calls, callbacks,
\* reverts and registrations the stack is one capped budget for each human.
THEOREM MarketIsHumanBudget ==
  Spec => ImplementsHumanBudget
<1>1. Init => Human!Init
  <2> SUFFICES ASSUME Init PROVE Human!Init
    OBVIOUS
  <2>1. EndsOK /\ Books
    BY InitInv, InitBooks, MoneyIsSpend
  <2>2. SpentInTheEnd = [ab \in Allocations \X Budgets |-> 0]
    BY DEF Init, Ledger!Init, Ledger!Budgets, Budgets, SpentInTheEnd, AtRest
  <2>3. \A ab \in Allocations \X Budgets : PaidInTheEnd(ab[1], ab[2]) = 0
    BY <2>1, <2>2 DEF EndsOK
  <2>4. [b \in Budgets |-> policyByGroupPeriod[b].cap] \in [Budgets -> Nat]
    BY <2>1 DEF Books, SpendOK
  <2> QED BY <2>3, <2>4 DEF Human!Init
<1> QED BY <1>1, StepRefines, MoneyIsSpend, BooksInvariant, PTL
        DEF Spec, ImplementsHumanBudget, Human!Spec
\* No human's money above the cap, neither what counts in the end nor what was
\* paid so far.
NobodyAboveCap ==
  \A a \in Allocations, b \in Budgets :
    /\ PaidTogether(paid, MembersOf(a), b) <= policyByGroupPeriod[b].cap
    /\ PaidInTheEnd(a, b) <= policyByGroupPeriod[b].cap

\* A human's money never exceeds the cap of the budget it was paid out of, between
\* two transactions or between two calls of one, however many wallets it came from:
\* the rule of setPolicy and recordSpend, in money.
THEOREM NobodyPaysMore ==
  Spec => []NobodyAboveCap
<1>1. Inv /\ Books => NobodyAboveCap
  <2> SUFFICES ASSUME Inv, Books, NEW a \in Allocations, NEW b \in Budgets
               PROVE  /\ PaidTogether(paid, MembersOf(a), b) <= policyByGroupPeriod[b].cap
                      /\ PaidInTheEnd(a, b) <= policyByGroupPeriod[b].cap
    BY DEF NobodyAboveCap
  <2>1. /\ spentByAllocation[<<a, b>>] \in Nat /\ policyByGroupPeriod[b].cap \in Nat
        /\ spentByAllocation[<<a, b>>] <= policyByGroupPeriod[b].cap
    BY DEF Books, SpendOK, InOrder
  <2>2. PaidTogether(paid, MembersOf(a), b) + Owed(a, b) = spentByAllocation[<<a, b>>]
    BY DEF Books, BooksOK
  <2>3. Owed(a, b) \in Nat
    <3>1. CASE Settling
      <4>1. Top \in Frames
        BY <3>1, Running DEF Settling
      <4>2. Top.settled \in Nat
        BY <4>1, SettledIsNat
      <4> QED BY <4>2 DEF Owed
    <3>2. CASE ~Settling
      BY <3>2 DEF Owed
    <3> QED BY <3>1, <3>2
  <2>4. PaidTogether(paid, MembersOf(a), b) \in Nat
    BY TogetherIsNat DEF Inv, SavedOK, MembersOf
  <2>5. PaidInTheEnd(a, b) = SpentInTheEnd[<<a, b>>]
    BY MoneyIsSpend DEF EndsOK
  <2>6. SpentInTheEnd[<<a, b>>] \in Nat /\ SpentInTheEnd[<<a, b>>] <= spentByAllocation[<<a, b>>]
    BY <2>1 DEF SpentInTheEnd, AtRest, Books, SpendOK, InOrder
  <2> QED BY <2>1, <2>2, <2>3, <2>4, <2>5, <2>6
<1> QED BY <1>1, BooksInvariant, PTL
=============================================================================
