----------------------- MODULE AllocationLedgerProofs -----------------------
(***************************************************************************)
(* Proofs about the allocation ledger, for every set of wallets,           *)
(* allocations, groups, periods, amounts and accounts.                     *)
(***************************************************************************)
EXTENDS AllocationLedger, TLAPS

USE LedgerAssumption

-----------------------------------------------------------------------------
(* The ledger variables as the properties see them change. *)

\* A step that moves roles or time only.
Aside == UNCHANGED <<memberVars, policyVars, spendVars>>

PolicyStep ==
  \E g \in Groups, p \in Periods, cap \in Amounts, usdc \in Tokens, c \in Accounts :
    cap # 0 /\ SetPolicy(c, g, p, cap, usdc)

RegisterStep ==
  \E auth \in Authorizations :
    auth.wallet \in Wallets /\ auth.allocationId \in Allocations /\ RegisterWallet(auth)

SpendStep ==
  \E w \in Wallets, g \in Groups, p \in Periods, amount \in Amounts, c \in Accounts :
    RecordSpend(c, w, g, p, amount)

\* Every step sets a policy, registers a wallet, records a spend, or leaves
\* the registrations, the policies and the counters alone.
LEMMA StepCases ==
  ASSUME [Next]_vars
  PROVE  Aside \/ PolicyStep \/ RegisterStep \/ SpendStep
<1>1. CASE \E c \in Accounts : Administer(c)
  <2>1. PICK c \in Accounts : Administer(c)
    BY <1>1
  <2>2. CASE \E a \in Accounts \cup {Zero} :
               SetBackendSigner(c, a) \/ SetAuthorizedHook(c, a) \/ TransferOwnership(c, a)
    BY <2>2 DEF Aside, SetBackendSigner, SetAuthorizedHook, TransferOwnership,
                memberVars, policyVars, spendVars
  <2>3. CASE RenounceOwnership(c)
    BY <2>3 DEF Aside, RenounceOwnership, memberVars, policyVars, spendVars
  <2>4. CASE \E g \in Groups \cup {Zero}, p \in Periods, cap \in Amounts,
                usdc \in Tokens \cup {Zero} : SetPolicy(c, g, p, cap, usdc)
    <3>1. PICK g \in Groups \cup {Zero}, p \in Periods, cap \in Amounts,
               usdc \in Tokens \cup {Zero} : SetPolicy(c, g, p, cap, usdc)
      BY <2>4
    <3>2. g \in Groups /\ usdc \in Tokens /\ cap # 0
      BY <3>1 DEF SetPolicy
    <3> QED BY <3>1, <3>2 DEF PolicyStep
  <2> QED BY <2>1, <2>2, <2>3, <2>4 DEF Administer
<1>2. CASE \E c \in Accounts : Purchase(c)
  <2>1. PICK c \in Accounts, w \in Wallets \cup {Zero}, g \in Groups \cup {Zero},
             p \in Periods, amount \in Amounts : RecordSpend(c, w, g, p, amount)
    BY <1>2 DEF Purchase
  <2>2. w \in Wallets /\ g \in Groups
    BY <2>1 DEF RecordSpend, HasBudget
  <2> QED BY <2>1, <2>2 DEF SpendStep
<1>3. CASE Register
  <2>1. PICK auth \in Authorizations : RegisterWallet(auth)
    BY <1>3 DEF Register
  <2>2. auth.wallet \in Wallets /\ auth.allocationId \in Allocations
    BY <2>1 DEF RegisterWallet, Authorizations
  <2> QED BY <2>1, <2>2 DEF RegisterStep
<1>4. CASE Tick
  BY <1>4 DEF Tick, Aside, ledgerVars, memberVars, policyVars, spendVars
<1>5. CASE UNCHANGED vars
  BY <1>5 DEF vars, Aside, ledgerVars, memberVars, policyVars, spendVars
<1> QED BY <1>1, <1>2, <1>3, <1>4, <1>5 DEF Next

-----------------------------------------------------------------------------
(* What each kind of step leaves alone *)

\* Only a registration touches bindings and nonces.
LEMMA BindingsKept ==
  ASSUME Aside \/ PolicyStep \/ SpendStep
  PROVE  allocationIdByWallet' = allocationIdByWallet /\ usedNonce' = usedNonce
<1>1. CASE Aside
  BY <1>1 DEF Aside, memberVars
<1>2. CASE PolicyStep
  <2>1. UNCHANGED memberVars
    BY <1>2, Zenon DEF PolicyStep, SetPolicy
  <2> QED BY <2>1 DEF memberVars
<1>3. CASE SpendStep
  <2>1. UNCHANGED memberVars
    BY <1>3, Zenon DEF SpendStep, RecordSpend
  <2> QED BY <2>1 DEF memberVars
<1> QED BY <1>1, <1>2, <1>3

\* Only a purchase touches spend.
LEMMA SpendKept ==
  ASSUME Aside \/ PolicyStep \/ RegisterStep
  PROVE  spentByAllocation' = spentByAllocation
<1>1. CASE Aside
  BY <1>1 DEF Aside, spendVars
<1>2. CASE PolicyStep
  <2>1. UNCHANGED spendVars
    BY <1>2, Zenon DEF PolicyStep, SetPolicy
  <2> QED BY <2>1 DEF spendVars
<1>3. CASE RegisterStep
  <2>1. UNCHANGED spendVars
    BY <1>3, Zenon DEF RegisterStep, RegisterWallet
  <2> QED BY <2>1 DEF spendVars
<1> QED BY <1>1, <1>2, <1>3

\* Only a policy change touches policies and tokens.
LEMMA PoliciesKept ==
  ASSUME Aside \/ RegisterStep \/ SpendStep
  PROVE  UNCHANGED <<policyByGroupPeriod, quoteTokenByGroup>>
<1>1. CASE Aside
  BY <1>1 DEF Aside, policyVars
<1>2. CASE RegisterStep
  <2>1. UNCHANGED policyVars
    BY <1>2, Zenon DEF RegisterStep, RegisterWallet
  <2> QED BY <2>1 DEF policyVars
<1>3. CASE SpendStep
  <2>1. UNCHANGED policyVars
    BY <1>3, Zenon DEF SpendStep, RecordSpend
  <2> QED BY <2>1 DEF policyVars
<1> QED BY <1>1, <1>2, <1>3

-----------------------------------------------------------------------------
(* Type correctness *)

LedgerTypes ==
  /\ allocationIdByWallet \in [Wallets -> Allocations \cup {Zero}]
  /\ policyByGroupPeriod \in [Budgets -> [cap : Nat, usdc : Tokens \cup {Zero}]]
  /\ spentByAllocation \in [Allocations \X Budgets -> Nat]
  /\ highestSpendByGroupPeriod \in [Budgets -> Nat]
  /\ quoteTokenByGroup \in [Groups -> Tokens \cup {Zero}]
  /\ usedNonce \subseteq Nonces

RoleTypes ==
  /\ owner \in Accounts \cup {Zero}
  /\ backendSigner \in Accounts \cup {Zero}
  /\ authorizedHook \in Accounts \cup {Zero}
  /\ now \in 0..MaxTime

\* What a spend step does to the counters, free of the contract's wording.
LEMMA SpendStepEffect ==
  ASSUME LedgerTypes,
         NEW c \in Accounts, NEW w \in Wallets, NEW g \in Groups, NEW p \in Periods,
         NEW amount \in Amounts, RecordSpend(c, w, g, p, amount),
         NEW a, a = allocationIdByWallet[w],
         NEW b, b = <<g, p>>,
         NEW n, n = spentByAllocation[<<a, b>>] + amount
  PROVE  /\ a \in Allocations
         /\ b \in Budgets
         /\ amount \in Nat /\ amount > 0
         /\ n \in Nat /\ n > 0
         /\ n <= policyByGroupPeriod[b].cap
         /\ spentByAllocation' = [spentByAllocation EXCEPT ![<<a, b>>] = n]
         /\ highestSpendByGroupPeriod' =
              [highestSpendByGroupPeriod EXCEPT
                 ![b] = IF n > highestSpendByGroupPeriod[b]
                          THEN n ELSE highestSpendByGroupPeriod[b]]
         /\ UNCHANGED <<memberVars, policyVars>>
<1>1. a \in Allocations /\ b \in Budgets
  BY DEF RecordSpend, HasBudget, LedgerTypes, Budgets
<1>2. amount \in Nat /\ amount > 0
  <2>1. amount # 0
    BY DEF RecordSpend
  <2>2. amount \in Nat
    OBVIOUS
  <2> QED BY <2>1, <2>2
<1>3. spentByAllocation[<<a, b>>] \in Nat
  <2>1. <<a, b>> \in Allocations \X Budgets
    BY <1>1
  <2> QED BY <2>1 DEF LedgerTypes
<1>4. n <= policyByGroupPeriod[b].cap
  BY DEF RecordSpend, FitsCap, Spent
<1>5. /\ spentByAllocation' = [spentByAllocation EXCEPT ![<<a, b>>] = n]
      /\ highestSpendByGroupPeriod' =
           [highestSpendByGroupPeriod EXCEPT
              ![b] = IF n > highestSpendByGroupPeriod[b]
                       THEN n ELSE highestSpendByGroupPeriod[b]]
      /\ UNCHANGED <<memberVars, policyVars>>
  BY DEF RecordSpend, Increased, Spent, HigherSpend
<1> QED BY <1>1, <1>2, <1>3, <1>4, <1>5

\* Roles and time begin in their types.
LEMMA RolesInit == Init => RoleTypes
  BY DEF Init, RoleTypes

\* Every step keeps them there.
LEMMA RolesStep == ASSUME RoleTypes, [Next]_vars PROVE RoleTypes'
<1>1. CASE \E c \in Accounts : Administer(c)
  <2>1. PICK c \in Accounts : Administer(c)
    BY <1>1
  <2>2. CASE \E a \in Accounts \cup {Zero} :
               SetBackendSigner(c, a) \/ SetAuthorizedHook(c, a) \/ TransferOwnership(c, a)
    BY <2>2 DEF RoleTypes, SetBackendSigner, SetAuthorizedHook, TransferOwnership
  <2>3. CASE RenounceOwnership(c)
    BY <2>3 DEF RoleTypes, RenounceOwnership
  <2>4. CASE \E g \in Groups \cup {Zero}, p \in Periods, cap \in Amounts,
                usdc \in Tokens \cup {Zero} : SetPolicy(c, g, p, cap, usdc)
    BY <2>4 DEF RoleTypes, SetPolicy, roleVars
  <2> QED BY <2>1, <2>2, <2>3, <2>4 DEF Administer
<1>2. CASE \E c \in Accounts : Purchase(c)
  BY <1>2 DEF Purchase, RecordSpend, RoleTypes, roleVars
<1>3. CASE Register
  BY <1>3 DEF Register, RegisterWallet, RoleTypes, roleVars
<1>4. CASE Tick
  BY <1>4 DEF Tick, RoleTypes, ledgerVars, roleVars
<1>5. CASE UNCHANGED vars
  BY <1>5 DEF vars, RoleTypes, ledgerVars, roleVars
<1> QED BY <1>1, <1>2, <1>3, <1>4, <1>5 DEF Next

\* So do bindings, policies and counters.
LEMMA LedgerTypesInit == Init => LedgerTypes
  BY DEF Init, LedgerTypes, Budgets

\* Every step keeps those too.
LEMMA LedgerTypesStep == ASSUME LedgerTypes, [Next]_vars PROVE LedgerTypes'
<1>1. CASE Aside
  BY <1>1 DEF Aside, LedgerTypes, memberVars, policyVars, spendVars
<1>2. CASE PolicyStep
  <2>1. PICK g \in Groups, p \in Periods, cap \in Amounts, usdc \in Tokens, c \in Accounts :
          SetPolicy(c, g, p, cap, usdc)
    BY <1>2 DEF PolicyStep
  <2>2. cap \in Nat /\ <<g, p>> \in Budgets
    BY DEF Budgets
  <2> QED BY <2>1, <2>2 DEF SetPolicy, LedgerTypes, memberVars, spendVars
<1>3. CASE RegisterStep
  <2>1. PICK auth \in Authorizations :
          auth.wallet \in Wallets /\ auth.allocationId \in Allocations /\ RegisterWallet(auth)
    BY <1>3 DEF RegisterStep
  <2>2. auth.nonce \in Nonces
    BY DEF Authorizations
  <2> QED BY <2>1, <2>2 DEF RegisterWallet, LedgerTypes, policyVars, spendVars
<1>4. CASE SpendStep
  <2>1. PICK w \in Wallets, g \in Groups, p \in Periods, amount \in Amounts, c \in Accounts :
          RecordSpend(c, w, g, p, amount)
    BY <1>4 DEF SpendStep
  <2> DEFINE a == allocationIdByWallet[w]
             b == <<g, p>>
             n == spentByAllocation[<<a, b>>] + amount
  <2>2. /\ n \in Nat
        /\ spentByAllocation' = [spentByAllocation EXCEPT ![<<a, b>>] = n]
        /\ highestSpendByGroupPeriod' =
             [highestSpendByGroupPeriod EXCEPT
                ![b] = IF n > highestSpendByGroupPeriod[b]
                         THEN n ELSE highestSpendByGroupPeriod[b]]
        /\ UNCHANGED <<memberVars, policyVars>>
    BY <2>1, SpendStepEffect
  <2> HIDE DEF n
  <2> QED BY <2>2 DEF LedgerTypes, memberVars, policyVars
<1> QED BY <1>1, <1>2, <1>3, <1>4, StepCases

\* Type correctness of the ledger.
THEOREM TypeCorrect == Spec => []TypeOK
<1>1. Init => RoleTypes /\ LedgerTypes
  BY RolesInit, LedgerTypesInit
<1>2. RoleTypes /\ LedgerTypes /\ [Next]_vars => (RoleTypes /\ LedgerTypes)'
  BY RolesStep, LedgerTypesStep
<1>3. RoleTypes /\ LedgerTypes => TypeOK
  BY DEF RoleTypes, LedgerTypes, TypeOK
<1> QED BY <1>1, <1>2, <1>3, PTL DEF Spec

\* The same fact for the two halves of TypeOK, which the proofs below cite.
LEMMA LedgerTypesCorrect == Spec => []LedgerTypes
<1>1. Init => LedgerTypes
  BY LedgerTypesInit
<1>2. LedgerTypes /\ [Next]_vars => LedgerTypes'
  BY LedgerTypesStep
<1> QED BY <1>1, <1>2, PTL DEF Spec

-----------------------------------------------------------------------------
(* The budget invariant.  WithinCap is not inductive: a step that lowers a   *)
(* cap only looks at the cached maximum, so the maximum must be known to     *)
(* bound every allocation and to be bounded by the cap.                      *)

CapCoversHighest ==
  \A b \in Budgets : highestSpendByGroupPeriod[b] <= policyByGroupPeriod[b].cap

BudgetInv == HighestIsMaximum /\ CapCoversHighest

\* Without spend the cache is exact.
LEMMA BudgetInvInit == Init => BudgetInv
  BY DEF Init, BudgetInv, HighestIsMaximum, HighestBounds, HighestReached,
         CapCoversHighest, Budgets

\* A new cap is at least the cached maximum.
LEMMA BudgetInvPolicy ==
  ASSUME LedgerTypes, BudgetInv, PolicyStep
  PROVE  BudgetInv'
<1>1. PICK g \in Groups, p \in Periods, cap \in Amounts, usdc \in Tokens, c \in Accounts :
        SetPolicy(c, g, p, cap, usdc)
  BY DEF PolicyStep
<1>2. UNCHANGED <<spentByAllocation, highestSpendByGroupPeriod>>
  BY <1>1 DEF SetPolicy, spendVars
<1>3. HighestIsMaximum'
  BY <1>2 DEF BudgetInv, HighestIsMaximum, HighestBounds, HighestReached
<1>4. CapCoversHighest'
  <2>1. SUFFICES ASSUME NEW b \in Budgets
                 PROVE  highestSpendByGroupPeriod[b] <= policyByGroupPeriod'[b].cap
    BY <1>2 DEF CapCoversHighest
  <2>2. /\ policyByGroupPeriod' =
             [policyByGroupPeriod EXCEPT ![<<g, p>>] = [cap |-> cap, usdc |-> usdc]]
        /\ cap >= highestSpendByGroupPeriod[<<g, p>>]
    BY <1>1 DEF SetPolicy, CoversRecordedSpend
  <2>3. CASE b = <<g, p>>
    BY <2>2, <2>3 DEF LedgerTypes
  <2>4. CASE b # <<g, p>>
    BY <2>2, <2>4 DEF LedgerTypes, BudgetInv, CapCoversHighest
  <2> QED BY <2>3, <2>4
<1> QED BY <1>3, <1>4 DEF BudgetInv

\* A spend raises the cache exactly when it passes it, and stays under the cap.
LEMMA BudgetInvSpend ==
  ASSUME LedgerTypes, BudgetInv, SpendStep
  PROVE  BudgetInv'
<1>1. PICK w \in Wallets, g \in Groups, p \in Periods, amount \in Amounts, c \in Accounts :
        RecordSpend(c, w, g, p, amount)
  BY DEF SpendStep
<1> DEFINE a == allocationIdByWallet[w]
           b == <<g, p>>
           n == spentByAllocation[<<a, b>>] + amount
           h == IF n > highestSpendByGroupPeriod[b] THEN n ELSE highestSpendByGroupPeriod[b]
<1>2. /\ a \in Allocations /\ b \in Budgets
      /\ n \in Nat
      /\ n <= policyByGroupPeriod[b].cap
      /\ spentByAllocation' = [spentByAllocation EXCEPT ![<<a, b>>] = n]
      /\ highestSpendByGroupPeriod' = [highestSpendByGroupPeriod EXCEPT ![b] = h]
      /\ policyByGroupPeriod' = policyByGroupPeriod
  BY <1>1, SpendStepEffect DEF policyVars
<1> HIDE DEF a, b, n
<1>3. HighestBounds'
  <2>1. SUFFICES ASSUME NEW x \in Allocations, NEW y \in Budgets
                 PROVE  spentByAllocation'[<<x, y>>] <= highestSpendByGroupPeriod'[y]
    BY DEF HighestBounds
  <2>2. spentByAllocation[<<x, y>>] <= highestSpendByGroupPeriod[y]
    BY DEF BudgetInv, HighestIsMaximum, HighestBounds
  <2>3. highestSpendByGroupPeriod[y] \in Nat /\ spentByAllocation[<<x, y>>] \in Nat
    BY DEF LedgerTypes
  <2>4. CASE <<x, y>> = <<a, b>>
    BY <1>2, <2>2, <2>3, <2>4 DEF LedgerTypes
  <2>5. CASE <<x, y>> # <<a, b>>
    <3>1. spentByAllocation'[<<x, y>>] = spentByAllocation[<<x, y>>]
      BY <1>2, <2>5 DEF LedgerTypes
    <3>2. highestSpendByGroupPeriod'[y] >= highestSpendByGroupPeriod[y]
      BY <1>2, <2>3 DEF LedgerTypes
    <3>3. highestSpendByGroupPeriod'[y] \in Nat
      BY <1>2, <2>3 DEF LedgerTypes
    <3> QED BY <2>2, <2>3, <3>1, <3>2, <3>3
  <2> QED BY <2>4, <2>5
<1>4. HighestReached'
  <2>1. SUFFICES ASSUME NEW y \in Budgets, highestSpendByGroupPeriod'[y] # 0
                 PROVE  \E x \in Allocations :
                          spentByAllocation'[<<x, y>>] = highestSpendByGroupPeriod'[y]
    BY DEF HighestReached
  <2>2. CASE y = b /\ n > highestSpendByGroupPeriod[b]
    <3>1. spentByAllocation'[<<a, y>>] = n
      BY <1>2, <2>2 DEF LedgerTypes
    <3>2. highestSpendByGroupPeriod'[y] = n
      BY <1>2, <2>2 DEF LedgerTypes
    <3> QED BY <1>2, <3>1, <3>2
  <2>3. CASE ~(y = b /\ n > highestSpendByGroupPeriod[b])
    <3>1. highestSpendByGroupPeriod'[y] = highestSpendByGroupPeriod[y]
      BY <1>2, <2>3 DEF LedgerTypes
    <3>2. PICK x \in Allocations : spentByAllocation[<<x, y>>] = highestSpendByGroupPeriod[y]
      BY <2>1, <3>1 DEF BudgetInv, HighestIsMaximum, HighestReached
    <3>3. CASE <<x, y>> # <<a, b>>
      BY <1>2, <3>1, <3>2, <3>3 DEF LedgerTypes
    <3>4. CASE <<x, y>> = <<a, b>>
      \* The highest spender spent again: its new total beats the old maximum.
      <4>1. amount \in Nat /\ amount > 0
        BY <1>1, SpendStepEffect
      <4>2. x = a /\ y = b
        BY <3>4
      <4>3. n > highestSpendByGroupPeriod[b]
        BY <3>2, <4>1, <4>2, <1>2 DEF n, LedgerTypes
      <4> QED BY <2>3, <4>2, <4>3
    <3> QED BY <3>3, <3>4
  <2> QED BY <2>2, <2>3
<1>5. CapCoversHighest'
  <2>1. SUFFICES ASSUME NEW y \in Budgets
                 PROVE  highestSpendByGroupPeriod'[y] <= policyByGroupPeriod[y].cap
    BY <1>2 DEF CapCoversHighest
  <2>2. highestSpendByGroupPeriod[y] <= policyByGroupPeriod[y].cap
    BY DEF BudgetInv, CapCoversHighest
  <2> QED BY <1>2, <2>2 DEF LedgerTypes
<1> QED BY <1>3, <1>4, <1>5 DEF BudgetInv, HighestIsMaximum

\* Every step keeps the invariant of the budgets.
LEMMA BudgetInvStep ==
  ASSUME LedgerTypes, BudgetInv, [Next]_vars
  PROVE  BudgetInv'
<1>1. CASE Aside \/ RegisterStep
  <2>1. UNCHANGED <<policyVars, spendVars>>
    BY <1>1 DEF Aside, RegisterStep, RegisterWallet, policyVars, spendVars
  <2> QED BY <2>1 DEF policyVars, spendVars, BudgetInv, HighestIsMaximum, HighestBounds,
                      HighestReached, CapCoversHighest
<1> QED BY <1>1, StepCases, BudgetInvPolicy, BudgetInvSpend

\* It holds throughout.
LEMMA BudgetInvCorrect == Spec => [](LedgerTypes /\ BudgetInv)
<1>1. Init => LedgerTypes /\ BudgetInv
  BY LedgerTypesInit, BudgetInvInit
<1>2. LedgerTypes /\ BudgetInv /\ [Next]_vars => (LedgerTypes /\ BudgetInv)'
  BY LedgerTypesStep, BudgetInvStep
<1> QED BY <1>1, <1>2, PTL DEF Spec

\* No allocation exceeds the cap in force: the ledger's reason to exist.
THEOREM SpendWithinCap == Spec => []WithinCap
<1>1. LedgerTypes /\ BudgetInv => WithinCap
  <2>1. SUFFICES ASSUME LedgerTypes, BudgetInv, NEW a \in Allocations, NEW b \in Budgets
                 PROVE  spentByAllocation[<<a, b>>] <= policyByGroupPeriod[b].cap
    BY DEF WithinCap
  <2>2. /\ spentByAllocation[<<a, b>>] <= highestSpendByGroupPeriod[b]
        /\ highestSpendByGroupPeriod[b] <= policyByGroupPeriod[b].cap
    BY <2>1 DEF BudgetInv, HighestIsMaximum, HighestBounds, CapCoversHighest
  <2>3. /\ spentByAllocation[<<a, b>>] \in Nat /\ highestSpendByGroupPeriod[b] \in Nat
        /\ policyByGroupPeriod[b].cap \in Nat
    BY <2>1 DEF LedgerTypes
  <2> QED BY <2>2, <2>3
<1> QED BY <1>1, BudgetInvCorrect, PTL

\* The cached maximum is the maximum, so setPolicy's floor is the right one.
THEOREM CachedMaximum == Spec => []HighestIsMaximum
<1>1. LedgerTypes /\ BudgetInv => HighestIsMaximum
  BY DEF BudgetInv
<1> QED BY <1>1, BudgetInvCorrect, PTL

-----------------------------------------------------------------------------
(* What a step may never do *)

\* Nothing decreases spend.
THEOREM SpendMonotonic == Spec => SpendNeverDecreases
<1>1. ASSUME LedgerTypes, [Next]_vars,
             NEW x \in Allocations, NEW y \in Budgets
      PROVE  spentByAllocation'[<<x, y>>] >= spentByAllocation[<<x, y>>]
  <2>1. spentByAllocation[<<x, y>>] \in Nat
    BY <1>1 DEF LedgerTypes
  <2>2. CASE Aside \/ PolicyStep \/ RegisterStep
    <3>1. spentByAllocation' = spentByAllocation
      BY <2>2, SpendKept
    <3> QED BY <2>1, <3>1
  <2>3. CASE SpendStep
    <3>1. PICK w \in Wallets, g \in Groups, p \in Periods, amount \in Amounts, c \in Accounts :
            RecordSpend(c, w, g, p, amount)
      BY <2>3 DEF SpendStep
    <3> DEFINE a == allocationIdByWallet[w]
               b == <<g, p>>
               n == spentByAllocation[<<a, b>>] + amount
    <3>2. /\ amount \in Nat
          /\ spentByAllocation' = [spentByAllocation EXCEPT ![<<a, b>>] = n]
      BY <1>1, <3>1, SpendStepEffect
    <3>3. CASE <<x, y>> = <<a, b>>
      BY <1>1, <2>1, <3>2, <3>3 DEF LedgerTypes
    <3>4. CASE <<x, y>> # <<a, b>>
      BY <1>1, <2>1, <3>2, <3>4 DEF LedgerTypes
    <3> QED BY <3>3, <3>4
  <2> QED BY <1>1, <2>2, <2>3, StepCases
<1>2. LedgerTypes /\ [Next]_vars =>
        [\A a \in Allocations, b \in Budgets :
           spentByAllocation'[<<a, b>>] >= spentByAllocation[<<a, b>>]]_vars
  BY <1>1
<1> QED BY <1>2, LedgerTypesCorrect, PTL DEF Spec, SpendNeverDecreases

\* A registration of a bound wallet is for the allocation it has.
LEMMA BindingStep ==
  ASSUME LedgerTypes, [Next]_vars, NEW w \in Wallets, allocationIdByWallet[w] # Zero
  PROVE  allocationIdByWallet'[w] = allocationIdByWallet[w]
<1>1. CASE Aside \/ PolicyStep \/ SpendStep
  BY <1>1, BindingsKept
<1>2. CASE RegisterStep
  <2>1. PICK auth \in Authorizations : RegisterWallet(auth)
    BY <1>2 DEF RegisterStep
  <2> QED BY <2>1 DEF RegisterWallet, KeepsAllocation, LedgerTypes
<1> QED BY <1>1, <1>2, StepCases

\* A wallet never leaves its allocation.
THEOREM BindingForever == Spec => BindingIsPermanent
<1>1. LedgerTypes /\ [Next]_vars =>
        [\A w \in Wallets :
           allocationIdByWallet[w] # Zero =>
             allocationIdByWallet'[w] = allocationIdByWallet[w]]_vars
  BY BindingStep
<1> QED BY <1>1, LedgerTypesCorrect, PTL DEF Spec, BindingIsPermanent

\* A binding spends one nonce that nobody used, and binds one wallet.
THEOREM BindingPaidByNonce == Spec => BindingConsumesNonce
<1>1. ASSUME LedgerTypes, [Next]_vars, NEW v \in Wallets, NEW w \in Wallets,
             allocationIdByWallet'[v] # allocationIdByWallet[v],
             allocationIdByWallet'[w] # allocationIdByWallet[w]
      PROVE  /\ v = w
             /\ \E n \in Nonces : n \notin usedNonce /\ usedNonce' = usedNonce \cup {n}
  <2>1. RegisterStep
    <3>1. ~(Aside \/ PolicyStep \/ SpendStep)
      BY <1>1, BindingsKept
    <3> QED BY <1>1, <3>1, StepCases
  <2>2. PICK auth \in Authorizations : RegisterWallet(auth)
    BY <2>1 DEF RegisterStep
  <2>3. v = auth.wallet /\ w = auth.wallet
    BY <1>1, <2>2 DEF RegisterWallet, LedgerTypes
  <2>4. /\ auth.nonce \in Nonces /\ auth.nonce \notin usedNonce
        /\ usedNonce' = usedNonce \cup {auth.nonce}
    BY <2>2 DEF RegisterWallet, UnusedNonce, Authorizations
  <2> QED BY <2>3, <2>4
<1>2. LedgerTypes /\ [Next]_vars =>
        [\A v, w \in Wallets :
           /\ allocationIdByWallet'[v] # allocationIdByWallet[v]
           /\ allocationIdByWallet'[w] # allocationIdByWallet[w]
           => /\ v = w
              /\ \E n \in Nonces : n \notin usedNonce /\ usedNonce' = usedNonce \cup {n}]_vars
  BY <1>1
<1> QED BY <1>2, LedgerTypesCorrect, PTL DEF Spec, BindingConsumesNonce

-----------------------------------------------------------------------------
(* Units and owners of the counters *)

\* Every policy of a group counts the group's locked quote token.
THEOREM QuoteTokenLocked == Spec => []OneQuoteTokenPerGroup
<1>1. Init => LedgerTypes /\ OneQuoteTokenPerGroup
  <2>1. Init => OneQuoteTokenPerGroup
    BY DEF Init, OneQuoteTokenPerGroup, Budgets
  <2> QED BY <2>1, LedgerTypesInit
<1>2. ASSUME LedgerTypes, OneQuoteTokenPerGroup, [Next]_vars
      PROVE  OneQuoteTokenPerGroup'
  <2>1. CASE Aside \/ RegisterStep \/ SpendStep
    <3>1. UNCHANGED <<policyByGroupPeriod, quoteTokenByGroup>>
      BY <2>1, PoliciesKept
    <3> QED BY <1>2, <3>1 DEF OneQuoteTokenPerGroup
  <2>2. CASE PolicyStep
    <3>1. PICK g \in Groups, p \in Periods, cap \in Amounts, usdc \in Tokens, c \in Accounts :
            SetPolicy(c, g, p, cap, usdc)
      BY <2>2 DEF PolicyStep
    <3>2. /\ quoteTokenByGroup[g] \in {Zero, usdc}
          /\ quoteTokenByGroup' = [quoteTokenByGroup EXCEPT ![g] = usdc]
          /\ policyByGroupPeriod' =
               [policyByGroupPeriod EXCEPT ![<<g, p>>] = [cap |-> cap, usdc |-> usdc]]
          /\ usdc # Zero
      BY <3>1 DEF SetPolicy, KeepsQuoteToken
    <3>3. SUFFICES ASSUME NEW h \in Groups, NEW q \in Periods,
                          policyByGroupPeriod'[<<h, q>>].cap # 0
                   PROVE  /\ policyByGroupPeriod'[<<h, q>>].usdc = quoteTokenByGroup'[h]
                          /\ quoteTokenByGroup'[h] # Zero
      BY DEF OneQuoteTokenPerGroup
    <3>4. <<h, q>> \in Budgets
      BY DEF Budgets
    <3>5. CASE <<h, q>> = <<g, p>>
      <4>1. h = g
        BY <3>5
      <4> QED BY <1>2, <3>2, <3>4, <3>5, <4>1 DEF LedgerTypes
    <3>6. CASE <<h, q>> # <<g, p>>
      <4>1. policyByGroupPeriod'[<<h, q>>] = policyByGroupPeriod[<<h, q>>]
        BY <1>2, <3>2, <3>4, <3>6 DEF LedgerTypes
      <4>2. policyByGroupPeriod[<<h, q>>].usdc = quoteTokenByGroup[h]
            /\ quoteTokenByGroup[h] # Zero
        BY <1>2, <3>3, <4>1 DEF OneQuoteTokenPerGroup
      <4>3. quoteTokenByGroup'[h] = quoteTokenByGroup[h]
        BY <1>2, <3>2, <4>2 DEF LedgerTypes
      <4> QED BY <4>1, <4>2, <4>3
    <3> QED BY <3>5, <3>6
  <2> QED BY <1>2, <2>1, <2>2, StepCases
<1>3. LedgerTypes /\ OneQuoteTokenPerGroup /\ [Next]_vars =>
        (LedgerTypes /\ OneQuoteTokenPerGroup)'
  BY <1>2, LedgerTypesStep
<1> QED BY <1>1, <1>3, PTL DEF Spec

\* Recorded spend always belongs to an allocation some wallet is bound to.
THEOREM SpendOwned == Spec => []SpendHasOwner
<1>1. Init => LedgerTypes /\ SpendHasOwner
  <2>1. Init => SpendHasOwner
    BY DEF Init, SpendHasOwner
  <2> QED BY <2>1, LedgerTypesInit
<1>2. ASSUME LedgerTypes, SpendHasOwner, [Next]_vars
      PROVE  SpendHasOwner'
  <2>1. SUFFICES ASSUME NEW x \in Allocations, NEW y \in Budgets,
                        spentByAllocation'[<<x, y>>] # 0
                 PROVE  \E w \in Wallets : allocationIdByWallet'[w] = x
    BY DEF SpendHasOwner
  <2>2. CASE spentByAllocation[<<x, y>>] # 0
    <3>1. PICK w \in Wallets : allocationIdByWallet[w] = x
      BY <1>2, <2>2 DEF SpendHasOwner
    <3>2. allocationIdByWallet[w] # Zero
      BY <3>1
    <3> QED BY <1>2, <3>1, <3>2, BindingStep
  <2>3. CASE spentByAllocation[<<x, y>>] = 0
    <3>1. spentByAllocation' # spentByAllocation
      BY <2>1, <2>3
    <3>2. SpendStep
      BY <1>2, <3>1, StepCases, SpendKept
    <3>3. PICK w \in Wallets, g \in Groups, p \in Periods, amount \in Amounts, c \in Accounts :
            RecordSpend(c, w, g, p, amount)
      BY <3>2 DEF SpendStep
    <3> DEFINE a == allocationIdByWallet[w]
               b == <<g, p>>
               n == spentByAllocation[<<a, b>>] + amount
    <3>4. /\ a \in Allocations
          /\ spentByAllocation' = [spentByAllocation EXCEPT ![<<a, b>>] = n]
          /\ allocationIdByWallet' = allocationIdByWallet
      BY <1>2, <3>3, SpendStepEffect DEF memberVars
    <3>5. x = a
      BY <1>2, <2>1, <2>3, <3>4 DEF LedgerTypes
    <3> QED BY <3>4, <3>5
  <2> QED BY <2>2, <2>3
<1>3. LedgerTypes /\ SpendHasOwner /\ [Next]_vars => (LedgerTypes /\ SpendHasOwner)'
  BY <1>2, LedgerTypesStep
<1> QED BY <1>1, <1>3, PTL DEF Spec

-----------------------------------------------------------------------------
(* The ledger implements the shared budget *)

AbstractCap == [b \in Budgets |-> policyByGroupPeriod[b].cap]

\* Initial states map to initial states.
LEMMA SharedInit == Init => Shared!Init
<1> SUFFICES ASSUME Init PROVE Shared!Init
  OBVIOUS
<1>1. [b \in Budgets |-> policyByGroupPeriod[b].cap] = [b \in Budgets |-> 0]
  BY DEF Init
<1> QED BY <1>1 DEF Init, Shared!Init

\* Every step maps to a step or a stutter of the shared budget.
LEMMA SharedStep ==
  ASSUME LedgerTypes, BudgetInv, [Next]_vars
  PROVE  [Shared!Next]_(Shared!vars)
<1>1. CASE Aside
  <2>1. UNCHANGED <<allocationIdByWallet, AbstractCap, spentByAllocation>>
    BY <1>1 DEF Aside, memberVars, policyVars, spendVars, AbstractCap
  <2> QED BY <2>1 DEF AbstractCap, Shared!vars
<1>2. CASE PolicyStep
  <2>1. PICK g \in Groups, p \in Periods, cap \in Amounts, usdc \in Tokens, c \in Accounts :
          cap # 0 /\ SetPolicy(c, g, p, cap, usdc)
    BY <1>2 DEF PolicyStep
  <2> DEFINE b == <<g, p>>
  <2>2. b \in Budgets /\ cap \in Nat /\ cap > 0
    <3>1. cap \in Nat
      OBVIOUS
    <3> QED BY <2>1, <3>1 DEF Budgets
  <2>3. \A a \in Allocations : spentByAllocation[<<a, b>>] <= cap
    <3>1. SUFFICES ASSUME NEW a \in Allocations
                   PROVE  spentByAllocation[<<a, b>>] <= cap
      OBVIOUS
    <3>2. cap >= highestSpendByGroupPeriod[b]
      BY <2>1 DEF SetPolicy, CoversRecordedSpend
    <3>3. spentByAllocation[<<a, b>>] <= highestSpendByGroupPeriod[b]
      BY <2>2 DEF BudgetInv, HighestIsMaximum, HighestBounds
    <3>4. highestSpendByGroupPeriod[b] \in Nat /\ spentByAllocation[<<a, b>>] \in Nat
      BY <2>2 DEF LedgerTypes
    <3> QED BY <2>2, <3>2, <3>3, <3>4
  <2>4. AbstractCap' = [AbstractCap EXCEPT ![b] = cap]
    <3>1. policyByGroupPeriod' =
            [policyByGroupPeriod EXCEPT ![b] = [cap |-> cap, usdc |-> usdc]]
      BY <2>1 DEF SetPolicy
    <3> QED BY <3>1 DEF AbstractCap, LedgerTypes
  <2>5. UNCHANGED <<allocationIdByWallet, spentByAllocation>>
    BY <2>1 DEF SetPolicy, memberVars, spendVars
  <2>6. Shared!SetCap(b, cap)
    BY <2>2, <2>3, <2>4, <2>5 DEF Shared!SetCap, AbstractCap
  <2> QED BY <2>2, <2>6 DEF Shared!Next
<1>3. CASE RegisterStep
  <2>1. PICK auth \in Authorizations :
          auth.wallet \in Wallets /\ auth.allocationId \in Allocations /\ RegisterWallet(auth)
    BY <1>3 DEF RegisterStep
  <2>2. UNCHANGED <<policyByGroupPeriod, spentByAllocation>>
    BY <2>1 DEF RegisterWallet, policyVars, spendVars
  <2>3. AbstractCap' = AbstractCap
    BY <2>2 DEF AbstractCap
  <2>4. allocationIdByWallet' =
          [allocationIdByWallet EXCEPT ![auth.wallet] = auth.allocationId]
    BY <2>1 DEF RegisterWallet
  <2>5. CASE allocationIdByWallet[auth.wallet] = Zero
    <3>1. Shared!Join(auth.wallet, auth.allocationId)
      BY <2>2, <2>3, <2>4, <2>5 DEF Shared!Join, AbstractCap
    <3> QED BY <2>1, <3>1 DEF Shared!Next
  <2>6. CASE allocationIdByWallet[auth.wallet] = auth.allocationId
    <3>1. allocationIdByWallet' = allocationIdByWallet
      BY <2>4, <2>6 DEF LedgerTypes
    <3> QED BY <2>2, <2>3, <3>1 DEF Shared!vars, AbstractCap
  <2> QED BY <2>1, <2>5, <2>6 DEF RegisterWallet, KeepsAllocation
<1>4. CASE SpendStep
  <2>1. PICK w \in Wallets, g \in Groups, p \in Periods, amount \in Amounts, c \in Accounts :
          RecordSpend(c, w, g, p, amount)
    BY <1>4 DEF SpendStep
  <2> DEFINE a == allocationIdByWallet[w]
             b == <<g, p>>
             n == spentByAllocation[<<a, b>>] + amount
  <2>2. /\ a \in Allocations /\ b \in Budgets
        /\ amount > 0
        /\ n <= policyByGroupPeriod[b].cap
        /\ spentByAllocation' = [spentByAllocation EXCEPT ![<<a, b>>] = n]
        /\ UNCHANGED <<memberVars, policyVars>>
    BY <2>1, SpendStepEffect
  <2>3. AbstractCap' = AbstractCap /\ allocationIdByWallet' = allocationIdByWallet
    BY <2>2 DEF AbstractCap, memberVars, policyVars
  <2>4. n <= AbstractCap[b]
    BY <2>2 DEF AbstractCap
  <2>5. Shared!Spend(w, b, amount)
    BY <2>2, <2>3, <2>4 DEF Shared!Spend, AbstractCap
  <2> QED BY <2>2, <2>5 DEF Shared!Next
<1> QED BY <1>1, <1>2, <1>3, <1>4, StepCases

\* The ledger is a shared budget: one counter per human and budget, whatever
\* wallets they use, under a cap that always covers what was spent.
THEOREM LedgerImplementsSharedBudget == Spec => ImplementsSharedBudget
<1>1. Init => Shared!Init
  BY SharedInit
<1>2. LedgerTypes /\ BudgetInv /\ [Next]_vars => [Shared!Next]_(Shared!vars)
  BY SharedStep
<1> QED BY <1>1, <1>2, BudgetInvCorrect, PTL DEF Spec, ImplementsSharedBudget, Shared!Spec
=============================================================================
