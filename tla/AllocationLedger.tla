-------------------------- MODULE AllocationLedger --------------------------
(***************************************************************************)
(* The AllocationLedger contract: which pseudonymous allocation a wallet   *)
(* belongs to, the spending policy of each (group, period), and the spend  *)
(* every allocation has recorded under it.  One action per transaction     *)
(* that does not revert; a reverted call changes nothing and is no step.   *)
(*                                                                         *)
(* An EIP-712 authorization is the record of its signed fields together    *)
(* with the account its signature recovers to.  A signature made for       *)
(* another chain or another ledger recovers to an account outside Accounts *)
(* and is the record whose signer is Zero.                                 *)
(***************************************************************************)
EXTENDS Integers, FiniteSets

CONSTANTS
  Wallets, Allocations, Groups, Periods, Tokens, Nonces,
  Accounts,     \* accounts that own the ledger, sign for it or call it
  Deployer,     \* the account that deploys the ledger
  Amounts,      \* bound: the amounts and caps considered
  MaxTime,      \* bound: the last block timestamp considered
  Zero          \* address(0) and bytes32(0)

ASSUME LedgerAssumption ==
  /\ Deployer \in Accounts
  /\ Amounts \subseteq Nat
  /\ MaxTime \in Nat
  /\ Zero \notin Wallets \cup Allocations \cup Groups \cup Tokens \cup Accounts

Budgets == Groups \X Periods

Authorizations ==
  [wallet : Wallets \cup {Zero}, allocationId : Allocations \cup {Zero},
   groupId : Groups \cup {Zero}, expiry : 0..MaxTime, nonce : Nonces,
   signer : Accounts \cup {Zero}]

VARIABLES
  owner,                      \* Ownable's owner
  backendSigner,
  authorizedHook,
  allocationIdByWallet,
  policyByGroupPeriod,        \* the policy of a budget; cap 0 while unset
  spentByAllocation,
  highestSpendByGroupPeriod,
  quoteTokenByGroup,
  usedNonce,                  \* the consumed registration nonces
  now                         \* block.timestamp

roleVars   == <<owner, backendSigner, authorizedHook>>
memberVars == <<allocationIdByWallet, usedNonce>>
policyVars == <<policyByGroupPeriod, quoteTokenByGroup>>
spendVars  == <<spentByAllocation, highestSpendByGroupPeriod>>
ledgerVars == <<roleVars, memberVars, policyVars, spendVars>>
vars       == <<ledgerVars, now>>

Init ==
  /\ owner = Deployer
  /\ backendSigner \in Accounts \cup {Zero}
  /\ authorizedHook = Zero
  /\ allocationIdByWallet = [w \in Wallets |-> Zero]
  /\ policyByGroupPeriod = [b \in Budgets |-> [cap |-> 0, usdc |-> Zero]]
  /\ spentByAllocation = [ab \in Allocations \X Budgets |-> 0]
  /\ highestSpendByGroupPeriod = [b \in Budgets |-> 0]
  /\ quoteTokenByGroup = [g \in Groups |-> Zero]
  /\ usedNonce = {}
  /\ now = 0

-----------------------------------------------------------------------------
(* Owner operations *)

SetBackendSigner(caller, newSigner) ==
  /\ caller = owner
  /\ newSigner # Zero
  /\ backendSigner' = newSigner
  /\ UNCHANGED <<owner, authorizedHook, memberVars, policyVars, spendVars, now>>

SetAuthorizedHook(caller, newHook) ==
  /\ caller = owner
  /\ newHook # Zero
  /\ authorizedHook' = newHook
  /\ UNCHANGED <<owner, backendSigner, memberVars, policyVars, spendVars, now>>

\* OpenZeppelin's transferOwnership, which the deployment script calls.
TransferOwnership(caller, newOwner) ==
  /\ caller = owner
  /\ newOwner # Zero
  /\ owner' = newOwner
  /\ UNCHANGED <<backendSigner, authorizedHook, memberVars, policyVars, spendVars, now>>

\* OpenZeppelin's renounceOwnership.
RenounceOwnership(caller) ==
  /\ caller = owner
  /\ owner' = Zero
  /\ UNCHANGED <<backendSigner, authorizedHook, memberVars, policyVars, spendVars, now>>

\* A cap may not fall below spend already recorded (CapBelowRecordedSpend).
AnyCap(group, period, cap) == TRUE               \* faulty variant: no floor
CoversRecordedSpend(group, period, cap) ==
  cap >= highestSpendByGroupPeriod[<<group, period>>]

\* The first policy of a group locks its quote token (QuoteTokenImmutable).
KeepsQuoteToken(group, usdc) == quoteTokenByGroup[group] \in {Zero, usdc}

SetPolicy(caller, group, period, cap, usdc) ==
  /\ caller = owner
  /\ group # Zero /\ usdc # Zero /\ cap # 0
  /\ CoversRecordedSpend(group, period, cap)
  /\ KeepsQuoteToken(group, usdc)
  /\ quoteTokenByGroup' = [quoteTokenByGroup EXCEPT ![group] = usdc]
  /\ policyByGroupPeriod' =
       [policyByGroupPeriod EXCEPT ![<<group, period>>] = [cap |-> cap, usdc |-> usdc]]
  /\ UNCHANGED <<roleVars, memberVars, spendVars, now>>

-----------------------------------------------------------------------------
(* Registration: any account may submit the backend's authorization. *)

AnyNonce(nonce) == TRUE                          \* faulty variant: replays pass
UnusedNonce(nonce) == nonce \notin usedNonce

\* A wallet is unbound, or bound to this allocation already (AllocationMismatch).
AnyAllocation(wallet, allocationId) == TRUE      \* faulty variant: wallets move
KeepsAllocation(wallet, allocationId) ==
  allocationIdByWallet[wallet] \in {Zero, allocationId}

RegisterWallet(auth) ==
  /\ Zero \notin {auth.wallet, auth.allocationId, auth.groupId}
  /\ now <= auth.expiry
  /\ UnusedNonce(auth.nonce)
  /\ backendSigner # Zero
  /\ auth.signer = backendSigner
  /\ KeepsAllocation(auth.wallet, auth.allocationId)
  /\ usedNonce' = usedNonce \cup {auth.nonce}
  /\ allocationIdByWallet' =
       [allocationIdByWallet EXCEPT ![auth.wallet] = auth.allocationId]
  /\ UNCHANGED <<roleVars, policyVars, spendVars, now>>

-----------------------------------------------------------------------------
(* The shared budget *)

\* _budget's checks: a registered wallet and a configured policy.
HasBudget(wallet, group, period) ==
  /\ Zero \notin {wallet, group}
  /\ allocationIdByWallet[wallet] # Zero
  /\ policyByGroupPeriod[<<group, period>>].cap # 0

Spent(wallet, group, period) ==
  spentByAllocation[<<allocationIdByWallet[wallet], <<group, period>>>>]

\* remaining(), for a wallet that HasBudget.
Remaining(wallet, group, period) ==
  LET cap   == policyByGroupPeriod[<<group, period>>].cap
      spent == Spent(wallet, group, period)
  IN  IF spent >= cap THEN 0 ELSE cap - spent

\* Purchases add up (checked arithmetic: an overflow reverts).
Increased(spent, amount) == spent + amount

FitsAlone(spent, amount, cap) == amount <= cap   \* faulty variant: spend ignored
FitsCap(spent, amount, cap) == spent + amount <= cap

LastSpend(highest, newSpent) == newSpent         \* faulty variant: not a maximum
HigherSpend(highest, newSpent) ==
  IF newSpent > highest THEN newSpent ELSE highest

RecordSpend(caller, wallet, group, period, amount) ==
  /\ caller = authorizedHook /\ authorizedHook # Zero
  /\ amount # 0
  /\ HasBudget(wallet, group, period)
  /\ FitsCap(Spent(wallet, group, period), amount, policyByGroupPeriod[<<group, period>>].cap)
  /\ LET newSpent == Increased(Spent(wallet, group, period), amount) IN
     /\ spentByAllocation' =
          [spentByAllocation EXCEPT
             ![<<allocationIdByWallet[wallet], <<group, period>>>>] = newSpent]
     /\ highestSpendByGroupPeriod' =
          [highestSpendByGroupPeriod EXCEPT
             ![<<group, period>>] = HigherSpend(@, newSpent)]
  /\ UNCHANGED <<roleVars, memberVars, policyVars, now>>

-----------------------------------------------------------------------------

\* A later block.
Tick ==
  /\ now < MaxTime
  /\ now' = now + 1
  /\ UNCHANGED ledgerVars

Administer(caller) ==
  \/ \E a \in Accounts \cup {Zero} :
       \/ SetBackendSigner(caller, a)
       \/ SetAuthorizedHook(caller, a)
       \/ TransferOwnership(caller, a)
  \/ RenounceOwnership(caller)
  \/ \E g \in Groups \cup {Zero}, p \in Periods, cap \in Amounts,
        usdc \in Tokens \cup {Zero} : SetPolicy(caller, g, p, cap, usdc)

Register == \E auth \in Authorizations : RegisterWallet(auth)

Purchase(caller) ==
  \E w \in Wallets \cup {Zero}, g \in Groups \cup {Zero}, p \in Periods,
     amount \in Amounts : RecordSpend(caller, w, g, p, amount)

Next ==
  \/ \E caller \in Accounts : Administer(caller) \/ Purchase(caller)
  \/ Register
  \/ Tick

Spec == Init /\ [][Next]_vars

-----------------------------------------------------------------------------
(* Properties *)

\* Every variable stays in its type: identifiers in their sets or unset,
\* spend counters natural numbers.
TypeOK ==
  /\ owner \in Accounts \cup {Zero}
  /\ backendSigner \in Accounts \cup {Zero}
  /\ authorizedHook \in Accounts \cup {Zero}
  /\ allocationIdByWallet \in [Wallets -> Allocations \cup {Zero}]
  /\ policyByGroupPeriod \in [Budgets -> [cap : Nat, usdc : Tokens \cup {Zero}]]
  /\ spentByAllocation \in [Allocations \X Budgets -> Nat]
  /\ highestSpendByGroupPeriod \in [Budgets -> Nat]
  /\ quoteTokenByGroup \in [Groups -> Tokens \cup {Zero}]
  /\ usedNonce \subseteq Nonces
  /\ now \in 0..MaxTime

\* No allocation ever exceeds the cap in force, however many wallets draw on
\* it and however the owner lowers the cap between purchases (recordSpend
\* checks the new total, setPolicy refuses a cap below the recorded spend).
WithinCap ==
  \A a \in Allocations, b \in Budgets :
    spentByAllocation[<<a, b>>] <= policyByGroupPeriod[b].cap

\* highestSpendByGroupPeriod is exactly the maximum over the allocations: an
\* upper bound, and reached by one of them (or zero).  setPolicy relies on it
\* instead of scanning every allocation.
HighestBounds ==
  \A a \in Allocations, b \in Budgets :
    spentByAllocation[<<a, b>>] <= highestSpendByGroupPeriod[b]

HighestReached ==
  \A b \in Budgets :
    highestSpendByGroupPeriod[b] # 0 =>
      \E a \in Allocations : spentByAllocation[<<a, b>>] = highestSpendByGroupPeriod[b]

HighestIsMaximum == HighestBounds /\ HighestReached

\* All the policies of one group count the same currency, the group's locked
\* quote token, so the counters of its periods are in one unit.
OneQuoteTokenPerGroup ==
  \A g \in Groups, p \in Periods :
    policyByGroupPeriod[<<g, p>>].cap # 0 =>
      /\ policyByGroupPeriod[<<g, p>>].usdc = quoteTokenByGroup[g]
      /\ quoteTokenByGroup[g] # Zero

\* Spend belongs to somebody: a non-zero counter is one of an allocation that
\* some wallet is bound to.
SpendHasOwner ==
  \A a \in Allocations, b \in Budgets :
    spentByAllocation[<<a, b>>] # 0 =>
      \E w \in Wallets : allocationIdByWallet[w] = a

\* Nothing decreases spend: no policy change, registration or later purchase.
SpendNeverDecreases ==
  [][\A a \in Allocations, b \in Budgets :
       spentByAllocation'[<<a, b>>] >= spentByAllocation[<<a, b>>]]_vars

\* A wallet never leaves the allocation it joined, so nobody moves a wallet to
\* a fresh budget.
BindingIsPermanent ==
  [][\A w \in Wallets :
       allocationIdByWallet[w] # Zero =>
         allocationIdByWallet'[w] = allocationIdByWallet[w]]_vars

\* Every binding is paid for with a nonce nobody used before, and a nonce pays
\* for one binding only.
BindingConsumesNonce ==
  [][\A v, w \in Wallets :
       /\ allocationIdByWallet'[v] # allocationIdByWallet[v]
       /\ allocationIdByWallet'[w] # allocationIdByWallet[w]
       => /\ v = w
          /\ \E n \in Nonces : n \notin usedNonce /\ usedNonce' = usedNonce \cup {n}]_vars

\* The ledger implements the shared budget: its cached maximum is as good as
\* looking at every allocation before a cap is changed.
Shared == INSTANCE SharedBudget WITH
  member <- allocationIdByWallet,
  cap    <- [b \in Budgets |-> policyByGroupPeriod[b].cap],
  spent  <- spentByAllocation

ImplementsSharedBudget == Shared!Spec
=============================================================================
