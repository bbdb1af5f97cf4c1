----------------------- MODULE OfferingRegistryProofs -----------------------
(***************************************************************************)
(* Proofs about the offering registry and the ledger under it, for every   *)
(* set of issuers, wallets, tokens, groups and pools.                      *)
(***************************************************************************)
EXTENDS OfferingRegistry, TLAPS

USE RegistryAssumption

-----------------------------------------------------------------------------
(* The parts of the invariant *)

Budgets == Groups \X Periods

\* The ledger's part: it is the registry's, and its tables are tables.
LedgerShape ==
  /\ owner = Registry
  /\ policyByGroupPeriod \in [Budgets -> [cap : Nat, usdc : Tokens \cup {Zero}]]
  /\ DOMAIN highestSpendByGroupPeriod = Budgets

OfferingsOK ==
  /\ offerings \in Seq(Offerings) /\ Len(offerings) <= MaxOfferings
  /\ groupUsed \subseteq Groups
  /\ poolToOffering \in [PoolKeys -> 0..Len(offerings)]
  /\ approvedRwa \subseteq Tokens

AccessOK ==
  /\ authorizedIssuer \subseteq Accounts /\ tokenReviewed \subseteq Tokens
  /\ investorTier \in [OfferingIds \X Wallets -> 0..2]

RevocationsOK ==
  /\ revocationEpoch \in [(0..MaxOfferings) \X Wallets -> 0..MaxEpoch]
  /\ restoredEpoch \in [(0..MaxOfferings) \X Wallets -> 0..MaxEpoch]
  /\ restorations \subseteq Restorations

\* The group of an offering is taken.
GroupsTaken == \A id \in DOMAIN offerings : offerings[id].groupId \in groupUsed

\* A restoration never runs ahead of the revocations.
RestoredBehind ==
  \A x \in (0..MaxOfferings) \X Wallets : restoredEpoch[x] <= revocationEpoch[x]

OfferingsInv == LedgerShape /\ OfferingsOK /\ GroupsTaken /\ GroupsDisjoint /\ CapMirrored
                  /\ PoolsLeadBack

RevocationsInv == RevocationsOK /\ RestoredBehind /\ RestoredBySignature

-----------------------------------------------------------------------------
(* What the steps are, with their inputs in their types *)

\* A step that leaves the offerings, the pools and the policies alone.
OfferingsAside ==
  UNCHANGED <<owner, policyByGroupPeriod, highestSpendByGroupPeriod,
              offerings, groupUsed, poolToOffering, approvedRwa>>

CreateStep ==
  \E c \in Accounts, rwa \in Tokens, g \in Groups, p \in Periods, cap \in Amounts,
     start, end \in 0..MaxTime : CreateOffering(c, rwa, g, p, cap, start, end)

CapStep == \E c \in Accounts, id \in OfferingIds, cap \in Amounts : UpdateCap(c, id, cap)

\* Edits that leave the cap and the group of an offering as they are.
EditStep ==
  \E c \in Accounts, id \in OfferingIds :
    \/ \E end \in 0..MaxTime : UpdateEndTime(c, id, end)
    \/ \E paused \in BOOLEAN : SetPaused(c, id, paused)
    \/ \E operator \in Accounts \cup {Zero} : SetLiquidityOperator(c, id, operator)

PoolStep ==
  \E c \in Accounts, id \in OfferingIds, key \in PoolKeys : RegisterPool(c, id, key)

\* Every step is of one of these kinds, as far as offerings are concerned.
LEMMA OfferingCases ==
  ASSUME [Next]_vars
  PROVE  OfferingsAside \/ CreateStep \/ CapStep \/ EditStep \/ PoolStep \/ HookRecordsSpend
<1> USE DEF OfferingsAside, offeringVars, poolVars, ledgerVars, registryVars
<1>1. CASE PlatformNext
  BY <1>1 DEF PlatformNext, AuthorizeIssuer, ReviewToken, RevokeWallet, Revoke
<1>2. CASE \E c \in Accounts : IssuerNext(c)
  <2>1. PICK c \in Accounts : IssuerNext(c)
    BY <1>2
  <2>2. CASE \E rwa \in Tokens, g \in Groups \cup {Zero}, p \in Periods, cap \in Amounts,
                start, end \in 0..MaxTime : CreateOffering(c, rwa, g, p, cap, start, end)
    <3>1. PICK rwa \in Tokens, g \in Groups \cup {Zero}, p \in Periods, cap \in Amounts,
               start \in 0..MaxTime, end \in 0..MaxTime :
                 CreateOffering(c, rwa, g, p, cap, start, end)
      BY <2>2
    <3>2. g \in Groups
      BY <3>1 DEF CreateOffering
    <3> QED BY <3>1, <3>2 DEF CreateStep
  <2>3. CASE \E id \in OfferingIds : OfferingNext(c, id)
    <3>1. PICK id \in OfferingIds : OfferingNext(c, id)
      BY <2>3
    <3>2. CASE \E cap \in Amounts : UpdateCap(c, id, cap)
      BY <3>2 DEF CapStep
    <3>3. CASE \/ \E end \in 0..MaxTime : UpdateEndTime(c, id, end)
               \/ \E paused \in BOOLEAN : SetPaused(c, id, paused)
               \/ \E operator \in Accounts \cup {Zero} : SetLiquidityOperator(c, id, operator)
      BY <3>3 DEF EditStep
    <3>4. CASE \E key \in PoolKeys : RegisterPool(c, id, key)
      BY <3>4 DEF PoolStep
    <3>5. CASE \E w \in Wallets \cup {Zero} :
                 \/ \E tier \in 0..3 : SetInvestorTier(c, id, w, tier)
                 \/ RevokeOfferingWallet(c, id, w)
      BY <3>5 DEF SetInvestorTier, RevokeOfferingWallet, Revoke
    <3> QED BY <3>1, <3>2, <3>3, <3>4, <3>5 DEF OfferingNext
  <2> QED BY <2>1, <2>2, <2>3 DEF IssuerNext
<1>3. CASE \E auth \in Restorations : RestoreWallet(auth)
  BY <1>3 DEF RestoreWallet
<1>4. CASE Register
  BY <1>4 DEF Register, Ledger!Register, Ledger!RegisterWallet,
              Ledger!roleVars, Ledger!policyVars, Ledger!spendVars
<1>5. CASE Tick
  BY <1>5 DEF Tick, Ledger!Tick, Ledger!ledgerVars, Ledger!roleVars, Ledger!policyVars,
              Ledger!spendVars
<1>6. CASE UNCHANGED vars
  BY <1>6 DEF vars
<1> QED BY <1>1, <1>2, <1>3, <1>4, <1>5, <1>6 DEF Next, RegistryNext

-----------------------------------------------------------------------------
(* Offerings, pools and the ledger's policies *)

\* A step that leaves offerings, pools and budgets alone.
LEMMA OfferingsAsideKeeps ==
  ASSUME OfferingsInv, OfferingsAside
  PROVE  OfferingsInv'
BY DEF OfferingsInv, OfferingsAside, LedgerShape, OfferingsOK, GroupsTaken, GroupsDisjoint,
       CapMirrored, PoolsLeadBack

\* A policy the registry sets is in the ledger, in USDC and above the recorded spend.
LEMMA PolicySet ==
  ASSUME LedgerShape,
         NEW g \in Groups, NEW p \in Periods, NEW cap \in Amounts,
         Ledger!SetPolicy(Registry, g, p, cap, Usdc)
  PROVE  /\ LedgerShape'
         /\ policyByGroupPeriod' =
              [policyByGroupPeriod EXCEPT ![<<g, p>>] = [cap |-> cap, usdc |-> Usdc]]
         /\ policyByGroupPeriod'[<<g, p>>] = [cap |-> cap, usdc |-> Usdc]
         /\ highestSpendByGroupPeriod' = highestSpendByGroupPeriod
         /\ highestSpendByGroupPeriod[<<g, p>>] <= cap
<1>1. /\ policyByGroupPeriod' =
           [policyByGroupPeriod EXCEPT ![<<g, p>>] = [cap |-> cap, usdc |-> Usdc]]
      /\ highestSpendByGroupPeriod' = highestSpendByGroupPeriod
      /\ owner' = owner
      /\ cap >= highestSpendByGroupPeriod[<<g, p>>]
  BY DEF Ledger!SetPolicy, Ledger!CoversRecordedSpend, Ledger!roleVars, Ledger!spendVars
<1>2. <<g, p>> \in Budgets /\ cap \in Nat /\ Usdc \in Tokens
  BY DEF Budgets
<1>3. policyByGroupPeriod'[<<g, p>>] = [cap |-> cap, usdc |-> Usdc]
  BY <1>1, <1>2 DEF LedgerShape
<1>4. LedgerShape'
  BY <1>1, <1>2 DEF LedgerShape
<1> QED BY <1>1, <1>3, <1>4

\* A new offering has a group, hence a policy, of its own.
LEMMA CreateKeeps ==
  ASSUME OfferingsInv, CreateStep
  PROVE  OfferingsInv'
<1>1. PICK c \in Accounts, rwa \in Tokens, g \in Groups, p \in Periods, cap \in Amounts,
           start \in 0..MaxTime, end \in 0..MaxTime :
             CreateOffering(c, rwa, g, p, cap, start, end)
  BY DEF CreateStep
<1> DEFINE o == [issuer |-> c, rwa |-> rwa, groupId |-> g, periodId |-> p,
                 cap |-> cap, startTime |-> start, endTime |-> end, version |-> 1,
                 poolId |-> Zero, liquidityOperator |-> Zero, paused |-> FALSE,
                 tokenReviewed |-> rwa \in tokenReviewed]
           n == Len(offerings) + 1
<1>2. /\ Ledger!SetPolicy(Registry, g, p, cap, Usdc)
      /\ offerings' = Append(offerings, o)
      /\ groupUsed' = groupUsed \cup {g}
      /\ approvedRwa' = approvedRwa \cup {rwa}
      /\ poolToOffering' = poolToOffering
      /\ g \notin groupUsed
      /\ Len(offerings) < MaxOfferings
  BY <1>1 DEF CreateOffering, FreshGroup, poolVars
<1>3. LedgerShape /\ OfferingsOK
  BY DEF OfferingsInv
<1>4. /\ LedgerShape'
      /\ policyByGroupPeriod' =
           [policyByGroupPeriod EXCEPT ![<<g, p>>] = [cap |-> cap, usdc |-> Usdc]]
      /\ policyByGroupPeriod'[<<g, p>>] = [cap |-> cap, usdc |-> Usdc]
      /\ highestSpendByGroupPeriod' = highestSpendByGroupPeriod
      /\ highestSpendByGroupPeriod[<<g, p>>] <= cap
  BY <1>2, <1>3, PolicySet
<1>5. o \in Offerings
  <2>1. 1 \in 1..MaxVersion
    OBVIOUS
  <2> QED BY <2>1 DEF Offerings
<1>6. /\ DOMAIN offerings = 1..Len(offerings)
      /\ Len(offerings') = n /\ DOMAIN offerings' = 1..n
      /\ offerings'[n] = o
      /\ \A i \in DOMAIN offerings : offerings'[i] = offerings[i]
      /\ \A i \in DOMAIN offerings' : i \in DOMAIN offerings \/ i = n
      /\ offerings' \in Seq(Offerings)
  BY <1>2, <1>3, <1>5 DEF OfferingsOK
<1>7. OfferingsOK'
  BY <1>2, <1>3, <1>6 DEF OfferingsOK
<1>8. GroupsTaken'
  BY <1>2, <1>6 DEF OfferingsInv, GroupsTaken
<1>9. \A i \in DOMAIN offerings : offerings[i].groupId # g
  BY <1>2 DEF OfferingsInv, GroupsTaken
<1>10. GroupsDisjoint'
  BY <1>6, <1>9 DEF OfferingsInv, GroupsDisjoint
<1>11. CapMirrored'
  <2> SUFFICES ASSUME NEW i \in DOMAIN offerings'
               PROVE  LET q == offerings'[i]
                          policy == policyByGroupPeriod'[<<q.groupId, q.periodId>>]
                      IN  /\ policy = [cap |-> q.cap, usdc |-> Usdc]
                          /\ highestSpendByGroupPeriod'[<<q.groupId, q.periodId>>] <= q.cap
    BY DEF CapMirrored
  <2>1. CASE i \in DOMAIN offerings
    <3>1. offerings[i] \in Offerings
      BY <1>3, <2>1 DEF OfferingsOK
    <3>2. <<offerings[i].groupId, offerings[i].periodId>> \in Budgets
      BY <3>1 DEF Offerings, Budgets
    <3>3. <<offerings[i].groupId, offerings[i].periodId>> # <<g, p>>
      BY <1>9, <2>1
    <3>4. policyByGroupPeriod'[<<offerings[i].groupId, offerings[i].periodId>>]
            = policyByGroupPeriod[<<offerings[i].groupId, offerings[i].periodId>>]
      BY <1>3, <1>4, <3>2, <3>3 DEF LedgerShape
    <3> QED BY <1>4, <1>6, <2>1, <3>4 DEF OfferingsInv, CapMirrored
  <2>2. CASE i = n
    <3>1. o.groupId = g /\ o.periodId = p /\ o.cap = cap
      OBVIOUS
    <3>2. offerings'[i].groupId = g /\ offerings'[i].periodId = p /\ offerings'[i].cap = cap
      BY <1>6, <2>2, <3>1
    <3> HIDE DEF o
    <3> QED BY <1>4, <3>2
  <2> QED BY <1>6, <2>1, <2>2
<1>12. PoolsLeadBack'
  <2>1. ASSUME NEW key \in PoolKeys, poolToOffering[key] # 0
        PROVE  /\ poolToOffering[key] \in DOMAIN offerings
               /\ key.tokens = {Usdc, offerings'[poolToOffering[key]].rwa}
    BY <1>3, <1>6, <2>1 DEF OfferingsInv, PoolsLeadBack, OfferingsOK
  <2>2. ASSUME NEW i \in DOMAIN offerings', offerings'[i].poolId # Zero
        PROVE  poolToOffering[offerings'[i].poolId] = i
    BY <1>6, <2>2 DEF OfferingsInv, PoolsLeadBack
  <2> QED BY <1>2, <2>1, <2>2 DEF PoolsLeadBack
<1> QED BY <1>4, <1>7, <1>8, <1>10, <1>11, <1>12 DEF OfferingsInv

\* What every edit of an offering keeps: its group, period, token and pool.
LEMMA EditedOffering ==
  ASSUME OfferingsOK, NEW id \in DOMAIN offerings, NEW o \in Offerings,
         offerings' = [offerings EXCEPT ![id] = o]
  PROVE  /\ offerings' \in Seq(Offerings)
         /\ Len(offerings') = Len(offerings)
         /\ DOMAIN offerings' = DOMAIN offerings
         /\ offerings'[id] = o
         /\ \A i \in DOMAIN offerings : i # id => offerings'[i] = offerings[i]
BY DEF OfferingsOK

\* The cap changes on both sides of the mirror.
LEMMA CapKeeps ==
  ASSUME OfferingsInv, CapStep
  PROVE  OfferingsInv'
<1>1. PICK c \in Accounts, id \in OfferingIds, cap \in Amounts : UpdateCap(c, id, cap)
  BY DEF CapStep
<1> DEFINE old == offerings[id]
           new == [old EXCEPT !.cap = cap, !.version = old.version + 1]
<1>2. /\ id \in DOMAIN offerings
      /\ old.version < MaxVersion
      /\ Ledger!SetPolicy(Registry, old.groupId, old.periodId, cap, Usdc)
      /\ offerings' = [offerings EXCEPT ![id].cap = cap, ![id].version = NextVersion(@)]
      /\ UNCHANGED <<groupUsed, approvedRwa, poolToOffering>>
  BY <1>1 DEF UpdateCap, Editable, poolVars
<1>3. LedgerShape /\ OfferingsOK
  BY DEF OfferingsInv
<1>4. old \in Offerings
  BY <1>2, <1>3 DEF OfferingsOK
<1>5. new \in Offerings
  <2>1. old.version + 1 \in 1..MaxVersion
    BY <1>2, <1>4 DEF Offerings
  <2> QED BY <1>4, <2>1 DEF Offerings
<1>6. offerings' = [offerings EXCEPT ![id] = new]
  BY <1>2 DEF NextVersion
<1>7. /\ offerings' \in Seq(Offerings)
      /\ Len(offerings') = Len(offerings)
      /\ DOMAIN offerings' = DOMAIN offerings
      /\ offerings'[id] = new
      /\ \A i \in DOMAIN offerings : i # id => offerings'[i] = offerings[i]
  BY <1>2, <1>3, <1>5, <1>6, EditedOffering
<1>8. /\ new.groupId = old.groupId /\ new.periodId = old.periodId /\ new.cap = cap
      /\ new.rwa = old.rwa /\ new.poolId = old.poolId
  BY <1>4 DEF Offerings
<1>9. old.groupId \in Groups /\ old.periodId \in Periods
  BY <1>4 DEF Offerings
<1>10. /\ LedgerShape'
       /\ policyByGroupPeriod' =
            [policyByGroupPeriod EXCEPT ![<<old.groupId, old.periodId>>]
               = [cap |-> cap, usdc |-> Usdc]]
       /\ policyByGroupPeriod'[<<old.groupId, old.periodId>>] = [cap |-> cap, usdc |-> Usdc]
       /\ highestSpendByGroupPeriod' = highestSpendByGroupPeriod
       /\ highestSpendByGroupPeriod[<<old.groupId, old.periodId>>] <= cap
  BY <1>2, <1>3, <1>9, PolicySet
<1>11. OfferingsOK'
  BY <1>2, <1>3, <1>7 DEF OfferingsOK
<1>12. GroupsTaken' /\ GroupsDisjoint'
  BY <1>2, <1>7, <1>8 DEF OfferingsInv, GroupsTaken, GroupsDisjoint
<1>13. CapMirrored'
  <2> SUFFICES ASSUME NEW i \in DOMAIN offerings'
               PROVE  LET q == offerings'[i]
                          policy == policyByGroupPeriod'[<<q.groupId, q.periodId>>]
                      IN  /\ policy = [cap |-> q.cap, usdc |-> Usdc]
                          /\ highestSpendByGroupPeriod'[<<q.groupId, q.periodId>>] <= q.cap
    BY DEF CapMirrored
  <2>1. CASE i # id
    <3>1. i \in DOMAIN offerings /\ offerings'[i] = offerings[i]
      BY <1>7, <2>1
    <3>2. offerings[i] \in Offerings
      BY <1>3, <3>1 DEF OfferingsOK
    <3>3. <<offerings[i].groupId, offerings[i].periodId>> \in Budgets
      BY <3>2 DEF Offerings, Budgets
    <3>4. <<offerings[i].groupId, offerings[i].periodId>> # <<old.groupId, old.periodId>>
      BY <1>2, <2>1, <3>1 DEF OfferingsInv, GroupsDisjoint
    <3>5. policyByGroupPeriod'[<<offerings[i].groupId, offerings[i].periodId>>]
            = policyByGroupPeriod[<<offerings[i].groupId, offerings[i].periodId>>]
      BY <1>3, <1>10, <3>3, <3>4 DEF LedgerShape
    <3> QED BY <1>10, <3>1, <3>5 DEF OfferingsInv, CapMirrored
  <2>2. CASE i = id
    BY <1>7, <1>8, <1>10, <2>2
  <2> QED BY <2>1, <2>2
<1>14. PoolsLeadBack'
  <2>1. \A i \in DOMAIN offerings :
          offerings'[i].rwa = offerings[i].rwa /\ offerings'[i].poolId = offerings[i].poolId
    BY <1>7, <1>8
  <2>2. \A key \in PoolKeys : poolToOffering[key] # 0 => poolToOffering[key] \in DOMAIN offerings
    BY <1>3 DEF OfferingsOK
  <2> QED BY <1>2, <1>7, <2>1, <2>2 DEF OfferingsInv, PoolsLeadBack
<1> QED BY <1>10, <1>11, <1>12, <1>13, <1>14 DEF OfferingsInv
\* The other edits leave group, cap, token and pool of every offering as they are.
LEMMA EditKeeps ==
  ASSUME OfferingsInv, EditStep
  PROVE  OfferingsInv'
<1>1. PICK id \in DOMAIN offerings, o \in Offerings :
        /\ offerings' = [offerings EXCEPT ![id] = o]
        /\ <<o.groupId, o.periodId, o.cap, o.rwa, o.poolId>>
             = <<offerings[id].groupId, offerings[id].periodId, offerings[id].cap,
                 offerings[id].rwa, offerings[id].poolId>>
        /\ UNCHANGED <<groupUsed, approvedRwa, poolToOffering, owner,
                       policyByGroupPeriod, highestSpendByGroupPeriod>>
  <2> USE DEF poolVars, ledgerVars, Editable
  <2>1. PICK c \in Accounts, id \in OfferingIds :
          \/ \E end \in 0..MaxTime : UpdateEndTime(c, id, end)
          \/ \E paused \in BOOLEAN : SetPaused(c, id, paused)
          \/ \E operator \in Accounts \cup {Zero} : SetLiquidityOperator(c, id, operator)
    BY DEF EditStep
  <2> DEFINE old == offerings[id]
  <2>2. id \in DOMAIN offerings => old \in Offerings
    BY DEF OfferingsInv, OfferingsOK
  <2>3. CASE \E end \in 0..MaxTime : UpdateEndTime(c, id, end)
    <3>1. PICK end \in 0..MaxTime : UpdateEndTime(c, id, end)
      BY <2>3
    <3> DEFINE o == [old EXCEPT !.endTime = end, !.version = old.version + 1]
    <3>2. id \in DOMAIN offerings /\ old.version < MaxVersion
      BY <3>1 DEF UpdateEndTime
    <3>3. old.version + 1 \in 1..MaxVersion
      BY <2>2, <3>2 DEF Offerings
    <3>4. o \in Offerings
      BY <2>2, <3>2, <3>3 DEF Offerings
    <3>5. offerings' = [offerings EXCEPT ![id] = o]
      BY <3>1 DEF UpdateEndTime, NextVersion
    <3>6. <<o.groupId, o.periodId, o.cap, o.rwa, o.poolId>>
            = <<old.groupId, old.periodId, old.cap, old.rwa, old.poolId>>
      BY <2>2, <3>2 DEF Offerings
    <3> QED BY <3>1, <3>2, <3>4, <3>5, <3>6 DEF UpdateEndTime
  <2>4. CASE \E paused \in BOOLEAN : SetPaused(c, id, paused)
    <3>1. PICK paused \in BOOLEAN : SetPaused(c, id, paused)
      BY <2>4
    <3> DEFINE o == [old EXCEPT !.paused = paused]
    <3>2. id \in DOMAIN offerings
      BY <3>1 DEF SetPaused
    <3>3. o \in Offerings
      BY <2>2, <3>2 DEF Offerings
    <3>4. offerings' = [offerings EXCEPT ![id] = o]
      BY <3>1 DEF SetPaused
    <3>5. <<o.groupId, o.periodId, o.cap, o.rwa, o.poolId>>
            = <<old.groupId, old.periodId, old.cap, old.rwa, old.poolId>>
      BY <2>2, <3>2 DEF Offerings
    <3> QED BY <3>1, <3>2, <3>3, <3>4, <3>5 DEF SetPaused
  <2>5. CASE \E operator \in Accounts \cup {Zero} : SetLiquidityOperator(c, id, operator)
    <3>1. PICK operator \in Accounts \cup {Zero} : SetLiquidityOperator(c, id, operator)
      BY <2>5
    <3> DEFINE o == [old EXCEPT !.liquidityOperator = operator]
    <3>2. id \in DOMAIN offerings
      BY <3>1 DEF SetLiquidityOperator
    <3>3. o \in Offerings
      BY <2>2, <3>2 DEF Offerings
    <3>4. offerings' = [offerings EXCEPT ![id] = o]
      BY <3>1 DEF SetLiquidityOperator
    <3>5. <<o.groupId, o.periodId, o.cap, o.rwa, o.poolId>>
            = <<old.groupId, old.periodId, old.cap, old.rwa, old.poolId>>
      BY <2>2, <3>2 DEF Offerings
    <3> QED BY <3>1, <3>2, <3>3, <3>4, <3>5 DEF SetLiquidityOperator
  <2> QED BY <2>1, <2>3, <2>4, <2>5
<1>2. OfferingsOK
  BY DEF OfferingsInv
<1>3. /\ offerings' \in Seq(Offerings)
      /\ Len(offerings') = Len(offerings)
      /\ DOMAIN offerings' = DOMAIN offerings
      /\ offerings'[id] = o
      /\ \A i \in DOMAIN offerings : i # id => offerings'[i] = offerings[i]
  BY <1>1, <1>2, EditedOffering
<1>4. \A i \in DOMAIN offerings :
        /\ offerings'[i].groupId = offerings[i].groupId
        /\ offerings'[i].periodId = offerings[i].periodId
        /\ offerings'[i].cap = offerings[i].cap
        /\ offerings'[i].rwa = offerings[i].rwa
        /\ offerings'[i].poolId = offerings[i].poolId
  BY <1>1, <1>3
<1>5. LedgerShape' /\ OfferingsOK'
  BY <1>1, <1>3 DEF OfferingsInv, LedgerShape, OfferingsOK
<1>6. GroupsTaken' /\ GroupsDisjoint'
  BY <1>1, <1>3, <1>4 DEF OfferingsInv, GroupsTaken, GroupsDisjoint
<1>7. CapMirrored'
  BY <1>1, <1>3, <1>4 DEF OfferingsInv, CapMirrored
<1>8. PoolsLeadBack'
  <2>1. \A key \in PoolKeys : poolToOffering[key] # 0 => poolToOffering[key] \in DOMAIN offerings
    BY <1>2 DEF OfferingsOK
  <2> QED BY <1>1, <1>3, <1>4, <2>1 DEF OfferingsInv, PoolsLeadBack
<1> QED BY <1>5, <1>6, <1>7, <1>8 DEF OfferingsInv
\* A pool joins an offering that trades its token.
LEMMA PoolKeeps ==
  ASSUME OfferingsInv, PoolStep
  PROVE  OfferingsInv'
<1>1. PICK c \in Accounts, id \in OfferingIds, key \in PoolKeys : RegisterPool(c, id, key)
  BY DEF PoolStep
<1> DEFINE old == offerings[id]
           pool == IF old.poolId = Zero THEN key ELSE old.poolId
           new == [old EXCEPT !.poolId = pool]
<1>2. /\ id \in DOMAIN offerings
      /\ key.tokens = {Usdc, old.rwa}
      /\ poolToOffering[key] = 0
      /\ poolToOffering' = [poolToOffering EXCEPT ![key] = id]
      /\ offerings' = [offerings EXCEPT ![id] = new]
      /\ UNCHANGED <<groupUsed, approvedRwa, owner, policyByGroupPeriod,
                     highestSpendByGroupPeriod>>
  BY <1>1 DEF RegisterPool, Editable, FreshPool, ledgerVars
<1>3. LedgerShape /\ OfferingsOK
  BY DEF OfferingsInv
<1>4. old \in Offerings
  BY <1>2, <1>3 DEF OfferingsOK
<1>5. new \in Offerings
  BY <1>4 DEF Offerings
<1>6. /\ offerings' \in Seq(Offerings)
      /\ Len(offerings') = Len(offerings)
      /\ DOMAIN offerings' = DOMAIN offerings
      /\ offerings'[id] = new
      /\ \A i \in DOMAIN offerings : i # id => offerings'[i] = offerings[i]
  BY <1>2, <1>3, <1>5, EditedOffering
<1>7. /\ new.groupId = old.groupId /\ new.periodId = old.periodId /\ new.cap = old.cap
      /\ new.rwa = old.rwa /\ new.poolId = pool
  BY <1>4 DEF Offerings
<1>8. \A i \in DOMAIN offerings :
        /\ offerings'[i].groupId = offerings[i].groupId
        /\ offerings'[i].periodId = offerings[i].periodId
        /\ offerings'[i].cap = offerings[i].cap
        /\ offerings'[i].rwa = offerings[i].rwa
  BY <1>6, <1>7
<1>9. OfferingsOK'
  <2>1. id \in 0..Len(offerings)
    BY <1>2, <1>3 DEF OfferingsOK
  <2> QED BY <1>2, <1>3, <1>6, <2>1 DEF OfferingsOK
<1>10. LedgerShape' /\ GroupsTaken' /\ GroupsDisjoint'
  BY <1>2, <1>6, <1>8 DEF OfferingsInv, LedgerShape, GroupsTaken, GroupsDisjoint
<1>11. CapMirrored'
  BY <1>2, <1>6, <1>8 DEF OfferingsInv, CapMirrored
<1>12. PoolsLeadBack'
  <2>1. ASSUME NEW k \in PoolKeys, poolToOffering'[k] # 0
        PROVE  k.tokens = {Usdc, offerings'[poolToOffering'[k]].rwa}
    <3>1. CASE k = key
      BY <1>2, <1>3, <1>6, <1>7, <3>1 DEF OfferingsOK
    <3>2. CASE k # key
      <4>1. poolToOffering'[k] = poolToOffering[k]
        BY <1>2, <1>3, <3>2 DEF OfferingsOK
      <4>2. poolToOffering[k] \in DOMAIN offerings
        BY <1>3, <2>1, <4>1 DEF OfferingsOK
      <4> QED BY <1>8, <2>1, <4>1, <4>2 DEF OfferingsInv, PoolsLeadBack
    <3> QED BY <3>1, <3>2
  <2>2. ASSUME NEW i \in DOMAIN offerings', offerings'[i].poolId # Zero
        PROVE  poolToOffering'[offerings'[i].poolId] = i
    <3>1. CASE i # id
      <4>1. i \in DOMAIN offerings /\ offerings'[i] = offerings[i]
        BY <1>6, <3>1
      <4>2. offerings[i].poolId \in PoolKeys
        <5>1. offerings[i] \in Offerings
          BY <1>3, <4>1 DEF OfferingsOK
        <5> QED BY <2>2, <4>1, <5>1 DEF Offerings
      <4>3. poolToOffering[offerings[i].poolId] = i
        BY <2>2, <4>1 DEF OfferingsInv, PoolsLeadBack
      <4>4. i # 0
        BY <1>3, <4>1 DEF OfferingsOK
      <4> QED BY <1>2, <1>3, <4>1, <4>2, <4>3, <4>4 DEF OfferingsOK
    <3>2. CASE i = id /\ old.poolId = Zero
      <4>1. offerings'[i].poolId = key
        BY <1>6, <1>7, <3>2
      <4> QED BY <1>2, <1>3, <3>2, <4>1 DEF OfferingsOK
    <3>3. CASE i = id /\ old.poolId # Zero
      <4>1. poolToOffering[old.poolId] = id /\ id # 0
        BY <1>2, <1>3, <3>3 DEF OfferingsInv, PoolsLeadBack, OfferingsOK
      <4>2. old.poolId \in PoolKeys
        BY <1>4, <3>3 DEF Offerings
      <4> QED BY <1>2, <1>3, <1>6, <1>7, <3>3, <4>1, <4>2 DEF OfferingsOK
    <3> QED BY <3>1, <3>2, <3>3
  <2> QED BY <2>1, <2>2 DEF PoolsLeadBack
<1> QED BY <1>9, <1>10, <1>11, <1>12 DEF OfferingsInv

\* The hook records spend under the cap the ledger has, which is the offering's.
LEMMA SpendKeeps ==
  ASSUME OfferingsInv, HookRecordsSpend
  PROVE  OfferingsInv'
<1>1. PICK w \in Wallets, id \in DOMAIN offerings, amount \in Amounts :
        Ledger!RecordSpend(Hook, w, offerings[id].groupId, offerings[id].periodId, amount)
  BY DEF HookRecordsSpend
<1> DEFINE b == <<offerings[id].groupId, offerings[id].periodId>>
           spent == Ledger!Spent(w, offerings[id].groupId, offerings[id].periodId) + amount
<1>2. /\ spent <= policyByGroupPeriod[b].cap
      /\ highestSpendByGroupPeriod' =
           [highestSpendByGroupPeriod EXCEPT ![b] = IF spent > @ THEN spent ELSE @]
      /\ UNCHANGED <<owner, policyByGroupPeriod>>
  BY <1>1 DEF Ledger!RecordSpend, Ledger!FitsCap, Ledger!HigherSpend, Ledger!Increased,
              Ledger!roleVars, Ledger!policyVars
<1>3. UNCHANGED <<offerings, groupUsed, approvedRwa, poolToOffering>>
  BY DEF HookRecordsSpend, registryVars, offeringVars, poolVars
<1>4. LedgerShape' /\ OfferingsOK' /\ GroupsTaken' /\ GroupsDisjoint' /\ PoolsLeadBack'
  BY <1>2, <1>3 DEF OfferingsInv, LedgerShape, OfferingsOK, GroupsTaken, GroupsDisjoint,
                    PoolsLeadBack
<1>5. CapMirrored'
  <2> SUFFICES ASSUME NEW i \in DOMAIN offerings
               PROVE  LET q == offerings[i]
                          x == <<q.groupId, q.periodId>>
                      IN  /\ policyByGroupPeriod[x] = [cap |-> q.cap, usdc |-> Usdc]
                          /\ highestSpendByGroupPeriod'[x] <= q.cap
    BY <1>2, <1>3 DEF CapMirrored
  <2> DEFINE x == <<offerings[i].groupId, offerings[i].periodId>>
  <2>1. /\ policyByGroupPeriod[x] = [cap |-> offerings[i].cap, usdc |-> Usdc]
        /\ highestSpendByGroupPeriod[x] <= offerings[i].cap
    BY DEF OfferingsInv, CapMirrored
  <2>2. policyByGroupPeriod[x].cap = offerings[i].cap
    BY <2>1
  <2>3. offerings[i] \in Offerings
    BY DEF OfferingsInv, OfferingsOK
  <2>4. x \in Budgets
    BY <2>3 DEF Offerings, Budgets
  <2>5. CASE x = b
    BY <1>2, <2>1, <2>2, <2>4, <2>5 DEF OfferingsInv, LedgerShape
  <2>6. CASE x # b
    BY <1>2, <2>1, <2>4, <2>6 DEF OfferingsInv, LedgerShape
  <2> QED BY <2>1, <2>5, <2>6
<1> QED BY <1>4, <1>5 DEF OfferingsInv

-----------------------------------------------------------------------------

\* At the deployment there is no offering, and the ledger is the registry's.
LEMMA OfferingsInit == Init => OfferingsInv
<1> SUFFICES ASSUME Init PROVE OfferingsInv
  OBVIOUS
<1> USE DEF Init
<1>1. LedgerShape
  BY DEF LedgerShape, Budgets
<1>2. offerings \in Seq(Offerings) /\ Len(offerings) = 0 /\ DOMAIN offerings = {}
  OBVIOUS
<1>3. OfferingsOK
  BY <1>2 DEF OfferingsOK
<1>4. GroupsTaken /\ GroupsDisjoint /\ CapMirrored
  BY <1>2 DEF GroupsTaken, GroupsDisjoint, CapMirrored
<1>5. PoolsLeadBack
  BY <1>2 DEF PoolsLeadBack
<1> QED BY <1>1, <1>3, <1>4, <1>5 DEF OfferingsInv

\* Every step keeps the invariant of the offerings.
LEMMA OfferingsStep == OfferingsInv /\ [Next]_vars => OfferingsInv'
BY OfferingCases, OfferingsAsideKeeps, CreateKeeps, CapKeeps, EditKeeps, PoolKeeps, SpendKeeps

\* It holds throughout.
LEMMA OfferingsAlways == Spec => []OfferingsInv
BY OfferingsInit, OfferingsStep, PTL DEF Spec

\* The cap of an offering is, on the registry and on the ledger, one number that
\* covers all spend in its group, whatever its issuer and the hook do.
THEOREM CapsMirrored == Spec => []CapMirrored
<1>1. OfferingsInv => CapMirrored
  BY DEF OfferingsInv
<1> QED BY <1>1, OfferingsAlways, PTL

\* No two offerings ever share an allocation group.
THEOREM GroupsNeverShared == Spec => []GroupsDisjoint
<1>1. OfferingsInv => GroupsDisjoint
  BY DEF OfferingsInv
<1> QED BY <1>1, OfferingsAlways, PTL

\* Every registered pool trades the token of the offering it leads to, and the pool
\* an offering shows leads back to it.
THEOREM PoolsAlwaysLeadBack == Spec => []PoolsLeadBack
<1>1. OfferingsInv => PoolsLeadBack
  BY DEF OfferingsInv
<1> QED BY <1>1, OfferingsAlways, PTL
-----------------------------------------------------------------------------
(* Terms and versions *)

\* What an offering is stays, and its terms change with its version.
Renewed(old, new) ==
  /\ new.version >= old.version
  /\ <<new.cap, new.endTime>> # <<old.cap, old.endTime>> => new.version > old.version
  /\ <<new.issuer, new.rwa, new.groupId, new.periodId, new.startTime>>
       = <<old.issuer, old.rwa, old.groupId, old.periodId, old.startTime>>

\* An offering that stays is renewed in the trivial way.
LEMMA RenewedByItself ==
  ASSUME NEW o \in Offerings
  PROVE  Renewed(o, o)
<1>1. o.version \in Nat
  BY DEF Offerings
<1> QED BY <1>1 DEF Renewed

\* An edit replaces one offering by one of the same kind.
LEMMA EditRenews ==
  ASSUME OfferingsOK, CapStep \/ EditStep \/ PoolStep
  PROVE  \E k \in DOMAIN offerings : \E o :
           offerings' = [offerings EXCEPT ![k] = o] /\ Renewed(offerings[k], o)
<1> USE DEF Editable
<1>1. ASSUME NEW k \in DOMAIN offerings
      PROVE  offerings[k] \in Offerings /\ offerings[k].version \in Nat
  <2>1. offerings[k] \in Offerings
    BY DEF OfferingsOK
  <2> QED BY <2>1 DEF Offerings
<1>2. CASE CapStep
  <2>1. PICK c \in Accounts, k \in OfferingIds, cap \in Amounts : UpdateCap(c, k, cap)
    BY <1>2 DEF CapStep
  <2> DEFINE o == [offerings[k] EXCEPT !.cap = cap, !.version = offerings[k].version + 1]
  <2>2. k \in DOMAIN offerings /\ offerings' = [offerings EXCEPT ![k] = o]
    BY <2>1 DEF UpdateCap, NextVersion
  <2>3. Renewed(offerings[k], o)
    BY <1>1, <2>2 DEF Renewed, Offerings
  <2> QED BY <2>2, <2>3
<1>3. CASE PoolStep
  <2>1. PICK c \in Accounts, k \in OfferingIds, key \in PoolKeys : RegisterPool(c, k, key)
    BY <1>3 DEF PoolStep
  <2> DEFINE o == [offerings[k] EXCEPT
                     !.poolId = IF offerings[k].poolId = Zero THEN key ELSE offerings[k].poolId]
  <2>2. k \in DOMAIN offerings /\ offerings' = [offerings EXCEPT ![k] = o]
    BY <2>1 DEF RegisterPool
  <2>3. Renewed(offerings[k], o)
    BY <1>1, <2>2 DEF Renewed, Offerings
  <2> QED BY <2>2, <2>3
<1>4. CASE EditStep
  <2>1. PICK c \in Accounts, k \in OfferingIds :
          \/ \E end \in 0..MaxTime : UpdateEndTime(c, k, end)
          \/ \E paused \in BOOLEAN : SetPaused(c, k, paused)
          \/ \E operator \in Accounts \cup {Zero} : SetLiquidityOperator(c, k, operator)
    BY <1>4 DEF EditStep
  <2>2. ASSUME NEW end \in 0..MaxTime, UpdateEndTime(c, k, end)
        PROVE  \E o : offerings' = [offerings EXCEPT ![k] = o] /\ Renewed(offerings[k], o)
    <3> DEFINE o == [offerings[k] EXCEPT !.endTime = end, !.version = offerings[k].version + 1]
    <3>1. k \in DOMAIN offerings /\ offerings' = [offerings EXCEPT ![k] = o]
      BY <2>2 DEF UpdateEndTime, NextVersion
    <3>2. Renewed(offerings[k], o)
      BY <1>1, <3>1 DEF Renewed, Offerings
    <3> QED BY <3>1, <3>2
  <2>3. ASSUME NEW paused \in BOOLEAN, SetPaused(c, k, paused)
        PROVE  \E o : offerings' = [offerings EXCEPT ![k] = o] /\ Renewed(offerings[k], o)
    <3> DEFINE o == [offerings[k] EXCEPT !.paused = paused]
    <3>1. k \in DOMAIN offerings /\ offerings' = [offerings EXCEPT ![k] = o]
      BY <2>3 DEF SetPaused
    <3>2. Renewed(offerings[k], o)
      BY <1>1, <3>1 DEF Renewed, Offerings
    <3> QED BY <3>1, <3>2
  <2>4. ASSUME NEW operator \in Accounts \cup {Zero}, SetLiquidityOperator(c, k, operator)
        PROVE  \E o : offerings' = [offerings EXCEPT ![k] = o] /\ Renewed(offerings[k], o)
    <3> DEFINE o == [offerings[k] EXCEPT !.liquidityOperator = operator]
    <3>1. k \in DOMAIN offerings /\ offerings' = [offerings EXCEPT ![k] = o]
      BY <2>4 DEF SetLiquidityOperator
    <3>2. Renewed(offerings[k], o)
      BY <1>1, <3>1 DEF Renewed, Offerings
    <3> QED BY <3>1, <3>2
  <2>5. k \in DOMAIN offerings
    BY <2>1 DEF UpdateEndTime, SetPaused, SetLiquidityOperator
  <2> QED BY <2>1, <2>2, <2>3, <2>4, <2>5
<1> QED BY <1>2, <1>3, <1>4

\* No step does more to an offering than renew it.
LEMMA StepRenews ==
  ASSUME OfferingsInv, [Next]_vars, NEW id \in DOMAIN offerings
  PROVE  Renewed(offerings[id], offerings'[id])
<1>1. OfferingsOK /\ offerings[id] \in Offerings
  BY DEF OfferingsInv, OfferingsOK
<1>2. CASE offerings'[id] = offerings[id]
  BY <1>1, <1>2, RenewedByItself
<1>3. CASE CreateStep
  <2>1. PICK o : offerings' = Append(offerings, o)
    BY <1>3 DEF CreateStep, CreateOffering
  <2>2. offerings'[id] = offerings[id]
    BY <1>1, <2>1 DEF OfferingsOK
  <2> QED BY <1>2, <2>2
<1>4. CASE CapStep \/ EditStep \/ PoolStep
  <2>0. PICK k \in DOMAIN offerings : \E o :
          offerings' = [offerings EXCEPT ![k] = o] /\ Renewed(offerings[k], o)
    BY <1>1, <1>4, EditRenews
  <2>1. PICK o : offerings' = [offerings EXCEPT ![k] = o] /\ Renewed(offerings[k], o)
    BY <2>0
  <2>2. CASE id = k
    <3>1. offerings'[id] = o
      BY <1>1, <2>1, <2>2 DEF OfferingsOK
    <3> QED BY <2>1, <2>2, <3>1
  <2>3. CASE id # k
    <3>1. offerings'[id] = offerings[id]
      BY <1>1, <2>1, <2>3 DEF OfferingsOK
    <3> QED BY <1>2, <3>1
  <2> QED BY <2>2, <2>3
<1>5. CASE OfferingsAside \/ HookRecordsSpend
  BY <1>2, <1>5 DEF OfferingsAside, HookRecordsSpend, registryVars, offeringVars
<1> QED BY <1>3, <1>4, <1>5, OfferingCases

\* The terms of an offering never change under its version, and what it is never
\* changes.
THEOREM TermsVersioned == Spec => TermsAreVersioned
<1>1. OfferingsInv /\ [Next]_vars =>
        \A id \in DOMAIN offerings :
          LET old == offerings[id]
              new == offerings'[id]
          IN  /\ new.version >= old.version
              /\ <<new.cap, new.endTime>> # <<old.cap, old.endTime>> => new.version > old.version
              /\ <<new.issuer, new.rwa, new.groupId, new.periodId, new.startTime>>
                   = <<old.issuer, old.rwa, old.groupId, old.periodId, old.startTime>>
  BY StepRenews DEF Renewed
<1> QED BY <1>1, OfferingsAlways, PTL DEF Spec, TermsAreVersioned
-----------------------------------------------------------------------------
(* Spend in the offerings *)

\* A budget with a policy is that of an offering.
PoliciesOffered ==
  \A g \in Groups, p \in Periods :
    policyByGroupPeriod[<<g, p>>].cap # 0 =>
      \E id \in DOMAIN offerings : offerings[id].groupId = g /\ offerings[id].periodId = p

\* Counters in order: nobody above the maximum, and that within the cap in force.
CountersOK ==
  /\ spentByAllocation \in [Allocations \X Budgets -> Nat]
  /\ highestSpendByGroupPeriod \in [Budgets -> Nat]
  /\ \A a \in Allocations, b \in Budgets :
       spentByAllocation[<<a, b>>] <= highestSpendByGroupPeriod[b]
  /\ \A b \in Budgets : highestSpendByGroupPeriod[b] <= policyByGroupPeriod[b].cap

BudgetsInv ==
  /\ allocationIdByWallet \in [Wallets -> Allocations \cup {Zero}]
  /\ CountersOK
  /\ PoliciesOffered

\* Only the hook records spend, and only a registration moves a wallet.
LEMMA BudgetCases ==
  ASSUME [Next]_vars
  PROVE  /\ HookRecordsSpend \/ UNCHANGED <<spentByAllocation, highestSpendByGroupPeriod>>
         /\ Register \/ UNCHANGED allocationIdByWallet
<1> USE DEF ledgerVars
<1>1. CASE PlatformNext
  BY <1>1 DEF PlatformNext, AuthorizeIssuer, ReviewToken, RevokeWallet, Revoke
<1>2. CASE \E c \in Accounts : IssuerNext(c)
  <2>1. PICK c \in Accounts : IssuerNext(c)
    BY <1>2
  <2>2. CASE \E rwa \in Tokens, g \in Groups \cup {Zero}, p \in Periods, cap \in Amounts,
                start, end \in 0..MaxTime : CreateOffering(c, rwa, g, p, cap, start, end)
    BY <2>2 DEF CreateOffering, Ledger!SetPolicy, Ledger!spendVars, Ledger!memberVars
  <2>3. CASE \E id \in OfferingIds : OfferingNext(c, id)
    <3>1. PICK id \in OfferingIds : OfferingNext(c, id)
      BY <2>3
    <3>2. CASE \E cap \in Amounts : UpdateCap(c, id, cap)
      BY <3>2 DEF UpdateCap, Ledger!SetPolicy, Ledger!spendVars, Ledger!memberVars
    <3>3. CASE \/ \E end \in 0..MaxTime : UpdateEndTime(c, id, end)
               \/ \E paused \in BOOLEAN : SetPaused(c, id, paused)
               \/ \E operator \in Accounts \cup {Zero} : SetLiquidityOperator(c, id, operator)
               \/ \E key \in PoolKeys : RegisterPool(c, id, key)
      BY <3>3 DEF UpdateEndTime, SetPaused, SetLiquidityOperator, RegisterPool
    <3>4. CASE \E w \in Wallets \cup {Zero} :
                 \/ \E tier \in 0..3 : SetInvestorTier(c, id, w, tier)
                 \/ RevokeOfferingWallet(c, id, w)
      BY <3>4 DEF SetInvestorTier, RevokeOfferingWallet, Revoke
    <3> QED BY <3>1, <3>2, <3>3, <3>4 DEF OfferingNext
  <2> QED BY <2>1, <2>2, <2>3 DEF IssuerNext
<1>3. CASE \E auth \in Restorations : RestoreWallet(auth)
  BY <1>3 DEF RestoreWallet
<1>4. CASE Register
  BY <1>4 DEF Register, Ledger!Register, Ledger!RegisterWallet, Ledger!spendVars
<1>5. CASE HookRecordsSpend
  BY <1>5 DEF HookRecordsSpend, Ledger!RecordSpend, Ledger!memberVars
<1>6. CASE Tick
  BY <1>6 DEF Tick, Ledger!Tick, Ledger!ledgerVars, Ledger!spendVars, Ledger!memberVars
<1>7. CASE UNCHANGED vars
  BY <1>7 DEF vars
<1> QED BY <1>1, <1>2, <1>3, <1>4, <1>5, <1>6, <1>7 DEF Next, RegistryNext

\* A registration moves one wallet, that nobody has, or leaves it where it is.
LEMMA Registered ==
  ASSUME Register, allocationIdByWallet \in [Wallets -> Allocations \cup {Zero}]
  PROVE  /\ allocationIdByWallet' \in [Wallets -> Allocations \cup {Zero}]
         /\ \A w \in Wallets : allocationIdByWallet[w] # Zero =>
              allocationIdByWallet'[w] = allocationIdByWallet[w]
<1>1. PICK auth \in Ledger!Authorizations : Ledger!RegisterWallet(auth)
  BY DEF Register, Ledger!Register
<1>2. /\ auth.allocationId \in Allocations /\ auth.wallet \in Wallets
      /\ allocationIdByWallet[auth.wallet] \in {Zero, auth.allocationId}
      /\ allocationIdByWallet' = [allocationIdByWallet EXCEPT ![auth.wallet] = auth.allocationId]
  BY <1>1 DEF Ledger!RegisterWallet, Ledger!Authorizations, Ledger!KeepsAllocation
<1> QED BY <1>2

\* A step that leaves the policies and the counters alone, and no offering out.
LEMMA BudgetsAside ==
  ASSUME OfferingsInv, BudgetsInv,
         UNCHANGED <<policyByGroupPeriod, spentByAllocation, highestSpendByGroupPeriod>>,
         \A i \in DOMAIN offerings :
           /\ i \in DOMAIN offerings'
           /\ offerings'[i].groupId = offerings[i].groupId
           /\ offerings'[i].periodId = offerings[i].periodId
  PROVE  CountersOK' /\ PoliciesOffered'
BY DEF BudgetsInv, CountersOK, PoliciesOffered

\* The registry sets a policy: above the spend, and of an offering there then is.
LEMMA BudgetsPolicy ==
  ASSUME OfferingsInv, BudgetsInv, NEW g \in Groups, NEW p \in Periods, NEW cap \in Amounts,
         Ledger!SetPolicy(Registry, g, p, cap, Usdc),
         \A i \in DOMAIN offerings :
           /\ i \in DOMAIN offerings'
           /\ offerings'[i].groupId = offerings[i].groupId
           /\ offerings'[i].periodId = offerings[i].periodId,
         \E i \in DOMAIN offerings' : offerings'[i].groupId = g /\ offerings'[i].periodId = p
  PROVE  CountersOK' /\ PoliciesOffered'
<1>1. /\ LedgerShape'
      /\ policyByGroupPeriod' =
           [policyByGroupPeriod EXCEPT ![<<g, p>>] = [cap |-> cap, usdc |-> Usdc]]
      /\ highestSpendByGroupPeriod[<<g, p>>] <= cap
  BY PolicySet DEF OfferingsInv
<1>2. UNCHANGED <<spentByAllocation, highestSpendByGroupPeriod>>
  BY DEF Ledger!SetPolicy, Ledger!spendVars
<1>3. ASSUME NEW b \in Budgets
      PROVE  policyByGroupPeriod'[b].cap = IF b = <<g, p>> THEN cap ELSE policyByGroupPeriod[b].cap
  BY <1>1 DEF OfferingsInv, LedgerShape
<1>4. CountersOK'
  BY <1>1, <1>2, <1>3 DEF BudgetsInv, CountersOK
<1>5. PoliciesOffered'
  <2>1. ASSUME NEW h \in Groups, NEW q \in Periods, policyByGroupPeriod'[<<h, q>>].cap # 0
        PROVE  \E i \in DOMAIN offerings' :
                 offerings'[i].groupId = h /\ offerings'[i].periodId = q
    <3>1. CASE h = g /\ q = p
      BY <3>1
    <3>2. CASE ~ (h = g /\ q = p)
      <4>1. policyByGroupPeriod[<<h, q>>].cap # 0
        BY <1>3, <2>1, <3>2 DEF Budgets
      <4> QED BY <4>1 DEF BudgetsInv, PoliciesOffered
    <3> QED BY <3>1, <3>2
  <2> QED BY <2>1 DEF PoliciesOffered
<1> QED BY <1>4, <1>5

\* A new offering comes with its policy.
LEMMA BudgetsCreate ==
  ASSUME OfferingsInv, BudgetsInv, CreateStep
  PROVE  CountersOK' /\ PoliciesOffered'
<1>1. PICK c \in Accounts, rwa \in Tokens, g \in Groups, p \in Periods, cap \in Amounts,
           start \in 0..MaxTime, end \in 0..MaxTime :
             CreateOffering(c, rwa, g, p, cap, start, end)
  BY DEF CreateStep
<1> DEFINE o == [issuer |-> c, rwa |-> rwa, groupId |-> g, periodId |-> p,
                 cap |-> cap, startTime |-> start, endTime |-> end, version |-> 1,
                 poolId |-> Zero, liquidityOperator |-> Zero, paused |-> FALSE,
                 tokenReviewed |-> rwa \in tokenReviewed]
<1>2. Ledger!SetPolicy(Registry, g, p, cap, Usdc) /\ offerings' = Append(offerings, o)
  BY <1>1 DEF CreateOffering
<1>3. offerings \in Seq(Offerings) /\ o.groupId = g /\ o.periodId = p
  BY DEF OfferingsInv, OfferingsOK
<1> HIDE DEF o
<1>4. /\ \A i \in DOMAIN offerings : i \in DOMAIN offerings' /\ offerings'[i] = offerings[i]
      /\ Len(offerings) + 1 \in DOMAIN offerings' /\ offerings'[Len(offerings) + 1] = o
  BY <1>2, <1>3
<1>5. \E i \in DOMAIN offerings' : offerings'[i].groupId = g /\ offerings'[i].periodId = p
  BY <1>3, <1>4
<1>6. \A i \in DOMAIN offerings :
        /\ i \in DOMAIN offerings'
        /\ offerings'[i].groupId = offerings[i].groupId
        /\ offerings'[i].periodId = offerings[i].periodId
  BY <1>4
<1> QED BY <1>2, <1>5, <1>6, BudgetsPolicy

\* What an edit of an offering keeps: every offering has the group and the period it had.
LEMMA GroupsKept ==
  ASSUME OfferingsInv, CapStep \/ EditStep \/ PoolStep
  PROVE  \A i \in DOMAIN offerings :
           /\ i \in DOMAIN offerings'
           /\ offerings'[i].groupId = offerings[i].groupId
           /\ offerings'[i].periodId = offerings[i].periodId
<1>1. PICK k \in DOMAIN offerings : \E o :
        offerings' = [offerings EXCEPT ![k] = o] /\ Renewed(offerings[k], o)
  BY EditRenews DEF OfferingsInv
<1>2. PICK o : offerings' = [offerings EXCEPT ![k] = o] /\ Renewed(offerings[k], o)
  BY <1>1
<1> QED BY <1>2 DEF Renewed

\* An edit of a cap sets the policy of its offering again.
LEMMA BudgetsCap ==
  ASSUME OfferingsInv, BudgetsInv, CapStep
  PROVE  CountersOK' /\ PoliciesOffered'
<1>1. PICK c \in Accounts, id \in OfferingIds, cap \in Amounts : UpdateCap(c, id, cap)
  BY DEF CapStep
<1> DEFINE g == offerings[id].groupId
           p == offerings[id].periodId
<1>2. id \in DOMAIN offerings /\ Ledger!SetPolicy(Registry, g, p, cap, Usdc)
  BY <1>1 DEF UpdateCap, Editable
<1>3. g \in Groups /\ p \in Periods
  <2>1. offerings[id] \in Offerings
    BY <1>2 DEF OfferingsInv, OfferingsOK
  <2> QED BY <2>1 DEF Offerings
<1>4. \A i \in DOMAIN offerings :
        /\ i \in DOMAIN offerings'
        /\ offerings'[i].groupId = offerings[i].groupId
        /\ offerings'[i].periodId = offerings[i].periodId
  BY GroupsKept
<1>5. \E i \in DOMAIN offerings' : offerings'[i].groupId = g /\ offerings'[i].periodId = p
  BY <1>2, <1>4
<1> HIDE DEF g, p
<1> QED BY <1>2, <1>3, <1>4, <1>5, BudgetsPolicy

\* Other edits touch no policy.
LEMMA BudgetsEdit ==
  ASSUME OfferingsInv, BudgetsInv, EditStep \/ PoolStep
  PROVE  CountersOK' /\ PoliciesOffered'
<1>1. UNCHANGED <<policyByGroupPeriod, spentByAllocation, highestSpendByGroupPeriod>>
  BY DEF EditStep, PoolStep, UpdateEndTime, SetPaused, SetLiquidityOperator, RegisterPool,
         ledgerVars
<1>2. \A i \in DOMAIN offerings :
        /\ i \in DOMAIN offerings'
        /\ offerings'[i].groupId = offerings[i].groupId
        /\ offerings'[i].periodId = offerings[i].periodId
  BY GroupsKept
<1> QED BY <1>1, <1>2, BudgetsAside

\* What the hook records: one counter grows, within the cap.
LEMMA HookSpend ==
  ASSUME OfferingsInv, BudgetsInv, NEW w \in Wallets, NEW id \in DOMAIN offerings,
         NEW n \in Amounts,
         Ledger!RecordSpend(Hook, w, offerings[id].groupId, offerings[id].periodId, n)
  PROVE  LET a == allocationIdByWallet[w]
             b == <<offerings[id].groupId, offerings[id].periodId>>
         IN  /\ a \in Allocations /\ b \in Budgets
             /\ spentByAllocation' =
                  [spentByAllocation EXCEPT ![<<a, b>>] = spentByAllocation[<<a, b>>] + n]
             /\ UNCHANGED policyByGroupPeriod
             /\ CountersOK'
<1> DEFINE a == allocationIdByWallet[w]
           b == <<offerings[id].groupId, offerings[id].periodId>>
           spent == spentByAllocation[<<a, b>>]
<1>1. offerings[id] \in Offerings
  BY DEF OfferingsInv, OfferingsOK
<1>2. b \in Budgets
  BY <1>1 DEF Offerings, Budgets
<1>3. /\ a \in Allocations
      /\ spentByAllocation \in [Allocations \X Budgets -> Nat]
      /\ highestSpendByGroupPeriod \in [Budgets -> Nat]
      /\ policyByGroupPeriod \in [Budgets -> [cap : Nat, usdc : Tokens \cup {Zero}]]
  BY DEF Ledger!RecordSpend, Ledger!HasBudget, BudgetsInv, CountersOK, OfferingsInv, LedgerShape
<1>4. /\ spent + n <= policyByGroupPeriod[b].cap
      /\ spentByAllocation' = [spentByAllocation EXCEPT ![<<a, b>>] = spent + n]
      /\ highestSpendByGroupPeriod' =
           [highestSpendByGroupPeriod EXCEPT ![b] = IF spent + n > @ THEN spent + n ELSE @]
      /\ UNCHANGED policyByGroupPeriod
  BY DEF Ledger!RecordSpend, Ledger!FitsCap, Ledger!Spent, Ledger!Increased,
         Ledger!HigherSpend, Ledger!policyVars
<1> HIDE DEF a, b
<1>5. spent \in Nat /\ n \in Nat /\ <<a, b>> \in Allocations \X Budgets
  BY <1>2, <1>3
<1> HIDE DEF spent
<1>6. ASSUME NEW x \in Allocations \X Budgets
      PROVE  /\ spentByAllocation'[x] = IF x = <<a, b>> THEN spent + n ELSE spentByAllocation[x]
             /\ spentByAllocation[x] \in Nat
  BY <1>3, <1>4
<1>7. ASSUME NEW c \in Budgets
      PROVE  /\ highestSpendByGroupPeriod[c] \in Nat
             /\ highestSpendByGroupPeriod'[c] =
                  IF c = b /\ spent + n > highestSpendByGroupPeriod[c]
                    THEN spent + n ELSE highestSpendByGroupPeriod[c]
  BY <1>3, <1>4
<1>8. /\ \A d \in Allocations, c \in Budgets :
           spentByAllocation[<<d, c>>] <= highestSpendByGroupPeriod[c]
      /\ \A c \in Budgets : highestSpendByGroupPeriod[c] <= policyByGroupPeriod[c].cap
  BY DEF BudgetsInv, CountersOK
<1>9. spentByAllocation' \in [Allocations \X Budgets -> Nat]
  BY <1>3, <1>4, <1>5
<1>10. highestSpendByGroupPeriod' \in [Budgets -> Nat]
  BY <1>3, <1>4, <1>5
<1>11. ASSUME NEW d \in Allocations, NEW c \in Budgets
       PROVE  spentByAllocation'[<<d, c>>] <= highestSpendByGroupPeriod'[c]
  <2>1. <<d, c>> \in Allocations \X Budgets /\ (<<d, c>> = <<a, b>> => c = b)
    OBVIOUS
  <2> QED BY <1>5, <1>6, <1>7, <1>8, <2>1
<1>12. ASSUME NEW c \in Budgets
       PROVE  highestSpendByGroupPeriod'[c] <= policyByGroupPeriod'[c].cap
  BY <1>4, <1>7, <1>8
<1>13. CountersOK'
  BY <1>9, <1>10, <1>11, <1>12 DEF CountersOK
<1> QED BY <1>2, <1>3, <1>4, <1>13 DEF a, b, spent

\* At the deployment nothing is spent and nothing offered.
LEMMA BudgetsInit == Init => BudgetsInv
BY DEF Init, BudgetsInv, CountersOK, PoliciesOffered, Budgets

\* Every step keeps the counters in order and the policies in the offerings.
LEMMA BudgetsStep == OfferingsInv /\ BudgetsInv /\ [Next]_vars => BudgetsInv'
<1> SUFFICES ASSUME OfferingsInv, BudgetsInv, [Next]_vars
             PROVE  BudgetsInv'
  OBVIOUS
<1>1. allocationIdByWallet' \in [Wallets -> Allocations \cup {Zero}]
  BY BudgetCases, Registered DEF BudgetsInv
<1>2. CountersOK' /\ PoliciesOffered'
  <2>1. CASE HookRecordsSpend
    <3>1. PICK w \in Wallets, id \in DOMAIN offerings, n \in Amounts :
            Ledger!RecordSpend(Hook, w, offerings[id].groupId, offerings[id].periodId, n)
      BY <2>1 DEF HookRecordsSpend
    <3>2. CountersOK' /\ UNCHANGED policyByGroupPeriod
      BY <3>1, HookSpend
    <3>3. UNCHANGED offerings
      BY <2>1 DEF HookRecordsSpend, registryVars, offeringVars
    <3> QED BY <3>2, <3>3 DEF BudgetsInv, PoliciesOffered
  <2>2. CASE OfferingsAside /\ ~HookRecordsSpend
    <3>1. UNCHANGED <<policyByGroupPeriod, spentByAllocation, highestSpendByGroupPeriod, offerings>>
      BY <2>2, BudgetCases DEF OfferingsAside
    <3> QED BY <3>1, BudgetsAside
  <2> QED BY <2>1, <2>2, OfferingCases, BudgetsCreate, BudgetsCap, BudgetsEdit
<1> QED BY <1>1, <1>2 DEF BudgetsInv

\* It holds throughout.
LEMMA BudgetsAlways == Spec => []BudgetsInv
BY BudgetsInit, BudgetsStep, OfferingsAlways, PTL DEF Spec

\* Spend is in the budget of an offering, and within its cap as the registry shows it.
SpendOffered ==
  \A a \in Allocations, g \in Groups, p \in Periods :
    spentByAllocation[<<a, <<g, p>>>>] # 0 =>
      \E id \in DOMAIN offerings :
        /\ offerings[id].groupId = g /\ offerings[id].periodId = p
        /\ spentByAllocation[<<a, <<g, p>>>>] <= offerings[id].cap

\* Nobody spends outside an offering, or more in it than the cap its issuer set last:
\* the registry opens every budget and lowers no cap below what was spent.
THEOREM SpendWithinOffering == Spec => []SpendOffered
<1>1. OfferingsInv /\ BudgetsInv => SpendOffered
  <2> SUFFICES ASSUME OfferingsInv, BudgetsInv, NEW a \in Allocations, NEW g \in Groups,
                      NEW p \in Periods, spentByAllocation[<<a, <<g, p>>>>] # 0
               PROVE  \E id \in DOMAIN offerings :
                        /\ offerings[id].groupId = g /\ offerings[id].periodId = p
                        /\ spentByAllocation[<<a, <<g, p>>>>] <= offerings[id].cap
    BY DEF SpendOffered
  <2>1. <<g, p>> \in Budgets /\ <<a, <<g, p>>>> \in Allocations \X Budgets
    BY DEF Budgets
  <2>2. /\ spentByAllocation[<<a, <<g, p>>>>] \in Nat
        /\ spentByAllocation[<<a, <<g, p>>>>] <= highestSpendByGroupPeriod[<<g, p>>]
        /\ highestSpendByGroupPeriod[<<g, p>>] \in Nat
        /\ highestSpendByGroupPeriod[<<g, p>>] <= policyByGroupPeriod[<<g, p>>].cap
        /\ policyByGroupPeriod[<<g, p>>].cap \in Nat
    BY <2>1 DEF OfferingsInv, LedgerShape, BudgetsInv, CountersOK
  <2>3. PICK id \in DOMAIN offerings : offerings[id].groupId = g /\ offerings[id].periodId = p
    <3>1. policyByGroupPeriod[<<g, p>>].cap # 0
      BY <2>2
    <3> QED BY <3>1 DEF BudgetsInv, PoliciesOffered
  <2>4. policyByGroupPeriod[<<g, p>>] = [cap |-> offerings[id].cap, usdc |-> Usdc]
    BY <2>3 DEF OfferingsInv, CapMirrored
  <2> QED BY <2>2, <2>3, <2>4
<1> QED BY <1>1, OfferingsAlways, BudgetsAlways, PTL

-----------------------------------------------------------------------------
(* Revocation *)

\* A step that leaves the revocations alone.
RevocationsAside == UNCHANGED revokeVars

RevokeStep == \E id \in 0..MaxOfferings, w \in Wallets : Revoke(w, id)

RestoreStep == \E auth \in Restorations : RestoreWallet(auth)

\* Every step is a revocation, a restoration, or neither.
LEMMA RevocationCases ==
  ASSUME OfferingsInv, [Next]_vars
  PROVE  RevocationsAside \/ RevokeStep \/ RestoreStep
<1> USE DEF RevocationsAside, registryVars
<1>1. CASE PlatformNext
  <2>1. CASE \E w \in Wallets \cup {Zero} : RevokeWallet(Platform, w)
    <3>1. PICK w \in Wallets \cup {Zero} : Revoke(w, 0)
      BY <2>1 DEF RevokeWallet
    <3>2. w \in Wallets /\ 0 \in 0..MaxOfferings
      BY <3>1 DEF Revoke
    <3> QED BY <3>1, <3>2 DEF RevokeStep
  <2> QED BY <1>1, <2>1 DEF PlatformNext, AuthorizeIssuer, ReviewToken
<1>2. CASE \E c \in Accounts : IssuerNext(c)
  <2>1. PICK c \in Accounts : IssuerNext(c)
    BY <1>2
  <2>2. CASE \E rwa \in Tokens, g \in Groups \cup {Zero}, p \in Periods, cap \in Amounts,
                start, end \in 0..MaxTime : CreateOffering(c, rwa, g, p, cap, start, end)
    BY <2>2 DEF CreateOffering
  <2>3. ASSUME NEW id \in OfferingIds, OfferingNext(c, id)
        PROVE  RevocationsAside \/ RevokeStep
    <3>1. CASE \E w \in Wallets \cup {Zero} : RevokeOfferingWallet(c, id, w)
      <4>1. PICK w \in Wallets \cup {Zero} : Revoke(w, id)
        BY <3>1 DEF RevokeOfferingWallet
      <4>2. w \in Wallets /\ id \in 0..MaxOfferings
        BY <4>1 DEF Revoke, OfferingIds
      <4> QED BY <4>1, <4>2 DEF RevokeStep
    <3> QED BY <2>3, <3>1 DEF OfferingNext, UpdateCap, UpdateEndTime, SetPaused,
                              SetLiquidityOperator, RegisterPool, SetInvestorTier
  <2> QED BY <2>1, <2>2, <2>3 DEF IssuerNext
<1>3. CASE \E auth \in Restorations : RestoreWallet(auth)
  BY <1>3 DEF RestoreStep
<1>4. CASE Register \/ HookRecordsSpend \/ Tick \/ UNCHANGED vars
  BY <1>4 DEF Register, HookRecordsSpend, Tick, vars
<1> QED BY <1>1, <1>2, <1>3, <1>4 DEF Next, RegistryNext

Keys == (0..MaxOfferings) \X Wallets

\* A revocation moves one epoch on, and nothing that was restored.
LEMMA RevokeEffect ==
  ASSUME RevocationsOK, NEW id \in 0..MaxOfferings, NEW w \in Wallets, Revoke(w, id)
  PROVE  /\ revocationEpoch' \in [Keys -> 0..MaxEpoch]
         /\ revocationEpoch'[<<id, w>>] = revocationEpoch[<<id, w>>] + 1
         /\ \A x \in Keys : x # <<id, w>> => revocationEpoch'[x] = revocationEpoch[x]
         /\ UNCHANGED <<restoredEpoch, restorations>>
<1>1. <<id, w>> \in Keys
  BY DEF Keys
<1>2. /\ revocationEpoch' = [revocationEpoch EXCEPT ![<<id, w>>] = revocationEpoch[<<id, w>>] + 1]
      /\ revocationEpoch[<<id, w>>] < MaxEpoch
      /\ UNCHANGED <<restoredEpoch, restorations>>
  BY DEF Revoke
<1>3. revocationEpoch[<<id, w>>] + 1 \in 0..MaxEpoch
  BY <1>1, <1>2 DEF RevocationsOK, Keys
<1> QED BY <1>1, <1>2, <1>3 DEF RevocationsOK, Keys

\* A restoration catches up with the epoch that was signed.
LEMMA RestoreEffect ==
  ASSUME RevocationsOK, NEW auth \in Restorations, RestoreWallet(auth)
  PROVE  LET x == <<auth.id, auth.wallet>> IN
         /\ x \in Keys
         /\ auth.epoch = revocationEpoch[x]
         /\ restoredEpoch' \in [Keys -> 0..MaxEpoch]
         /\ restoredEpoch'[x] = revocationEpoch[x]
         /\ \A y \in Keys : y # x => restoredEpoch'[y] = restoredEpoch[y]
         /\ restorations' = restorations \cup {auth}
         /\ \A r \in restorations : r.nonce # auth.nonce
         /\ revocationEpoch' = revocationEpoch
<1> DEFINE x == <<auth.id, auth.wallet>>
<1>1. x \in Keys
  BY DEF Restorations, Keys
<1>2. revocationEpoch[x] \in 0..MaxEpoch
  BY <1>1 DEF RevocationsOK, Keys
<1>3. /\ auth.epoch = revocationEpoch[x]
      /\ restoredEpoch' = [restoredEpoch EXCEPT ![x] = revocationEpoch[x]]
      /\ restorations' = restorations \cup {auth}
      /\ \A r \in restorations : r.nonce # auth.nonce
      /\ revocationEpoch' = revocationEpoch
  BY DEF RestoreWallet, CurrentEpoch, ThroughEpoch, UnusedRestoreNonce
<1> QED BY <1>1, <1>2, <1>3 DEF RevocationsOK, Keys

\* At the deployment nobody is revoked.
LEMMA RevocationsInit == Init => RevocationsInv
<1> SUFFICES ASSUME Init PROVE RevocationsInv
  OBVIOUS
<1>1. RevocationsOK
  BY DEF Init, RevocationsOK
<1>2. RestoredBehind
  BY DEF Init, RestoredBehind
<1>3. RestoredBySignature
  BY DEF Init, RestoredBySignature
<1> QED BY <1>1, <1>2, <1>3 DEF RevocationsInv

\* Every step keeps the invariant of the revocations.
LEMMA RevocationsStep == OfferingsInv /\ RevocationsInv /\ [Next]_vars => RevocationsInv'
<1> SUFFICES ASSUME OfferingsInv, RevocationsInv, [Next]_vars
             PROVE  RevocationsInv'
  OBVIOUS
<1>1. RevocationsOK /\ RestoredBehind /\ RestoredBySignature
  BY DEF RevocationsInv
<1>2. CASE RevocationsAside
  BY <1>1, <1>2 DEF RevocationsAside, revokeVars, RevocationsInv, RevocationsOK,
                    RestoredBehind, RestoredBySignature
<1>3. CASE RevokeStep
  <2>1. PICK id \in 0..MaxOfferings, w \in Wallets : Revoke(w, id)
    BY <1>3 DEF RevokeStep
  <2>2. /\ revocationEpoch' \in [Keys -> 0..MaxEpoch]
        /\ revocationEpoch'[<<id, w>>] = revocationEpoch[<<id, w>>] + 1
        /\ \A x \in Keys : x # <<id, w>> => revocationEpoch'[x] = revocationEpoch[x]
        /\ UNCHANGED <<restoredEpoch, restorations>>
    BY <1>1, <2>1, RevokeEffect
  <2>3. RevocationsOK'
    BY <1>1, <2>2 DEF RevocationsOK, Keys
  <2>4. RestoredBehind'
    <3> SUFFICES ASSUME NEW x \in Keys
                 PROVE  restoredEpoch[x] <= revocationEpoch'[x]
      BY <2>2 DEF RestoredBehind, Keys
    <3>1. /\ restoredEpoch[x] <= revocationEpoch[x]
          /\ restoredEpoch[x] \in Nat /\ revocationEpoch[x] \in Nat
      BY <1>1 DEF RestoredBehind, RevocationsOK, Keys
    <3> QED BY <2>2, <3>1
  <2>5. RestoredBySignature'
    BY <1>1, <2>2 DEF RestoredBySignature
  <2> QED BY <2>3, <2>4, <2>5 DEF RevocationsInv
<1>4. CASE RestoreStep
  <2>1. PICK auth \in Restorations : RestoreWallet(auth)
    BY <1>4 DEF RestoreStep
  <2> DEFINE z == <<auth.id, auth.wallet>>
  <2>2. /\ z \in Keys
        /\ auth.epoch = revocationEpoch[z]
        /\ restoredEpoch' \in [Keys -> 0..MaxEpoch]
        /\ restoredEpoch'[z] = revocationEpoch[z]
        /\ \A y \in Keys : y # z => restoredEpoch'[y] = restoredEpoch[y]
        /\ restorations' = restorations \cup {auth}
        /\ \A r \in restorations : r.nonce # auth.nonce
        /\ revocationEpoch' = revocationEpoch
    BY <1>1, <2>1, RestoreEffect
  <2>3. RevocationsOK'
    BY <1>1, <2>2 DEF RevocationsOK, Keys
  <2>4. RestoredBehind'
    <3> SUFFICES ASSUME NEW x \in Keys
                 PROVE  restoredEpoch'[x] <= revocationEpoch[x]
      BY <2>2 DEF RestoredBehind, Keys
    <3>1. restoredEpoch[x] <= revocationEpoch[x] /\ revocationEpoch[x] \in Nat
      BY <1>1 DEF RestoredBehind, RevocationsOK, Keys
    <3> QED BY <2>2, <3>1
  <2>5. RestoredBySignature'
    <3>1. ASSUME NEW id \in 0..MaxOfferings, NEW w \in Wallets, restoredEpoch'[<<id, w>>] # 0
          PROVE  \E r \in restorations' :
                   r.wallet = w /\ r.id = id /\ r.epoch = restoredEpoch'[<<id, w>>]
      <4>1. <<id, w>> \in Keys
        BY DEF Keys
      <4>2. CASE <<id, w>> = z
        BY <2>2, <4>2
      <4>3. CASE <<id, w>> # z
        BY <1>1, <2>2, <3>1, <4>1, <4>3 DEF RestoredBySignature
      <4> QED BY <4>2, <4>3
    <3>2. \A r, s \in restorations' : r.nonce = s.nonce => r = s
      BY <1>1, <2>2 DEF RestoredBySignature
    <3> QED BY <3>1, <3>2 DEF RestoredBySignature
  <2> QED BY <2>3, <2>4, <2>5 DEF RevocationsInv
<1> QED BY <1>2, <1>3, <1>4, RevocationCases

\* It holds throughout.
LEMMA RevocationsAlways == Spec => []RevocationsInv
BY RevocationsInit, RevocationsStep, OfferingsAlways, PTL DEF Spec

\* A revocation is lifted by a signature over its own epoch only, and every nonce
\* lifts one.
THEOREM RestoredOnlyBySignature == Spec => []RestoredBySignature
<1>1. RevocationsInv => RestoredBySignature
  BY DEF RevocationsInv
<1> QED BY <1>1, RevocationsAlways, PTL

\* Right after any revocation the wallet cannot buy, because no restoration runs
\* ahead of the revocations.
THEOREM EveryRevocationBites == Spec => RevocationBites
<1>1. ASSUME OfferingsInv, RevocationsInv, [Next]_vars,
             NEW id \in 0..Len(offerings), NEW w \in Wallets,
             revocationEpoch'[<<id, w>>] # revocationEpoch[<<id, w>>],
             NEW o \in DOMAIN offerings, id \in {0, o}
      PROVE  PurchaseBlocked(o, w)'
  <2>1. RevocationsOK /\ RestoredBehind
    BY <1>1 DEF RevocationsInv
  <2>2. id \in 0..MaxOfferings
    BY <1>1 DEF OfferingsInv, OfferingsOK
  <2>3. <<id, w>> \in Keys
    BY <2>2 DEF Keys
  <2>4. /\ restoredEpoch[<<id, w>>] <= revocationEpoch[<<id, w>>]
        /\ restoredEpoch[<<id, w>>] \in Nat /\ revocationEpoch[<<id, w>>] \in Nat
    BY <2>1, <2>3 DEF RestoredBehind, RevocationsOK, Keys
  <2>5. RevokeStep
    <3>1. ~RevocationsAside
      BY <1>1 DEF RevocationsAside, revokeVars
    <3>2. ~RestoreStep
      BY <1>1, <2>1, RestoreEffect DEF RestoreStep
    <3> QED BY <1>1, <3>1, <3>2, RevocationCases
  <2>6. PICK i \in 0..MaxOfferings, v \in Wallets : Revoke(v, i)
    BY <2>5 DEF RevokeStep
  <2>7. /\ revocationEpoch'[<<i, v>>] = revocationEpoch[<<i, v>>] + 1
        /\ \A x \in Keys : x # <<i, v>> => revocationEpoch'[x] = revocationEpoch[x]
        /\ restoredEpoch' = restoredEpoch
    BY <2>1, <2>6, RevokeEffect
  <2>8. <<id, w>> = <<i, v>>
    BY <1>1, <2>3, <2>7
  <2>9. revocationEpoch'[<<id, w>>] > restoredEpoch'[<<id, w>>]
    BY <2>4, <2>7, <2>8
  <2> QED BY <1>1, <2>9 DEF PurchaseBlocked
<1>2. OfferingsInv /\ RevocationsInv /\ [Next]_vars =>
        \A id \in 0..Len(offerings), w \in Wallets :
          revocationEpoch'[<<id, w>>] # revocationEpoch[<<id, w>>] =>
            \A o \in DOMAIN offerings : (id \in {0, o}) => PurchaseBlocked(o, w)'
  BY <1>1
<1> QED BY <1>2, OfferingsAlways, RevocationsAlways, PTL DEF Spec, RevocationBites

-----------------------------------------------------------------------------
(* Types *)

\* Every step keeps the types of roles, reviews and tiers.
LEMMA AccessStep == AccessOK /\ [Next]_vars => AccessOK'
<1> SUFFICES ASSUME AccessOK, [Next]_vars
             PROVE  AccessOK'
  OBVIOUS
<1> USE DEF AccessOK, issuerVars, accessVars, registryVars
<1>1. CASE PlatformNext
  BY <1>1 DEF PlatformNext, AuthorizeIssuer, ReviewToken, RevokeWallet, Revoke
<1>2. CASE \E c \in Accounts : IssuerNext(c)
  <2>1. PICK c \in Accounts : IssuerNext(c)
    BY <1>2
  <2>2. ASSUME NEW id \in OfferingIds, NEW w \in Wallets \cup {Zero}, NEW tier \in 0..3,
               SetInvestorTier(c, id, w, tier)
        PROVE  AccessOK'
    BY <2>2 DEF SetInvestorTier
  <2>3. ASSUME UNCHANGED <<authorizedIssuer, tokenReviewed, investorTier>>
        PROVE  AccessOK'
    BY <2>3
  <2>4. CASE \E rwa \in Tokens, g \in Groups \cup {Zero}, p \in Periods, cap \in Amounts,
                start, end \in 0..MaxTime : CreateOffering(c, rwa, g, p, cap, start, end)
    BY <2>3, <2>4 DEF CreateOffering
  <2>5. ASSUME NEW id \in OfferingIds, OfferingNext(c, id)
        PROVE  AccessOK'
    <3>1. CASE \E w \in Wallets \cup {Zero}, tier \in 0..3 : SetInvestorTier(c, id, w, tier)
      BY <2>2, <3>1
    <3>2. CASE \E w \in Wallets \cup {Zero} : RevokeOfferingWallet(c, id, w)
      BY <2>3, <3>2 DEF RevokeOfferingWallet, Revoke
    <3>3. CASE \/ \E cap \in Amounts : UpdateCap(c, id, cap)
               \/ \E end \in 0..MaxTime : UpdateEndTime(c, id, end)
               \/ \E paused \in BOOLEAN : SetPaused(c, id, paused)
               \/ \E operator \in Accounts \cup {Zero} : SetLiquidityOperator(c, id, operator)
               \/ \E key \in PoolKeys : RegisterPool(c, id, key)
      BY <2>3, <3>3 DEF UpdateCap, UpdateEndTime, SetPaused, SetLiquidityOperator, RegisterPool
    <3> QED BY <2>5, <3>1, <3>2, <3>3 DEF OfferingNext
  <2> QED BY <2>1, <2>4, <2>5 DEF IssuerNext
<1>3. CASE \E auth \in Restorations : RestoreWallet(auth)
  BY <1>3 DEF RestoreWallet
<1>4. CASE Register \/ HookRecordsSpend \/ Tick \/ UNCHANGED vars
  BY <1>4 DEF Register, HookRecordsSpend, Tick, vars
<1> QED BY <1>1, <1>2, <1>3, <1>4 DEF Next, RegistryNext

\* Every variable of the registry stays in its type.
THEOREM RegistryTypes == Spec => []TypeOK
<1>1. Init => AccessOK
  BY DEF Init, AccessOK
<1>2. OfferingsInv /\ RevocationsInv /\ AccessOK => TypeOK
  BY DEF OfferingsInv, OfferingsOK, RevocationsInv, RevocationsOK, AccessOK, TypeOK
<1> QED BY <1>1, <1>2, AccessStep, OfferingsAlways, RevocationsAlways, PTL DEF Spec
=============================================================================
