-------------------------- MODULE OfferingRegistry --------------------------
(***************************************************************************)
(* The OfferingRegistry contract over the ledger it owns: issuers create   *)
(* offerings, each with an allocation group, a cap and a window of its     *)
(* own, edit their terms, register pools, grade and revoke wallets.        *)
(*                                                                         *)
(* The state is the one DeployMarketplace leaves: the registry owns the    *)
(* ledger and the executor, and knows the hook and the executor.  An       *)
(* offering is an entry of a sequence and its index is its id; id 0 stands *)
(* for bytes32(0).  The two revocation mappings of the contract, one for   *)
(* the platform and one per offering, are one function: entry <<0, w>> is  *)
(* the platform's.                                                         *)
(***************************************************************************)
EXTENDS Integers, Sequences, FiniteSets

CONSTANTS
  Wallets, Allocations, Groups, Periods, Tokens, Nonces, Accounts, Amounts,
  MaxTime, Zero,
  Platform,       \* owner of the registry, deployer of the ledger
  Registry,       \* the registry's own address
  Hook,           \* the marketplace hook
  Signer,         \* the ledger's backend signer
  Usdc,
  MAX_CAP,
  PoolKeys,       \* the pool keys considered: [tokens : pair, hooks : address]
  RestoreNonces,
  MaxOfferings,   \* bound: offerings created
  MaxVersion,     \* bound: policy versions
  MaxEpoch        \* bound: revocations of one wallet

ASSUME RegistryAssumption ==
  /\ {Platform, Registry, Hook, Signer} \subseteq Accounts
  /\ Usdc \in Tokens
  /\ Periods \subseteq Nat
  /\ {MAX_CAP, MaxOfferings, MaxVersion, MaxEpoch, MaxTime} \subseteq Nat
  /\ MaxVersion # 0
  /\ Amounts \subseteq Nat

VARIABLES
  owner, backendSigner, authorizedHook, allocationIdByWallet,
  policyByGroupPeriod, spentByAllocation, highestSpendByGroupPeriod,
  quoteTokenByGroup, usedNonce, now,
  authorizedIssuer,     \* the issuers
  offerings,            \* the offerings, in order of creation
  groupUsed,            \* groups taken by an offering
  poolToOffering,       \* the offering of a pool, or 0
  tokenReviewed,
  investorTier,         \* investorTier[<<id, w>>] in 0..2
  revocationEpoch,      \* how often w was revoked, by the platform or for id
  restoredEpoch,        \* the epoch w was restored through
  restorations,         \* the signatures accepted; usedRestoreNonce is their nonces
  approvedRwa           \* the executor's approved tokens

Ledger == INSTANCE AllocationLedger WITH Deployer <- Platform

offeringVars == <<offerings, groupUsed, approvedRwa>>
issuerVars   == <<authorizedIssuer, tokenReviewed>>
poolVars     == <<poolToOffering>>
accessVars   == <<investorTier>>
revokeVars   == <<revocationEpoch, restoredEpoch, restorations>>
registryVars == <<offeringVars, issuerVars, poolVars, accessVars, revokeVars>>
ledgerVars   == <<owner, backendSigner, authorizedHook, allocationIdByWallet,
                  policyByGroupPeriod, spentByAllocation,
                  highestSpendByGroupPeriod, quoteTokenByGroup, usedNonce, now>>
vars         == <<registryVars, ledgerVars>>

OfferingIds == 1..MaxOfferings
Offerings == [issuer : Accounts, rwa : Tokens, groupId : Groups, periodId : Periods,
              cap : Amounts, startTime : 0..MaxTime, endTime : 0..MaxTime,
              version : 1..MaxVersion, poolId : PoolKeys \cup {Zero},
              liquidityOperator : Accounts \cup {Zero}, paused : BOOLEAN,
              tokenReviewed : BOOLEAN]

\* The state DeployMarketplace leaves: constructors run, hook authorized,
\* ledger handed to the registry.
Init ==
  /\ owner = Registry
  /\ backendSigner = Signer
  /\ authorizedHook = Hook
  /\ allocationIdByWallet = [w \in Wallets |-> Zero]
  /\ policyByGroupPeriod = [b \in Groups \X Periods |-> [cap |-> 0, usdc |-> Zero]]
  /\ spentByAllocation = [ab \in Allocations \X (Groups \X Periods) |-> 0]
  /\ highestSpendByGroupPeriod = [b \in Groups \X Periods |-> 0]
  /\ quoteTokenByGroup = [g \in Groups |-> Zero]
  /\ usedNonce = {}
  /\ now = 0
  /\ authorizedIssuer = {}
  /\ offerings = <<>>
  /\ groupUsed = {}
  /\ poolToOffering = [k \in PoolKeys |-> 0]
  /\ tokenReviewed = {}
  /\ investorTier = [x \in OfferingIds \X Wallets |-> 0]
  /\ revocationEpoch = [x \in (0..MaxOfferings) \X Wallets |-> 0]
  /\ restoredEpoch = [x \in (0..MaxOfferings) \X Wallets |-> 0]
  /\ restorations = {}
  /\ approvedRwa = {}

-----------------------------------------------------------------------------
(* Platform operations *)

AuthorizeIssuer(caller, issuer, allowed) ==
  /\ caller = Platform
  /\ issuer # Zero
  /\ authorizedIssuer' = IF allowed THEN authorizedIssuer \cup {issuer}
                                    ELSE authorizedIssuer \ {issuer}
  /\ UNCHANGED <<tokenReviewed, offeringVars, poolVars, accessVars, revokeVars, ledgerVars>>

ReviewToken(caller, token, reviewed) ==
  /\ caller = Platform
  /\ tokenReviewed' = IF reviewed THEN tokenReviewed \cup {token}
                                  ELSE tokenReviewed \ {token}
  /\ UNCHANGED <<authorizedIssuer, offeringVars, poolVars, accessVars, revokeVars, ledgerVars>>

-----------------------------------------------------------------------------
(* Offerings *)

UsedGroupAgain(group) == TRUE              \* faulty variant: groups may be shared
FreshGroup(group) == group \notin groupUsed

\* An authorized issuer opens an offering; the ledger gets its policy and the
\* executor its token in the same transaction.
CreateOffering(caller, rwa, group, period, cap, start, end) ==
  /\ caller \in authorizedIssuer
  /\ rwa \notin {Zero, Usdc}
  /\ group # Zero /\ FreshGroup(group)
  /\ period # 0 /\ cap # 0 /\ cap <= MAX_CAP
  /\ start < end /\ end > now
  /\ Len(offerings) < MaxOfferings
  /\ Ledger!SetPolicy(Registry, group, period, cap, Usdc)
  /\ approvedRwa' = approvedRwa \cup {rwa}
  /\ groupUsed' = groupUsed \cup {group}
  /\ offerings' = Append(offerings,
       [issuer |-> caller, rwa |-> rwa, groupId |-> group, periodId |-> period,
        cap |-> cap, startTime |-> start, endTime |-> end, version |-> 1,
        poolId |-> Zero, liquidityOperator |-> Zero, paused |-> FALSE,
        tokenReviewed |-> rwa \in tokenReviewed])
  /\ UNCHANGED <<issuerVars, poolVars, accessVars, revokeVars>>

\* _editable: the offering exists and the caller is its issuer or the owner.
Editable(caller, id) ==
  /\ id \in DOMAIN offerings
  /\ caller \in {offerings[id].issuer, Platform}

SameVersion(version) == version            \* faulty variant: terms change silently
NextVersion(version) == version + 1

UpdateCap(caller, id, cap) ==
  /\ Editable(caller, id)
  /\ cap # 0 /\ cap <= MAX_CAP
  /\ LET o == offerings[id] IN
     /\ o.version < MaxVersion
     /\ cap >= highestSpendByGroupPeriod[<<o.groupId, o.periodId>>]
     /\ Ledger!SetPolicy(Registry, o.groupId, o.periodId, cap, Usdc)
     /\ offerings' = [offerings EXCEPT ![id].cap = cap,
                                       ![id].version = NextVersion(@)]
  /\ UNCHANGED <<groupUsed, approvedRwa, issuerVars, poolVars, accessVars, revokeVars>>

UpdateEndTime(caller, id, end) ==
  /\ Editable(caller, id)
  /\ end > offerings[id].startTime /\ end > now
  /\ offerings[id].version < MaxVersion
  /\ offerings' = [offerings EXCEPT ![id].endTime = end,
                                    ![id].version = NextVersion(@)]
  /\ UNCHANGED <<groupUsed, approvedRwa, issuerVars, poolVars, accessVars, revokeVars, ledgerVars>>

SetPaused(caller, id, paused) ==
  /\ Editable(caller, id)
  /\ offerings' = [offerings EXCEPT ![id].paused = paused]
  /\ UNCHANGED <<groupUsed, approvedRwa, issuerVars, poolVars, accessVars, revokeVars, ledgerVars>>

SetLiquidityOperator(caller, id, operator) ==
  /\ Editable(caller, id)
  /\ operator # Zero
  /\ offerings' = [offerings EXCEPT ![id].liquidityOperator = operator]
  /\ UNCHANGED <<groupUsed, approvedRwa, issuerVars, poolVars, accessVars, revokeVars, ledgerVars>>

PoolReassigned(key) == TRUE                \* faulty variant: a pool changes hands
FreshPool(key) == poolToOffering[key] = 0

\* A pool of this hook, on the pair USDC / the offering's token, joins the
\* offering; the first one becomes its pool.
RegisterPool(caller, id, key) ==
  /\ Editable(caller, id)
  /\ key.hooks = Hook
  /\ key.tokens = {Usdc, offerings[id].rwa}
  /\ FreshPool(key)
  /\ poolToOffering' = [poolToOffering EXCEPT ![key] = id]
  /\ offerings' = [offerings EXCEPT ![id].poolId = IF @ = Zero THEN key ELSE @]
  /\ UNCHANGED <<groupUsed, approvedRwa, issuerVars, accessVars, revokeVars, ledgerVars>>

SetInvestorTier(caller, id, wallet, tier) ==
  /\ Editable(caller, id)
  /\ wallet # Zero /\ tier <= 2
  /\ investorTier' = [investorTier EXCEPT ![<<id, wallet>>] = tier]
  /\ UNCHANGED <<offeringVars, issuerVars, poolVars, revokeVars, ledgerVars>>

-----------------------------------------------------------------------------
(* Revocation *)

Revoke(wallet, id) ==
  /\ wallet # Zero
  /\ revocationEpoch[<<id, wallet>>] < MaxEpoch
  /\ revocationEpoch' = [revocationEpoch EXCEPT ![<<id, wallet>>] = @ + 1]
  /\ UNCHANGED <<restoredEpoch, restorations, offeringVars, issuerVars, poolVars,
                 accessVars, ledgerVars>>

RevokeWallet(caller, wallet) == caller = Platform /\ Revoke(wallet, 0)

RevokeOfferingWallet(caller, id, wallet) ==
  /\ id \in DOMAIN offerings
  /\ caller \in {offerings[id].issuer, Platform}
  /\ Revoke(wallet, id)

\* What a restore signature may authorize.
Restorations == [wallet : Wallets, id : 0..MaxOfferings, epoch : 0..MaxEpoch,
                 expiry : 0..MaxTime, nonce : RestoreNonces, signer : Accounts]

\* The digest is over the wallet's current epoch, so a signature made for
\* another epoch recovers to another account.
AnyEpoch(auth) == TRUE                     \* faulty variant: the epoch is not signed
CurrentEpoch(auth) == auth.epoch = revocationEpoch[<<auth.id, auth.wallet>>]

AheadOfEpoch(epoch) == epoch + 1           \* faulty variant: off by one
ThroughEpoch(epoch) == epoch

UnusedRestoreNonce(nonce) == \A r \in restorations : r.nonce # nonce

\* Anybody may submit the backend's signature.
RestoreWallet(auth) ==
  LET epoch == revocationEpoch[<<auth.id, auth.wallet>>] IN
  /\ epoch > restoredEpoch[<<auth.id, auth.wallet>>]
  /\ now <= auth.expiry
  /\ UnusedRestoreNonce(auth.nonce)
  /\ backendSigner # Zero
  /\ CurrentEpoch(auth)
  /\ auth.signer = backendSigner
  /\ restorations' = restorations \cup {auth}
  /\ restoredEpoch' = [restoredEpoch EXCEPT ![<<auth.id, auth.wallet>>] = ThroughEpoch(epoch)]
  /\ UNCHANGED <<revocationEpoch, offeringVars, issuerVars, poolVars, accessVars, ledgerVars>>

\* isPurchaseBlocked
PurchaseBlocked(id, wallet) ==
  \/ revocationEpoch[<<0, wallet>>] > restoredEpoch[<<0, wallet>>]
  \/ revocationEpoch[<<id, wallet>>] > restoredEpoch[<<id, wallet>>]

-----------------------------------------------------------------------------
(* The ledger's other callers *)

Register == Ledger!Register /\ UNCHANGED registryVars

\* The hook records a purchase in an offering's group.
HookRecordsSpend ==
  /\ \E w \in Wallets, id \in DOMAIN offerings, amount \in Amounts :
       Ledger!RecordSpend(Hook, w, offerings[id].groupId, offerings[id].periodId, amount)
  /\ UNCHANGED registryVars

Tick == Ledger!Tick /\ UNCHANGED registryVars

PlatformNext ==
  \/ \E issuer \in Accounts \cup {Zero}, allowed \in BOOLEAN :
       AuthorizeIssuer(Platform, issuer, allowed)
  \/ \E token \in Tokens, reviewed \in BOOLEAN : ReviewToken(Platform, token, reviewed)
  \/ \E w \in Wallets \cup {Zero} : RevokeWallet(Platform, w)

OfferingNext(caller, id) ==
  \/ \E cap \in Amounts : UpdateCap(caller, id, cap)
  \/ \E end \in 0..MaxTime : UpdateEndTime(caller, id, end)
  \/ \E paused \in BOOLEAN : SetPaused(caller, id, paused)
  \/ \E operator \in Accounts \cup {Zero} : SetLiquidityOperator(caller, id, operator)
  \/ \E key \in PoolKeys : RegisterPool(caller, id, key)
  \/ \E w \in Wallets \cup {Zero} :
       \/ \E tier \in 0..3 : SetInvestorTier(caller, id, w, tier)
       \/ RevokeOfferingWallet(caller, id, w)

IssuerNext(caller) ==
  \/ \E rwa \in Tokens, g \in Groups \cup {Zero}, p \in Periods, cap \in Amounts,
        start, end \in 0..MaxTime : CreateOffering(caller, rwa, g, p, cap, start, end)
  \/ \E id \in OfferingIds : OfferingNext(caller, id)

RegistryNext ==
  \/ PlatformNext
  \/ \E caller \in Accounts : IssuerNext(caller)
  \/ \E auth \in Restorations : RestoreWallet(auth)

Next == RegistryNext \/ Register \/ HookRecordsSpend \/ Tick

Spec == Init /\ [][Next]_vars

-----------------------------------------------------------------------------
(* Properties *)

\* Every registry variable stays in its type.
TypeOK ==
  /\ authorizedIssuer \subseteq Accounts
  /\ offerings \in Seq(Offerings) /\ Len(offerings) <= MaxOfferings
  /\ groupUsed \subseteq Groups
  /\ poolToOffering \in [PoolKeys -> 0..Len(offerings)]
  /\ tokenReviewed \subseteq Tokens
  /\ investorTier \in [OfferingIds \X Wallets -> 0..2]
  /\ revocationEpoch \in [(0..MaxOfferings) \X Wallets -> 0..MaxEpoch]
  /\ restoredEpoch \in [(0..MaxOfferings) \X Wallets -> 0..MaxEpoch]
  /\ restorations \subseteq Restorations
  /\ approvedRwa \subseteq Tokens

\* The cap an issuer sees on the registry is the cap the ledger enforces, in
\* USDC, and it covers what every allocation spent in the offering's group.
CapMirrored ==
  \A id \in DOMAIN offerings :
    LET o == offerings[id]
        policy == policyByGroupPeriod[<<o.groupId, o.periodId>>]
    IN  /\ policy = [cap |-> o.cap, usdc |-> Usdc]
        /\ highestSpendByGroupPeriod[<<o.groupId, o.periodId>>] <= o.cap

\* Two offerings never share an allocation group, so spend in one leaves the
\* budget of the other alone.
GroupsDisjoint ==
  \A i, j \in DOMAIN offerings :
    offerings[i].groupId = offerings[j].groupId => i = j

\* A pool serves the offering whose token it trades against USDC, and the pool
\* an offering shows is one of the pools that lead back to it.
PoolsLeadBack ==
  /\ \A key \in PoolKeys :
       poolToOffering[key] # 0 =>
         key.tokens = {Usdc, offerings[poolToOffering[key]].rwa}
  /\ \A id \in DOMAIN offerings :
       offerings[id].poolId # Zero => poolToOffering[offerings[id].poolId] = id

\* A change of an offering's cap or end raises its policy version, and the
\* version never goes back: a trade signed for the old terms no longer matches.
\* What the offering is (issuer, token, group, period, start) never changes.
TermsAreVersioned ==
  [][\A id \in DOMAIN offerings :
       LET old == offerings[id]
           new == offerings'[id]
       IN  /\ new.version >= old.version
           /\ <<new.cap, new.endTime>> # <<old.cap, old.endTime>> => new.version > old.version
           /\ <<new.issuer, new.rwa, new.groupId, new.periodId, new.startTime>>
                = <<old.issuer, old.rwa, old.groupId, old.periodId, old.startTime>>]_vars

\* Every revocation bites: right after it the wallet cannot buy, however many
\* times it was revoked and restored before.
RevocationBites ==
  [][\A id \in 0..Len(offerings), w \in Wallets :
       revocationEpoch'[<<id, w>>] # revocationEpoch[<<id, w>>] =>
         \A o \in DOMAIN offerings : (id \in {0, o}) => PurchaseBlocked(o, w)']_vars

\* A revocation is lifted only by a signature over its own epoch, and a nonce
\* lifts one revocation only: no old signature, of this wallet or another,
\* clears the flag.
RestoredBySignature ==
  /\ \A id \in 0..MaxOfferings, w \in Wallets :
       restoredEpoch[<<id, w>>] # 0 =>
         \E r \in restorations :
           r.wallet = w /\ r.id = id /\ r.epoch = restoredEpoch[<<id, w>>]
  /\ \A r, s \in restorations :
       r.nonce = s.nonce => r = s
=============================================================================
