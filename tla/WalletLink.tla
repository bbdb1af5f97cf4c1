----------------------------- MODULE WalletLink -----------------------------
(***************************************************************************)
(* Linking a wallet to the allocation of an enrolled human: a challenge    *)
(* the wallet signs, the registration the backend authorizes, the          *)
(* transaction that registers it, and the receipt the backend records.     *)
(* The demo identity, which issues authorizations from tables of its own   *)
(* in the same database, is the second issuer.                             *)
(*                                                                         *)
(* Enrollment, which this module extends, provides grants, AllocationLedger *)
(* the contract, of which the bindings, the nonces and the signer change   *)
(* here and nothing else is read.  Rows are numbered: a challenge's and a registration's random nonce is its    *)
(* row number, a transaction's hash its number.  The clock of the backend  *)
(* and of the chain is one.                                                *)
(***************************************************************************)
EXTENDS Enrollment

CONSTANTS
  Wallets,
  Group,              \* the configured allocation group
  Signer,             \* the account of the backend's signing key
  Signers,            \* the accounts the ledger's owner may name as signer
  CHALLENGE_TTL, AUTHORIZATION_TTL, DEMO_TTL,
  MaxChallenges,      \* bound: challenges of each issuer
  MaxRegistrations,   \* bound: authorizations issued
  MaxTxs              \* bound: registration transactions

ASSUME LinkAssumption ==
  /\ None \notin Allocations
  /\ {CHALLENGE_TTL, AUTHORIZATION_TTL, DEMO_TTL} \subseteq Nat
  /\ {MaxChallenges, MaxRegistrations, MaxTxs} \subseteq Nat
  /\ Signer \in Signers

VARIABLES
  challenges,      \* wallet_challenge: [grant, wallet, expires, status]
  association,     \* wallet_association: the allocation of a wallet, or None
  registrations,   \* registration_authorization rows
  demoIdentities,  \* demo_identity with its resume: [human, allocation, expires]
  demoChallenges,  \* demo_challenge: [identity, wallet, expires, status]
  demoWallet,      \* demo_wallet: the allocation of a wallet, or None
  signed,          \* the challenges their wallets signed: <<issuer, row>>
  authorizing,     \* authorization requests between their checks and the store
  txs,             \* registerWallet transactions: [nonce, status]
  observing,       \* receipts read and not yet recorded: [nonce, tx, status]
  allocationIdByWallet, usedNonce, backendSigner,
  otherLedger      \* the rest of the ledger: its owner, hook, policies and spend

Ledger == INSTANCE AllocationLedger WITH
  Groups <- {Group}, Periods <- {}, Tokens <- {}, Nonces <- 1..MaxRegistrations,
  Accounts <- Signers, Deployer <- Signer, Amounts <- {}, Zero <- None,
  owner <- otherLedger, authorizedHook <- otherLedger,
  policyByGroupPeriod <- otherLedger, spentByAllocation <- otherLedger,
  highestSpendByGroupPeriod <- otherLedger, quoteTokenByGroup <- otherLedger

enrollVars == <<enrollments, resumes, requests, resumed, cookie, tokens>>
worldVars  == <<challenges, association>>
demoVars   == <<demoIdentities, demoChallenges, demoWallet>>
ledgerVars == <<allocationIdByWallet, usedNonce, backendSigner, otherLedger>>
chainVars  == <<txs, ledgerVars>>
linkVars   == <<worldVars, demoVars, chainVars, registrations, signed, authorizing, observing>>
linkedVars == <<enrollVars, grants, now, linkVars>>

NothingLinked ==
  /\ challenges = <<>> /\ registrations = <<>>
  /\ association = [w \in Wallets |-> None]
  /\ demoIdentities = <<>> /\ demoChallenges = <<>>
  /\ demoWallet = [w \in Wallets |-> None]
  /\ signed = {} /\ authorizing = {} /\ observing = {}
  /\ txs = <<>>
  /\ allocationIdByWallet = [w \in Wallets |-> None]
  /\ usedNonce = {}
  /\ backendSigner = Signer
  /\ otherLedger = <<>>

LinkedInit == Init /\ NothingLinked

-----------------------------------------------------------------------------
(* The World issuer's store *)

\* grantFailure, at the time a handler read.
AnyGrant(g, at)  == TRUE                    \* faulty variant: not looked at again
GrantOpen(g, at) == grants[g].status = "open" /\ grants[g].expires > at

\* challengeRow and challengeFailure: the row is the open one of this grant and wallet.
OpenRows(g, w, at) ==
  {c \in DOMAIN challenges :
     /\ challenges[c].grant = g /\ challenges[c].wallet = w
     /\ challenges[c].status = "open" /\ challenges[c].expires > at}

\* openChallenge: a grant has one challenge, the new one supersedes the last.
WithChallenge(rows, new) ==
  Append([c \in DOMAIN rows |->
            IF rows[c].grant = new.grant /\ rows[c].status = "open"
              THEN [rows[c] EXCEPT !.status = "superseded"] ELSE rows[c]], new)

\* handleWalletChallenge
OpenChallenge(g, w) ==
  /\ GrantOpen(g, now)
  /\ Len(challenges) < MaxChallenges
  /\ challenges' = WithChallenge(challenges,
       [grant |-> g, wallet |-> w, expires |-> now + CHALLENGE_TTL, status |-> "open"])
  /\ UNCHANGED <<enrollVars, grants, now, association, demoVars, chainVars, registrations,
                 signed, authorizing, observing>>

\* The wallet's holder signs a challenge in the page.
Sign(c) ==
  /\ \/ c[1] = "world" /\ c[2] \in DOMAIN challenges
     \/ c[1] = "demo"  /\ c[2] \in DOMAIN demoChallenges
  /\ signed' = signed \cup {c}
  /\ UNCHANGED <<enrollVars, grants, now, worldVars, demoVars, chainVars, registrations,
                 authorizing, observing>>

\* recoverTypedDataAddress gives the wallet for its own signature of this challenge only.
SignedByWallet(c) == c \in signed

\* handleWalletAuthorization, up to its first await.
AskAuthorization(g, w) ==
  /\ GrantOpen(g, now)
  /\ \E c \in OpenRows(g, w, now) : SignedByWallet(<<"world", c>>)
  /\ authorizing' = authorizing \cup
       {[issuer |-> "world", grant |-> g, wallet |-> w, allocation |-> AllocationOf(g), at |-> now]}
  /\ UNCHANGED <<enrollVars, grants, now, worldVars, demoVars, chainVars, registrations,
                 signed, observing>>

\* The authorization expires a fixed time after the request was read.
ExpiryFromNow(at)  == now + AUTHORIZATION_TTL  \* faulty variant: from the store's time
ExpiryOf(at)       == at + AUTHORIZATION_TTL

Issued(p) == [wallet |-> p.wallet, allocation |-> p.allocation, expiry |-> ExpiryOf(p.at),
              status |-> "issued", tx |-> 0, issuer |-> p.issuer,
              source |-> IF p.issuer = "world" THEN p.grant ELSE p.identity]

\* wallet_association keeps a wallet with its first allocation.
AnyAssociation(w, a)   == TRUE              \* faulty variant: no check
KeepsAssociation(w, a) == association[w] \in {None, a}

\* consumeLink: the grant and whatever challenge is open for it by now, at the
\* time the request was read.
ConsumeLink(p) ==
  /\ p \in authorizing /\ p.issuer = "world"
  /\ GrantOpen(p.grant, p.at)
  /\ \E c \in OpenRows(p.grant, p.wallet, p.at) :
       /\ challenges' = [challenges EXCEPT ![c].status = "consumed"]
       /\ IF KeepsAssociation(p.wallet, p.allocation)
            THEN /\ Len(registrations) < MaxRegistrations
                 /\ registrations' = Append(registrations, Issued(p))
                 /\ association' = [association EXCEPT ![p.wallet] = p.allocation]
                 /\ grants' = [grants EXCEPT ![p.grant].status = "consumed"]
            ELSE UNCHANGED <<registrations, association, grants>>
  /\ authorizing' = authorizing \ {p}
  /\ UNCHANGED <<enrollVars, now, demoVars, chainVars, signed, observing>>

\* The request fails: the ledger cannot be read, the store refuses, a crash.
GiveUp(p) ==
  /\ p \in authorizing
  /\ authorizing' = authorizing \ {p}
  /\ UNCHANGED <<enrollVars, grants, now, worldVars, demoVars, chainVars, registrations,
                 signed, observing>>

-----------------------------------------------------------------------------
(* The demo issuer *)

\* activeIdentity: the demo identity in the browser of h, not expired.
ActiveIdentities(h) ==
  {i \in DOMAIN demoIdentities : demoIdentities[i].human = h /\ demoIdentities[i].expires > now}

\* newAllocationId is random: nobody has it yet.
NewAllocation(a) ==
  a \notin {enrollments[i].allocation : i \in DOMAIN enrollments}
             \cup {demoIdentities[i].allocation : i \in DOMAIN demoIdentities}

\* handleDemoStart
StartDemo(h, a) ==
  /\ ActiveIdentities(h) = {}
  /\ NewAllocation(a)
  /\ demoIdentities' = Append(demoIdentities,
       [human |-> h, allocation |-> a, expires |-> now + DEMO_TTL])
  /\ UNCHANGED <<enrollVars, grants, now, worldVars, demoChallenges, demoWallet, chainVars,
                 registrations, signed, authorizing, observing>>

\* handleDemoChallenge
DemoChallenge(h, w) ==
  /\ Len(demoChallenges) < MaxChallenges
  /\ \E i \in ActiveIdentities(h) :
       demoChallenges' = Append(demoChallenges,
         [identity |-> i, wallet |-> w, expires |-> now + CHALLENGE_TTL, status |-> "open"])
  /\ UNCHANGED <<enrollVars, grants, now, worldVars, demoIdentities, demoWallet, chainVars,
                 registrations, signed, authorizing, observing>>

\* DemoStore.openChallenge: the latest open challenge of the wallet, and only
\* when it is this identity's.
LatestDemoChallenge(i, w, at) ==
  LET open == {c \in DOMAIN demoChallenges :
                 /\ demoChallenges[c].wallet = w
                 /\ demoChallenges[c].status = "open" /\ demoChallenges[c].expires > at}
  IN  {c \in open : demoChallenges[c].identity = i /\ \A d \in open : d <= c}

\* handleDemoAuthorization, up to its first await.
AskDemoAuthorization(h, w) ==
  /\ \E i \in ActiveIdentities(h) :
       /\ \E c \in LatestDemoChallenge(i, w, now) : SignedByWallet(<<"demo", c>>)
       /\ authorizing' = authorizing \cup
            {[issuer |-> "demo", identity |-> i, wallet |-> w,
              allocation |-> demoIdentities[i].allocation, at |-> now]}
  /\ UNCHANGED <<enrollVars, grants, now, worldVars, demoVars, chainVars, registrations,
                 signed, observing>>

\* All the open challenges of the identity for the wallet are used at once.
UsedUp(rows, i, w) ==
  [c \in DOMAIN rows |->
     IF rows[c].wallet = w /\ rows[c].identity = i /\ rows[c].status = "open"
       THEN [rows[c] EXCEPT !.status = "used"] ELSE rows[c]]

\* consumeChallenge refuses a wallet that either issuer stored with another
\* allocation.
ConsumeDemoChallenge(p) ==
  /\ p \in authorizing /\ p.issuer = "demo"
  /\ LatestDemoChallenge(p.identity, p.wallet, p.at) # {}
  /\ KeepsAssociation(p.wallet, p.allocation)
  /\ demoWallet[p.wallet] \in {None, p.allocation}
  /\ Len(registrations) < MaxRegistrations
  /\ demoChallenges' = UsedUp(demoChallenges, p.identity, p.wallet)
  /\ demoWallet' = [demoWallet EXCEPT ![p.wallet] = p.allocation]
  /\ registrations' = Append(registrations, Issued(p))
  /\ authorizing' = authorizing \ {p}
  /\ UNCHANGED <<enrollVars, grants, now, worldVars, demoIdentities, chainVars, signed, observing>>

-----------------------------------------------------------------------------
(* The chain *)

Authorization(n) ==
  [wallet |-> registrations[n].wallet, allocationId |-> registrations[n].allocation,
   groupId |-> Group, expiry |-> registrations[n].expiry, nonce |-> n, signer |-> Signer]

\* inspectRegistration: an authorization in time for an unbound wallet.
ReadyToRegister(n) ==
  /\ now <= registrations[n].expiry
  /\ allocationIdByWallet[registrations[n].wallet] = None

\* submitRegistration sends what it simulated without an error.
SendRegister(n) ==
  /\ Len(txs) < MaxTxs
  /\ ReadyToRegister(n)
  /\ n \notin usedNonce /\ backendSigner = Signer
  /\ txs' = Append(txs, [nonce |-> n, status |-> "pending"])
  /\ UNCHANGED <<enrollVars, grants, now, worldVars, demoVars, registrations, signed,
                 authorizing, observing, ledgerVars>>

\* A block includes the transaction, and it succeeds or reverts (a check of
\* the ledger, the gas).
Mine(t) ==
  /\ txs[t].status = "pending"
  /\ \/ /\ Ledger!RegisterWallet(Authorization(txs[t].nonce))
        /\ txs' = [txs EXCEPT ![t].status = "success"]
     \/ /\ txs' = [txs EXCEPT ![t].status = "reverted"]
        /\ UNCHANGED <<ledgerVars, now>>
  /\ UNCHANGED <<enrollVars, grants, worldVars, demoVars, registrations, signed,
                 authorizing, observing>>

\* The ledger's owner names another signer.
RotateSigner(s) ==
  /\ Ledger!SetBackendSigner(otherLedger, s)
  /\ UNCHANGED <<enrollVars, grants, worldVars, demoVars, txs, registrations, signed,
                 authorizing, observing>>

-----------------------------------------------------------------------------
(* Receipts *)

\* rpcRegistrationReader's receipt; what it reads of the ledger after the
\* receipt only grows, so the verdict reads it.
Observed(n, t) == [nonce |-> n, tx |-> t, status |-> txs[t].status]

\* handleRegistrationReceipt reads the transaction somebody names.
ReadReceipt(n, t) ==
  /\ ~(registrations[n].status = "confirmed" /\ registrations[n].tx = t)
  /\ observing' = observing \cup {Observed(n, t)}
  /\ UNCHANGED <<enrollVars, grants, now, worldVars, demoVars, chainVars, registrations,
                 signed, authorizing>>

\* chainRegistrationVerdict on the receipt and on the binding and the nonce
\* read after it.
AnyEvent(o)     == TRUE                     \* faulty variant: any registration's event
EventMatches(o) == txs[o.tx].nonce = o.nonce

Verdict(o) ==
  CASE o.status = "pending"  -> "submitted"
    [] o.status = "reverted" -> "failed"
    [] OTHER ->
         IF /\ EventMatches(o)
            /\ allocationIdByWallet[registrations[o.nonce].wallet] = registrations[o.nonce].allocation
            /\ o.nonce \in usedNonce
           THEN "confirmed" ELSE "verification_failed"

\* advanceRegistration leaves the final statuses.
AnyStatus(status)  == TRUE                  \* faulty variant: a late answer wins
Unsettled(status)  == status \in {"issued", "submitted"}

RecordReceipt(o) ==
  /\ o \in observing
  /\ registrations' =
       IF Unsettled(registrations[o.nonce].status)
         THEN [registrations EXCEPT ![o.nonce].status = Verdict(o), ![o.nonce].tx = o.tx]
         ELSE registrations
  /\ observing' = observing \ {o}
  /\ UNCHANGED <<enrollVars, grants, now, worldVars, demoVars, chainVars, signed, authorizing>>

-----------------------------------------------------------------------------

EnrollmentStep == Next /\ UNCHANGED linkVars

World ==
  \/ \E h \in Humans : \E g \in tokens[h], w \in Wallets : OpenChallenge(g, w) \/ AskAuthorization(g, w)
  \/ \E p \in authorizing : ConsumeLink(p) \/ GiveUp(p)

Demo ==
  \/ \E h \in Humans :
       \/ \E a \in Allocations : StartDemo(h, a)
       \/ \E w \in Wallets : DemoChallenge(h, w) \/ AskDemoAuthorization(h, w)
  \/ \E p \in authorizing : ConsumeDemoChallenge(p)

Holder ==
  \/ \E c \in {"world", "demo"} \X (1..MaxChallenges) : Sign(c)
  \/ \E n \in DOMAIN registrations : SendRegister(n)

Chain ==
  \/ \E t \in DOMAIN txs : Mine(t)
  \/ \E s \in Signers : RotateSigner(s)

Receipts ==
  \/ \E n \in DOMAIN registrations, t \in DOMAIN txs : ReadReceipt(n, t)
  \/ \E o \in observing : RecordReceipt(o)

LinkedNext == EnrollmentStep \/ World \/ Demo \/ Holder \/ Chain \/ Receipts

LinkedSpec == LinkedInit /\ [][LinkedNext]_linkedVars

-----------------------------------------------------------------------------
(* Properties *)

WorldIssued == {n \in DOMAIN registrations : registrations[n].issuer = "world"}

\* What the two issuers and the chain hold stays in its type, and a transaction
\* is of a stored registration.
LinkedTypeOK ==
  /\ association \in [Wallets -> Allocations \cup {None}]
  /\ demoWallet \in [Wallets -> Allocations \cup {None}]
  /\ demoIdentities \in Seq([human : Humans, allocation : Allocations, expires : Nat])
  /\ registrations \in Seq([wallet : Wallets, allocation : Allocations, expiry : Nat,
                            status : {"issued", "submitted", "confirmed", "failed",
                                      "verification_failed"},
                            tx : Nat, issuer : {"world", "demo"}, source : Nat])
  /\ txs \in Seq([nonce : Nat, status : {"pending", "success", "reverted"}])
  /\ \A t \in DOMAIN txs : txs[t].nonce \in DOMAIN registrations
  /\ allocationIdByWallet \in [Wallets -> Allocations \cup {None}]

\* A row says confirmed only for a registration the chain has: its own
\* transaction succeeded, its wallet is bound to its allocation and its nonce
\* is used, whatever transactions the receipts named and however late.
ConfirmedIsOnChain ==
  \A n \in DOMAIN registrations :
    LET r == registrations[n] IN
    r.status = "confirmed" =>
      /\ txs[r.tx] = [nonce |-> n, status |-> "success"]
      /\ allocationIdByWallet[r.wallet] = r.allocation
      /\ n \in usedNonce

\* A grant pays for one authorization, however many requests carry it at once.
OneAuthorizationPerGrant ==
  \A m, n \in WorldIssued : registrations[m].source = registrations[n].source => m = n

\* However long its request is delayed, an authorization ends within its own
\* lifetime after the grant that paid for it.
AuthorizationEndsWithGrant ==
  \A n \in WorldIssued :
    registrations[n].expiry < grants[registrations[n].source].expires + AUTHORIZATION_TTL

\* World's authorizations for one wallet all name one allocation.
WorldKeepsAllocation ==
  \A m, n \in WorldIssued :
    registrations[m].wallet = registrations[n].wallet =>
      registrations[m].allocation = registrations[n].allocation

\* The demo identity never authorizes a wallet for another allocation than the
\* wallet already has an authorization for, from either issuer: what a human's
\* demo browser starts, forgets and starts again does not split a wallet.
DemoKeepsAllocation ==
  \A m, n \in DOMAIN registrations :
    /\ m < n /\ registrations[n].issuer = "demo"
    /\ registrations[m].wallet = registrations[n].wallet
    => registrations[m].allocation = registrations[n].allocation

\* World never authorizes one wallet for two allocations, and the demo identity
\* never for another one than the wallet was authorized for before.
WalletKeepsAllocation == WorldKeepsAllocation /\ DemoKeepsAllocation

\* A confirmed registration stays confirmed, with its transaction.
ConfirmedIsFinal ==
  [][\A n \in DOMAIN registrations :
       registrations[n].status = "confirmed" => registrations'[n] = registrations[n]]_linkedVars

\* A wallet stored for an allocation gets no authorization for another one
\* (docs/development.md says it is rejected).
StoredWalletKeepsAllocation ==
  \A m, n \in DOMAIN registrations :
    registrations[m].wallet = registrations[n].wallet =>
      registrations[m].allocation = registrations[n].allocation
=============================================================================
