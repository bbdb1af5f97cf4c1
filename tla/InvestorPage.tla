----------------------------- MODULE InvestorPage -----------------------------
(***************************************************************************)
(* /invest: the component InvestorExperience with what it calls.           *)
(*                                                                         *)
(* A flow is one run of verifyIdentity, linkWallet or registerDemoWallet:  *)
(* a chain of awaits over the values of the render it was started from.    *)
(* Its wallet is the one connected at the click; the page's state is one   *)
(* for all flows and nothing resets it when the wallet changes.  Several   *)
(* flows may be under way, as far as the buttons let them.                 *)
(*                                                                         *)
(* WorldProof has the request of a flow in detail and WalletLink what the  *)
(* backend authorizes; here a request is opened, waits, and is answered,   *)
(* and the backend is what the page can see of it.  The chain is the       *)
(* binding of each wallet.                                                 *)
(***************************************************************************)
EXTENDS Integers, FiniteSets

CONSTANTS
  Wallets,
  Infrastructure,   \* the allocation signer and the contract owner
  AllowedWallets,   \* RWA_SEPOLIA_DEMO_ALLOWED_WALLETS
  MaxFlows,         \* bound: flows the user starts
  MaxSwitches,      \* bound: changes of the account, the network or the session
  None

ASSUME PageAssumption ==
  /\ MaxFlows \in Nat /\ MaxSwitches \in Nat
  /\ Infrastructure \subseteq Wallets /\ AllowedWallets \subseteq Wallets
  /\ None \notin Wallets \cup {"world", "demo", "registered", "linked", "pending", "failed", "success", "reverted"}

Flows == 1..MaxFlows

VARIABLES
  address, onSepolia,      \* useAccount
  switches,                \* changes made so far
  status,                  \* statusQuery: "unread", "unready" or "ready"
  identityRead,            \* identityQuery
  linkedRead,              \* wallets whose polled allocation is not zero
  phase,                   \* enrollmentPhase
  shown,                   \* handoff: the flow whose QR code is shown, or 0
  verifying, linking,
  demoConfirm, demoChallenge, demoLinked,   \* the presentation demo; a challenge is its wallet
  current,                 \* abortRef: the flow of the newest World request
  kind, wallet, stage, outcome,             \* of each flow
  snapshot,                \* the status of the render a demo flow was started from
  aborted,                 \* its signal
  cancelled,               \* the flows whose request the user cancelled
  preflights,              \* wallets whose presentation check is under way
  live,                    \* the challenge on the page has not expired
  identity,                \* what /api/world/identity would answer
  tx,                      \* the registerWallet transaction of each flow
  bound                    \* allocationIdByWallet

walletVars == <<address, onSepolia, switches>>
readVars   == <<status, identityRead, linkedRead>>
demoVars   == <<demoConfirm, demoChallenge, demoLinked, preflights, live>>
busyVars   == <<verifying, linking>>
flowVars   == <<current, kind, wallet, snapshot, aborted, cancelled>>
chainVars  == <<tx, bound>>
vars == <<walletVars, readVars, demoVars, busyVars, flowVars, chainVars,
          phase, shown, stage, outcome, identity>>

Ended  == {"done", "lost"}
Active == {f \in Flows : stage[f] \notin Ended \cup {"unused"}}

\* The World flows of one browser share its human's allocation; the demo has its own.
Allocation(f) == IF kind[f] = "demo" THEN "demo" ELSE "world"

Init ==
  /\ address \in Wallets \cup {None} /\ onSepolia \in BOOLEAN /\ switches = 0
  /\ status = "unread" /\ identityRead = "unverified" /\ linkedRead = {}
  /\ phase = "idle" /\ shown = 0 /\ current = 0
  /\ verifying = FALSE /\ linking = FALSE
  /\ demoConfirm = FALSE /\ demoChallenge = None /\ demoLinked = FALSE
  /\ preflights = {} /\ live = FALSE
  /\ kind = [f \in Flows |-> None] /\ wallet = [f \in Flows |-> None]
  /\ snapshot = [f \in Flows |-> None]
  /\ stage = [f \in Flows |-> "unused"] /\ outcome = [f \in Flows |-> None]
  /\ aborted = [f \in Flows |-> FALSE] /\ cancelled = {}
  /\ identity \in {"unverified", "verified"}
  /\ tx = [f \in Flows |-> None]
  /\ bound = [w \in Wallets |-> None]

-----------------------------------------------------------------------------
(* The wallet and the queries *)

\* Connect, disconnect or choose another account.
ChooseAccount(a) ==
  /\ a # address /\ switches < MaxSwitches
  /\ address' = a /\ switches' = switches + 1
  /\ UNCHANGED <<onSepolia, readVars, demoVars, busyVars, flowVars, chainVars,
                 phase, shown, stage, outcome, identity>>

\* switchToSepolia, or the wallet's own network menu.
SwitchNetwork ==
  /\ switches < MaxSwitches
  /\ onSepolia' = ~onSepolia /\ switches' = switches + 1
  /\ UNCHANGED <<address, readVars, demoVars, busyVars, flowVars, chainVars,
                 phase, shown, stage, outcome, identity>>

\* /api/product/status answers; "ready" means registrationReady, with the roles.
StatusAnswered ==
  /\ \E answer \in {"unready", "ready"} : answer # status /\ status' = answer
  /\ UNCHANGED <<walletVars, identityRead, linkedRead, demoVars, busyVars, flowVars, chainVars,
                 phase, shown, stage, outcome, identity>>

\* A query keeps its last answer when a refetch fails.
IdentityAnswered ==
  /\ identityRead # identity /\ identityRead' = identity
  /\ UNCHANGED <<walletVars, status, linkedRead, demoVars, busyVars, flowVars, chainVars,
                 phase, shown, stage, outcome, identity>>

\* allocationIdByWallet of the connected wallet, every four seconds.
Poll ==
  /\ status = "ready" /\ address # None /\ bound[address] # None
  /\ address \notin linkedRead /\ linkedRead' = linkedRead \cup {address}
  /\ UNCHANGED <<walletVars, status, identityRead, demoVars, busyVars, flowVars, chainVars,
                 phase, shown, stage, outcome, identity>>

\* The saved session expires, or this browser verifies in another tab.
SessionChanges ==
  /\ switches < MaxSwitches /\ switches' = switches + 1
  /\ \/ identity = "verified" /\ identity' = "expired"
     \/ identity # "verified" /\ identity' = "verified"
  /\ UNCHANGED <<address, onSepolia, readVars, demoVars, busyVars, flowVars, chainVars,
                 phase, shown, stage, outcome>>

-----------------------------------------------------------------------------
(* What a render shows *)

linked        == address \in linkedRead
demoForWallet == address # None /\ demoChallenge = address

\* infrastructureRole: unknown until the status is read.
role == status = "ready" /\ address \in Infrastructure

\* enrollmentButton: the main button is enabled.
MainEnabled ==
  /\ ~role /\ ~linked
  /\ address # None /\ onSepolia
  /\ phase \in {"idle", "failed"}
  /\ ~demoForWallet

\* "Continue and register this wallet".
LinkEnabled ==
  /\ address # None /\ onSepolia
  /\ ~linking /\ identityRead = "verified"
  /\ ~role /\ ~demoForWallet

UseDemoEnabled ==
  /\ address # None /\ onSepolia
  /\ ~role /\ ~demoForWallet /\ ~demoLinked

-----------------------------------------------------------------------------
(* How a flow ends *)

\* enrollmentPhase after a flow: a failed demo registration leaves it as it was.
PhaseAfter(f, why) ==
  IF kind[f] = "demo" THEN phase
  ELSE IF why = "registered" THEN "idle"
  ELSE IF kind[f] = "continue" \/ stage[f] \in {"request", "waiting", "proof"} THEN "failed"
  ELSE "awaiting_signature"

OnlyWhenRegistered(f, why) ==               \* faulty variant: an error leaves the button busy
  linking' = (linking /\ ~(kind[f] # "verify" /\ why = "registered"))
LinkingEnds(f, why) ==
  linking' = (linking /\ kind[f] = "verify")

\* result.stage of a flow that failed: World's part of it, or what came after.
Result(f, why) ==
  IF why = "failed" /\ stage[f] \in {"request", "waiting", "proof"} THEN "unverified" ELSE why

\* The statements after the await chain of a flow.
End(f, why) ==
  /\ stage' = [stage EXCEPT ![f] = "done"]
  /\ outcome' = [outcome EXCEPT ![f] = Result(f, why)]
  /\ verifying' = (verifying /\ kind[f] # "verify")
  /\ LinkingEnds(f, why)
  /\ shown' = IF kind[f] = "demo" THEN shown ELSE 0
  /\ phase' = PhaseAfter(f, why)

\* An await outside every try threw: nothing after it runs.
Lose(f) ==
  /\ stage' = [stage EXCEPT ![f] = "lost"]
  /\ UNCHANGED <<outcome, busyVars, shown, phase>>

GoOn(f, next) ==
  /\ stage' = [stage EXCEPT ![f] = next]
  /\ UNCHANGED <<outcome, busyVars>>

DemoRegistered ==
  /\ demoLinked' = TRUE /\ demoChallenge' = None
  /\ UNCHANGED <<demoConfirm, preflights, live>>

-----------------------------------------------------------------------------
(* Clicks *)

NextFlow(f) ==
  /\ stage[f] = "unused"
  /\ \A g \in 1..(f - 1) : stage[g] # "unused"

Begin(f, k) ==
  /\ NextFlow(f)
  /\ kind' = [kind EXCEPT ![f] = k]
  /\ wallet' = [wallet EXCEPT ![f] = address]
  /\ snapshot' = IF k = "demo" THEN [snapshot EXCEPT ![f] = status] ELSE snapshot
  /\ UNCHANGED <<outcome, cancelled>>

\* worldRequest: the previous request is withdrawn.
Request(f) ==
  /\ stage' = [stage EXCEPT ![f] = "request"]
  /\ current' = f
  /\ aborted' = IF current = 0 THEN aborted ELSE [aborted EXCEPT ![current] = TRUE]
  /\ shown' = 0 /\ phase' = "verifying"

\* The main button, for an identity that is not verified yet: verifyIdentity.
VerifyIdentity(f) ==
  /\ MainEnabled /\ identityRead # "verified"
  /\ Begin(f, "verify") /\ Request(f)
  /\ verifying' = TRUE
  /\ UNCHANGED <<linking, walletVars, readVars, demoVars, chainVars, identity>>

\* Either button, for a verified identity: linkWallet.
LinkWallet(f) ==
  /\ \/ MainEnabled /\ identityRead = "verified"
     \/ LinkEnabled
  /\ Begin(f, "continue") /\ Request(f)
  /\ linking' = TRUE
  /\ UNCHANGED <<verifying, walletVars, readVars, demoVars, chainVars, identity>>

\* "Sign and register this wallet": registerDemoWallet.
RegisterDemoWallet(f) ==
  /\ demoForWallet /\ ~linked /\ ~demoLinked /\ ~linking
  /\ onSepolia /\ ~role
  /\ Begin(f, "demo")
  /\ stage' = [stage EXCEPT ![f] = "signing"]
  /\ linking' = TRUE
  /\ UNCHANGED <<current, aborted, shown, phase, verifying, walletVars, readVars, demoVars,
                 chainVars, identity>>

\* "Cancel verification", under the QR code.
OnlyHide == UNCHANGED aborted               \* faulty variant: the request is not withdrawn
AbortCurrent == aborted' = [aborted EXCEPT ![current] = TRUE]

Cancel ==
  /\ shown # 0
  /\ AbortCurrent
  /\ cancelled' = cancelled \cup {shown}
  /\ UNCHANGED <<current, kind, wallet, snapshot, walletVars, readVars, demoVars, busyVars,
                 chainVars, phase, shown, stage, outcome, identity>>

\* "Use demo verification for this presentation", then "Confirm demo verification".
UseDemo ==
  /\ UseDemoEnabled /\ ~demoConfirm /\ demoConfirm' = TRUE
  /\ UNCHANGED <<demoChallenge, demoLinked, preflights, live, walletVars, readVars, busyVars,
                 flowVars, chainVars, phase, shown, stage, outcome, identity>>

StartDemoCheck ==
  /\ demoConfirm /\ ~demoForWallet
  /\ address # None /\ onSepolia /\ ~role
  /\ demoConfirm' = FALSE
  /\ preflights' = preflights \cup {address}
  /\ UNCHANGED <<demoChallenge, demoLinked, live, walletVars, readVars, busyVars,
                 flowVars, chainVars, phase, shown, stage, outcome, identity>>

-----------------------------------------------------------------------------
(* The presentation check *)

\* assessDemoWallet, for the wallets it may give a challenge.
Approved(w)  == w \in AllowedWallets \ Infrastructure

\* The answer is for wallet w, whichever is connected when it comes.
PreflightAnswered(w) ==
  /\ w \in preflights /\ preflights' = preflights \ {w}
  /\ \/ /\ Approved(w) /\ bound[w] = "demo"
        /\ demoLinked' = TRUE /\ demoChallenge' = None /\ UNCHANGED live
     \/ /\ Approved(w) /\ bound[w] = None
        /\ demoLinked' = FALSE /\ demoChallenge' = w /\ live' = TRUE
     \/ /\ demoChallenge' = None               \* refused, or the ledger not reached
        /\ UNCHANGED <<demoLinked, live>>
     \/ UNCHANGED <<demoLinked, demoChallenge, live>>      \* the fetch failed
  /\ UNCHANGED <<demoConfirm, walletVars, readVars, busyVars, flowVars, chainVars,
                 phase, shown, stage, outcome, identity>>

\* CHALLENGE_TTL_SECONDS passed.
ChallengeExpires ==
  /\ live /\ live' = FALSE
  /\ UNCHANGED <<demoConfirm, demoChallenge, demoLinked, preflights, walletVars, readVars,
                 busyVars, flowVars, chainVars, phase, shown, stage, outcome, identity>>

-----------------------------------------------------------------------------
(* The steps of a flow *)

\* The request is opened and its QR code shown, or it is not.
RequestOpened(f) ==
  /\ stage[f] = "request"
  /\ \/ ~aborted[f] /\ GoOn(f, "waiting") /\ shown' = f /\ UNCHANGED phase
     \/ End(f, "failed")
  /\ UNCHANGED <<walletVars, readVars, demoVars, flowVars, chainVars, identity>>

\* World App answers, perhaps while the user cancels; or the request ends without a proof.
ProofReceived(f) ==
  /\ stage[f] = "waiting"
  /\ \/ GoOn(f, "proof") /\ shown' = 0 /\ UNCHANGED phase
     \/ End(f, "failed")
  /\ UNCHANGED <<walletVars, readVars, demoVars, flowVars, chainVars, identity>>

\* /api/world/enroll or /api/world/continue: its answer counts only if the
\* request was not withdrawn meanwhile.
AnswerCounts(f)  == ~aborted[f]

ProofAnswered(f) ==
  /\ stage[f] = "proof"
  /\ \/ kind[f] = "verify" /\ identity' = "verified"
     \/ UNCHANGED identity
  /\ \/ /\ AnswerCounts(f) /\ identity' = "verified"
        /\ IF kind[f] = "verify"
             THEN GoOn(f, "identity") /\ UNCHANGED <<shown, phase>>
             ELSE GoOn(f, "signing") /\ shown' = 0 /\ phase' = "awaiting_signature"
     \/ End(f, "failed")
     \/ Lose(f)
  /\ UNCHANGED <<walletVars, readVars, demoVars, flowVars, chainVars>>

\* The authorize callback of verifyIdentity first reads the identity again.
IdentityRefetched(f) ==
  /\ stage[f] = "identity"
  /\ identityRead' \in {identityRead, identity}
  /\ GoOn(f, "signing") /\ shown' = 0 /\ phase' = "awaiting_signature"
  /\ UNCHANGED <<walletVars, status, linkedRead, demoVars, flowVars, chainVars, identity>>

\* The challenge is signed by the account connected now; the backend
\* recovers it, and only the flow's own wallet passes.
SignatureMade(f) ==
  /\ stage[f] = "signing"
  /\ \/ address = wallet[f] /\ GoOn(f, "authorizing") /\ UNCHANGED <<shown, phase>>
     \/ End(f, "failed")
     \/ kind[f] # "demo" /\ Lose(f)
  /\ UNCHANGED <<walletVars, readVars, demoVars, flowVars, chainVars, identity>>

\* /api/world/wallet-authorization
Authorized(f) ==
  /\ stage[f] = "authorizing" /\ kind[f] # "demo"
  /\ \/ /\ GoOn(f, "checking") /\ UNCHANGED shown
        /\ phase' = IF kind[f] = "verify" THEN "awaiting_transaction" ELSE phase
     \/ End(f, "failed")
     \/ Lose(f)
  /\ UNCHANGED <<walletVars, readVars, demoVars, flowVars, chainVars, identity>>

\* /api/invest/demo, action authorize
DemoAuthorized(f) ==
  /\ stage[f] = "authorizing" /\ kind[f] = "demo"
  /\ \/ /\ Approved(wallet[f]) /\ bound[wallet[f]] = None /\ live
        /\ GoOn(f, "checking") /\ UNCHANGED <<shown, phase, demoVars>>
     \/ /\ Approved(wallet[f]) /\ bound[wallet[f]] = "demo" /\ live
        /\ End(f, "linked")
        /\ demoLinked' = TRUE
        /\ UNCHANGED <<demoConfirm, demoChallenge, preflights, live>>
     \/ /\ Approved(wallet[f]) /\ bound[wallet[f]] \in {None, "demo"} /\ ~live
        /\ End(f, "expired") /\ UNCHANGED demoVars
     \/ End(f, "failed") /\ UNCHANGED demoVars
     \/ Lose(f) /\ UNCHANGED demoVars
  /\ UNCHANGED <<walletVars, readVars, flowVars, chainVars, identity>>

\* The status registerAuthorized and linkWallet go by.
StatusOf(f) == IF kind[f] = "demo" THEN snapshot[f] ELSE status'

\* registrationPreflight, then inspectRegistration and the simulation of
\* submitRegistration.  A World flow reads the status again first.
Checked(f) ==
  /\ stage[f] = "checking"
  /\ IF kind[f] = "demo" THEN UNCHANGED status
                         ELSE status' \in {status, "unready", "ready"}
  /\ \/ /\ StatusOf(f) = "ready" /\ bound[wallet[f]] = None
        /\ GoOn(f, "confirming") /\ UNCHANGED <<shown, phase, demoVars>>
     \/ /\ StatusOf(f) = "ready" /\ bound[wallet[f]] = Allocation(f)
        /\ End(f, "registered")
        /\ IF kind[f] = "demo" THEN DemoRegistered ELSE UNCHANGED demoVars
     \/ End(f, "failed") /\ UNCHANGED demoVars
  /\ UNCHANGED <<walletVars, identityRead, linkedRead, flowVars, chainVars, identity>>

\* The user confirms registerWallet, or the wallet does not send it.
Sent(f) ==
  /\ stage[f] = "confirming"
  /\ \/ /\ tx' = [tx EXCEPT ![f] = "pending"]
        /\ GoOn(f, "mining") /\ UNCHANGED shown
        /\ phase' = IF kind[f] = "continue" THEN phase ELSE "awaiting_transaction"
     \/ End(f, "failed") /\ UNCHANGED tx
  /\ UNCHANGED <<walletVars, readVars, demoVars, flowVars, bound, identity>>

\* registerWallet on chain; it also reverts when the authorization expired.
Mine(f) ==
  /\ tx[f] = "pending"
  /\ \/ /\ bound[wallet[f]] \in {None, Allocation(f)}
        /\ tx' = [tx EXCEPT ![f] = "success"]
        /\ bound' = [bound EXCEPT ![wallet[f]] = Allocation(f)]
     \/ tx' = [tx EXCEPT ![f] = "reverted"] /\ UNCHANGED bound
  /\ UNCHANGED <<walletVars, readVars, demoVars, busyVars, flowVars,
                 phase, shown, stage, outcome, identity>>

\* waitForTransactionReceipt: the receipt, or its own timeout.
PendingIsRegistered(f) == End(f, "registered")      \* faulty variant
StillPending(f)        == End(f, "pending")

TimesOut(f)      == tx[f] = "pending"

ReceiptRead(f) ==
  /\ stage[f] = "mining"
  /\ \/ tx[f] = "success" /\ GoOn(f, "reading") /\ UNCHANGED <<shown, phase>>
     \/ tx[f] = "reverted" /\ End(f, "failed")
     \/ TimesOut(f) /\ StillPending(f)
  /\ UNCHANGED <<walletVars, readVars, demoVars, flowVars, chainVars, identity>>

\* chainRegistrationVerdict, over the binding and the nonce read again.
VerdictRead(f) ==
  /\ stage[f] = "reading"
  /\ \/ bound[wallet[f]] = Allocation(f) /\ GoOn(f, "posting") /\ UNCHANGED <<shown, phase>>
     \/ End(f, "failed")
  /\ UNCHANGED <<walletVars, readVars, demoVars, flowVars, chainVars, identity>>

\* The receipt is posted outside any try, and the allocation read again.
ReceiptPosted(f) ==
  /\ stage[f] = "posting"
  /\ \/ /\ End(f, "registered")
        /\ IF kind[f] = "demo" THEN DemoRegistered ELSE UNCHANGED demoVars
        /\ \/ linkedRead' = linkedRead \cup {w \in {address} \ {None} : bound[w] # None}
           \/ UNCHANGED linkedRead
     \/ Lose(f) /\ UNCHANGED <<demoVars, linkedRead>>
  /\ UNCHANGED <<walletVars, status, identityRead, flowVars, chainVars, identity>>

\* The awaits that end by themselves, and the two that wait for the wallet's user.
Awaited(f) ==
  \/ RequestOpened(f) \/ ProofReceived(f) \/ ProofAnswered(f) \/ IdentityRefetched(f)
  \/ Authorized(f) \/ DemoAuthorized(f) \/ Checked(f)
  \/ ReceiptRead(f) \/ VerdictRead(f) \/ ReceiptPosted(f)

Prompted(f) == SignatureMade(f) \/ Sent(f)

Step(f) == Awaited(f) \/ Prompted(f)

Next ==
  \/ \E a \in Wallets \cup {None} : ChooseAccount(a)
  \/ SwitchNetwork \/ StatusAnswered \/ IdentityAnswered \/ Poll \/ SessionChanges
  \/ Cancel \/ UseDemo \/ StartDemoCheck \/ ChallengeExpires
  \/ \E w \in Wallets : PreflightAnswered(w)
  \/ \E f \in Flows :
       \/ VerifyIdentity(f) \/ LinkWallet(f) \/ RegisterDemoWallet(f)
       \/ Step(f) \/ Mine(f)

Spec == Init /\ [][Next]_vars

-----------------------------------------------------------------------------
(* Properties *)

Stages == {"unused", "request", "waiting", "proof", "identity", "signing", "authorizing",
           "checking", "confirming", "mining", "reading", "posting"} \cup Ended

\* Type correctness.
TypeOK ==
  /\ address \in Wallets \cup {None} /\ onSepolia \in BOOLEAN /\ switches \in 0..MaxSwitches
  /\ status \in {"unread", "unready", "ready"}
  /\ {identity, identityRead} \subseteq {"unverified", "verified", "expired"}
  /\ linkedRead \subseteq {w \in Wallets : bound[w] # None}
  /\ phase \in {"idle", "verifying", "awaiting_signature", "awaiting_transaction", "failed"}
  /\ shown \in {0, current} /\ current \in 0..MaxFlows
  /\ {verifying, linking, demoConfirm, demoLinked, live} \subseteq BOOLEAN
  /\ demoChallenge \in AllowedWallets \cup {None} /\ preflights \subseteq Wallets
  /\ stage \in [Flows -> Stages]
  /\ outcome \in [Flows -> {None, "registered", "linked", "expired", "pending", "unverified", "failed"}]
  /\ tx \in [Flows -> {None, "pending", "success", "reverted"}]
  /\ bound \in [Wallets -> {None, "world", "demo"}]

\* A flow that reports its wallet registered, or linked already, is about a
\* wallet the ledger binds to the allocation of that flow: a transaction that
\* is still pending, reverted, or was taken over by another flow's is not.
ReportedIsOnChain ==
  \A f \in Flows : outcome[f] \in {"registered", "linked"} => bound[wallet[f]] = Allocation(f)

\* "A cancelled or failed request stops there": whatever was in flight when
\* the user cancelled, nothing is asked of the wallet after it.
CancelledStopsThere ==
  \A f \in cancelled : stage[f] \in {"waiting", "proof"} \cup Ended /\ tx[f] = None

\* The phase is the main button's: it is disabled and asks for a signature or a
\* transaction.  Two ends of a flow leave it so, with no flow behind it: of a
\* verification whose wallet was not registered, and of a demo flow that sent its
\* transaction.
LeftBehind ==
  \/ /\ phase = "awaiting_signature"
     /\ \E f \in Flows : kind[f] = "verify" /\ outcome[f] \in {"pending", "failed"}
  \/ /\ phase = "awaiting_transaction"
     /\ \E f \in Flows : kind[f] = "demo" /\ tx[f] # None

PhaseBusy == phase \notin {"idle", "failed"} /\ ~LeftBehind

Lost == \E f \in Flows : stage[f] = "lost"

\* When nothing is under way and no await was lost, no QR code is left over and
\* no button busy, in whatever order overlapping flows ended; but for the main
\* button after the two ends that leave it behind.
IdleWhenDone ==
  Active = {} /\ ~Lost => ~verifying /\ ~linking /\ shown = 0 /\ ~PhaseBusy

AsksWallet == \E f \in Flows : stage[f] \in {"signing", "confirming"}

\* A busy page becomes idle again, up to the phase left behind, unless an await
\* was lost or the wallet waits for its user for ever: every other await of a flow
\* ends, also when its transaction is never mined.
BusyEnds ==
  LET busy == verifying \/ linking \/ PhaseBusy
  IN  busy ~> (~busy \/ Lost \/ []AsksWallet)
=============================================================================
