---------------------------- MODULE PurchasePanel ----------------------------
(***************************************************************************)
(* The purchase section of /invest: approveUsdc and buy.                   *)
(*                                                                         *)
(* The section is shown with values polled from Ethereum, one query for    *)
(* each fact and wallet.  A click starts a flow over the values of its     *)
(* render: an approval, or a purchase that is simulated, confirmed in the  *)
(* wallet, waited for and followed by a new read.  Meanwhile the owner     *)
(* changes the market, the same human buys from another page, and the      *)
(* account and the network change.  SingleMarket has the purchase itself   *)
(* in detail; here it passes or it reverts.  The wallets are registered    *)
(* wallets of one human.                                                   *)
(***************************************************************************)
EXTENDS Integers

CONSTANTS
  Wallets,
  Cap,              \* the shared cap, in the smallest unit that matters
  MaxFlows,         \* bound: clicks on the two buttons
  MaxChanges,       \* bound: changes of the account, the network and the market
  None

PanelAssumption ==
  /\ Cap \in Nat \ {0} /\ MaxFlows \in Nat /\ MaxChanges \in Nat
  /\ None \notin Wallets \cup Nat \cup {"pending", "success", "reverted", "rejected"}

Flows   == 1..MaxFlows
Amounts == 1..Cap

VARIABLES
  address, onSepolia,
  changes,
  tier, paused, allowance, spent,           \* on chain
  seenTier, seenAllowance, seenRemaining,   \* the queries' last answers, by wallet
  approving, buying,
  kind, wallet, value, stage, outcome, tx,  \* of each flow
  notice,                                   \* purchaseNotice: what it says, and of which click
  undisturbed                               \* history: purchases nothing changed for since simulated

walletVars == <<address, onSepolia>>
chainVars  == <<tier, paused, allowance, spent>>
seenVars   == <<seenTier, seenAllowance, seenRemaining>>
busyVars   == <<approving, buying>>
clickVars  == <<kind, wallet, value>>
flowVars   == <<stage, outcome, tx, notice>>
vars == <<walletVars, changes, chainVars, seenVars, busyVars, clickVars, flowVars, undisturbed>>

remaining == Cap - spent

Init ==
  /\ address = None /\ onSepolia \in BOOLEAN /\ changes = 0
  /\ tier = [w \in Wallets |-> 1] /\ paused = FALSE
  /\ allowance = [w \in Wallets |-> 0] /\ spent = 0
  /\ seenTier = [w \in Wallets |-> None]
  /\ seenAllowance = [w \in Wallets |-> None]
  /\ seenRemaining = [w \in Wallets |-> None]
  /\ approving = FALSE /\ buying = FALSE
  /\ kind = [f \in Flows |-> None] /\ wallet = [f \in Flows |-> None]
  /\ value = [f \in Flows |-> None]
  /\ stage = [f \in Flows |-> "unused"] /\ outcome = [f \in Flows |-> None]
  /\ tx = [f \in Flows |-> None]
  /\ notice = [of |-> 0, says |-> "nothing"]
  /\ undisturbed = {}

-----------------------------------------------------------------------------
(* What happens around the page *)

Change == changes < MaxChanges /\ changes' = changes + 1

ChooseAccount(w) ==
  /\ w # address /\ address' = w
  /\ IF address = None THEN UNCHANGED changes ELSE Change
  /\ UNCHANGED <<onSepolia, chainVars, seenVars, busyVars, clickVars, flowVars, undisturbed>>

SwitchNetwork ==
  /\ Change /\ onSepolia' = ~onSepolia
  /\ UNCHANGED <<address, chainVars, seenVars, busyVars, clickVars, flowVars, undisturbed>>

\* setTier and setPoolPaused
OwnerChanges ==
  /\ Change /\ undisturbed' = {}
  /\ \/ \E w \in Wallets : tier' = [tier EXCEPT ![w] = 1 - @] /\ UNCHANGED paused
     \/ paused' = ~paused /\ UNCHANGED tier
  /\ UNCHANGED <<walletVars, allowance, spent, seenVars, busyVars, clickVars, flowVars>>

\* A purchase by a wallet of the same human that is not this page's.
SpentElsewhere(v) ==
  /\ Change /\ v <= remaining /\ spent' = spent + v /\ undisturbed' = {}
  /\ UNCHANGED <<walletVars, tier, paused, allowance, seenVars, busyVars, clickVars, flowVars>>

\* The queries of the connected wallet, every four seconds.
Poll ==
  /\ address # None
  /\ \/ seenTier' = [seenTier EXCEPT ![address] = tier[address]]
        /\ UNCHANGED <<seenAllowance, seenRemaining>>
     \/ seenAllowance' = [seenAllowance EXCEPT ![address] = allowance[address]]
        /\ UNCHANGED <<seenTier, seenRemaining>>
     \/ seenRemaining' = [seenRemaining EXCEPT ![address] = remaining]
        /\ UNCHANGED <<seenTier, seenAllowance>>
  /\ UNCHANGED <<walletVars, changes, chainVars, busyVars, clickVars, flowVars, undisturbed>>

-----------------------------------------------------------------------------
(* What a render offers *)

Shown == address # None /\ seenTier[address] # 0

\* purchaseDecision, of an amount that parses
Allowed(v) == seenRemaining[address] # None /\ v <= seenRemaining[address]

NeedsApproval(v) == Allowed(v) /\ seenAllowance[address] # None /\ seenAllowance[address] < v

CanClick    == Shown /\ onSepolia /\ ~approving /\ ~buying

Begin(f, k, v) ==
  /\ stage[f] = "unused" /\ \A g \in 1..(f - 1) : stage[g] # "unused"
  /\ kind' = [kind EXCEPT ![f] = k]
  /\ wallet' = [wallet EXCEPT ![f] = address]
  /\ value' = [value EXCEPT ![f] = v]
  /\ notice' = [of |-> f, says |-> "working"]

ApproveUsdc(f, v) ==
  /\ CanClick /\ NeedsApproval(v)
  /\ Begin(f, "approve", v)
  /\ stage' = [stage EXCEPT ![f] = "confirming"] /\ approving' = TRUE
  /\ UNCHANGED <<walletVars, changes, chainVars, seenVars, buying, outcome, tx, undisturbed>>

Buy(f, v) ==
  /\ CanClick /\ Allowed(v) /\ ~NeedsApproval(v)
  /\ Begin(f, "buy", v)
  /\ stage' = [stage EXCEPT ![f] = "simulating"] /\ buying' = TRUE
  /\ UNCHANGED <<walletVars, changes, chainVars, seenVars, approving, outcome, tx, undisturbed>>

-----------------------------------------------------------------------------
(* The steps of a flow *)

ResetBusy(f)  ==
  IF kind[f] = "approve" THEN approving' = FALSE /\ UNCHANGED buying
                         ELSE buying' = FALSE /\ UNCHANGED approving

\* purchaseError has no words for a wait that timed out: "Hook rejection. The
\* purchase could not be submitted.", as of one that was not sent.
Words(why) == IF why = "timedOut" THEN "rejected" ELSE why

End(f, why) ==
  /\ stage' = [stage EXCEPT ![f] = "done"]
  /\ outcome' = [outcome EXCEPT ![f] = why]
  /\ notice' = [of |-> f, says |-> Words(why)]
  /\ ResetBusy(f)

GoOn(f, next) ==
  /\ stage' = [stage EXCEPT ![f] = next]
  /\ UNCHANGED <<outcome, notice, busyVars>>

\* swapExactInput of wallet w for v
Passes(w, v) == tier[w] # 0 /\ ~paused /\ allowance[w] >= v /\ v <= remaining

\* simulateContract: also refused for want of USDC, or unanswered.
Unsimulated(f) == GoOn(f, "confirming")     \* faulty variant
Simulated(f)   == Passes(wallet[f], value[f]) /\ GoOn(f, "confirming")

Simulate(f) ==
  /\ stage[f] = "simulating"
  /\ \/ Simulated(f) /\ undisturbed' = undisturbed \cup {f}
     \/ End(f, "rejected") /\ UNCHANGED undisturbed
  /\ UNCHANGED <<walletVars, changes, chainVars, seenVars, clickVars, tx>>

\* writeContract: on Sepolia, from the account of the click, if the user confirms.
Send(f) ==
  /\ stage[f] = "confirming"
  /\ \/ onSepolia /\ GoOn(f, "mining") /\ tx' = [tx EXCEPT ![f] = "pending"]
     \/ End(f, "rejected") /\ UNCHANGED tx
  /\ UNCHANGED <<walletVars, changes, chainVars, seenVars, clickVars, undisturbed>>

\* A wallet's transactions are mined in the order it sent them.
Mine(f) ==
  /\ tx[f] = "pending"
  /\ \A g \in 1..(f - 1) : tx[g] = "pending" => wallet[g] # wallet[f]
  /\ IF kind[f] = "approve"
       THEN /\ allowance' = [allowance EXCEPT ![wallet[f]] = value[f]]
            /\ tx' = [tx EXCEPT ![f] = "success"] /\ undisturbed' = {} /\ UNCHANGED spent
     ELSE IF Passes(wallet[f], value[f])
       THEN /\ allowance' = [allowance EXCEPT ![wallet[f]] = @ - value[f]]
            /\ spent' = spent + value[f]
            /\ tx' = [tx EXCEPT ![f] = "success"] /\ undisturbed' = {}
       ELSE tx' = [tx EXCEPT ![f] = "reverted"] /\ UNCHANGED <<allowance, spent, undisturbed>>
  /\ UNCHANGED <<walletVars, changes, tier, paused, seenVars, busyVars, clickVars, stage, outcome, notice>>

AnyReceipt(f) == tx[f] \in {"success", "reverted"}       \* faulty variant
Succeeded(f)  == tx[f] = "success"

NeverTimesOut(f) == FALSE                   \* faulty variant: waits for the receipt only
TimesOut(f)      == tx[f] = "pending"

\* waitForTransactionReceipt
ReadReceipt(f) ==
  /\ stage[f] = "mining"
  /\ \/ Succeeded(f) /\ GoOn(f, "rereading")
     \/ ~Succeeded(f) /\ tx[f] # "pending" /\ End(f, "reverted")
     \/ TimesOut(f) /\ End(f, "timedOut")
  /\ UNCHANGED <<walletVars, changes, chainVars, seenVars, clickVars, tx, undisturbed>>

\* refetch reads for the wallet connected now; it does not throw when it fails.
Reread(f) ==
  /\ stage[f] = "rereading" /\ End(f, "success")
  /\ \/ UNCHANGED seenVars
     \/ /\ address # None
        /\ IF kind[f] = "approve"
             THEN seenAllowance' = [seenAllowance EXCEPT ![address] = allowance[address]]
                  /\ UNCHANGED seenRemaining
             ELSE seenRemaining' = [seenRemaining EXCEPT ![address] = remaining]
                  /\ UNCHANGED seenAllowance
        /\ UNCHANGED seenTier
  /\ UNCHANGED <<walletVars, changes, chainVars, clickVars, tx, undisturbed>>

\* The awaits that end by themselves; Send waits for the wallet's user.
Awaited(f) == Simulate(f) \/ ReadReceipt(f) \/ Reread(f)

Step(f) == Awaited(f) \/ Send(f)

Next ==
  \/ \E w \in Wallets \cup {None} : ChooseAccount(w)
  \/ SwitchNetwork \/ OwnerChanges \/ Poll
  \/ \E v \in Amounts : SpentElsewhere(v)
  \/ \E f \in Flows :
       \/ \E v \in Amounts : ApproveUsdc(f, v) \/ Buy(f, v)
       \/ Step(f) \/ Mine(f)

\* Awaited answers come, late or as errors; nothing makes the user answer the wallet.
Fairness == \A f \in Flows : WF_vars(Awaited(f))

Spec == Init /\ [][Next]_vars /\ Fairness

-----------------------------------------------------------------------------
(* Properties *)

\* Type correctness; at most one of the two buttons is busy, and one flow runs.
TypeOK ==
  /\ address \in Wallets \cup {None} /\ onSepolia \in BOOLEAN /\ changes \in 0..MaxChanges
  /\ tier \in [Wallets -> 0..1] /\ paused \in BOOLEAN /\ spent \in 0..Cap
  /\ allowance \in [Wallets -> 0..Cap]
  /\ seenTier \in [Wallets -> {None, 0, 1}]
  /\ {seenAllowance, seenRemaining} \subseteq [Wallets -> 0..Cap \cup {None}]
  /\ approving \in BOOLEAN /\ buying \in BOOLEAN /\ ~(approving /\ buying)
  /\ stage \in [Flows -> {"unused", "simulating", "confirming", "mining", "rereading", "done"}]
  /\ outcome \in [Flows -> {None, "success", "reverted", "rejected", "timedOut"}]
  /\ notice \in [of : 0..MaxFlows, says : {"nothing", "working", "success", "reverted", "rejected"}]
  /\ tx \in [Flows -> {None, "pending", "success", "reverted"}]
  /\ undisturbed \subseteq Flows

\* The notice is of the newest click, and it is so: "Success" of a transaction that
\* was applied, "Your allocation was not consumed" of one that reverted, "could not
\* be submitted" of a click that sent nothing; or whose receipt was waited for in
\* vain: that transaction may be applied yet.
NoticeIsOnChain ==
  /\ \A f \in Flows : stage[f] # "unused" => f <= notice.of
  /\ notice.of # 0 =>
       LET f == notice.of IN
         /\ notice.says \in {"success", "reverted"} => tx[f] = notice.says
         /\ notice.says = "rejected" => tx[f] = None \/ outcome[f] = "timedOut"

\* A stale display costs nobody gas: a purchase the page sent reverts only if
\* the chain changed after it was simulated.  The polled allowance, tier and
\* remaining may all be old, and an approval may still be unmined.
RevertsOnlyAfterChange ==
  [][\A f \in undisturbed : tx'[f] # "reverted"]_vars

\* Neither button stays busy, unless the wallet waits for its user for ever: the
\* wait for a receipt ends though the transaction is never mined, and every error
\* path releases the button.
BusyEnds ==
  (approving \/ buying) ~> (~(approving \/ buying) \/ [](\E f \in Flows : stage[f] = "confirming"))

=============================================================================
