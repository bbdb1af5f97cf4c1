------------------------------- MODULE SwapFlow -------------------------------
(***************************************************************************)
(* SwapDemo, the purchase form of the local Anvil market: one click        *)
(* approves the amount to the PoolExecutor and then swaps it.              *)
(*                                                                         *)
(* A flow keeps the values of the render it was started from, but the      *)
(* wallet's account and network are those of the moment it is asked.  The  *)
(* phase and the two hashes are the page's, one for all flows: Reset and a *)
(* click before the first check ended let two of them overlap.             *)
(***************************************************************************)
EXTENDS Integers

CONSTANTS
  Wallets,
  Cap,              \* the shared cap of the wallets' human
  MaxFlows,         \* bound: clicks on "Run Real Swap Flow"
  MaxChanges,       \* bound: changes of the account, the network and the market
  None

\* Who sent a transaction, where, and what became of it.
Transactions == [by : Wallets, on : {"anvil", "other"}, state : {"pending", "success", "reverted"}]

SwapAssumption ==
  /\ Cap \in Nat \ {0} /\ MaxFlows \in Nat /\ MaxChanges \in Nat
  /\ None \notin Wallets \cup Nat \cup {"success", "registering", "rejected"} \cup Transactions

Flows   == 1..MaxFlows
Amounts == 1..Cap

VARIABLES
  account, network, changes,
  paused, allowance, spent,         \* on Anvil
  phase,
  shownSwap,                        \* swapTxHash: the flow that sent it, or 0
  value, stage, outcome,            \* of each flow
  approvalTx, swapTx,               \* of each flow: None, or who sent it, where, and its state
  beside                            \* history: the flows that were under way together with another

walletVars == <<account, network, changes>>
chainVars  == <<paused, allowance, spent>>
flowVars   == <<value, stage, outcome, approvalTx, swapTx, beside>>
vars == <<walletVars, chainVars, phase, shownSwap, flowVars>>

Running == {"approving", "swapping"}

UnderWay == {f \in Flows : stage[f] \notin {"unused", "done", "lost"}}

Init ==
  /\ account \in Wallets /\ network = "anvil" /\ changes = 0
  /\ paused = FALSE /\ allowance = [w \in Wallets |-> 0] /\ spent = 0
  /\ phase = "idle" /\ shownSwap = 0
  /\ value = [f \in Flows |-> None]
  /\ stage = [f \in Flows |-> "unused"] /\ outcome = [f \in Flows |-> None]
  /\ approvalTx = [f \in Flows |-> None] /\ swapTx = [f \in Flows |-> None]
  /\ beside = {}

-----------------------------------------------------------------------------
Change == changes < MaxChanges /\ changes' = changes + 1

\* The user chooses another account or network, disconnects, or comes back.
WalletChanges ==
  /\ Change
  /\ \/ account' \in (Wallets \cup {None}) \ {account} /\ UNCHANGED network
     \/ network' = (IF network = "anvil" THEN "other" ELSE "anvil") /\ UNCHANGED account
  /\ UNCHANGED <<chainVars, phase, shownSwap, flowVars>>

\* setPoolPaused, or a purchase of the same human elsewhere.
MarketChanges ==
  /\ Change
  /\ \/ paused' = ~paused /\ UNCHANGED spent
     \/ \E v \in Amounts : v <= Cap - spent /\ spent' = spent + v /\ UNCHANGED paused
  /\ UNCHANGED <<account, network, allowance, phase, shownSwap, flowVars>>

-----------------------------------------------------------------------------
(* The flow *)

GoOn(f, next) == stage' = [stage EXCEPT ![f] = next] /\ UNCHANGED outcome

End(f, why) ==
  /\ stage' = [stage EXCEPT ![f] = "done"]
  /\ outcome' = [outcome EXCEPT ![f] = why]
  /\ phase' = why

\* A click: refused at once by what the render shows (no registration, a
\* paused pool, no amount), or the contracts' code is read first.
Execute(f, v) ==
  /\ phase \notin Running /\ account # None /\ network = "anvil"
  /\ stage[f] = "unused" /\ \A g \in 1..(f - 1) : stage[g] # "unused"
  /\ value' = [value EXCEPT ![f] = v]
  /\ \/ /\ GoOn(f, "code") /\ UNCHANGED phase
        /\ beside' = beside \cup IF UnderWay = {} THEN {} ELSE UnderWay \cup {f}
     \/ \E why \in {"registering", "rejected"} : End(f, why) /\ UNCHANGED beside
  /\ UNCHANGED <<walletVars, chainVars, shownSwap, approvalTx, swapTx>>

\* The button Reset: the page's state, not the flow.
Reset ==
  /\ phase # "idle" \/ shownSwap # 0
  /\ phase' = "idle" /\ shownSwap' = 0
  /\ UNCHANGED <<walletVars, chainVars, flowVars>>

\* getBytecode of every contract, outside the try; then the tier and the
\* tokens of the render.
CodeRead(f) ==
  /\ stage[f] = "code"
  /\ \/ GoOn(f, "planning") /\ phase' = "approving"
     \/ End(f, "rejected")
     \/ GoOn(f, "lost") /\ UNCHANGED phase
  /\ UNCHANGED <<walletVars, chainVars, shownSwap, value, approvalTx, swapTx, beside>>

\* The balance before, and usdcPurchasePlan: the approval and the swap are of
\* the same amount, to the executor.
Plan(f) ==
  /\ stage[f] = "planning"
  /\ \/ GoOn(f, "approve") /\ UNCHANGED phase
     \/ End(f, "rejected")
  /\ UNCHANGED <<walletVars, chainVars, shownSwap, value, approvalTx, swapTx, beside>>

\* writeContractAsync names no account and no chain.
Written == [by |-> account, on |-> network, state |-> "pending"]

Approve(f) ==
  /\ stage[f] = "approve"
  /\ \/ /\ account # None /\ approvalTx' = [approvalTx EXCEPT ![f] = Written]
        /\ GoOn(f, "approving") /\ UNCHANGED phase
     \/ End(f, "rejected") /\ UNCHANGED approvalTx
  /\ UNCHANGED <<walletVars, chainVars, shownSwap, value, swapTx, beside>>

\* requireSuccessfulReceipt, over the Anvil client: a success, a revert, or a
\* wait that timed out.
Confirmed(t)  == t.state = "success"

NotConfirmed(t)  == t.state \in {"pending", "reverted"}

ApprovalMined(f)  == stage[f] = "approving" /\ Confirmed(approvalTx[f])

Approved(f) ==
  /\ \/ ApprovalMined(f) /\ GoOn(f, "swap") /\ phase' = "swapping"
     \/ stage[f] = "approving" /\ NotConfirmed(approvalTx[f]) /\ End(f, "rejected")
  /\ UNCHANGED <<walletVars, chainVars, shownSwap, value, approvalTx, swapTx, beside>>

Swap(f) ==
  /\ stage[f] = "swap"
  /\ \/ /\ account # None /\ swapTx' = [swapTx EXCEPT ![f] = Written] /\ shownSwap' = f
        /\ GoOn(f, "swapping") /\ UNCHANGED phase
     \/ End(f, "rejected") /\ UNCHANGED <<swapTx, shownSwap>>
  /\ UNCHANGED <<walletVars, chainVars, value, approvalTx, beside>>

Swapped(f) ==
  /\ stage[f] = "swapping"
  /\ \/ Confirmed(swapTx[f]) /\ GoOn(f, "balances") /\ UNCHANGED phase
     \/ NotConfirmed(swapTx[f]) /\ End(f, "rejected")
  /\ UNCHANGED <<walletVars, chainVars, shownSwap, value, approvalTx, swapTx, beside>>

\* The balances after, then addTransaction with the flow's own hash; a read that
\* fails is shown as a rejection too.
BalancesRead(f) ==
  /\ stage[f] = "balances"
  /\ \E why \in {"success", "rejected"} : End(f, why)
  /\ UNCHANGED <<walletVars, chainVars, shownSwap, value, approvalTx, swapTx, beside>>

\* The awaits that end by themselves, and the two that wait for the wallet's user.
Awaited(f)  == CodeRead(f) \/ Plan(f) \/ Approved(f) \/ Swapped(f) \/ BalancesRead(f)
Prompted(f) == Approve(f) \/ Swap(f)

Step(f) == Awaited(f) \/ Prompted(f)

-----------------------------------------------------------------------------
(* The chain *)

Pending(t) == t # None /\ t.state = "pending" /\ t.on = "anvil"

MineApproval(f) ==
  /\ Pending(approvalTx[f])
  /\ allowance' = [allowance EXCEPT ![approvalTx[f].by] = value[f]]
  /\ approvalTx' = [approvalTx EXCEPT ![f].state = "success"]
  /\ UNCHANGED <<walletVars, paused, spent, phase, shownSwap, value, stage, outcome, swapTx, beside>>

Passes(w, v)   == ~paused /\ allowance[w] >= v /\ v <= Cap - spent

MineSwap(f) ==
  /\ Pending(swapTx[f])
  /\ LET w == swapTx[f].by IN
       IF Passes(w, value[f])
         THEN /\ allowance' = [allowance EXCEPT ![w] = @ - value[f]]
              /\ spent' = spent + value[f]
              /\ swapTx' = [swapTx EXCEPT ![f].state = "success"]
         ELSE swapTx' = [swapTx EXCEPT ![f].state = "reverted"] /\ UNCHANGED <<allowance, spent>>
  /\ UNCHANGED <<walletVars, paused, phase, shownSwap, value, stage, outcome, approvalTx, beside>>

Next ==
  \/ WalletChanges \/ MarketChanges \/ Reset
  \/ \E f \in Flows :
       (\E v \in Amounts : Execute(f, v)) \/ Step(f) \/ MineApproval(f) \/ MineSwap(f)

\* Awaited answers come, late or as errors; nothing makes the user answer the wallet.
Fairness == \A f \in Flows : WF_vars(Awaited(f))

Spec == Init /\ [][Next]_vars /\ Fairness

-----------------------------------------------------------------------------
(* Properties *)

\* Type correctness.
TypeOK ==
  /\ account \in Wallets \cup {None} /\ network \in {"anvil", "other"} /\ changes \in 0..MaxChanges
  /\ paused \in BOOLEAN /\ allowance \in [Wallets -> 0..Cap] /\ spent \in 0..Cap
  /\ phase \in {"idle", "registering", "success", "rejected"} \cup Running
  /\ shownSwap \in 0..MaxFlows /\ (shownSwap # 0 => swapTx[shownSwap] # None)
  /\ value \in [Flows -> Amounts \cup {None}]
  /\ stage \in [Flows -> {"unused", "code", "planning", "approve", "approving", "swap", "swapping",
                          "balances", "done", "lost"}]
  /\ outcome \in [Flows -> {None, "success", "registering", "rejected"}]
  /\ approvalTx \in [Flows -> Transactions \cup {None}]
  /\ swapTx \in [Flows -> Transactions \cup {None}]
  /\ beside \subseteq Flows

\* The order the form promises, however flows overlap: a purchase is sent
\* only when its own approval was mined on Anvil.
ApprovedBeforeSwapped ==
  \A f \in Flows :
    swapTx[f] # None => approvalTx[f].state = "success" /\ approvalTx[f].on = "anvil"

Bought(f) == swapTx[f] # None /\ swapTx[f].state = "success" /\ swapTx[f].on = "anvil"

\* What the form shows.  Its list has a purchase, with its hash, only if that was
\* made on Anvil, and a refused click sent nothing.  "Success" is of such a
\* purchase, and the hash beside it is its own, or none after a Reset; it may be
\* another's, of whatever became of that one, only if their flows were under way
\* together.  Nothing is claimed of "rejected": also a purchase that was made is
\* shown so when its receipt or the balances after it were not read.
ShownIsOnChain ==
  /\ \A f \in Flows :
       /\ outcome[f] = "success" => Bought(f)
       /\ outcome[f] = "registering" => approvalTx[f] = None /\ swapTx[f] = None
  /\ phase = "success" =>
       \E f \in Flows :
         /\ outcome[f] = "success"
         /\ shownSwap \in {0, f} \/ {f, shownSwap} \subseteq beside

\* The form does not stay locked, unless the wallet waits for its user for ever:
\* whatever the chain does, also with a transaction sent to a network nobody looks
\* at, the phase leaves approving and swapping.
FormUnlocks ==
  (phase \in Running)
    ~> (phase \notin Running \/ [](\E f \in Flows : stage[f] \in {"approve", "swap"}))

=============================================================================
