------------------------------- MODULE Clients -------------------------------
(***************************************************************************)
(* The parts of the frontend that await a wallet, World App or a receipt,  *)
(* side by side: the investor page, its World requests in detail, the      *)
(* purchase panel and the swap form.  They share no state, so a behaviour  *)
(* is one of them at a time: `part' is chosen at the start, its part       *)
(* moves, and the others stay where they begin.                            *)
(***************************************************************************)
EXTENDS InvestorPage

CONSTANTS
  NumRuns, TTL, Skews,      \* of the World requests
  Cap, MaxClicks,           \* of the purchase panel and the swap form
  MaxChanges

VARIABLES
  part,
  runKind, runStage, runAborted, life, patience, bridge, seen, verdict, reason,
  newest, qrCode, enrolled, cookie,
  buyer, buyerOnSepolia, changes, tier, paused, allowance, spent,
  seenTier, seenAllowance, seenRemaining, approving, buying,
  clickKind, clickWallet, clickValue, clickStage, clickOutcome, clickTx, notice, undisturbed,
  formAccount, formNetwork, formChanges, formPaused, formAllowance, formSpent,
  formPhase, shownSwap, formValue, formStage, formOutcome, approvalTx, swapTx, beside

World == INSTANCE WorldProof WITH
  kind <- runKind, stage <- runStage, aborted <- runAborted, current <- newest,
  shown <- qrCode

Panel == INSTANCE PurchasePanel WITH
  MaxFlows <- MaxClicks,
  address <- buyer, onSepolia <- buyerOnSepolia, kind <- clickKind, wallet <- clickWallet,
  value <- clickValue, stage <- clickStage, outcome <- clickOutcome, tx <- clickTx

Form == INSTANCE SwapFlow WITH
  MaxFlows <- MaxClicks,
  account <- formAccount, network <- formNetwork, changes <- formChanges,
  paused <- formPaused, allowance <- formAllowance, spent <- formSpent, phase <- formPhase,
  value <- formValue, stage <- formStage, outcome <- formOutcome

ASSUME ClientsAssumption ==
  World!WorldProofAssumption /\ Panel!PanelAssumption /\ Form!SwapAssumption

pageState  == vars
worldState == <<runKind, runStage, runAborted, life, patience, bridge, seen, verdict, reason,
                newest, qrCode, enrolled, cookie>>
panelState == <<buyer, buyerOnSepolia, changes, tier, paused, allowance, spent,
                seenTier, seenAllowance, seenRemaining, approving, buying, clickKind,
                clickWallet, clickValue, clickStage, clickOutcome, clickTx, notice, undisturbed>>
formState  == <<formAccount, formNetwork, formChanges, formPaused, formAllowance, formSpent,
                formPhase, shownSwap, formValue, formStage, formOutcome, approvalTx, swapTx, beside>>

\* Where a part begins is open only for the part that moves.
ClientsInit ==
  /\ part \in {"page", "world", "panel", "form"}
  /\ Init /\ World!Init /\ Panel!Init /\ Form!Init
  /\ part # "page"  => address = None /\ onSepolia /\ identity = "unverified"
  /\ part # "world" => \A r \in World!Runs : runKind[r] = "enroll"
  /\ part # "panel" => buyerOnSepolia

ClientsNext ==
  /\ UNCHANGED part
  /\ \/ part = "page"  /\ Next       /\ UNCHANGED <<worldState, panelState, formState>>
     \/ part = "world" /\ World!Next /\ UNCHANGED <<pageState, panelState, formState>>
     \/ part = "panel" /\ Panel!Next /\ UNCHANGED <<pageState, worldState, formState>>
     \/ part = "form"  /\ Form!Next  /\ UNCHANGED <<pageState, worldState, panelState>>

\* The fairness of each part, asked of the part that moves: reads, polls and waits
\* for a receipt end, but a wallet may leave its user's prompt open for ever.
ClientsFairness ==
  /\ WF_worldState(part = "world" /\ World!Tick)
  /\ \A r \in World!Runs : WF_worldState(part = "world" /\ World!Awaited(r))
  /\ \A f \in Flows : WF_pageState(part = "page" /\ Awaited(f))
  /\ \A f \in Panel!Flows : WF_panelState(part = "panel" /\ Panel!Awaited(f))
  /\ \A f \in Form!Flows : WF_formState(part = "form" /\ Form!Awaited(f))

ClientsSpec ==
  /\ ClientsInit /\ [][ClientsNext]_<<part, pageState, worldState, panelState, formState>>
  /\ ClientsFairness

-----------------------------------------------------------------------------
\* What each part shows its user is so: the answer of a World request, the panel's
\* notice of the newest click, the form's list and its "success".  A timed-out
\* purchase is worded as not submitted, and flows of the form that were under way
\* together may mix their hashes; the properties of the parts name these cases.  A
\* purchase is sent only after its own approval was mined.
SaysWhatHappened ==
  /\ TypeOK /\ World!TypeOK /\ Panel!TypeOK /\ Form!TypeOK
  /\ World!ShownIsCurrent /\ World!EndsTruthfully
  /\ Panel!NoticeIsOnChain
  /\ Form!ApprovedBeforeSwapped /\ Form!ShownIsOnChain

\* The promise of the World requests to the page: withdrawn requests send no
\* proof, and every request ends.
KeepsPromise == World!KeepsPromise

\* A purchase the panel sent reverts only if the chain changed after it was simulated.
RevertsOnlyAfterChange == Panel!RevertsOnlyAfterChange

\* Nothing stays busy by itself: the page, the panel and the form become idle again,
\* whatever the chain does, or wait for the wallet's user for ever.  The page's
\* phase may be left behind without a flow, in the two cases InvestorPage names.
NeverStaysBusy ==
  /\ BusyEnds
  /\ Panel!BusyEnds
  /\ Form!FormUnlocks
=============================================================================
