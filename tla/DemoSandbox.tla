----------------------------- MODULE DemoSandbox -----------------------------
(***************************************************************************)
(* The guided demo on a local Anvil chain: sandboxChain and its route.     *)
(*                                                                         *)
(* A request purchases for a persona or resets the chain to a snapshot     *)
(* whose id is kept in a file; the journey script resets too, and seeds    *)
(* the personas again when that fails.  Requests come from any number of   *)
(* tabs and from the script, nothing orders their chain calls, and the     *)
(* process of a request may be stopped between two of them.                *)
(*                                                                         *)
(* A reset is not a transaction: it takes the chain back, with everything  *)
(* mined since, so a request may find its own transaction gone.            *)
(***************************************************************************)
EXTENDS Integers, FiniteSets

CONSTANTS
  Cap,              \* DEMO_CAP
  Buys,             \* SANDBOX_ACTIONS: the purchases the route accepts
  Human, Wallet, Amount,    \* of each of them
  Ops,              \* what is requested in this instance: purchases, "reset", "journey"
  MaxRequests,      \* bound: requests
  Overlap,          \* bound: requests under way at a time
  MaxCrashes,       \* bound: requests stopped on the way
  None

SandboxAssumption ==
  /\ Cap \in Nat /\ Amount \in [Buys -> Nat \ {0}]
  /\ Ops \subseteq Buys \cup {"reset", "journey"} /\ {"reset", "journey"} \cap Buys = {}
  /\ None \notin Ops \cup {"confirmed", "rejected", "failed", "reset", "error"}
  /\ MaxRequests \in Nat /\ Overlap \in Nat /\ MaxCrashes \in Nat

Requests == 1..MaxRequests
Spenders == {Human[b] : b \in Buys}          \* the humans whose spend is recorded
Payers   == {Wallet[b] : b \in Buys}         \* the accounts that pay

VARIABLES
  chain,            \* what evm_revert restores: spent, allowance, and the mined purchases
  snaps,            \* the chain of each live snapshot id
  nextId,
  file,             \* STATE_FILE: a snapshot id
  op, stage,        \* of each request
  id,               \* the snapshot id a reset holds
  before,           \* history: what the human had spent when the purchase was asked for
  met,              \* history: of each request, those that were under way together with it
  reading,          \* the spent and remaining a purchase answers with
  outcome,
  resets,           \* history: requests under way when the chain was taken back
  seeded,           \* history: the purchases the journey found where it could not restore
  torn,             \* history: a reset was stopped with the file not written, or the journey
                    \* met a reset, and the journey has not run apart from resets since
  crashes

requestVars == <<op, before, met>>
histories   == <<resets, seeded, torn, crashes>>
vars == <<chain, snaps, nextId, file, requestVars, stage, id, reading, outcome,
          histories>>

Done   == {"done", "dead"}
Active == {r \in Requests : stage[r] \notin Done \cup {"unused"}}

\* start_anvil_demo.sh deployed the market, seeded it and wrote the first snapshot.
Fresh == [spent |-> [h \in Spenders |-> 0], allowance |-> [w \in Payers |-> 0],
          approved |-> {}, bought |-> {}, reverted |-> {}]

Init ==
  /\ chain = Fresh /\ snaps = [i \in {0} |-> Fresh] /\ nextId = 1 /\ file = 0
  /\ op = [r \in Requests |-> None] /\ stage = [r \in Requests |-> "unused"]
  /\ id = [r \in Requests |-> None] /\ before = [r \in Requests |-> None]
  /\ reading = [r \in Requests |-> None] /\ outcome = [r \in Requests |-> None]
  /\ met = [r \in Requests |-> {}] /\ resets = {} /\ seeded = {} /\ torn = FALSE /\ crashes = 0

remaining(h) == Cap - chain.spent[h]

GoOn(r, next) == stage' = [stage EXCEPT ![r] = next] /\ UNCHANGED outcome

End(r, why) ==
  /\ stage' = [stage EXCEPT ![r] = "done"]
  /\ outcome' = [outcome EXCEPT ![r] = why]

-----------------------------------------------------------------------------
(* runPurchase *)

Resetting == {r \in Active : op[r] \in {"reset", "journey"}}

\* The journey has no part in the races of resets the file survives.
Tears(o) ==
  \/ o = "journey" /\ Resetting # {}
  \/ o = "reset" /\ \E q \in Resetting : op[q] = "journey"

Request(r, o) ==
  /\ stage[r] = "unused" /\ \A q \in 1..(r - 1) : stage[q] # "unused"
  /\ Cardinality(Active) < Overlap
  /\ op' = [op EXCEPT ![r] = o]
  /\ before' = [before EXCEPT ![r] = IF o \in Buys THEN chain.spent[Human[o]] ELSE None]
  /\ met' = [q \in Requests |-> met[q] \cup IF q = r THEN Active ELSE IF q \in Active THEN {r} ELSE {}]
  /\ torn' = (torn \/ Tears(o))
  /\ GoOn(r, IF o \in Buys THEN "approve" ELSE "read")
  /\ UNCHANGED <<chain, snaps, nextId, file, id, reading, resets, seeded, crashes>>

\* approve: Anvil mines a transaction when it is sent.
SendApproval(r) ==
  /\ stage[r] = "approve" /\ GoOn(r, "approving")
  /\ chain' = [chain EXCEPT !.allowance[Wallet[op[r]]] = Amount[op[r]],
                            !.approved = @ \cup {r}]
  /\ UNCHANGED <<snaps, nextId, file, requestVars, id, reading, histories>>

\* The receipt; one the chain no longer knows never comes, and the wait throws.
ApprovalReceipt(r) ==
  /\ stage[r] = "approving"
  /\ IF r \in chain.approved THEN GoOn(r, "buy") ELSE End(r, "error")
  /\ UNCHANGED <<chain, snaps, nextId, file, requestVars, id, reading, histories>>

WithinCap(b)    == Amount[b] <= remaining(Human[b])
Covered(b)      == Amount[b] <= chain.allowance[Wallet[b]]

Bought(b, r) ==
  [chain EXCEPT !.spent[Human[b]] = @ + Amount[b],
                !.allowance[Wallet[b]] = @ - Amount[b],
                !.bought = @ \cup {r}]

SendPurchase(r) ==
  /\ stage[r] = "buy" /\ GoOn(r, "buying")
  /\ LET b == op[r] IN
       chain' = IF WithinCap(b) /\ Covered(b)
                  THEN Bought(b, r)
                  ELSE [chain EXCEPT !.reverted = @ \cup {r}]
  /\ UNCHANGED <<snaps, nextId, file, requestVars, id, reading, histories>>

PurchaseReceipt(r) ==
  /\ stage[r] = "buying"
  /\ CASE r \in chain.bought   -> GoOn(r, "confirmed")
       [] r \in chain.reverted -> GoOn(r, "failed")
       [] OTHER                -> End(r, "error")
  /\ UNCHANGED <<chain, snaps, nextId, file, requestVars, id, reading, histories>>

\* readBudget after the receipt.
Reading(r)    == [spent |-> chain.spent[Human[op[r]]], remaining |-> remaining(Human[op[r]])]

ReadAfter(r) ==
  /\ stage[r] \in {"confirmed", "failed"}
  /\ reading' = [reading EXCEPT ![r] = Reading(r)]
  /\ IF stage[r] = "confirmed" THEN End(r, "confirmed") ELSE GoOn(r, "asking")
  /\ UNCHANGED <<chain, snaps, nextId, file, requestVars, id, histories>>

\* The reason of a revert is found by calling again: the limit is checked
\* before the allowance.
AskReason(r) ==
  /\ stage[r] = "asking"
  /\ End(r, IF WithinCap(op[r]) THEN "failed" ELSE "rejected")
  /\ UNCHANGED <<chain, snaps, nextId, file, requestVars, id, reading, histories>>

-----------------------------------------------------------------------------
(* resetSandbox, and seedSandbox of the journey *)

ReadFile(r) ==
  /\ stage[r] = "read" /\ id' = [id EXCEPT ![r] = file] /\ GoOn(r, "revert")
  /\ UNCHANGED <<chain, snaps, nextId, file, requestVars, reading, histories>>

KeepsChain(r) == chain              \* faulty variant: a new snapshot of whatever there is
Restored(r)   == snaps[id[r]]

\* evm_revert gives up the snapshot it restores, and every later one.
EvmRevert(r) ==
  /\ stage[r] = "revert"
  /\ IF id[r] \in DOMAIN snaps
       THEN /\ chain' = Restored(r)
            /\ snaps' = [i \in {j \in DOMAIN snaps : j < id[r]} |-> snaps[i]]
            /\ resets' = resets \cup (Active \ {r})
            /\ GoOn(r, "snapshot")
       ELSE /\ IF op[r] = "journey" THEN GoOn(r, "seed") ELSE End(r, "error")
            /\ UNCHANGED <<chain, snaps, resets>>
  /\ UNCHANGED <<nextId, file, requestVars, id, reading, seeded, torn, crashes>>

\* seedSandbox registers and funds the personas; those of the first seed are
\* there already, so only its snapshot changes anything.
EvmSnapshot(r) ==
  /\ stage[r] \in {"snapshot", "seed"}
  /\ snaps' = [i \in DOMAIN snaps \cup {nextId} |-> IF i = nextId THEN chain ELSE snaps[i]]
  /\ id' = [id EXCEPT ![r] = nextId] /\ nextId' = nextId + 1
  /\ seeded' = seeded \cup IF stage[r] = "seed" THEN chain.bought ELSE {}
  /\ GoOn(r, "write")
  /\ UNCHANGED <<chain, file, requestVars, reading, resets, torn, crashes>>

KeepsFile(r) == UNCHANGED file              \* faulty variant: the id is not renewed
WritesId(r)  == file' = id[r]

MetPurchases(r) == \A q \in met[r] : op[q] \in Buys

WriteFile(r) ==
  /\ stage[r] = "write" /\ WritesId(r) /\ End(r, "reset")
  /\ torn' = (torn /\ ~(op[r] = "journey" /\ MetPurchases(r)))
  /\ UNCHANGED <<chain, snaps, nextId, requestVars, id, reading, resets, seeded, crashes>>

-----------------------------------------------------------------------------
\* The process of a request is stopped between two of its calls.
Crash(r) ==
  /\ r \in Active /\ crashes < MaxCrashes
  /\ stage' = [stage EXCEPT ![r] = "dead"] /\ crashes' = crashes + 1
  /\ torn' = (torn \/ stage[r] \in {"snapshot", "seed", "write"})
  /\ UNCHANGED <<chain, snaps, nextId, file, requestVars, id, reading, outcome, resets, seeded>>

Next ==
  \E r \in Requests :
    \/ \E o \in Ops : Request(r, o)
    \/ SendApproval(r) \/ ApprovalReceipt(r) \/ SendPurchase(r) \/ PurchaseReceipt(r)
    \/ ReadAfter(r) \/ AskReason(r)
    \/ ReadFile(r) \/ EvmRevert(r) \/ EvmSnapshot(r) \/ WriteFile(r)
    \/ Crash(r)

Spec == Init /\ [][Next]_vars

-----------------------------------------------------------------------------
(* allocationJourney.applyPurchase *)

applyPurchase(spent, purchase) ==
  LET accepted  == purchase > 0 /\ purchase <= Cap - spent
      nextSpent == IF accepted THEN spent + purchase ELSE spent
  IN [accepted |-> accepted, spent |-> nextSpent, remaining |-> Cap - nextSpent]

-----------------------------------------------------------------------------
(* Properties *)

\* Type correctness.
TypeOK ==
  /\ \A c \in {chain} \cup {snaps[i] : i \in DOMAIN snaps} :
       /\ c.spent \in [Spenders -> 0..Cap] /\ c.allowance \in [Payers -> Nat]
       /\ c.bought \subseteq Requests /\ c.bought \cap c.reverted = {}
  /\ DOMAIN snaps \subseteq 0..(nextId - 1) /\ file \in 0..(nextId - 1)
  /\ op \in [Requests -> Ops \cup {None}]
  /\ outcome \in [Requests -> {None, "confirmed", "rejected", "failed", "reset", "error"}]

\* A confirmed purchase is in the numbers it is answered with, on top of what
\* was spent before it, unless the chain was reset under it.
ConfirmedIsRead ==
  \A r \in Requests \ resets :
    outcome[r] = "confirmed" => reading[r].spent >= before[r] + Amount[op[r]]

\* A request that met no other gets what allocationJourney computes: the same
\* verdict, spent and remaining, after any purchases, resets and crashes.
MatchesJourney ==
  \A r \in Requests : op[r] \in Buys /\ stage[r] = "done" /\ met[r] = {} =>
    LET expected == applyPurchase(before[r], Amount[op[r]]) IN
      /\ outcome[r] = (IF expected.accepted THEN "confirmed" ELSE "rejected")
      /\ reading[r] = [spent |-> expected.spent, remaining |-> expected.remaining]

\* The page can restart the demo again, however its resets raced each other:
\* when no reset is under way, the file names a snapshot Anvil has.  A reset
\* stopped between its restore and the file takes that away, from every later
\* reset of the page, until the journey has run without a reset beside it.
CanRestart == Resetting = {} /\ ~torn => file \in DOMAIN snaps

\* What a reset loads is from before the purchases, but for two ways into a
\* snapshot: a purchase that was under way together with a reset, and one
\* the journey found on the chain when it had to seed it again.
LoadsNoOther ==
  \A i \in DOMAIN snaps : \A r \in snaps[i].bought \ seeded :
    \E q \in met[r] : op[q] \in {"reset", "journey"}

=============================================================================
