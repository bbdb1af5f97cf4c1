----------------------------- MODULE HumanBudget -----------------------------
(***************************************************************************)
(* What a market promises, seen from outside and in money: a human pays    *)
(* for purchases out of budgets, one counter for each human and budget, no *)
(* purchase takes the human above the budget's cap and no cap falls below  *)
(* what somebody paid.  Wallets, hooks, ledgers and routers are nowhere.   *)
(***************************************************************************)
EXTENDS Integers

CONSTANTS
  Humans,
  Budgets

VARIABLES
  cap,          \* cap[b]: what each human may pay out of b
  bought        \* bought[<<h, b>>]: what h paid out of b

vars == <<cap, bought>>

Init ==
  /\ cap \in [Budgets -> Nat]
  /\ bought = [hb \in Humans \X Budgets |-> 0]

\* New caps, in one transaction or taken back with one.
SetCaps ==
  /\ cap' \in [Budgets -> Nat]
  /\ \A h \in Humans, b \in Budgets : bought[<<h, b>>] <= cap'[b]
  /\ UNCHANGED bought

\* One transaction, which may hold several purchases, of several humans.
Buy ==
  /\ bought' \in [Humans \X Budgets -> Nat]
  /\ \A h \in Humans, b \in Budgets :
       bought[<<h, b>>] <= bought'[<<h, b>>] /\ bought'[<<h, b>>] <= cap[b]
  /\ UNCHANGED cap

Next == SetCaps \/ Buy

Spec == Init /\ [][Next]_vars
=============================================================================
