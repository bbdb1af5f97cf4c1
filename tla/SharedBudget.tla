---------------------------- MODULE SharedBudget ----------------------------
(***************************************************************************)
(* What the allocation ledger promises, with none of its bookkeeping: one  *)
(* human (an allocation) has one spending counter per budget, every wallet *)
(* of that human draws on the same counter, and a budget's cap is never    *)
(* below what any human already spent from it.                             *)
(***************************************************************************)
EXTENDS Integers

CONSTANTS
  Wallets,
  Allocations,
  Budgets,      \* the (group, period) pairs
  Amounts,      \* the amounts of money considered, a set of naturals
  Zero          \* the unset identifier

VARIABLES
  member,       \* member[w]: the allocation of wallet w, or Zero
  cap,          \* cap[b]: the cap of budget b, 0 while it has no policy
  spent         \* spent[<<a, b>>]: what allocation a spent from budget b

vars == <<member, cap, spent>>

Init ==
  /\ member = [w \in Wallets |-> Zero]
  /\ cap    = [b \in Budgets |-> 0]
  /\ spent  = [ab \in Allocations \X Budgets |-> 0]

\* A wallet joins one allocation, once.
Join(w, a) ==
  /\ member[w] = Zero
  /\ member' = [member EXCEPT ![w] = a]
  /\ UNCHANGED <<cap, spent>>

\* A cap covers everything already spent under it, by every allocation.
SetCap(b, c) ==
  /\ c > 0
  /\ \A a \in Allocations : spent[<<a, b>>] <= c
  /\ cap' = [cap EXCEPT ![b] = c]
  /\ UNCHANGED <<member, spent>>

\* A purchase fits in what the wallet's allocation has left.
Spend(w, b, amount) ==
  /\ amount > 0
  /\ member[w] \in Allocations
  /\ spent[<<member[w], b>>] + amount <= cap[b]
  /\ spent' = [spent EXCEPT ![<<member[w], b>>] = @ + amount]
  /\ UNCHANGED <<member, cap>>

Next ==
  \/ \E w \in Wallets, a \in Allocations : Join(w, a)
  \/ \E b \in Budgets, c \in Amounts : SetCap(b, c)
  \/ \E w \in Wallets, b \in Budgets, amount \in Amounts : Spend(w, b, amount)

Spec == Init /\ [][Next]_vars
=============================================================================
