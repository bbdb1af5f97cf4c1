------------------------ MODULE MCAllocationLedger ------------------------
(* A finite instance of the ledger. *)
EXTENDS AllocationLedger, TLC

CONSTANTS admin

Identifiers == Permutations(Wallets) \cup Permutations(Allocations)
                 \cup Permutations(Nonces)

\* Budgets and roles do not meet: nothing that spends reads a signer or the
\* time, nothing that registers reads a policy.  The run explores both, one
\* while the other rests.
Focus ==
  \/ owner = admin /\ backendSigner = admin /\ authorizedHook \in {admin, Zero} /\ now = 0
  \/ \A b \in Budgets : policyByGroupPeriod[b].usdc = Zero
=============================================================================
