------------------------- MODULE MCOfferingRegistry -------------------------
(* Finite instances of the registry. *)
EXTENDS OfferingRegistry, TLC

CONSTANTS rwa, eur, issuer

\* A pool of the hook on the offering's pair, one of another hook, one on
\* another pair.
MCPoolKeys ==
  {[tokens |-> {Usdc, rwa}, hooks |-> Hook], [tokens |-> {Usdc, rwa}, hooks |-> Zero],
   [tokens |-> {Usdc, eur}, hooks |-> Hook]}

Identifiers == Permutations(Wallets) \cup Permutations(RestoreNonces)
                 \cup Permutations(Groups)

\* The fields no property relates stay as they are: tiers, reviews, pauses,
\* operators and a platform that issues offerings.
QuietFields ==
  /\ authorizedIssuer \subseteq {issuer}
  /\ tokenReviewed = {}
  /\ \A x \in DOMAIN investorTier : investorTier[x] = 0
  /\ \A id \in DOMAIN offerings :
       ~offerings[id].paused /\ offerings[id].liquidityOperator = Zero

\* Terms and revocations do not meet: no operation on the one reads the other.
\* Either the offerings change, and one wallet spends, while nobody is revoked,
\* or both wallets are revoked and restored under the first terms of one offering.
TermsMove ==
  /\ revocationEpoch = [x \in DOMAIN revocationEpoch |-> 0]
  /\ \E w \in Wallets : \A v \in Wallets \ {w} : allocationIdByWallet[v] = Zero
RevocationsMove ==
  /\ Len(offerings) <= 1 /\ usedNonce = {}
  /\ \A id \in DOMAIN offerings :
       /\ offerings[id].version = 1 /\ offerings[id].poolId = Zero
       /\ offerings[id].cap = 1 /\ offerings[id].periodId = 1
       /\ offerings[id].startTime = 0 /\ offerings[id].endTime = 1

\* The last moment is one that terms may name and no step is taken at.
Focus == QuietFields /\ now < MaxTime /\ (TermsMove \/ RevocationsMove)
=============================================================================
