---------------------------- MODULE MCWalletLink ----------------------------
(* Finite instances of wallet linking, from the state where two humans are   *)
(* enrolled and hold grants.                                                 *)
EXTENDS WalletLink, TLC

CONSTANTS h1, h2, s1, s2, a1, a2, a3, w1

Enrolled ==
  /\ enrollments = <<[human |-> h1, session |-> s1, allocation |-> a1],
                     [human |-> h2, session |-> s2, allocation |-> a2]>>
  /\ grants = <<Grant(1, 0), Grant(2, 0)>>
  /\ resumes = {[enrollment |-> i, expires |-> RESUME_TTL] : i \in {1, 2}}
  /\ requests = {}
  /\ resumed = [h \in Humans |-> None]
  /\ cookie = (h1 :> 1) @@ (h2 :> 2)
  /\ tokens = (h1 :> {1}) @@ (h2 :> {2})
  /\ now = 0
  /\ NothingLinked

EnrolledSpec == Enrolled /\ [][LinkedNext]_linkedVars

\* The wallet w1 holds two authorizations of World, paid with h1's two grants.
Authorized ==
  /\ enrollments = <<[human |-> h1, session |-> s1, allocation |-> a1],
                     [human |-> h2, session |-> s2, allocation |-> a2]>>
  /\ grants = <<[Grant(1, 0) EXCEPT !.status = "consumed"], Grant(2, 0),
                [Grant(1, 0) EXCEPT !.status = "consumed"]>>
  /\ resumes = {[enrollment |-> i, expires |-> RESUME_TTL] : i \in {1, 2}}
  /\ requests = {}
  /\ resumed = [h \in Humans |-> None]
  /\ cookie = (h1 :> 1) @@ (h2 :> 2)
  /\ tokens = (h1 :> {1, 3}) @@ (h2 :> {2})
  /\ now = 0
  /\ challenges = [i \in {1, 2} |-> [grant |-> 2 * i - 1, wallet |-> w1,
                                     expires |-> CHALLENGE_TTL, status |-> "consumed"]]
  /\ association = [w \in Wallets |-> IF w = w1 THEN a1 ELSE None]
  /\ demoIdentities = <<>>
  /\ demoChallenges = <<>>
  /\ demoWallet = [w \in Wallets |-> None]
  /\ registrations =
       [i \in {1, 2} |-> Issued([issuer |-> "world", grant |-> 2 * i - 1, wallet |-> w1,
                                 allocation |-> a1, at |-> 0])]
  /\ signed = {<<"world", 1>>, <<"world", 2>>}
  /\ authorizing = {} /\ observing = {}
  /\ txs = <<>>
  /\ allocationIdByWallet = [w \in Wallets |-> None]
  /\ usedNonce = {}
  /\ backendSigner = Signer
  /\ otherLedger = <<>>

LinkingSpec == (Enrolled \/ Authorized) /\ [][LinkedNext]_linkedVars

\* Nobody enrolls or continues any more.
EnrollmentRests == requests = {} /\ \A h \in Humans : resumed[h] = None /\ cookie[h] # 0

\* Two grants, two wallets, World alone, and no chain.
Authorizing ==
  /\ Len(grants) = 2 /\ now <= 1
  /\ demoIdentities = <<>> /\ txs = <<>> /\ backendSigner = Signer

\* One wallet between both issuers, no chain.
Issuers ==
  /\ Len(grants) = 2 /\ now <= 1
  /\ Len(challenges) <= 2
  /\ \A c \in DOMAIN challenges : challenges[c].wallet = w1
  /\ \A c \in DOMAIN demoChallenges : demoChallenges[c].wallet = w1 /\ c <= 2
  /\ txs = <<>> /\ backendSigner = Signer

\* Two authorizations of one wallet, two receipts at a time.
Observing ==
  /\ Len(grants) = 3 /\ Len(challenges) = 2
  /\ demoIdentities = <<>>
  /\ Cardinality(observing) <= 2

Focus == EnrollmentRests /\ (Authorizing \/ Issuers \/ Observing)

IssuersFocus == EnrollmentRests /\ txs = <<>>
=============================================================================
