--------------------------- MODULE PresentationDemo ---------------------------
(***************************************************************************)
(* POST /api/invest/demo: the registration of a presentation wallet.       *)
(*                                                                         *)
(* The route keeps nothing.  A preflight answers with a challenge under    *)
(* the server's key that names the wallet, the nonce of its registration   *)
(* and an expiry; an authorize request brings it back with the wallet's    *)
(* signature and gets a registerWallet authorization for the one demo      *)
(* allocation.  Each request copies the list of wallets from the           *)
(* environment as it begins, reads the facts it decides on one by one from *)
(* a chain that changes meanwhile, and signs by a clock it reads at the    *)
(* very end.  An authorization is sent to the ledger by anyone.            *)
(***************************************************************************)
EXTENDS Integers, FiniteSets

CONSTANTS
  Wallets,
  Reserved,         \* the allocation signer and the liquidity helper
  ChallengeTTL, AuthorizationTTL,
  MaxTime,          \* bound: ticks of the clock
  MaxRequests,      \* bound: requests to the route
  Overlap,          \* bound: requests under way at a time
  MaxChanges,       \* bound: changes by the owner, the operator and World flows
  None

Requests == 1..MaxRequests

\* What names a wallet, a nonce and an expiry: a challenge, or an authorization.
Grants == [wallet : Wallets, nonce : Requests, expiry : Nat]

DemoAssumption ==
  /\ Reserved \subseteq Wallets
  /\ None \notin Wallets \cup Nat \cup Grants \cup
       {"demo", "world", "refused", "ready", "already_linked", "used", "authorized"}
  /\ {ChallengeTTL, AuthorizationTTL, MaxTime, MaxRequests, Overlap, MaxChanges} \subseteq Nat

Facts    == {"signer", "policy", "owner", "binding"}

VARIABLES
  time, changes,
  allowed,                  \* RWA_SEPOLIA_DEMO_ALLOWED_WALLETS
  lastAllowed,              \* history: when each wallet was last on the list
  signerMatches, policyMatches, owner, bound, usedNonce,    \* on chain
  issued,                   \* the challenges given out; a nonce is the request that drew it
  signed,                   \* the challenges their wallet signed
  authorizations,           \* the signed registrations
  action, wallet, challenge, signature,     \* of each request
  listed,                   \* of each request: its wallet is on the list it copied
  span,                     \* history, of each request: when it began and ended
  seen,                     \* of each request: the values each fact had since it began
  stage, outcome

chainVars   == <<signerMatches, policyMatches, owner, bound, usedNonce>>
requestVars == <<action, wallet, challenge, signature, listed>>
vars == <<time, changes, allowed, lastAllowed, chainVars, issued, signed, authorizations,
          requestVars, span, seen, stage, outcome>>

Active == {r \in Requests : stage[r] \notin {"unused", "done"}}

Init ==
  /\ time = 0 /\ changes = 0
  /\ allowed \in SUBSET Wallets
  /\ lastAllowed = [w \in Wallets |-> IF w \in allowed THEN 0 ELSE None]
  /\ signerMatches = TRUE /\ policyMatches = TRUE /\ owner \in Wallets \cup {None}
  /\ bound = [w \in Wallets |-> None] /\ usedNonce = {}
  /\ issued = {} /\ signed = {} /\ authorizations = {}
  /\ action = [r \in Requests |-> None] /\ wallet = [r \in Requests |-> None]
  /\ challenge = [r \in Requests |-> None] /\ signature = [r \in Requests |-> None]
  /\ listed = [r \in Requests |-> FALSE]
  /\ span = [r \in Requests |-> [began |-> 0, ended |-> 0]]
  /\ seen = [r \in Requests |-> [x \in Facts |-> {}]]
  /\ stage = [r \in Requests |-> "unused"] /\ outcome = [r \in Requests |-> None]

-----------------------------------------------------------------------------
(* Chain, clock and environment *)

\* What a read of each fact would answer now, for a request of wallet w.
Reads(w) ==
  [x \in Facts |-> CASE x = "signer"  -> signerMatches
                     [] x = "policy"  -> policyMatches
                     [] x = "owner"   -> owner # w
                     [] x = "binding" -> bound[w]]

\* The reads of a request are made one by one, in any order and at any moment
\* since it began: each may answer any value its fact has had since then.
See ==
  seen' = [r \in Requests |->
    IF r \in Active THEN [x \in Facts |-> seen[r][x] \cup {Reads(wallet[r])'[x]}] ELSE seen[r]]

Tick ==
  /\ time < MaxTime /\ time' = time + 1
  /\ lastAllowed' = [w \in Wallets |-> IF w \in allowed THEN time' ELSE lastAllowed[w]]
  /\ UNCHANGED <<changes, allowed, chainVars, issued, signed, authorizations, requestVars,
                 span, seen, stage, outcome>>

Change == changes < MaxChanges /\ changes' = changes + 1

\* The operator edits the list; every request reads it again.
EditList(w) ==
  /\ Change
  /\ allowed' = IF w \in allowed THEN allowed \ {w} ELSE allowed \cup {w}
  /\ lastAllowed' = [lastAllowed EXCEPT ![w] = time]
  /\ UNCHANGED <<time, chainVars, issued, signed, authorizations, requestVars, span,
                 seen, stage, outcome>>

\* setBackendSigner, setPolicy, transferOwnership, or a World registration.
ChainChanges ==
  /\ Change
  /\ \/ signerMatches' = ~signerMatches /\ UNCHANGED <<policyMatches, owner, bound>>
     \/ policyMatches' = ~policyMatches /\ UNCHANGED <<signerMatches, owner, bound>>
     \/ owner' \in Wallets \ {owner} /\ UNCHANGED <<signerMatches, policyMatches, bound>>
     \/ /\ \E w \in Wallets : bound[w] = None /\ bound' = [bound EXCEPT ![w] = "world"]
        /\ UNCHANGED <<signerMatches, policyMatches, owner>>
  /\ UNCHANGED <<time, allowed, lastAllowed, usedNonce, issued, signed, authorizations,
                 requestVars, span, stage, outcome>>
  /\ See

\* registerWallet with an authorization of the route.
Register(a) ==
  /\ a.expiry >= time /\ a.nonce \notin usedNonce /\ signerMatches
  /\ bound[a.wallet] \in {None, "demo"}
  /\ bound' = [bound EXCEPT ![a.wallet] = "demo"]
  /\ usedNonce' = usedNonce \cup {a.nonce}
  /\ UNCHANGED <<time, changes, allowed, lastAllowed, signerMatches, policyMatches, owner, issued,
                 signed, authorizations, requestVars, span, stage, outcome>>
  /\ See

\* The owner of a wallet signs a challenge shown to it.
SignChallenge(c) ==
  /\ c \notin signed /\ signed' = signed \cup {c}
  /\ UNCHANGED <<time, changes, allowed, lastAllowed, chainVars, issued, authorizations, requestVars,
                 span, seen, stage, outcome>>

-----------------------------------------------------------------------------
(* A request *)

ListedOnce(w) == lastAllowed[w] # None      \* faulty variant: the list of the process start
Listed(w)     == w \in allowed

\* readDemoConfig copies the list before anything is awaited.
Begin(r, w) ==
  /\ stage[r] = "unused" /\ \A q \in 1..(r - 1) : stage[q] # "unused"
  /\ Cardinality(Active) < Overlap
  /\ wallet' = [wallet EXCEPT ![r] = w]
  /\ listed' = [listed EXCEPT ![r] = Listed(w)]
  /\ span' = [span EXCEPT ![r].began = time]
  /\ stage' = [stage EXCEPT ![r] = "reading"]
  /\ seen' = [seen EXCEPT ![r] = [x \in Facts |-> {Reads(w)[x]}]]
  /\ UNCHANGED <<time, changes, allowed, lastAllowed, chainVars, issued, signed, authorizations,
                 outcome>>

Preflight(r, w) ==
  /\ Begin(r, w) /\ action' = [action EXCEPT ![r] = "preflight"]
  /\ UNCHANGED <<challenge, signature>>

\* A challenge of any wallet may be brought, with a signature over it or another.
Authorize(r, w, c) ==
  /\ Begin(r, w) /\ action' = [action EXCEPT ![r] = "authorize"]
  /\ challenge' = [challenge EXCEPT ![r] = c]
  /\ signature' \in {[signature EXCEPT ![r] = x] : x \in {None} \cup (signed \cap {c})}

Matches(f)       == f.signer /\ f.owner /\ f.policy

\* assessDemoWallet, of the list copied and the facts read
Approved(r, f) ==
  wallet[r] \notin Reserved /\ listed[r] /\ Matches(f) /\ f.binding \in {None, "demo"}

End(r, why) ==
  /\ stage' = [stage EXCEPT ![r] = "done"] /\ outcome' = [outcome EXCEPT ![r] = why]
  /\ span' = [span EXCEPT ![r].ended = time]

NonceOf(r)     == r

\* openChallenge, and the recovered signer
Acceptable(r) ==
  /\ challenge[r].wallet = wallet[r] /\ challenge[r].expiry >= time
  /\ signature[r] = challenge[r]

Answers(r) ==
  [signer : seen[r].signer, policy : seen[r].policy, owner : seen[r].owner, binding : seen[r].binding]

Decide(r) ==
  /\ stage[r] = "reading"
  /\ \/ End(r, "refused") /\ UNCHANGED issued       \* a read failed
     \/ \E f \in Answers(r) :
          CASE ~Approved(r, f) -> End(r, "refused") /\ UNCHANGED issued
            [] Approved(r, f) /\ action[r] = "preflight" ->
                 IF f.binding = "demo"
                   THEN End(r, "already_linked") /\ UNCHANGED issued
                   ELSE /\ End(r, "ready")
                        /\ issued' = issued \cup
                             {[wallet |-> wallet[r], nonce |-> NonceOf(r), expiry |-> time + ChallengeTTL]}
            [] Approved(r, f) /\ action[r] = "authorize" ->
                 /\ UNCHANGED issued
                 /\ IF ~Acceptable(r) THEN End(r, "refused")
                    ELSE IF f.binding = "demo" THEN End(r, "already_linked")
                    ELSE stage' = [stage EXCEPT ![r] = "nonce"] /\ UNCHANGED <<outcome, span>>
  /\ UNCHANGED <<time, changes, allowed, lastAllowed, chainVars, signed, authorizations, requestVars,
                 seen>>

\* registrationNonceUsed; the read may fail.
ReadNonce(r) ==
  /\ stage[r] = "nonce"
  /\ \/ End(r, "refused")
     \/ challenge[r].nonce \in usedNonce /\ End(r, "used")
     \/ /\ challenge[r].nonce \notin usedNonce
        /\ stage' = [stage EXCEPT ![r] = "sign"] /\ UNCHANGED <<outcome, span>>
  /\ UNCHANGED <<time, changes, allowed, lastAllowed, chainVars, issued, signed, authorizations,
                 requestVars, seen>>

\* The clock read when the nonce's answer is back, and signRegistration.
Sign(r) ==
  /\ stage[r] = "sign" /\ End(r, "authorized")
  /\ authorizations' = authorizations \cup
       {[wallet |-> wallet[r], nonce |-> challenge[r].nonce, expiry |-> time + AuthorizationTTL]}
  /\ UNCHANGED <<time, changes, allowed, lastAllowed, chainVars, issued, signed, requestVars, seen>>

Next ==
  \/ Tick \/ ChainChanges
  \/ \E w \in Wallets : EditList(w)
  \/ \E a \in authorizations : Register(a)
  \/ \E c \in issued : SignChallenge(c)
  \/ \E r \in Requests :
       \/ \E w \in Wallets : Preflight(r, w) \/ \E c \in issued : Authorize(r, w, c)
       \/ Decide(r) \/ ReadNonce(r) \/ Sign(r)

Spec == Init /\ [][Next]_vars

-----------------------------------------------------------------------------
(* Properties *)

\* Type correctness; what is authorized was asked for by its own wallet.
TypeOK ==
  /\ time \in 0..MaxTime /\ changes \in 0..MaxChanges
  /\ allowed \subseteq Wallets /\ lastAllowed \in [Wallets -> 0..MaxTime \cup {None}]
  /\ bound \in [Wallets -> {None, "demo", "world"}] /\ usedNonce \subseteq Requests
  /\ signed \subseteq issued
  /\ \A a \in authorizations : \E c \in signed : c.wallet = a.wallet /\ c.nonce = a.nonce
  /\ outcome \in [Requests -> {None, "refused", "ready", "already_linked", "used", "authorized"}]

\* "This wallet link was already used" is said of a wallet that is linked:
\* its nonce was not spent by another presentation wallet.
UsedIsLinked ==
  \A r \in Requests : outcome[r] = "used" => bound[wallet[r]] = "demo"

\* Whatever challenges and authorizations are still around, a wallet is bound
\* to the demo allocation only within one authorization lifetime of the end
\* of a request that began no later than the wallet was last on the list, and a
\* reserved one never: taking a wallet off holds back every request that
\* begins afterwards, and none that was under way, however long that takes.
RemovalTakesEffect ==
  [][\A w \in Wallets :
       bound[w] = None /\ bound'[w] = "demo" =>
         /\ w \notin Reserved /\ lastAllowed[w] # None
         /\ \E r \in Requests :
              /\ wallet[r] = w /\ outcome[r] = "authorized"
              /\ span[r].began <= lastAllowed[w]
              /\ time <= span[r].ended + AuthorizationTTL]_vars

\* Each fact had one value since the request began.
MetNoChange(r) == \A x \in Facts : \E v \in seen[r][x] : seen[r][x] = {v}

\* When the chain did not change under a request, it is authorized only what
\* the ledger would take and the configuration expects.
AuthorizedOnFacts ==
  [][\A r \in Requests :
       outcome[r] = None /\ outcome'[r] = "authorized" /\ MetNoChange(r) =>
         /\ signerMatches /\ policyMatches /\ owner # wallet[r] /\ bound[wallet[r]] = None
         /\ challenge[r].nonce \notin usedNonce]_vars
=============================================================================
