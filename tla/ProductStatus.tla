----------------------------- MODULE ProductStatus -----------------------------
(***************************************************************************)
(* GET /api/product/status, the report every page of the product reads     *)
(* first: is registration ready, is there a policy, is the market ready.   *)
(*                                                                         *)
(* assembleProductStatus makes one read of Ethereum after another, each at *)
(* the latest block of its own moment, while the owner of the contracts    *)
(* goes on administering them; any of the reads may fail.  Two groups of   *)
(* reads are made in parallel: the code of the four market contracts, and  *)
(* the group and the period of the hook.                                   *)
(***************************************************************************)
EXTENDS Integers

CONSTANTS
  Periods, InitialPeriod,   \* INITIAL_ALLOCATION_PERIOD
  Caps,                     \* caps setPolicy is called with
  Envs,                     \* the environments the server is started in
  MissingCode,              \* the contracts that may have no code at first
  FirstPolicies,            \* the caps per period set at first; 0: none
  MaxChanges,               \* bound: administration transactions
  MaxRequests,              \* bound: reports
  None

\* The ALLOCATION_ variables: all set and valid, one missing, one invalid, or
\* another chain id; the chain behind the RPC; the four market addresses.
Environment ==
  [config : {"valid", "missing", "invalid", "other chain"},
   rpc : {"sepolia", "other"}, market : BOOLEAN]

StatusAssumption ==
  /\ Envs \subseteq Environment
  /\ InitialPeriod \in Periods /\ Caps \subseteq Nat \ {0}
  /\ None \notin Nat \cup Periods \cup [cap : Caps, period : Periods] \cup {"configured", "other"}
  /\ MaxChanges \in Nat /\ MaxRequests \in Nat

Market    == {"executor", "hook", "usdc", "rwa"}
Contracts == Market \cup {"ledger"}
Sides     == {"configured", "other"}    \* equal to the configured value, or not

VARIABLES
  env, chain, changes,
  request,      \* the report under way
  asked,
  answer,       \* the last report, or None
  seen          \* history: the chain's states since that report was asked for

vars == <<env, chain, changes, request, asked, answer, seen>>

Chain ==
  [code : SUBSET Contracts, signer : Sides,
   policy : [Periods -> Caps \cup {0}],          \* of the configured group; 0: none
   group : Sides, period : Periods,              \* of the hook
   pair : Sides]                                 \* the immutable tokens of the executor

Idle ==
  [at |-> "idle", hasCode |-> FALSE, signer |-> "other", owner |-> FALSE,
   unread |-> {}, bare |-> {}, group |-> "other", period |-> None,
   available |-> FALSE, failed |-> FALSE]

Init ==
  /\ env \in Envs
  /\ chain \in {c \in Chain : /\ c.code \in {Contracts} \cup {Contracts \ {m} : m \in MissingCode}
                              /\ c.signer = "configured" /\ c.policy \in FirstPolicies}
  /\ changes = 0 /\ request = Idle /\ asked = 0 /\ answer = None /\ seen = {}

-----------------------------------------------------------------------------
\* The contracts' owner: a deployment, setBackendSigner, setPolicy, setAllocation.
Administer ==
  /\ changes < MaxChanges /\ changes' = changes + 1
  /\ \/ chain' = [chain EXCEPT !.code = Contracts]
     \/ \E s \in Sides : chain' = [chain EXCEPT !.signer = s]
     \/ \E p \in Periods, cap \in Caps : chain' = [chain EXCEPT !.policy[p] = cap]
     \/ \E g \in Sides, p \in Periods : chain' = [chain EXCEPT !.group = g, !.period = p]
  /\ chain' # chain
  /\ seen' = IF request.at = "idle" THEN seen ELSE seen \cup {chain'}
  /\ UNCHANGED <<env, request, asked, answer>>

-----------------------------------------------------------------------------
\* emptyStatus and the base of a valid configuration: nothing was read.
Unread ==
  [problem |-> "none", rpcReady |-> FALSE, hasCode |-> FALSE, signerMatches |-> FALSE,
   owner |-> FALSE, period |-> None, policy |-> None,
   market |-> FALSE, available |-> FALSE,
   registrationReady |-> FALSE, policyReady |-> FALSE, marketReady |-> FALSE]

\* INITIAL_ALLOCATION_PERIOD stands in for a hook whose period was not read.
PeriodToRead(r) == IF r.period = None THEN InitialPeriod ELSE r.period

\* Nothing stands for a cap of zero: the policy is left out.
Policy(cap, p) == IF cap = 0 THEN None ELSE [cap |-> cap, period |-> p]

SignerMatches(r) == r.signer = "configured"

Report(r, policy) ==
  LET registration == r.hasCode /\ SignerMatches(r)
      purchases    == registration /\ policy # None
  IN [Unread EXCEPT
        !.rpcReady = TRUE, !.hasCode = r.hasCode, !.signerMatches = SignerMatches(r),
        !.owner = r.owner, !.period = PeriodToRead(r), !.policy = policy,
        !.market = env.market, !.available = r.available,
        !.registrationReady = registration, !.policyReady = purchases,
        !.marketReady = purchases /\ r.available]

Problem(p)  == [Unread EXCEPT !.problem = p]
Answer(a)   == answer' = a /\ request' = [request EXCEPT !.at = "idle"]
GoTo(r)     == request' = r /\ UNCHANGED answer
Reading(at) == request.at = at /\ UNCHANGED <<env, chain, changes, asked, seen>>

\* A read that throws: what its catch makes of it is the caller's.
Failed(r) == [r EXCEPT !.failed = TRUE]

Ask ==
  /\ request.at = "idle" /\ asked < MaxRequests
  /\ asked' = asked + 1 /\ seen' = {chain}
  /\ IF env.config = "valid"
     THEN request' = [Idle EXCEPT !.at = "chainId"] /\ answer' = None
     ELSE request' = Idle /\ answer' = Problem(env.config)
  /\ UNCHANGED <<env, chain, changes>>

ReadChainId ==
  /\ Reading("chainId")
  /\ \/ Answer(Unread)                                        \* the read failed
     \/ /\ env.rpc = "other"
        /\ Answer([Problem("other RPC") EXCEPT !.rpcReady = TRUE])
     \/ env.rpc = "sepolia" /\ GoTo([request EXCEPT !.at = "ledger"])

LedgerReadFails == answer' = [Unread EXCEPT !.rpcReady = TRUE]
                     /\ request' = [Failed(request) EXCEPT !.at = "idle"]

\* Without addresses executionStatus reads nothing, and the policy is next.
MarketReads(r) ==
  IF env.market THEN [r EXCEPT !.at = "market", !.unread = Market] ELSE [r EXCEPT !.at = "policy"]

ReadLedgerCode ==
  /\ Reading("ledger")
  /\ \/ LedgerReadFails
     \/ "ledger" \in chain.code /\ GoTo([request EXCEPT !.at = "signer", !.hasCode = TRUE])
     \/ "ledger" \notin chain.code /\ GoTo(MarketReads(request))

ReadSigner ==
  /\ Reading("signer")
  /\ LedgerReadFails \/ GoTo([request EXCEPT !.at = "owner", !.signer = chain.signer])

\* The owner's own catch: the report goes on without it.
ReadOwner ==
  /\ Reading("owner")
  /\ \E known \in BOOLEAN : GoTo(MarketReads([request EXCEPT !.owner = known, !.failed = ~known]))

\* The catch of executionStatus: no market, and no period.
MarketReadFails == GoTo([Failed(request) EXCEPT !.at = "policy", !.period = None, !.available = FALSE])

ReadMarketCode ==
  /\ Reading("market")
  /\ \/ MarketReadFails
     \/ \E c \in request.unread :
          LET left == request.unread \ {c}
              bare == request.bare \cup ({c} \ chain.code)
          IN GoTo([request EXCEPT
                     !.unread = IF left # {} THEN left ELSE {"group", "period"},
                     !.bare = bare,
                     !.at = IF left # {} THEN "market" ELSE IF bare # {} THEN "policy" ELSE "hook"])

\* A faulty variant, for comparison.
AnyGroup(r) == TRUE

\* The market is supported when the hook's group and then the executor's tokens
\* are the configured ones; the hook's period is used either way.
SameGroup(r) == r.group = "configured"

ReadHook ==
  /\ Reading("hook")
  /\ \/ MarketReadFails
     \/ \E part \in request.unread :
          LET r == IF part = "group" THEN [request EXCEPT !.group = chain.group]
                                     ELSE [request EXCEPT !.period = chain.period]
              left == request.unread \ {part}
          IN GoTo([r EXCEPT !.unread = left,
                            !.at = IF left # {} THEN "hook"
                                   ELSE IF SameGroup(r) THEN "tokens" ELSE "policy"])

ReadTokens ==
  /\ Reading("tokens")
  /\ \/ MarketReadFails
     \/ GoTo([request EXCEPT !.at = "policy", !.available = (chain.pair = "configured")])

ReadPolicy ==
  /\ Reading("policy")
  /\ \/ ~request.hasCode /\ Answer(Report(request, None))
     \/ /\ request.hasCode
        /\ LET p == PeriodToRead(request)
           IN Answer(Report(request, Policy(chain.policy[p], p)))
     \/ /\ request.hasCode                                    \* the read failed
        /\ answer' = Report(request, None)
        /\ request' = [Failed(request) EXCEPT !.at = "idle"]

Read == \/ ReadChainId \/ ReadLedgerCode \/ ReadSigner \/ ReadOwner
        \/ ReadMarketCode \/ ReadHook \/ ReadTokens \/ ReadPolicy

Next == Administer \/ Ask \/ Read

Spec == Init /\ [][Next]_vars

-----------------------------------------------------------------------------
\* The report has a report's type, and each readiness includes the one before it.
TypeOK ==
  /\ env \in Environment /\ chain \in Chain /\ changes \in 0..MaxChanges /\ asked \in 0..MaxRequests
  /\ request.at \in {"idle", "chainId", "ledger", "signer", "owner", "market", "hook", "tokens", "policy"}
  /\ seen \subseteq Chain
  /\ answer # None =>
       /\ answer.policy # None => answer.policy.cap \in Caps /\ answer.policy.period \in Periods
       /\ answer.marketReady => answer.policyReady
       /\ answer.policyReady => answer.registrationReady

Done == answer # None /\ request.at = "idle"

\* What a page may call ready while the chain stays at c: the ledger takes the
\* server's signatures, the period the hook enforces has a policy, and the four
\* contracts are there, on the configured group and tokens.
HookIsRead(c)     == env.market /\ Market \subseteq c.code
EnforcedPeriod(c) == IF HookIsRead(c) THEN c.period ELSE InitialPeriod
Registers(c)      == "ledger" \in c.code /\ c.signer = "configured"
HasPolicy(c)      == Registers(c) /\ c.policy[EnforcedPeriod(c)] # 0
Sells(c)          == HasPolicy(c) /\ HookIsRead(c) /\ c.group = "configured" /\ c.pair = "configured"

\* A report made while nobody administered the contracts and no read failed
\* says of the chain exactly what is so.  (assembleProductStatus, executionStatus)
RightWhenUndisturbed ==
  Done /\ answer.rpcReady /\ answer.problem = "none" /\ ~request.failed =>
    \A c \in seen : seen = {c} =>
      /\ answer.registrationReady = Registers(c)
      /\ answer.policyReady = HasPolicy(c)
      /\ answer.marketReady = Sells(c)

\* Whatever the owner does between two of the reads and whichever of them fail,
\* a market is called ready only if each thing that makes it so was so at some
\* moment of the request, and with the policy of a period the hook was set to.
MarketReadyWasSo ==
  Done /\ answer.marketReady =>
    /\ \E c \in seen : Registers(c)
    /\ \E c \in seen : Market \subseteq c.code
    /\ \E c \in seen : c.group = "configured"
    /\ \A c \in seen : c.pair = "configured"
    /\ \E c \in seen : c.period = answer.policy.period
    /\ \E c \in seen : c.policy[answer.policy.period] = answer.policy.cap

\* What the report says of the chain is so, or was so while it was made.
StatusIsTrue == RightWhenUndisturbed /\ MarketReadyWasSo
=============================================================================
