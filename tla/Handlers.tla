------------------------------- MODULE Handlers -------------------------------
(***************************************************************************)
(* The route handlers beside enrollment and linking, and the console of    *)
(* the local market, side by side: the request limiter, the binding of     *)
(* World proofs, the presentation demo, the guided demo, the               *)
(* administration page, and the offering directory with the status report  *)
(* it runs.  They share no state, so a behaviour is one of them at a time: *)
(* `part' is chosen at the start, its part moves, and the others stay      *)
(* where they begin.                                                       *)
(***************************************************************************)
EXTENDS RequestLimit

CONSTANTS
  None,
  Humans, Environments, SessionKeys, NumRequests, MaxRestarts,   \* of World proofs
  Wallets, Reserved, ChallengeTTL, AuthorizationTTL,             \* of the presentation demo
  MaxDemoTime, MaxDemoRequests, DemoOverlap, MaxChanges,
  DemoCap, Buys, Human, Wallet, Amount, Ops,                     \* of the guided demo
  MaxBoxRequests, BoxOverlap, MaxCrashes,
  Pages, Accounts, Deployer, Oracles, Deployed,                  \* of the console
  MaxVolatility, MaxClicks, MaxSwitches,
  Periods, InitialPeriod, Caps, Envs, MissingCode, FirstPolicies, \* of the status report
  MaxAdministered, MaxReports,
  Scripts, Lifetime, LastTime                                     \* of the directory

VARIABLES
  part,
  config, restarts, credential, rows, proofStage, proof, expired, answer,
  demoTime, changes, allowed, lastAllowed, signerMatches, policyMatches, owner, bound, usedNonce,
  issued, signed, authorizations, action, wallet, challenge, signature, listed, span, seen,
  demoStage, demoOutcome,
  chain, snaps, nextId, file, op, boxStage, id, before, met, reading, boxOutcome, resets, seeded,
  torn, crashes,
  account, switches, hook, moved, volatility, addresses, shown, clicks, call, sender, clickStage,
  status, tx,
  env, ledger, administered, report, asked, reported, held,
  clock, records, script, pending, beside, view, directory

Binding == INSTANCE ProofBinding WITH
  Keys <- SessionKeys, stage <- proofStage, request <- proof

Demo == INSTANCE PresentationDemo WITH
  MaxTime <- MaxDemoTime, MaxRequests <- MaxDemoRequests, Overlap <- DemoOverlap,
  time <- demoTime, stage <- demoStage, outcome <- demoOutcome

Box == INSTANCE DemoSandbox WITH
  Cap <- DemoCap, MaxRequests <- MaxBoxRequests, Overlap <- BoxOverlap,
  stage <- boxStage, outcome <- boxOutcome

Console == INSTANCE AdminConsole WITH stage <- clickStage

Directory == INSTANCE OfferingDirectory WITH
  MaxChanges <- MaxAdministered, MaxRequests <- MaxReports, MaxTime <- LastTime,
  chain <- ledger, changes <- administered, request <- report, answer <- reported,
  seen <- held, now <- clock

ASSUME HandlersAssumption ==
  /\ Binding!ProofBindingAssumption /\ Demo!DemoAssumption
  /\ Box!SandboxAssumption /\ Console!ConsoleAssumption
  /\ Directory!StatusAssumption /\ Directory!DirectoryAssumption

limitState   == vars
bindingState == <<config, restarts, credential, rows, proofStage, proof, expired, answer>>
demoState    == <<demoTime, changes, allowed, lastAllowed, signerMatches, policyMatches, owner,
                  bound, usedNonce, issued, signed, authorizations, action, wallet, challenge,
                  signature, listed, span, seen, demoStage, demoOutcome>>
boxState     == <<chain, snaps, nextId, file, op, boxStage, id, before, met, reading, boxOutcome,
                  resets, seeded, torn, crashes>>
consoleState == <<account, switches, hook, moved, volatility, addresses, shown, clicks, call,
                  sender, clickStage, status, tx>>
directoryState == <<env, ledger, administered, report, asked, reported, held, clock, records,
                    script, pending, beside, view, directory>>

\* Where a part begins is open only for the part that moves.
HandlersInit ==
  /\ part \in {"limit", "binding", "demo", "box", "console", "directory"}
  /\ Init
  /\ Binding!Init
  /\ part # "binding" => credential = [h \in Humans |-> 1] /\ config.environment = "staging"
  /\ Demo!Init
  /\ part # "demo" => allowed = {} /\ owner = None
  /\ Box!Init
  /\ Console!Init
  /\ part # "console" => volatility = [o \in Oracles |-> 0]
  /\ Directory!DirInit
  /\ part # "directory" =>
       /\ records = {} /\ env = CHOOSE e \in Envs : TRUE
       /\ ledger.code = Directory!Contracts /\ ledger.period = InitialPeriod
       /\ ledger.group = "configured" /\ ledger.pair = "configured"

HandlersNext ==
  /\ UNCHANGED part
  /\ \/ /\ part = "limit" /\ Next
        /\ UNCHANGED <<bindingState, demoState, boxState, consoleState, directoryState>>
     \/ /\ part = "binding" /\ Binding!Next
        /\ UNCHANGED <<limitState, demoState, boxState, consoleState, directoryState>>
     \/ /\ part = "demo" /\ Demo!Next
        /\ UNCHANGED <<limitState, bindingState, boxState, consoleState, directoryState>>
     \/ /\ part = "box" /\ Box!Next
        /\ UNCHANGED <<limitState, bindingState, demoState, consoleState, directoryState>>
     \/ /\ part = "console" /\ Console!Next
        /\ UNCHANGED <<limitState, bindingState, demoState, boxState, directoryState>>
     \/ /\ part = "directory" /\ Directory!DirNext
        /\ UNCHANGED <<limitState, bindingState, demoState, boxState, consoleState>>

HandlersSpec ==
  /\ HandlersInit
  /\ [][HandlersNext]_<<part, limitState, bindingState, demoState, boxState, consoleState,
                       directoryState>>

-----------------------------------------------------------------------------
\* One human has one enrollment in an environment, however World writes the
\* nullifier; what the handlers answer of enrollments is true, and a session
\* that was given out stays known while the configuration stays.
BindingHolds ==
  part = "binding" =>
    /\ Binding!TypeOK
    /\ Binding!OneRowPerHuman /\ Binding!AnswersAreTrue /\ Binding!GivenIsKnown

\* The presentation demo: a wallet is bound only by a request that began while it was
\* on the list, within one authorization lifetime of that request's end, and only on
\* facts the ledger had; a nonce reported used is the wallet's own.
WalletsAreHeldBack ==
  /\ Demo!RemovalTakesEffect /\ Demo!AuthorizedOnFacts
  /\ [](Demo!TypeOK /\ Demo!UsedIsLinked)

\* The guided demo shows a request that met no other what the journey computes;
\* among others a confirmed purchase is in its numbers.  It can be restarted unless a
\* reset was stopped half way, and a restart loads purchases in two known cases only.
DemoIsTrue ==
  part = "box" =>
    /\ Box!TypeOK
    /\ Box!MatchesJourney /\ Box!ConfirmedIsRead /\ Box!CanRestart /\ Box!LoadsNoOther

\* An entry of the console's log is of its own transaction: "success" says that it
\* was mined, and it was applied too while the hook's owner stays and no zero oracle
\* is asked for.  The fees its pages compute from current readings are the hook's.
ConsoleIsTrue ==
  part = "console" =>
    /\ Console!TypeOK
    /\ Console!EntryIsItsOwn /\ Console!FeeAsCharged

\* The status report is exact when nothing moved and no read failed, and calls a
\* market ready only on what was so while it was made.
StatusIsTrue == part = "directory" => Directory!StatusIsTrue

\* A record the directory calls ready is current, the policy beside it was the
\* ledger's, and there are two records only of scripts that were about to create
\* together.
DirectoryIsTrue == part = "directory" => Directory!DirectoryIsTrue

\* A script does not create a record while a current one is there.
PublishingTwiceAddsNothing == Directory!CreatesNoOther
===============================================================================
