----------------------------- MODULE ClientsProofs -----------------------------
(***************************************************************************)
(* Proofs about the clients, for any number of flows, requests, clicks,    *)
(* wallets and changes: the investor page, its World requests, the         *)
(* purchase panel and the swap form report what happened, cancelled and    *)
(* withdrawn requests stop, and no purchase reverts for a stale display.   *)
(***************************************************************************)
EXTENDS Clients, TLAPS

USE PageAssumption

-----------------------------------------------------------------------------
(* The parts of the invariant *)

Kinds    == {"verify", "continue", "demo"}
Asking   == {"request", "waiting", "proof", "identity"}     \* about World's request
Writing  == {"mining", "reading", "posting"}                \* after the transaction was sent

FlowsOK ==
  /\ stage \in [Flows -> Stages]
  /\ outcome \in [Flows -> {None, "registered", "linked", "expired", "pending", "unverified", "failed"}]
  /\ tx \in [Flows -> {None, "pending", "success", "reverted"}]
  /\ kind \in [Flows -> Kinds \cup {None}]
  /\ wallet \in [Flows -> Wallets \cup {None}]
  /\ bound \in [Wallets -> {None, "world", "demo"}]
  /\ aborted \in [Flows -> BOOLEAN]
  /\ cancelled \subseteq Flows
  /\ current \in Flows \cup {0} /\ shown \in Flows \cup {0}
  /\ verifying \in BOOLEAN /\ linking \in BOOLEAN
  /\ address \in Wallets \cup {None}

\* What a flow that was not started, and one that sent nothing, cannot have.
StagesOK ==
  \A f \in Flows :
    /\ stage[f] = "unused" => f \notin cancelled
    /\ stage[f] # "done" => outcome[f] = None
    /\ stage[f] # "unused" => kind[f] \in Kinds /\ wallet[f] \in Wallets
    /\ tx[f] # None => stage[f] \in Writing \cup Ended
    /\ kind[f] = "demo" => stage[f] \notin Asking

\* A binding that was read or reported stays.
BoundOK ==
  \A f \in Flows :
    stage[f] = "posting" \/ outcome[f] \in {"registered", "linked"} =>
      wallet[f] \in Wallets /\ bound[wallet[f]] = Allocation(f)

\* Only the newest request is not withdrawn, and only it is shown.
RequestsOK ==
  /\ \A f \in Flows : stage[f] \in {"request", "waiting"} /\ ~aborted[f] => f = current
  /\ shown # 0 => shown = current /\ stage[shown] = "waiting"
  /\ \A f \in cancelled :
       aborted[f] /\ stage[f] \in {"waiting", "proof"} \cup Ended /\ tx[f] = None

\* A busy button has a flow that is busy, or that was lost.
BusyOK ==
  /\ verifying => \E f \in Flows : kind[f] = "verify" /\ stage[f] \notin {"unused", "done"}
  /\ linking => \E f \in Flows : kind[f] \in {"continue", "demo"} /\ stage[f] \notin {"unused", "done"}

Inv == FlowsOK /\ StagesOK /\ BoundOK /\ RequestsOK /\ BusyOK

-----------------------------------------------------------------------------
(* The steps, by what they do to the flows *)

Aside ==
  /\ address' \in {address, None} \cup Wallets
  /\ UNCHANGED <<current, kind, wallet, aborted, cancelled, busyVars, shown, phase, stage, outcome,
                 chainVars>>

\* A step of flow f leaves the clicks' variables alone.
Own == UNCHANGED <<address, current, kind, wallet, aborted, cancelled>>

EndStep(f) ==
  \E why \in {"registered", "linked", "expired", "pending", "failed"} :
    /\ stage[f] \notin Ended \cup {"unused"} /\ End(f, why) /\ Own /\ UNCHANGED chainVars
    /\ why \in {"registered", "linked"} => bound[wallet[f]] = Allocation(f)
    /\ why \in {"linked", "expired"} => kind[f] = "demo"

LoseStep(f) ==
  stage[f] \notin Ended \cup {"unused", "waiting"} /\ Lose(f) /\ Own /\ UNCHANGED chainVars

GoStep(f) ==
  \E s \in Stages \ (Ended \cup {"unused", "request"}) :
    /\ stage[f] \notin Ended \cup {"unused"}
    /\ GoOn(f, s) /\ Own /\ UNCHANGED bound
    /\ s = "waiting" => stage[f] = "request" /\ ~aborted[f] /\ shown' = f
    /\ s # "waiting" => shown' = 0 \/ (shown' = shown /\ stage[f] # "waiting")
    /\ stage[f] = "waiting" => s = "proof"
    /\ stage[f] = "proof" => ~aborted[f]
    /\ stage[f] \notin Asking => s \notin Asking
    /\ stage[f] \in Writing => s \in Writing
    /\ s = "posting" => bound[wallet[f]] = Allocation(f)
    /\ tx' = tx \/ (s = "mining" /\ stage[f] = "confirming" /\ tx' = [tx EXCEPT ![f] = "pending"])
    /\ kind[f] = "demo" =>
         phase' = phase \/ (phase' = "awaiting_transaction" /\ tx' = [tx EXCEPT ![f] = "pending"])

\* What a flow does in one step: it ends, is lost, or goes on.
LEMMA FlowSteps ==
  ASSUME StagesOK, BoundOK, NEW f \in Flows, Step(f)
  PROVE  EndStep(f) \/ LoseStep(f) \/ GoStep(f)
<1> USE DEF Own, Ended, flowVars, chainVars, busyVars, walletVars
<1>0. stage[f] \in Asking => kind[f] # "demo"
  BY DEF StagesOK
<1>1. CASE RequestOpened(f)
  <2>1. CASE End(f, "failed")
    BY <1>1, <2>1 DEF RequestOpened, EndStep
  <2>2. CASE ~aborted[f] /\ GoOn(f, "waiting") /\ shown' = f /\ UNCHANGED phase
    BY <1>1, <2>2 DEF RequestOpened, GoStep, Stages, Asking, Writing
  <2> QED BY <1>1, <2>1, <2>2 DEF RequestOpened
<1>2. CASE ProofReceived(f)
  <2>1. CASE End(f, "failed")
    BY <1>2, <2>1 DEF ProofReceived, EndStep
  <2>2. CASE GoOn(f, "proof") /\ shown' = 0 /\ UNCHANGED phase
    BY <1>2, <2>2 DEF ProofReceived, GoStep, Stages, Asking, Writing
  <2> QED BY <1>2, <2>1, <2>2 DEF ProofReceived
<1>3. CASE ProofAnswered(f)
  <2>1. CASE End(f, "failed")
    BY <1>3, <2>1 DEF ProofAnswered, EndStep
  <2>2. CASE Lose(f)
    BY <1>3, <2>2 DEF ProofAnswered, LoseStep
  <2>3. CASE AnswerCounts(f) /\ GoOn(f, "identity") /\ shown' = shown
    BY <1>0, <1>3, <2>3 DEF ProofAnswered, AnswerCounts, GoStep, Stages, Asking, Writing
  <2>4. CASE AnswerCounts(f) /\ GoOn(f, "signing") /\ shown' = 0
    BY <1>0, <1>3, <2>4 DEF ProofAnswered, AnswerCounts, GoStep, Stages, Asking, Writing
  <2> QED BY <1>3, <2>1, <2>2, <2>3, <2>4 DEF ProofAnswered
<1>4. CASE IdentityRefetched(f)
  BY <1>0, <1>4 DEF IdentityRefetched, GoStep, Stages, Asking, Writing
<1>5. CASE SignatureMade(f)
  <2>1. CASE End(f, "failed")
    BY <1>5, <2>1 DEF SignatureMade, EndStep
  <2>2. CASE Lose(f)
    BY <1>5, <2>2 DEF SignatureMade, LoseStep
  <2>3. CASE GoOn(f, "authorizing") /\ UNCHANGED <<shown, phase>>
    BY <1>5, <2>3 DEF SignatureMade, GoStep, Stages, Asking, Writing
  <2> QED BY <1>5, <2>1, <2>2, <2>3 DEF SignatureMade
<1>6. CASE Authorized(f)
  <2>1. CASE End(f, "failed")
    BY <1>6, <2>1 DEF Authorized, EndStep
  <2>2. CASE Lose(f)
    BY <1>6, <2>2 DEF Authorized, LoseStep
  <2>3. CASE GoOn(f, "checking") /\ shown' = shown
    BY <1>6, <2>3 DEF Authorized, GoStep, Stages, Asking, Writing
  <2> QED BY <1>6, <2>1, <2>2, <2>3 DEF Authorized
<1>7. CASE DemoAuthorized(f)
  <2>0. kind[f] = "demo"
    BY <1>7 DEF DemoAuthorized
  <2>1. CASE End(f, "failed") \/ End(f, "expired")
    BY <1>7, <2>0, <2>1 DEF DemoAuthorized, EndStep
  <2>2. CASE Lose(f)
    BY <1>7, <2>2 DEF DemoAuthorized, LoseStep
  <2>3. CASE GoOn(f, "checking") /\ UNCHANGED <<shown, phase>>
    BY <1>7, <2>3 DEF DemoAuthorized, GoStep, Stages, Asking, Writing
  <2>4. CASE bound[wallet[f]] = "demo" /\ End(f, "linked")
    BY <1>7, <2>0, <2>4 DEF DemoAuthorized, EndStep, Allocation
  <2> QED BY <1>7, <2>1, <2>2, <2>3, <2>4 DEF DemoAuthorized
<1>8. CASE Checked(f)
  <2>1. CASE End(f, "failed")
    BY <1>8, <2>1 DEF Checked, EndStep
  <2>2. CASE GoOn(f, "confirming") /\ UNCHANGED <<shown, phase>>
    BY <1>8, <2>2 DEF Checked, GoStep, Stages, Asking, Writing
  <2>3. CASE bound[wallet[f]] = Allocation(f) /\ End(f, "registered")
    BY <1>8, <2>3 DEF Checked, EndStep
  <2> QED BY <1>8, <2>1, <2>2, <2>3 DEF Checked
<1>9. CASE Sent(f)
  <2>1. CASE End(f, "failed") /\ UNCHANGED tx
    BY <1>9, <2>1 DEF Sent, EndStep
  <2>2. CASE /\ tx' = [tx EXCEPT ![f] = "pending"] /\ GoOn(f, "mining") /\ shown' = shown
             /\ phase' = IF kind[f] = "continue" THEN phase ELSE "awaiting_transaction"
    BY <1>9, <2>2 DEF Sent, GoStep, Stages, Asking, Writing
  <2> QED BY <1>9, <2>1, <2>2 DEF Sent
<1>10. CASE ReceiptRead(f)
  <2>1. CASE End(f, "failed") \/ End(f, "pending")
    BY <1>10, <2>1 DEF ReceiptRead, EndStep
  <2>2. CASE GoOn(f, "reading") /\ UNCHANGED <<shown, phase>>
    BY <1>10, <2>2 DEF ReceiptRead, GoStep, Stages, Asking, Writing
  <2> QED BY <1>10, <2>1, <2>2 DEF ReceiptRead, StillPending
<1>11. CASE VerdictRead(f)
  <2>1. CASE End(f, "failed")
    BY <1>11, <2>1 DEF VerdictRead, EndStep
  <2>2. CASE bound[wallet[f]] = Allocation(f) /\ GoOn(f, "posting") /\ UNCHANGED <<shown, phase>>
    BY <1>11, <2>2 DEF VerdictRead, GoStep, Stages, Asking, Writing
  <2> QED BY <1>11, <2>1, <2>2 DEF VerdictRead
<1>12. CASE ReceiptPosted(f)
  <2>1. CASE End(f, "registered")
    BY <1>12, <2>1 DEF ReceiptPosted, EndStep, BoundOK
  <2>2. CASE Lose(f)
    BY <1>12, <2>2 DEF ReceiptPosted, LoseStep
  <2> QED BY <1>12, <2>1, <2>2 DEF ReceiptPosted
<1> QED
  BY <1>1, <1>2, <1>3, <1>4, <1>5, <1>6, <1>7, <1>8, <1>9, <1>10, <1>11, <1>12
  DEF Step, Awaited, Prompted

-----------------------------------------------------------------------------
(* Each kind of step *)

\* A step aside leaves the flows alone.
LEMMA AsideKeeps ==
  ASSUME Inv, Aside
  PROVE  Inv'
BY DEF Inv, Aside, FlowsOK, StagesOK, BoundOK, RequestsOK, BusyOK, busyVars, chainVars, Allocation

\* Reads, the wallet and the demo check are steps aside.
LEMMA AsideSteps ==
  ASSUME \/ \E a \in Wallets \cup {None} : ChooseAccount(a)
         \/ SwitchNetwork \/ StatusAnswered \/ IdentityAnswered \/ Poll \/ SessionChanges
         \/ UseDemo \/ StartDemoCheck \/ ChallengeExpires
         \/ \E w \in Wallets : PreflightAnswered(w)
         \/ UNCHANGED vars
  PROVE  Aside
BY DEF ChooseAccount, SwitchNetwork, StatusAnswered, IdentityAnswered, Poll, SessionChanges,
       UseDemo, StartDemoCheck, ChallengeExpires, PreflightAnswered, vars, Aside, flowVars,
       walletVars

\* A flow that ends.
LEMMA EndKeeps ==
  ASSUME Inv, NEW f \in Flows, EndStep(f)
  PROVE  Inv'
<1>1. PICK why \in {"registered", "linked", "expired", "pending", "failed"} :
        /\ stage[f] \notin Ended \cup {"unused"} /\ End(f, why)
        /\ why \in {"registered", "linked"} => bound[wallet[f]] = Allocation(f)
  BY DEF EndStep
<1> DEFINE result == Result(f, why)
<1>1a. /\ result \in {"registered", "linked", "expired", "pending", "unverified", "failed"}
       /\ result \in {"registered", "linked"} => result = why
  BY DEF Result
<1>1b. /\ stage' = [stage EXCEPT ![f] = "done"] /\ outcome' = [outcome EXCEPT ![f] = result]
  BY <1>1 DEF End
<1> HIDE DEF result
<1>2. /\ stage' = [stage EXCEPT ![f] = "done"] /\ outcome' = [outcome EXCEPT ![f] = result]
      /\ verifying' = (verifying /\ kind[f] # "verify")
      /\ linking' = (linking /\ kind[f] = "verify")
      /\ shown' = IF kind[f] = "demo" THEN shown ELSE 0
      /\ UNCHANGED <<address, current, kind, wallet, aborted, cancelled, tx, bound>>
  BY <1>1, <1>1b DEF EndStep, End, LinkingEnds, Own, chainVars
<1>3. kind[f] \in Kinds /\ wallet[f] \in Wallets /\ (kind[f] = "demo" => stage[f] \notin Asking)
  BY <1>1 DEF Inv, StagesOK
<1>4. FlowsOK'
  BY <1>1a, <1>2 DEF Inv, FlowsOK, Stages, Ended
<1>5. ASSUME NEW g \in Flows
      PROVE  /\ stage'[g] = IF g = f THEN "done" ELSE stage[g]
             /\ outcome'[g] = IF g = f THEN result ELSE outcome[g]
  BY <1>2 DEF Inv, FlowsOK
<1>6. StagesOK'
  BY <1>1, <1>2, <1>3, <1>5 DEF Inv, StagesOK, Ended, Asking
<1>7. BoundOK'
  BY <1>1, <1>1a, <1>2, <1>3, <1>5 DEF Inv, BoundOK, Allocation
<1>8. RequestsOK'
  <2>1. \A g \in Flows : stage'[g] \in {"request", "waiting"} /\ ~aborted'[g] => g = current'
    BY <1>2, <1>5 DEF Inv, RequestsOK
  <2>2. shown' # 0 => shown' = current' /\ stage'[shown'] = "waiting"
    BY <1>2, <1>3, <1>5 DEF Inv, RequestsOK, FlowsOK, Asking
  <2>3. \A g \in cancelled' :
          aborted'[g] /\ stage'[g] \in {"waiting", "proof"} \cup Ended /\ tx'[g] = None
    BY <1>2, <1>5 DEF Inv, RequestsOK, FlowsOK, Ended
  <2> QED BY <2>1, <2>2, <2>3 DEF RequestsOK
<1>9. BusyOK'
  BY <1>2, <1>5 DEF Inv, BusyOK, Kinds
<1> QED BY <1>4, <1>6, <1>7, <1>8, <1>9 DEF Inv

\* A flow whose await threw.
LEMMA LoseKeeps ==
  ASSUME Inv, NEW f \in Flows, LoseStep(f)
  PROVE  Inv'
<1>1. /\ stage[f] \notin Ended \cup {"unused", "waiting"} /\ stage' = [stage EXCEPT ![f] = "lost"]
      /\ UNCHANGED <<outcome, verifying, linking, shown, address, current, kind, wallet, aborted, cancelled,
                     tx, bound>>
  BY DEF LoseStep, Lose, Own, chainVars, busyVars
<1>2. FlowsOK'
  BY <1>1 DEF Inv, FlowsOK, Stages, Ended
<1>3. ASSUME NEW g \in Flows
      PROVE  stage'[g] = IF g = f THEN "lost" ELSE stage[g]
  BY <1>1 DEF Inv, FlowsOK
<1>4. StagesOK'
  BY <1>1, <1>3 DEF Inv, StagesOK, Ended, Asking
<1>5. BoundOK'
  BY <1>1, <1>3 DEF Inv, BoundOK, Allocation
<1>6. RequestsOK'
  BY <1>1, <1>3 DEF Inv, RequestsOK, FlowsOK, Ended
<1>7. BusyOK'
  BY <1>1, <1>3 DEF Inv, BusyOK
<1> QED BY <1>2, <1>4, <1>5, <1>6, <1>7 DEF Inv

\* A flow that goes on.
LEMMA GoKeeps ==
  ASSUME Inv, NEW f \in Flows, GoStep(f)
  PROVE  Inv'
<1>1. PICK s \in Stages \ (Ended \cup {"unused", "request"}) :
        /\ stage[f] \notin Ended \cup {"unused"}
        /\ GoOn(f, s) /\ Own /\ UNCHANGED bound
        /\ s = "waiting" => stage[f] = "request" /\ ~aborted[f] /\ shown' = f
        /\ s # "waiting" => shown' = 0 \/ (shown' = shown /\ stage[f] # "waiting")
        /\ stage[f] = "waiting" => s = "proof"
        /\ stage[f] = "proof" => ~aborted[f]
        /\ stage[f] \notin Asking => s \notin Asking
        /\ stage[f] \in Writing => s \in Writing
        /\ s = "posting" => bound[wallet[f]] = Allocation(f)
        /\ tx' = tx \/ (s = "mining" /\ stage[f] = "confirming" /\ tx' = [tx EXCEPT ![f] = "pending"])
  BY DEF GoStep
<1>2. /\ stage' = [stage EXCEPT ![f] = s]
      /\ UNCHANGED <<outcome, verifying, linking, address, current, kind, wallet, aborted, cancelled,
                     bound>>
  BY <1>1 DEF GoOn, Own, busyVars
<1>3. ASSUME NEW g \in Flows
      PROVE  /\ stage'[g] = IF g = f THEN s ELSE stage[g]
             /\ g # f => tx'[g] = tx[g]
             /\ tx'[g] # tx[g] => s = "mining" /\ stage[f] = "confirming"
  BY <1>1, <1>2 DEF Inv, FlowsOK
<1>4. FlowsOK'
  <2>1. stage' \in [Flows -> Stages] /\ tx' \in [Flows -> {None, "pending", "success", "reverted"}]
    BY <1>1, <1>2 DEF Inv, FlowsOK
  <2>2. shown' \in Flows \cup {0}
    BY <1>1 DEF Inv, FlowsOK
  <2> QED BY <1>2, <2>1, <2>2 DEF Inv, FlowsOK
<1>5. StagesOK'
  <2>1. ASSUME NEW g \in Flows, tx'[g] # None
        PROVE  stage'[g] \in Writing \cup Ended
    <3>1. CASE g = f
      BY <1>1, <1>3, <2>1, <3>1 DEF Inv, StagesOK, Ended, Writing
    <3>2. CASE g # f
      BY <1>3, <2>1, <3>2 DEF Inv, StagesOK
    <3> QED BY <3>1, <3>2
  <2>2. ASSUME NEW g \in Flows
        PROVE  /\ stage'[g] = "unused" => g \notin cancelled'
               /\ stage'[g] # "done" => outcome'[g] = None
               /\ stage'[g] # "unused" => kind'[g] \in Kinds /\ wallet'[g] \in Wallets
               /\ kind'[g] = "demo" => stage'[g] \notin Asking
    <3>1. CASE g = f
      BY <1>1, <1>2, <1>3, <3>1 DEF Inv, StagesOK, Ended
    <3>2. CASE g # f
      BY <1>2, <1>3, <3>2 DEF Inv, StagesOK
    <3> QED BY <3>1, <3>2
  <2> QED BY <2>1, <2>2 DEF StagesOK
<1>6. BoundOK'
  BY <1>1, <1>2, <1>3 DEF Inv, StagesOK, BoundOK, Allocation
<1>7. RequestsOK'
  <2>1. ASSUME NEW g \in Flows, stage'[g] \in {"request", "waiting"}, ~aborted'[g]
        PROVE  g = current'
    BY <1>1, <1>2, <1>3, <2>1 DEF Inv, RequestsOK
  <2>2. ASSUME shown' # 0
        PROVE  shown' = current' /\ stage'[shown'] = "waiting"
    <3>1. CASE s = "waiting"
      BY <1>1, <1>2, <1>3, <3>1 DEF Inv, RequestsOK
    <3>2. CASE s # "waiting"
      <4>1. shown' = shown /\ stage[f] # "waiting" /\ shown \in Flows
        BY <1>1, <2>2, <3>2 DEF Inv, FlowsOK
      <4> QED BY <1>2, <1>3, <2>2, <4>1 DEF Inv, RequestsOK
    <3> QED BY <3>1, <3>2
  <2>3. ASSUME NEW g \in cancelled'
        PROVE  aborted'[g] /\ stage'[g] \in {"waiting", "proof"} \cup Ended /\ tx'[g] = None
    <3>1. /\ g \in cancelled /\ g \in Flows /\ aborted[g] /\ tx[g] = None
          /\ stage[g] \in {"waiting", "proof"} \cup Ended
      BY <1>2, <2>3 DEF Inv, RequestsOK, FlowsOK
    <3>2. CASE g = f
      BY <1>1, <1>2, <1>3, <3>1, <3>2
    <3>3. CASE g # f
      BY <1>2, <1>3, <3>1, <3>3
    <3> QED BY <3>2, <3>3
  <2> QED BY <2>1, <2>2, <2>3 DEF RequestsOK
<1>8. BusyOK'
  BY <1>1, <1>2, <1>3 DEF Inv, BusyOK, Ended
<1> QED BY <1>4, <1>5, <1>6, <1>7, <1>8 DEF Inv

\* The user starts a flow.
BeginStep(f) ==
  \E k \in Kinds :
    /\ stage[f] = "unused" /\ address \in Wallets
    /\ stage' = [stage EXCEPT ![f] = IF k = "demo" THEN "signing" ELSE "request"]
    /\ kind' = [kind EXCEPT ![f] = k] /\ wallet' = [wallet EXCEPT ![f] = address]
    /\ UNCHANGED <<address, outcome, cancelled, tx, bound>>
    /\ verifying' = (verifying \/ k = "verify") /\ linking' = (linking \/ k # "verify")
    /\ IF k = "demo"
         THEN UNCHANGED <<current, aborted, shown, phase>>
         ELSE /\ current' = f /\ shown' = 0
              /\ aborted' = IF current = 0 THEN aborted ELSE [aborted EXCEPT ![current] = TRUE]

\* Each button begins a flow in the same way.
LEMMA BeginSteps ==
  ASSUME Inv, NEW f \in Flows,
         VerifyIdentity(f) \/ LinkWallet(f) \/ RegisterDemoWallet(f)
  PROVE  BeginStep(f)
<1> USE DEF Begin, NextFlow, Request, walletVars, chainVars
<1>1. (address # None => address \in Wallets) /\ verifying \in BOOLEAN /\ linking \in BOOLEAN
  BY DEF Inv, FlowsOK
<1>2. CASE VerifyIdentity(f)
  BY <1>1, <1>2 DEF VerifyIdentity, MainEnabled, BeginStep, Kinds
<1>3. CASE LinkWallet(f)
  BY <1>1, <1>3 DEF LinkWallet, MainEnabled, LinkEnabled, BeginStep, Kinds
<1>4. CASE RegisterDemoWallet(f)
  BY <1>1, <1>4 DEF RegisterDemoWallet, demoForWallet, BeginStep, Kinds
<1> QED BY <1>2, <1>3, <1>4

\* A flow begins, and takes the signal of the one before it.
LEMMA BeginKeeps ==
  ASSUME Inv, NEW f \in Flows, BeginStep(f)
  PROVE  Inv'
<1>1. PICK k \in Kinds :
        /\ stage[f] = "unused" /\ address \in Wallets
        /\ stage' = [stage EXCEPT ![f] = IF k = "demo" THEN "signing" ELSE "request"]
        /\ kind' = [kind EXCEPT ![f] = k] /\ wallet' = [wallet EXCEPT ![f] = address]
        /\ UNCHANGED <<address, outcome, cancelled, tx, bound>>
        /\ verifying' = (verifying \/ k = "verify") /\ linking' = (linking \/ k # "verify")
        /\ IF k = "demo"
             THEN UNCHANGED <<current, aborted, shown>>
             ELSE /\ current' = f /\ shown' = 0
                  /\ aborted' = IF current = 0 THEN aborted ELSE [aborted EXCEPT ![current] = TRUE]
  BY DEF BeginStep
<1>2. ASSUME NEW g \in Flows
      PROVE  /\ stage'[g] = IF g = f THEN (IF k = "demo" THEN "signing" ELSE "request") ELSE stage[g]
             /\ kind'[g] = IF g = f THEN k ELSE kind[g]
             /\ wallet'[g] = IF g = f THEN address ELSE wallet[g]
             /\ aborted[g] => aborted'[g]
  BY <1>1 DEF Inv, FlowsOK
<1>3. outcome[f] = None /\ f \notin cancelled /\ tx[f] = None
  BY <1>1 DEF Inv, StagesOK, Writing, Ended
<1>4. FlowsOK'
  BY <1>1 DEF Inv, FlowsOK, Stages, Kinds
<1>5. StagesOK'
  BY <1>1, <1>2, <1>3 DEF Inv, StagesOK, Asking
<1>6. BoundOK'
  BY <1>1, <1>2, <1>3 DEF Inv, BoundOK, Allocation
<1>7. RequestsOK'
  <2>1. ASSUME NEW g \in Flows, stage'[g] \in {"request", "waiting"}, ~aborted'[g]
        PROVE  g = current'
    <3>1. CASE g = f
      BY <1>1, <1>2, <2>1, <3>1
    <3>2. CASE g # f
      <4>1. g = current
        BY <1>2, <2>1, <3>2 DEF Inv, RequestsOK
      <4>2. k = "demo"
        BY <1>1, <2>1, <4>1 DEF Inv, FlowsOK, Flows
      <4> QED BY <1>1, <4>1, <4>2
    <3> QED BY <3>1, <3>2
  <2>2. shown' # 0 => shown' = current' /\ stage'[shown'] = "waiting"
    BY <1>1, <1>2 DEF Inv, RequestsOK, FlowsOK
  <2>3. ASSUME NEW g \in cancelled'
        PROVE  aborted'[g] /\ stage'[g] \in {"waiting", "proof"} \cup Ended /\ tx'[g] = None
    BY <1>1, <1>2, <1>3, <2>3 DEF Inv, RequestsOK, FlowsOK
  <2> QED BY <2>1, <2>2, <2>3 DEF RequestsOK
<1>8. BusyOK'
  <2>1. ASSUME verifying'
        PROVE  \E g \in Flows : kind'[g] = "verify" /\ stage'[g] \notin {"unused", "done"}
    <3>1. CASE k = "verify"
      BY <1>1, <1>2, <3>1
    <3>2. CASE k # "verify"
      <4>1. verifying
        BY Zenon, <1>1, <2>1, <3>2
      <4>2. PICK g \in Flows : kind[g] = "verify" /\ stage[g] \notin {"unused", "done"}
        BY <4>1 DEF Inv, BusyOK
      <4> QED BY <1>1, <1>2, <4>2
    <3> QED BY <3>1, <3>2
  <2>2. ASSUME linking'
        PROVE  \E g \in Flows :
                 kind'[g] \in {"continue", "demo"} /\ stage'[g] \notin {"unused", "done"}
    <3>1. CASE k # "verify"
      BY <1>1, <1>2, <3>1 DEF Kinds
    <3>2. CASE k = "verify"
      <4>1. linking
        BY Zenon, <1>1, <2>2, <3>2
      <4>2. PICK g \in Flows :
              kind[g] \in {"continue", "demo"} /\ stage[g] \notin {"unused", "done"}
        BY <4>1 DEF Inv, BusyOK
      <4> QED BY <1>1, <1>2, <4>2
    <3> QED BY <3>1, <3>2
  <2> QED BY <2>1, <2>2 DEF BusyOK
<1> QED BY <1>4, <1>5, <1>6, <1>7, <1>8 DEF Inv

\* The user cancels the request whose code is shown.
LEMMA CancelKeeps ==
  ASSUME Inv, Cancel
  PROVE  Inv'
<1>1. /\ shown # 0 /\ aborted' = [aborted EXCEPT ![current] = TRUE]
      /\ cancelled' = cancelled \cup {shown}
      /\ UNCHANGED <<address, current, kind, wallet, verifying, linking, shown, stage, outcome, tx, bound>>
  BY DEF Cancel, AbortCurrent, walletVars, busyVars, chainVars
<1>2. shown \in Flows /\ shown = current /\ stage[shown] = "waiting"
  BY <1>1 DEF Inv, RequestsOK, FlowsOK
<1>3. tx[shown] = None
  BY <1>2 DEF Inv, StagesOK, Writing, Ended
<1>4. ASSUME NEW g \in Flows
      PROVE  (aborted[g] => aborted'[g]) /\ (g = shown => aborted'[g])
  BY <1>1, <1>2 DEF Inv, FlowsOK
<1>5. FlowsOK'
  BY <1>1, <1>2 DEF Inv, FlowsOK
<1>6. StagesOK' /\ BoundOK' /\ BusyOK'
  BY <1>1, <1>2 DEF Inv, StagesOK, BoundOK, BusyOK, Allocation
<1>7. RequestsOK'
  BY <1>1, <1>2, <1>3, <1>4 DEF Inv, RequestsOK, FlowsOK
<1> QED BY <1>5, <1>6, <1>7 DEF Inv

\* The registration of flow f is mined, or reverts.
LEMMA MineKeeps ==
  ASSUME Inv, NEW f \in Flows, Mine(f)
  PROVE  Inv'
<1>1. /\ tx[f] = "pending"
      /\ UNCHANGED <<address, current, kind, wallet, aborted, cancelled, verifying, linking, shown,
                     stage, outcome>>
      /\ \/ /\ bound[wallet[f]] \in {None, Allocation(f)}
            /\ tx' = [tx EXCEPT ![f] = "success"]
            /\ bound' = [bound EXCEPT ![wallet[f]] = Allocation(f)]
         \/ tx' = [tx EXCEPT ![f] = "reverted"] /\ UNCHANGED bound
  BY DEF Mine, walletVars, busyVars, flowVars
<1>2. Allocation(f) \in {"world", "demo"}
  BY DEF Allocation
<1>3. FlowsOK'
  BY <1>1, <1>2 DEF Inv, FlowsOK
<1>4. ASSUME NEW g \in Flows
      PROVE  (tx'[g] # None => tx[g] # None \/ g = f) /\ (g # f => tx'[g] = tx[g])
  BY <1>1 DEF Inv, FlowsOK
<1>5. StagesOK' /\ BusyOK'
  BY <1>1, <1>4 DEF Inv, StagesOK, BusyOK
<1>6. BoundOK'
  <2>1. ASSUME NEW g \in Flows, wallet[g] \in Wallets, bound[wallet[g]] = Allocation(g)
        PROVE  bound'[wallet[g]] = Allocation(g)
    <3>1. Allocation(g) # None
      BY DEF Allocation
    <3>2. CASE wallet[g] = wallet[f]
      BY <1>1, <2>1, <3>1, <3>2 DEF Inv, FlowsOK
    <3>3. CASE wallet[g] # wallet[f]
      BY <1>1, <2>1, <3>3 DEF Inv, FlowsOK
    <3> QED BY <3>2, <3>3
  <2> QED BY <1>1, <2>1 DEF Inv, BoundOK, Allocation
<1>7. RequestsOK'
  <2>1. f \notin cancelled
    BY <1>1 DEF Inv, RequestsOK
  <2> QED BY <1>1, <1>4, <2>1 DEF Inv, RequestsOK, FlowsOK
<1> QED BY <1>3, <1>5, <1>6, <1>7 DEF Inv

-----------------------------------------------------------------------------
(* The invariant *)

\* The fresh page satisfies the invariant.
LEMMA InitInv ==
  Init => Inv
<1> SUFFICES ASSUME Init PROVE Inv
  OBVIOUS
<1>1. FlowsOK
  BY DEF Init, FlowsOK, Stages
<1>2. StagesOK /\ BoundOK /\ RequestsOK /\ BusyOK
  BY DEF Init, StagesOK, BoundOK, RequestsOK, BusyOK
<1> QED BY <1>1, <1>2 DEF Inv

\* Every step keeps it.
LEMMA StepKeeps ==
  Inv /\ [Next]_vars => Inv'
<1> SUFFICES ASSUME Inv, [Next]_vars PROVE Inv'
  OBVIOUS
<1>1. ASSUME NEW f \in Flows, Step(f)
      PROVE  Inv'
  <2>1. EndStep(f) \/ LoseStep(f) \/ GoStep(f)
    BY <1>1, FlowSteps DEF Inv
  <2> QED BY <2>1, EndKeeps, LoseKeeps, GoKeeps
<1>2. ASSUME NEW f \in Flows, VerifyIdentity(f) \/ LinkWallet(f) \/ RegisterDemoWallet(f)
      PROVE  Inv'
  BY <1>2, BeginSteps, BeginKeeps
<1>3. CASE Cancel
  BY <1>3, CancelKeeps
<1>4. ASSUME NEW f \in Flows, Mine(f)
      PROVE  Inv'
  BY <1>4, MineKeeps
<1>5. CASE Aside
  BY <1>5, AsideKeeps
<1> QED BY <1>1, <1>2, <1>3, <1>4, <1>5, AsideSteps DEF Next

\* The invariant of the page holds throughout.
THEOREM PageInvariant ==
  Spec => []Inv
BY InitInv, StepKeeps, PTL DEF Spec

-----------------------------------------------------------------------------
(* What it says of the page *)

\* "Registered" on the page means registered on chain, for the wallet and the
\* allocation of the flow that says so, whatever the others did meanwhile.
THEOREM ReportsAreTrue ==
  Spec => []ReportedIsOnChain
<1>1. Inv => ReportedIsOnChain
  BY DEF Inv, BoundOK, ReportedIsOnChain
<1> QED BY <1>1, PageInvariant, PTL

\* A request the user cancelled asks nothing of the wallet any more.
THEOREM CancelsStop ==
  Spec => []CancelledStopsThere
<1>1. Inv => CancelledStopsThere
  BY DEF Inv, RequestsOK, CancelledStopsThere
<1> QED BY <1>1, PageInvariant, PTL

\* A busy phase has a World flow that will set it, or that was lost.
PhaseOK ==
  PhaseBusy => \E f \in Flows : kind[f] \in {"verify", "continue"} /\ stage[f] \notin {"unused", "done"}

\* A phase that stays is left behind as before.
LEMMA PhaseStays ==
  ASSUME Inv, PhaseOK, phase' = phase, kind' = kind,
         \A g \in Flows : /\ outcome[g] # None => outcome'[g] = outcome[g]
                          /\ tx[g] # None => tx'[g] # None
                          /\ /\ kind[g] \in {"verify", "continue"}
                             /\ stage[g] \notin {"unused", "done"}
                             => stage'[g] \notin {"unused", "done"}
  PROVE  PhaseOK'
<1>1. LeftBehind => LeftBehind'
  <2>1. CASE \E f \in Flows : /\ phase = "awaiting_signature" /\ kind[f] = "verify"
                             /\ outcome[f] \in {"pending", "failed"}
    <3>1. PICK f \in Flows : /\ phase = "awaiting_signature" /\ kind[f] = "verify"
                             /\ outcome[f] \in {"pending", "failed"}
      BY <2>1
    <3>2. outcome[f] # None
      BY <3>1
    <3>3. phase' = "awaiting_signature" /\ kind'[f] = "verify" /\ outcome'[f] \in {"pending", "failed"}
      BY <3>1, <3>2
    <3> QED BY <3>3 DEF LeftBehind
  <2>2. CASE \E f \in Flows : phase = "awaiting_transaction" /\ kind[f] = "demo" /\ tx[f] # None
    BY <2>2 DEF LeftBehind
  <2> QED BY <2>1, <2>2 DEF LeftBehind
<1> QED BY <1>1 DEF PhaseOK, PhaseBusy

\* Every step keeps it: only a World flow, or a demo flow that sends its
\* transaction, makes the phase busy.
LEMMA PhaseOKKeeps ==
  ASSUME Inv, PhaseOK, [Next]_vars
  PROVE  PhaseOK'
<1>1. ASSUME NEW f \in Flows, EndStep(f)
      PROVE  PhaseOK'
  <2>1. PICK why \in {"registered", "linked", "expired", "pending", "failed"} :
          /\ stage[f] \notin Ended \cup {"unused"} /\ End(f, why)
          /\ why \in {"linked", "expired"} => kind[f] = "demo"
    BY <1>1 DEF EndStep
  <2>2. kind' = kind /\ tx' = tx /\ kind[f] \in Kinds
    BY <1>1, <2>1 DEF EndStep, Own, chainVars, Inv, StagesOK
  <2>3. /\ stage' = [stage EXCEPT ![f] = "done"] /\ outcome' = [outcome EXCEPT ![f] = Result(f, why)]
        /\ phase' = PhaseAfter(f, why)
    BY <2>1 DEF End
  <2>4. outcome[f] = None
    BY <2>1 DEF Inv, StagesOK, Ended
  <2>5. CASE kind[f] = "demo"
    <3>1. phase' = phase
      BY <2>3, <2>5 DEF PhaseAfter
    <3>2. ASSUME NEW g \in Flows
          PROVE  /\ outcome[g] # None => outcome'[g] = outcome[g]
                 /\ tx[g] # None => tx'[g] # None
                 /\ kind[g] \in {"verify", "continue"} /\ stage[g] \notin {"unused", "done"}
                    => stage'[g] \notin {"unused", "done"}
      BY <2>2, <2>3, <2>4, <2>5 DEF Inv, FlowsOK
    <3> QED BY <2>2, <3>1, <3>2, PhaseStays
  <2>6. CASE kind[f] # "demo"
    <3>1. \/ phase' \in {"idle", "failed"}
          \/ /\ phase' = "awaiting_signature" /\ kind[f] = "verify"
             /\ outcome'[f] \in {"pending", "failed"}
      BY <2>1, <2>2, <2>3, <2>6 DEF PhaseAfter, Result, Kinds, Inv, FlowsOK
    <3> QED BY <2>2, <3>1 DEF PhaseOK, PhaseBusy, LeftBehind
  <2> QED BY <2>5, <2>6
<1>2. ASSUME NEW f \in Flows, LoseStep(f)
      PROVE  PhaseOK'
  <2>1. /\ stage' = [stage EXCEPT ![f] = "lost"] /\ UNCHANGED <<outcome, phase, kind, tx>>
    BY <1>2 DEF LoseStep, Lose, Own, chainVars
  <2>2. ASSUME NEW g \in Flows
        PROVE  stage[g] \notin {"unused", "done"} => stage'[g] \notin {"unused", "done"}
    BY <2>1 DEF Inv, FlowsOK
  <2> QED BY <2>1, <2>2, PhaseStays
<1>3. ASSUME NEW f \in Flows, GoStep(f)
      PROVE  PhaseOK'
  <2>1. PICK s \in Stages \ (Ended \cup {"unused", "request"}) :
          /\ stage[f] \notin Ended \cup {"unused"}
          /\ GoOn(f, s) /\ Own
          /\ tx' = tx \/ (s = "mining" /\ tx' = [tx EXCEPT ![f] = "pending"])
          /\ kind[f] = "demo" =>
               \/ phase' = phase
               \/ phase' = "awaiting_transaction" /\ tx' = [tx EXCEPT ![f] = "pending"]
    BY <1>3 DEF GoStep
  <2>2. /\ stage' = [stage EXCEPT ![f] = s] /\ UNCHANGED <<outcome, kind>>
        /\ s \notin {"unused", "done"} /\ kind[f] \in Kinds
    BY <2>1 DEF GoOn, Own, Inv, StagesOK, Ended
  <2>3. CASE kind[f] # "demo"
    <3>1. kind'[f] \in {"verify", "continue"} /\ stage'[f] \notin {"unused", "done"}
      BY <2>2, <2>3 DEF Kinds, Inv, FlowsOK
    <3> QED BY <3>1 DEF PhaseOK
  <2>4. CASE phase' = "awaiting_transaction" /\ tx' = [tx EXCEPT ![f] = "pending"] /\ kind[f] = "demo"
    <3>1. tx'[f] # None
      BY <2>4 DEF Inv, FlowsOK
    <3> QED BY <2>2, <2>4, <3>1 DEF PhaseOK, PhaseBusy, LeftBehind
  <2>5. CASE phase' = phase
    <3>1. ASSUME NEW g \in Flows
          PROVE  /\ tx[g] # None => tx'[g] # None
                 /\ stage[g] \notin {"unused", "done"} => stage'[g] \notin {"unused", "done"}
      BY <2>1, <2>2 DEF Inv, FlowsOK
    <3> QED BY <2>2, <2>5, <3>1, PhaseStays
  <2> QED BY <2>1, <2>3, <2>4, <2>5
<1>4. ASSUME NEW f \in Flows, BeginStep(f)
      PROVE  PhaseOK'
  <2>1. PICK k \in Kinds :
          /\ stage[f] = "unused"
          /\ stage' = [stage EXCEPT ![f] = IF k = "demo" THEN "signing" ELSE "request"]
          /\ kind' = [kind EXCEPT ![f] = k] /\ UNCHANGED <<outcome, tx>>
          /\ k = "demo" => UNCHANGED phase
    BY <1>4 DEF BeginStep
  <2>2. CASE k # "demo"
    <3>1. kind'[f] \in {"verify", "continue"} /\ stage'[f] \notin {"unused", "done"}
      BY <2>1, <2>2 DEF Kinds, Inv, FlowsOK
    <3> QED BY <3>1 DEF PhaseOK
  <2>3. CASE k = "demo"
    <3>1. ASSUME NEW g \in Flows
          PROVE  /\ g # f => kind'[g] = kind[g] /\ stage'[g] = stage[g]
                 /\ g = f => outcome[g] = None /\ tx[g] = None
      BY <2>1 DEF Inv, FlowsOK, StagesOK, Writing, Ended
    <3>2. LeftBehind => LeftBehind'
      <4>1. ASSUME NEW g \in Flows, outcome[g] \in {"pending", "failed"} \/ tx[g] # None
            PROVE  kind'[g] = kind[g] /\ outcome' = outcome /\ tx' = tx
        <5>1. g # f
          BY <3>1, <4>1
        <5> QED BY <2>1, <3>1, <5>1
      <4> QED BY <2>1, <2>3, <4>1 DEF LeftBehind
    <3>3. PhaseBusy' => PhaseBusy
      BY <2>1, <2>3, <3>2 DEF PhaseBusy
    <3> QED BY <2>1, <3>1, <3>3 DEF PhaseOK
  <2> QED BY <2>2, <2>3
<1>5. ASSUME Cancel \/ Aside
      PROVE  PhaseOK'
  BY <1>5, PhaseStays DEF Cancel, Aside, chainVars
<1>6. ASSUME NEW f \in Flows, Mine(f)
      PROVE  PhaseOK'
  <2>1. /\ UNCHANGED <<phase, kind, outcome, stage>>
        /\ tx' = [tx EXCEPT ![f] = "success"] \/ tx' = [tx EXCEPT ![f] = "reverted"]
    BY <1>6 DEF Mine, flowVars
  <2>2. ASSUME NEW g \in Flows
        PROVE  tx[g] # None => tx'[g] # None
    BY <2>1 DEF Inv, FlowsOK
  <2> QED BY <2>1, <2>2, PhaseStays
<1>7. ASSUME NEW f \in Flows, Step(f)
      PROVE  EndStep(f) \/ LoseStep(f) \/ GoStep(f)
  BY <1>7, FlowSteps DEF Inv
<1>8. ASSUME NEW f \in Flows, VerifyIdentity(f) \/ LinkWallet(f) \/ RegisterDemoWallet(f)
      PROVE  BeginStep(f)
  BY <1>8, BeginSteps
<1> QED BY <1>1, <1>2, <1>3, <1>4, <1>5, <1>6, <1>7, <1>8, AsideSteps DEF Next

\* When every flow has ended and none was lost, no QR code is shown and no button is
\* busy, but for the phase a verification without a registration or a demo flow
\* that sent its transaction left behind.
THEOREM IdleInTheEnd ==
  Spec => []IdleWhenDone
<1>1. Init => PhaseOK
  BY DEF Init, PhaseOK, PhaseBusy
<1>2. Inv /\ PhaseOK => IdleWhenDone
  <2>1. SUFFICES ASSUME Inv, PhaseOK, Active = {}, ~Lost
                 PROVE  ~verifying /\ ~linking /\ shown = 0 /\ ~PhaseBusy
    BY DEF IdleWhenDone
  <2>2. \A f \in Flows : stage[f] \in {"unused", "done"}
    BY <2>1 DEF Active, Ended, Lost
  <2>3. shown = 0
    BY <2>1, <2>2 DEF Inv, RequestsOK, FlowsOK
  <2>4. ~PhaseBusy
    BY <2>1, <2>2 DEF PhaseOK
  <2> QED BY <2>1, <2>2, <2>3, <2>4 DEF Inv, BusyOK
<1>3. Inv /\ PhaseOK /\ [Next]_vars => PhaseOK'
  BY PhaseOKKeeps
<1> QED BY <1>1, <1>2, <1>3, PageInvariant, PTL DEF Spec

-----------------------------------------------------------------------------
(* The type invariant of the page *)

ReadsTyped ==
  /\ onSepolia \in BOOLEAN /\ switches \in 0..MaxSwitches
  /\ status \in {"unread", "unready", "ready"}
  /\ {identity, identityRead} \subseteq {"unverified", "verified", "expired"}

LinkedTyped == linkedRead \subseteq {w \in Wallets : bound[w] # None}

PhaseTyped == phase \in {"idle", "verifying", "awaiting_signature", "awaiting_transaction", "failed"}

DemoTyped ==
  /\ {demoConfirm, demoLinked, live} \subseteq BOOLEAN
  /\ demoChallenge \in AllowedWallets \cup {None} /\ preflights \subseteq Wallets

\* With the invariant they are the type invariant.
LEMMA PageTypes ==
  ASSUME Inv, ReadsTyped, LinkedTyped, PhaseTyped, DemoTyped
  PROVE  TypeOK
<1>1. shown \in {0, current} /\ current \in 0..MaxFlows
  BY DEF Inv, RequestsOK, FlowsOK, Flows
<1> QED
  BY <1>1 DEF Inv, FlowsOK, ReadsTyped, LinkedTyped, PhaseTyped, DemoTyped, TypeOK

\* The reads, the network and the session.
LEMMA ReadsKept ==
  ASSUME ReadsTyped, [Next]_vars
  PROVE  ReadsTyped'
<1> USE DEF ReadsTyped, walletVars, readVars
<1>1. ASSUME NEW f \in Flows, Step(f)
      PROVE  ReadsTyped'
  BY <1>1 DEF Step, Awaited, Prompted, RequestOpened, ProofReceived, ProofAnswered, IdentityRefetched, SignatureMade,
     Authorized, DemoAuthorized, Checked, Sent, ReceiptRead, VerdictRead, ReceiptPosted
<1>2. ASSUME NEW f \in Flows, VerifyIdentity(f) \/ LinkWallet(f) \/ RegisterDemoWallet(f) \/ Mine(f)
      PROVE  ReadsTyped'
  BY <1>2 DEF VerifyIdentity, LinkWallet, RegisterDemoWallet, Mine
<1>3. ASSUME NEW w \in Wallets, PreflightAnswered(w)
      PROVE  ReadsTyped'
  BY <1>3 DEF PreflightAnswered
<1>4. ASSUME NEW a \in Wallets \cup {None}, ChooseAccount(a)
      PROVE  ReadsTyped'
  BY <1>4 DEF ChooseAccount
<1>5. CASE SwitchNetwork \/ StatusAnswered \/ IdentityAnswered \/ Poll \/ SessionChanges
  <2>1. CASE SwitchNetwork
    BY <2>1 DEF SwitchNetwork
  <2>2. CASE StatusAnswered \/ IdentityAnswered \/ Poll
    BY <2>2 DEF StatusAnswered, IdentityAnswered, Poll
  <2>3. CASE SessionChanges
    BY <2>3 DEF SessionChanges
  <2> QED BY <1>5, <2>1, <2>2, <2>3
<1>6. CASE Cancel \/ UseDemo \/ StartDemoCheck \/ ChallengeExpires \/ UNCHANGED vars
  BY <1>6 DEF Cancel, UseDemo, StartDemoCheck, ChallengeExpires, vars
<1> QED BY <1>1, <1>2, <1>3, <1>4, <1>5, <1>6 DEF Next

\* A binding stays, and only bound wallets are read as linked.
LEMMA LinkedKept ==
  ASSUME Inv, LinkedTyped, [Next]_vars
  PROVE  LinkedTyped'
<1> USE DEF readVars
<1>1. /\ linkedRead' \subseteq linkedRead \cup {w \in Wallets : bound[w] # None}
      /\ \A w \in Wallets : bound[w] # None => bound'[w] # None
  <2> USE DEF chainVars
  <2>1. ASSUME NEW f \in Flows, Step(f)
        PROVE  linkedRead' \subseteq linkedRead \cup {w \in Wallets : bound[w] # None}
               /\ bound' = bound
    <3>1. CASE ReceiptPosted(f)
      BY <3>1 DEF ReceiptPosted, Inv, FlowsOK
    <3>2. CASE ~ReceiptPosted(f)
      BY <2>1, <3>2 DEF Step, Awaited, Prompted, RequestOpened, ProofReceived, ProofAnswered, IdentityRefetched,
         SignatureMade, Authorized, DemoAuthorized, Checked, Sent, ReceiptRead, VerdictRead
    <3> QED BY <3>1, <3>2
  <2>2. ASSUME NEW f \in Flows, Mine(f)
        PROVE  /\ linkedRead' = linkedRead
               /\ \A w \in Wallets : bound[w] # None => bound'[w] # None
    <3>1. Allocation(f) # None
      BY DEF Allocation
    <3> QED BY <2>2, <3>1 DEF Mine, Inv, FlowsOK
  <2>3. ASSUME NEW f \in Flows, VerifyIdentity(f) \/ LinkWallet(f) \/ RegisterDemoWallet(f)
        PROVE  linkedRead' = linkedRead /\ bound' = bound
    BY <2>3 DEF VerifyIdentity, LinkWallet, RegisterDemoWallet
  <2>4. ASSUME NEW w \in Wallets, PreflightAnswered(w)
        PROVE  linkedRead' = linkedRead /\ bound' = bound
    BY <2>4 DEF PreflightAnswered
  <2>5. ASSUME NEW a \in Wallets \cup {None}, ChooseAccount(a)
        PROVE  linkedRead' = linkedRead /\ bound' = bound
    BY <2>5 DEF ChooseAccount
  <2>6. CASE Poll
    BY <2>6 DEF Poll, Inv, FlowsOK
  <2>7. CASE SwitchNetwork \/ StatusAnswered \/ IdentityAnswered \/ SessionChanges
    BY <2>7 DEF SwitchNetwork, StatusAnswered, IdentityAnswered, SessionChanges
  <2>8. CASE Cancel \/ UseDemo \/ StartDemoCheck \/ ChallengeExpires \/ UNCHANGED vars
    BY <2>8 DEF Cancel, UseDemo, StartDemoCheck, ChallengeExpires, vars
  <2> QED BY <2>1, <2>2, <2>3, <2>4, <2>5, <2>6, <2>7, <2>8 DEF Next
<1> QED BY <1>1 DEF LinkedTyped

\* The phase of the enrollment.
LEMMA PhaseKept ==
  ASSUME PhaseTyped, [Next]_vars
  PROVE  PhaseTyped'
<1> USE DEF PhaseTyped
<1>1. ASSUME NEW f \in Flows
      PROVE  \A why : End(f, why) => PhaseTyped'
  BY DEF End, PhaseAfter
<1>2. ASSUME NEW f \in Flows
      PROVE  Lose(f) => PhaseTyped'
  BY DEF Lose
<1>3. ASSUME NEW f \in Flows, Step(f)
      PROVE  PhaseTyped'
  BY <1>1, <1>2, <1>3 DEF Step, Awaited, Prompted, RequestOpened, ProofReceived, ProofAnswered, IdentityRefetched,
     SignatureMade, Authorized, DemoAuthorized, Checked, Sent, ReceiptRead, StillPending, VerdictRead,
     ReceiptPosted
<1>4. ASSUME NEW f \in Flows, VerifyIdentity(f) \/ LinkWallet(f) \/ RegisterDemoWallet(f) \/ Mine(f)
      PROVE  PhaseTyped'
  BY <1>4 DEF VerifyIdentity, LinkWallet, RegisterDemoWallet, Mine, Request
<1>5. ASSUME NEW w \in Wallets, PreflightAnswered(w)
      PROVE  PhaseTyped'
  BY <1>5 DEF PreflightAnswered
<1>6. ASSUME NEW a \in Wallets \cup {None}, ChooseAccount(a)
      PROVE  PhaseTyped'
  BY <1>6 DEF ChooseAccount
<1>7. CASE SwitchNetwork \/ StatusAnswered \/ IdentityAnswered \/ Poll \/ SessionChanges
  BY <1>7 DEF SwitchNetwork, StatusAnswered, IdentityAnswered, Poll, SessionChanges
<1>8. CASE Cancel \/ UseDemo \/ StartDemoCheck \/ ChallengeExpires \/ UNCHANGED vars
  BY <1>8 DEF Cancel, UseDemo, StartDemoCheck, ChallengeExpires, vars
<1> QED BY <1>3, <1>4, <1>5, <1>6, <1>7, <1>8 DEF Next

\* The presentation demo: a challenge is for a wallet that may have one.
LEMMA DemoKept ==
  ASSUME Inv, DemoTyped, [Next]_vars
  PROVE  DemoTyped'
<1> USE DEF DemoTyped, demoVars
<1>1. ASSUME NEW f \in Flows, Step(f)
      PROVE  DemoTyped'
  BY <1>1 DEF Step, Awaited, Prompted, RequestOpened, ProofReceived, ProofAnswered, IdentityRefetched,
     SignatureMade, Authorized, DemoAuthorized, Checked, Sent, ReceiptRead, VerdictRead,
     ReceiptPosted, DemoRegistered
<1>2. ASSUME NEW f \in Flows, VerifyIdentity(f) \/ LinkWallet(f) \/ RegisterDemoWallet(f) \/ Mine(f)
      PROVE  DemoTyped'
  BY <1>2 DEF VerifyIdentity, LinkWallet, RegisterDemoWallet, Mine
<1>3. ASSUME NEW w \in Wallets, PreflightAnswered(w)
      PROVE  DemoTyped'
  BY <1>3 DEF PreflightAnswered, Approved
<1>4. ASSUME NEW a \in Wallets \cup {None}, ChooseAccount(a)
      PROVE  DemoTyped'
  BY <1>4 DEF ChooseAccount
<1>5. CASE SwitchNetwork \/ StatusAnswered \/ IdentityAnswered \/ Poll \/ SessionChanges
  BY <1>5 DEF SwitchNetwork, StatusAnswered, IdentityAnswered, Poll, SessionChanges
<1>6. CASE Cancel \/ UseDemo \/ StartDemoCheck \/ ChallengeExpires \/ UNCHANGED vars
  BY <1>6 DEF Cancel, UseDemo, StartDemoCheck, ChallengeExpires, vars, Inv, FlowsOK
<1> QED BY <1>1, <1>2, <1>3, <1>4, <1>5, <1>6 DEF Next

\* The fresh page is typed.
LEMMA PageStarts ==
  Init => Inv /\ ReadsTyped /\ LinkedTyped /\ PhaseTyped /\ DemoTyped
<1> SUFFICES ASSUME Init PROVE Inv /\ ReadsTyped /\ LinkedTyped /\ PhaseTyped /\ DemoTyped
  OBVIOUS
<1>1. 0 \in 0..MaxSwitches
  OBVIOUS
<1> QED
  BY <1>1, InitInv DEF Init, ReadsTyped, LinkedTyped, PhaseTyped, DemoTyped

-----------------------------------------------------------------------------
(* The World requests *)

Later   == {"context", "opening", "polling", "delay", "posting", "done"}

\* The requests were made in order, and all but the newest are withdrawn; the
\* backend has seen no proof of a request that was never posted.
RequestedInOrder ==
  \A r \in World!Runs :
    /\ runStage[r] = "unused" <=> r > newest
    /\ runAborted[r] => runStage[r] # "unused"
    /\ runStage[r] # "unused" /\ ~runAborted[r] => r = newest
    /\ verdict[r] # None => runStage[r] \in {"posting", "done"}

WorldInv == World!TypeOK /\ RequestedInOrder /\ World!ShownIsCurrent /\ World!EndsTruthfully

\* What the end of an await does to request r.
AwaitStep(r) ==
  \E s \in Later, why \in World!Reasons :
    /\ runStage[r] \notin {"unused", "done"} /\ runStage' = [runStage EXCEPT ![r] = s]
    /\ \/ /\ s = "done" /\ reason' = [reason EXCEPT ![r] = why] /\ qrCode' = 0
          /\ why \in World!Unsent => runStage[r] # "posting"
          /\ why = "ok" => verdict[r] = "accepted"
       \/ /\ s # "done" /\ reason' = reason /\ runStage[r] # "posting"
          /\ qrCode' \in {qrCode, 0} \/ (qrCode' = r /\ ~runAborted[r])
    /\ s = "posting" => ~runAborted[r]
    /\ UNCHANGED <<runKind, runAborted, newest, verdict, enrolled>>

\* What goes with it.
AwaitTypes ==
  /\ life' \in [World!Runs -> 0..TTL] /\ patience' \in [World!Runs -> Nat]
  /\ bridge' \in [World!Runs -> World!Pending \cup World!BridgeErrors \cup {None, "confirmed"}]
  /\ seen' \in [World!Runs -> World!Pending \cup World!BridgeErrors \cup {None, "confirmed"}]
  /\ cookie' \in BOOLEAN

\* The ways a request goes on or ends.
LEMMA WorldMoves ==
  ASSUME NEW r \in World!Runs, runStage[r] \notin {"unused", "done"},
         UNCHANGED <<runKind, runAborted, newest, verdict, enrolled>>
  PROVE  /\ \A s \in Later \ {"posting", "done"} :
              runStage[r] # "posting" /\ World!GoOn(r, s) => AwaitStep(r)
         /\ \A why \in World!Reasons \ {"ok"} :
              (why \in World!Unsent => runStage[r] # "posting") /\ World!Finish(r, why) => AwaitStep(r)
         /\ \A t : runStage[r] # "posting" /\ World!LoopHead(r, t) => AwaitStep(r)
<1>1. ASSUME NEW s \in Later \ {"posting", "done"}, runStage[r] # "posting", World!GoOn(r, s)
      PROVE  AwaitStep(r)
  <2>1. "ok" \in World!Reasons
    BY DEF World!Reasons
  <2> QED BY <1>1, <2>1 DEF World!GoOn, AwaitStep, Later
<1>2. ASSUME NEW why \in World!Reasons \ {"ok"}, why \in World!Unsent => runStage[r] # "posting",
             World!Finish(r, why)
      PROVE  AwaitStep(r)
  <2>1. "done" \in Later
    BY DEF Later
  <2> QED BY <1>2, <2>1 DEF World!Finish, AwaitStep
<1>3. ASSUME NEW t, runStage[r] # "posting", World!LoopHead(r, t)
      PROVE  AwaitStep(r)
  <2>1. \/ World!GoOn(r, "polling")
        \/ World!Finish(r, "timeout") \/ World!Finish(r, "proof_failed")
    BY <1>3 DEF World!LoopHead, World!completionFailure
  <2>2. /\ "polling" \in Later \ {"posting", "done"}
        /\ "timeout" \in World!Reasons \ {"ok"} /\ "proof_failed" \in World!Reasons \ {"ok"}
    BY DEF Later, World!Reasons, World!Unsent
  <2> QED BY <1>1, <1>2, <1>3, <2>1, <2>2
<1> QED BY <1>1, <1>2, <1>3

\* Every await ends in one of them.
LEMMA AwaitedSteps ==
  ASSUME World!TypeOK, NEW r \in World!Runs, World!Awaited(r)
  PROVE  AwaitStep(r) /\ AwaitTypes
<1> USE DEF Later, World!Reasons, World!Unsent
<1>1. CASE World!SessionAnswered(r)
  <2>1. AwaitTypes
    BY <1>1 DEF World!SessionAnswered, World!TypeOK, AwaitTypes
  <2> QED BY <1>1, <2>1, WorldMoves DEF World!SessionAnswered
<1>2. CASE World!ContextAnswered(r)
  <2>1. AwaitTypes
    BY <1>2, ClientsAssumption
    DEF World!ContextAnswered, World!TypeOK, AwaitTypes, World!WorldProofAssumption
  <2> QED BY <1>2, <2>1, WorldMoves DEF World!ContextAnswered
<1>3. CASE World!Opened(r)
  <2>1. PICK skew \in Skews : LET u == World!AtLeastOne(life[r] + skew) IN
          /\ patience' = [patience EXCEPT ![r] = u]
          /\ IF World!LoopEnds(r, u) THEN World!LoopHead(r, u)
             ELSE /\ runStage' = [runStage EXCEPT ![r] = "polling"]
                  /\ qrCode' = r
                  /\ UNCHANGED reason
    BY <1>3 DEF World!Opened
  <2> DEFINE t == World!AtLeastOne(life[r] + skew)
  <2>2. t \in Nat
    BY <2>1, ClientsAssumption
    DEF World!AtLeastOne, World!TypeOK, World!WorldProofAssumption
  <2>3. AwaitTypes
    BY <1>3, <2>1, <2>2 DEF World!Opened, World!TypeOK, AwaitTypes, World!Pending
  <2>4. CASE World!LoopEnds(r, t)
    BY <1>3, <2>1, <2>3, <2>4, WorldMoves DEF World!Opened
  <2>5. CASE ~World!LoopEnds(r, t)
    BY <1>3, <2>1, <2>3, <2>5 DEF World!Opened, World!LoopEnds, AwaitStep
  <2> QED BY <2>4, <2>5
<1>4. CASE World!OpenFailed(r)
  <2>1. AwaitTypes
    BY <1>4 DEF World!OpenFailed, World!TypeOK, AwaitTypes
  <2> QED BY <1>4, <2>1, WorldMoves DEF World!OpenFailed
<1>5. CASE World!PollAnswered(r)
  <2>1. AwaitTypes
    BY <1>5 DEF World!PollAnswered, World!TypeOK, AwaitTypes
  <2>2. CASE World!GoOn(r, "delay")
    BY <1>5, <2>1, <2>2, WorldMoves DEF World!PollAnswered
  <2>3. CASE World!Finish(r, World!completionFailure(seen[r]))
    <3>1. World!completionFailure(seen[r]) \in World!Unsent
      BY DEF World!completionFailure
    <3> QED BY <1>5, <2>1, <2>3, <3>1, WorldMoves DEF World!PollAnswered
  <2>4. CASE World!Finish(r, "world_unavailable")
    BY <1>5, <2>1, <2>4, WorldMoves DEF World!PollAnswered
  <2>5. CASE /\ ~runAborted[r] /\ runStage' = [runStage EXCEPT ![r] = "posting"]
             /\ qrCode' = 0 /\ UNCHANGED reason
    BY <1>5, <2>1, <2>5 DEF World!PollAnswered, AwaitStep
  <2> QED BY <1>5, <2>2, <2>3, <2>4, <2>5 DEF World!PollAnswered
<1>6. CASE World!PollFailed(r)
  <2>1. AwaitTypes
    BY <1>6 DEF World!PollFailed, World!TypeOK, AwaitTypes
  <2>2. \A code : World!completionFailure(code) \in World!Unsent
    BY DEF World!completionFailure
  <2> QED BY <1>6, <2>1, <2>2, WorldMoves DEF World!PollFailed
<1>7. CASE World!DelayOver(r)
  <2>1. AwaitTypes
    BY <1>7 DEF World!DelayOver, World!TypeOK, AwaitTypes
  <2> QED BY <1>7, <2>1, WorldMoves DEF World!DelayOver
<1>8. CASE World!PostAnswered(r)
  <2>1. AwaitTypes
    BY <1>8 DEF World!PostAnswered, World!TypeOK, AwaitTypes
  <2>2. /\ World!ReasonOf(verdict[r]) \in World!Reasons \ World!Unsent
        /\ World!ReasonOf(verdict[r]) = "ok" => verdict[r] = "accepted"
    BY <1>8 DEF World!PostAnswered, World!ReasonOf, World!TypeOK
  <2>3. AwaitStep(r)
    BY <1>8, <2>2 DEF World!PostAnswered, World!Finish, AwaitStep
  <2> QED BY <2>1, <2>3
<1>9. CASE World!PostFailed(r)
  <2>1. AwaitTypes
    BY <1>9 DEF World!PostFailed, World!TypeOK, AwaitTypes
  <2> QED BY <1>9, <2>1, WorldMoves DEF World!PostFailed
<1> QED BY <1>1, <1>2, <1>3, <1>4, <1>5, <1>6, <1>7, <1>8, <1>9 DEF World!Awaited

\* The end of an await keeps the invariant.
LEMMA AwaitKeeps ==
  ASSUME WorldInv, NEW r \in World!Runs, AwaitStep(r), AwaitTypes
  PROVE  WorldInv'
<1>1. PICK s \in Later, why \in World!Reasons :
        /\ runStage[r] \notin {"unused", "done"} /\ runStage' = [runStage EXCEPT ![r] = s]
        /\ \/ /\ s = "done" /\ reason' = [reason EXCEPT ![r] = why] /\ qrCode' = 0
              /\ why \in World!Unsent => runStage[r] # "posting"
              /\ why = "ok" => verdict[r] = "accepted"
           \/ /\ s # "done" /\ reason' = reason /\ runStage[r] # "posting"
              /\ qrCode' \in {qrCode, 0} \/ (qrCode' = r /\ ~runAborted[r])
        /\ s = "posting" => ~runAborted[r]
        /\ UNCHANGED <<runKind, runAborted, newest, verdict, enrolled>>
  BY DEF AwaitStep
<1>2. runStage \in [World!Runs -> Later \cup {"unused", "session"}]
      /\ reason \in [World!Runs -> World!Reasons \cup {None}] /\ None \notin World!Reasons
  BY ClientsAssumption
  DEF WorldInv, World!TypeOK, Later, World!WorldProofAssumption
<1>3. ASSUME NEW q \in World!Runs
      PROVE  /\ runStage'[q] = IF q = r THEN s ELSE runStage[q]
             /\ reason'[q] = IF q = r /\ s = "done" THEN why ELSE reason[q]
  BY <1>1, <1>2
<1>4. r <= newest /\ (~runAborted[r] => r = newest)
  BY <1>1 DEF WorldInv, RequestedInOrder, World!TypeOK, World!Runs
<1>5. qrCode' \in {0, newest'}
  BY <1>1, <1>4 DEF WorldInv, World!ShownIsCurrent
<1>6. World!TypeOK'
  <2>1. /\ \A q \in World!Runs : reason'[q] = None <=> runStage'[q] # "done"
        /\ reason' \in [World!Runs -> World!Reasons \cup {None}]
    BY <1>1, <1>2, <1>3 DEF WorldInv, World!TypeOK
  <2>2. runStage' \in [World!Runs -> {"unused", "session", "context", "opening", "polling", "delay",
                                      "posting", "done"}]
    BY <1>1, <1>2 DEF Later
  <2>3. newest' \in 0..NumRuns /\ qrCode' \in 0..NumRuns
    BY <1>1, <1>5, ClientsAssumption DEF WorldInv, World!TypeOK, World!WorldProofAssumption
  <2> QED BY <1>1, <2>1, <2>2, <2>3 DEF WorldInv, World!TypeOK, AwaitTypes
<1>7. RequestedInOrder'
  <2>1. ASSUME NEW q \in World!Runs
        PROVE  /\ runStage'[q] = "unused" <=> q > newest'
               /\ runAborted'[q] => runStage'[q] # "unused"
               /\ runStage'[q] # "unused" /\ ~runAborted'[q] => q = newest'
               /\ verdict'[q] # None => runStage'[q] \in {"posting", "done"}
    <3>1. s # "unused"
      BY DEF Later
    <3>2. verdict[r] # None => s = "done"
      BY <1>1 DEF WorldInv, RequestedInOrder
    <3> QED BY <1>1, <1>3, <3>1, <3>2 DEF WorldInv, RequestedInOrder
  <2> QED BY <2>1 DEF RequestedInOrder
<1>8. World!EndsTruthfully'
  <2>1. ASSUME NEW q \in World!Runs
        PROVE  /\ reason'[q] \in World!Unsent => verdict'[q] = None
               /\ reason'[q] = "ok" => verdict'[q] = "accepted"
    <3>1. runStage[r] # "posting" => verdict[r] = None
      BY <1>1 DEF WorldInv, RequestedInOrder
    <3> QED BY <1>1, <1>3, <3>1 DEF WorldInv, World!EndsTruthfully, World!Unsent
  <2> QED BY <2>1 DEF World!EndsTruthfully, World!Unsent
<1> QED BY <1>5, <1>6, <1>7, <1>8 DEF WorldInv, World!ShownIsCurrent

\* A new request withdraws the one before it.
LEMMA StartKeeps ==
  ASSUME WorldInv, NEW r \in World!Runs, World!Start(r)
  PROVE  WorldInv'
<1>1. /\ r = newest + 1 /\ newest' = r /\ qrCode' = 0
      /\ runStage' = [runStage EXCEPT ![r] = IF runKind[r] = "continue" THEN "session" ELSE "context"]
      /\ runAborted' = IF newest = 0 THEN runAborted ELSE [runAborted EXCEPT ![newest] = TRUE]
      /\ UNCHANGED <<runKind, patience, seen, reason, life, bridge, verdict, enrolled, cookie>>
  BY DEF World!Start, World!AbortPrevious
<1>2. newest \in 0..NumRuns /\ runAborted \in [World!Runs -> BOOLEAN] /\ NumRuns \in Nat
      /\ runStage \in [World!Runs -> {"unused", "session", "context", "opening", "polling", "delay",
                                      "posting", "done"}]
  BY ClientsAssumption DEF WorldInv, World!TypeOK, World!WorldProofAssumption
<1>3. ASSUME NEW q \in World!Runs
      PROVE  /\ runStage'[q] = IF q = r THEN (IF runKind[r] = "continue" THEN "session" ELSE "context")
                                        ELSE runStage[q]
             /\ runAborted'[q] <=> runAborted[q] \/ q = newest
  <2>1. newest # 0 => newest \in World!Runs
    BY <1>2 DEF World!Runs
  <2>2. q # 0
    BY DEF World!Runs
  <2> QED BY <1>1, <1>2, <2>1, <2>2
<1>4. World!TypeOK'
  <2>1. runStage' \in [World!Runs -> {"unused", "session", "context", "opening", "polling", "delay",
                                      "posting", "done"}]
    BY <1>1, <1>2
  <2>2. runAborted' \in [World!Runs -> BOOLEAN] /\ newest' \in 0..NumRuns /\ qrCode' \in 0..NumRuns
    BY <1>1, <1>2 DEF World!Runs
  <2>3. \A q \in World!Runs : reason'[q] = None <=> runStage'[q] # "done"
    BY <1>1, <1>3 DEF WorldInv, World!TypeOK, RequestedInOrder, World!Runs
  <2> QED BY <1>1, <2>1, <2>2, <2>3 DEF WorldInv, World!TypeOK
<1>5. RequestedInOrder'
  BY <1>1, <1>2, <1>3 DEF WorldInv, RequestedInOrder, World!Runs
<1>6. World!EndsTruthfully' /\ World!ShownIsCurrent'
  BY <1>1 DEF WorldInv, World!EndsTruthfully, World!ShownIsCurrent
<1> QED BY <1>4, <1>5, <1>6 DEF WorldInv

\* "Cancel verification" withdraws the newest request.
LEMMA WorldCancelKeeps ==
  ASSUME WorldInv, World!Cancel
  PROVE  WorldInv'
<1>1. /\ qrCode # 0 /\ runAborted' = [runAborted EXCEPT ![newest] = TRUE]
      /\ UNCHANGED <<runKind, runStage, patience, seen, reason, newest, qrCode,
                     life, bridge, verdict, enrolled, cookie>>
  BY DEF World!Cancel
<1>2. newest \in World!Runs /\ qrCode = newest /\ runAborted \in [World!Runs -> BOOLEAN]
  BY <1>1, ClientsAssumption
  DEF WorldInv, World!TypeOK, World!ShownIsCurrent, World!Runs, World!WorldProofAssumption
<1>3. ASSUME NEW q \in World!Runs
      PROVE  runAborted'[q] <=> runAborted[q] \/ q = newest
  BY <1>1, <1>2
<1>4. runStage[newest] # "unused"
  BY <1>2 DEF WorldInv, RequestedInOrder, World!Runs
<1> QED
  BY <1>1, <1>2, <1>3, <1>4
  DEF WorldInv, World!TypeOK, RequestedInOrder, World!EndsTruthfully, World!ShownIsCurrent

\* World's bridge and World App touch only what the page has not seen yet.
LEMMA BridgeKeeps ==
  ASSUME WorldInv, NEW r \in World!Runs, World!BridgeServes(r) \/ World!WorldApp(r)
  PROVE  WorldInv'
<1>1. /\ UNCHANGED <<runKind, runStage, runAborted, patience, reason, newest, qrCode, life, verdict,
                     enrolled, cookie>>
      /\ seen' \in [World!Runs -> World!Pending \cup World!BridgeErrors \cup {None, "confirmed"}]
      /\ bridge' \in [World!Runs -> World!Pending \cup World!BridgeErrors \cup {None, "confirmed"}]
  <2>1. CASE World!BridgeServes(r)
    BY <2>1 DEF World!BridgeServes, WorldInv, World!TypeOK
  <2>2. CASE World!WorldApp(r)
    BY <2>2 DEF World!WorldApp, World!clientVars, WorldInv, World!TypeOK, World!Pending
  <2> QED BY <2>1, <2>2
<1> QED
  BY <1>1 DEF WorldInv, World!TypeOK, RequestedInOrder, World!EndsTruthfully, World!ShownIsCurrent

\* The backend answers the proof of a posted request.
LEMMA BackendKeeps ==
  ASSUME WorldInv, NEW r \in World!Runs, World!BackendHandles(r)
  PROVE  WorldInv'
<1>1. /\ runStage[r] = "posting" /\ verdict[r] = None /\ enrolled' \in BOOLEAN
      /\ \E answer \in {"accepted", "conflict", "refused", "unavailable"} :
           verdict' = [verdict EXCEPT ![r] = answer]
      /\ UNCHANGED <<runKind, runStage, runAborted, patience, seen, reason, newest, qrCode, life,
                     bridge, cookie>>
  BY DEF World!BackendHandles, World!clientVars, WorldInv, World!TypeOK
<1>2. verdict \in [World!Runs -> {None, "accepted", "conflict", "refused", "unavailable"}]
  BY DEF WorldInv, World!TypeOK
<1>3. ASSUME NEW q \in World!Runs, q # r
      PROVE  verdict'[q] = verdict[q]
  BY <1>1, <1>2, <1>3
<1>4. reason[r] = None /\ None \notin World!Unsent \cup {"ok"}
  BY <1>1, ClientsAssumption
  DEF WorldInv, World!TypeOK, World!WorldProofAssumption, World!Reasons
<1>5. World!TypeOK'
  BY <1>1, <1>2 DEF WorldInv, World!TypeOK
<1>6. RequestedInOrder' /\ World!ShownIsCurrent'
  BY <1>1, <1>3 DEF WorldInv, RequestedInOrder, World!ShownIsCurrent
<1>7. World!EndsTruthfully'
  BY <1>1, <1>3, <1>4 DEF WorldInv, World!EndsTruthfully
<1> QED BY <1>5, <1>6, <1>7 DEF WorldInv

\* Time passes.
LEMMA WorldTickKeeps ==
  ASSUME WorldInv, World!Tick
  PROVE  WorldInv'
<1>1. /\ UNCHANGED <<runKind, runStage, runAborted, seen, reason, newest, qrCode, bridge, verdict,
                     enrolled, cookie>>
      /\ life' = [r \in World!Runs |-> World!Less(life[r])]
      /\ patience' = [r \in World!Runs |-> World!Less(patience[r])]
  BY DEF World!Tick
<1>2. life' \in [World!Runs -> 0..TTL] /\ patience' \in [World!Runs -> Nat]
  BY <1>1, ClientsAssumption DEF WorldInv, World!TypeOK, World!Less, World!WorldProofAssumption
<1> QED
  BY <1>1, <1>2 DEF WorldInv, World!TypeOK, RequestedInOrder, World!EndsTruthfully, World!ShownIsCurrent

\* Before the first request.
LEMMA WorldStarts ==
  World!Init => WorldInv
<1> SUFFICES ASSUME World!Init PROVE WorldInv
  OBVIOUS
<1>1. World!TypeOK
  <2>1. TTL \in Nat /\ NumRuns \in Nat /\ None \notin World!Reasons
    BY ClientsAssumption DEF World!WorldProofAssumption
  <2>2. 0 \in 0..TTL /\ 0 \in 0..NumRuns
    BY <2>1
  <2>3. /\ newest \in 0..NumRuns /\ qrCode \in 0..NumRuns
        /\ enrolled \in BOOLEAN /\ cookie \in BOOLEAN
    BY <2>2 DEF World!Init
  <2> QED BY <2>2, <2>3 DEF World!Init, World!TypeOK
<1>2. RequestedInOrder
  BY DEF World!Init, RequestedInOrder, World!Runs
<1>3. World!ShownIsCurrent /\ World!EndsTruthfully
  BY ClientsAssumption
  DEF World!Init, World!ShownIsCurrent, World!EndsTruthfully, World!WorldProofAssumption,
      World!Reasons
<1> QED BY <1>1, <1>2, <1>3 DEF WorldInv

\* Every step of the World requests keeps the invariant.
LEMMA WorldStepKeeps ==
  ASSUME WorldInv, World!Next
  PROVE  WorldInv'
<1>1. ASSUME NEW r \in World!Runs, World!Awaited(r)
      PROVE  WorldInv'
  BY <1>1, AwaitedSteps, AwaitKeeps DEF WorldInv
<1>2. ASSUME NEW r \in World!Runs, World!BridgeServes(r) \/ World!WorldApp(r)
      PROVE  WorldInv'
  BY <1>2, BridgeKeeps
<1>3. ASSUME NEW r \in World!Runs, World!BackendHandles(r)
      PROVE  WorldInv'
  BY <1>3, BackendKeeps
<1>4. ASSUME NEW r \in World!Runs, World!Start(r)
      PROVE  WorldInv'
  BY <1>4, StartKeeps
<1> QED
  BY <1>1, <1>2, <1>3, <1>4, WorldCancelKeeps, WorldTickKeeps DEF World!Next

\* The requests, as the page may rely on them: their phases and the withdrawn ones.
phases    == [r \in World!Runs |-> CASE runStage[r] = "unused"  -> "new"
                                     [] runStage[r] = "posting" -> "sent"
                                     [] runStage[r] = "done"    -> "ended"
                                     [] OTHER                   -> "open"]
withdrawn == {r \in World!Runs : runAborted[r]}

\* Nothing is promised of what stays as it is.
LEMMA WorldStutters ==
  ASSUME UNCHANGED <<runStage, runAborted>>
  PROVE  UNCHANGED World!Promise!requestVars
BY DEF World!Promise!requestVars

\* What becomes of a request that goes on.
LEMMA PhaseMoves ==
  ASSUME NEW r \in World!Runs, NEW s,
         runStage \in [World!Runs -> Later \cup {"unused", "session"}],
         runStage' = [runStage EXCEPT ![r] = s]
  PROVE  phases' = [phases EXCEPT ![r] = CASE s = "unused"  -> "new"
                                           [] s = "posting" -> "sent"
                                           [] s = "done"    -> "ended"
                                           [] OTHER         -> "open"]
BY DEF phases

\* A step of the World requests is one the page may rely on.
LEMMA WorldStepPromised ==
  ASSUME WorldInv, [World!Next]_(World!vars)
  PROVE  [World!Promise!Next]_(World!Promise!requestVars)
<1> USE DEF Later
<1>1. runStage \in [World!Runs -> Later \cup {"unused", "session"}]
  BY DEF WorldInv, World!TypeOK
<1>2. /\ \A r \in World!Runs : World!Promise!Open(r) =>  World!Promise!Next
      /\ \A r \in World!Runs : World!Promise!Withdraw(r) =>  World!Promise!Next
      /\ \A r \in World!Runs : World!Promise!Send(r) =>  World!Promise!Next
      /\ \A r \in World!Runs : World!Promise!End(r) =>  World!Promise!Next
  BY DEF World!Promise!Next
<1>3. ASSUME NEW r \in World!Runs, World!Awaited(r)
      PROVE  World!Promise!Next \/ UNCHANGED World!Promise!requestVars
  <2>1. AwaitStep(r)
    BY <1>3, AwaitedSteps DEF WorldInv
  <2>2. PICK s \in Later :
          /\ runStage[r] \notin {"unused", "done"} /\ runStage' = [runStage EXCEPT ![r] = s]
          /\ s # "done" => runStage[r] # "posting"
          /\ s = "posting" => ~runAborted[r]
          /\ runAborted' = runAborted
    BY <2>1 DEF AwaitStep
  <2>3. phases' = [phases EXCEPT ![r] = CASE s = "unused"  -> "new"
                                          [] s = "posting" -> "sent"
                                          [] s = "done"    -> "ended"
                                          [] OTHER         -> "open"]
    BY <1>1, <2>2, PhaseMoves
  <2>4. phases[r] = IF runStage[r] = "posting" THEN "sent" ELSE "open"
    BY <2>2 DEF phases
  <2>5. withdrawn' = withdrawn
    BY <2>2 DEF withdrawn
  <2>6. CASE s = "done"
    <3>1. World!Promise!End(r)
      BY <2>3, <2>4, <2>5, <2>6 DEF World!Promise!End, phases, withdrawn
    <3> QED BY <3>1, <1>2
  <2>7. CASE s = "posting"
    <3>1. r \notin withdrawn /\ phases[r] = "open"
      BY <2>2, <2>4, <2>7 DEF withdrawn
    <3>2. World!Promise!Send(r)
      BY <2>3, <2>5, <2>7, <3>1 DEF World!Promise!Send, phases, withdrawn
    <3> QED BY <3>2, <1>2
  <2>8. CASE s \notin {"done", "posting"}
    <3>1. phases' = phases
      BY <2>2, <2>3, <2>4, <2>8 DEF phases
    <3> QED BY <2>5, <3>1 DEF World!Promise!requestVars, phases, withdrawn
  <2> QED BY <2>6, <2>7, <2>8
<1>4. ASSUME NEW r \in World!Runs, World!Start(r)
      PROVE  World!Promise!Next
  <2>1. /\ r = newest + 1
        /\ runStage' = [runStage EXCEPT ![r] = IF runKind[r] = "continue" THEN "session" ELSE "context"]
        /\ runAborted' = IF newest = 0 THEN runAborted ELSE [runAborted EXCEPT ![newest] = TRUE]
    BY <1>4 DEF World!Start, World!AbortPrevious
  <2>2. newest \in 0..NumRuns /\ runAborted \in [World!Runs -> BOOLEAN] /\ NumRuns \in Nat
    BY ClientsAssumption DEF WorldInv, World!TypeOK, World!WorldProofAssumption
  <2>3. runStage[r] = "unused"
    BY <2>1, <2>2 DEF WorldInv, RequestedInOrder, World!Runs
  <2>4. phases[r] = "new" /\ phases' = [phases EXCEPT ![r] = "open"]
    BY <1>1, <2>1, <2>3, PhaseMoves DEF phases
  <2>5. withdrawn' = {q \in World!Runs : phases[q] # "new"}
    <3>1. ASSUME NEW q \in World!Runs
          PROVE  runAborted'[q] <=> runAborted[q] \/ q = newest
      <4>1. newest # 0 => newest \in World!Runs
        BY <2>2 DEF World!Runs
      <4>2. q # 0
        BY DEF World!Runs
      <4> QED BY <2>1, <2>2, <4>1, <4>2
    <3>2. ASSUME NEW q \in World!Runs
          PROVE  runAborted'[q] <=> runStage[q] # "unused"
      BY <2>1, <2>2, <3>1 DEF WorldInv, RequestedInOrder, World!Runs
    <3>3. ASSUME NEW q \in World!Runs
          PROVE  phases[q] # "new" <=> runStage[q] # "unused"
      BY DEF phases
    <3> QED BY <3>2, <3>3 DEF withdrawn
  <2>6. World!Promise!Open(r)
    BY <2>4, <2>5 DEF World!Promise!Open, World!Promise!Started, phases, withdrawn
  <2> QED BY <2>6, <1>2
<1>5. CASE World!Cancel
  <2>1. /\ qrCode # 0 /\ runAborted' = [runAborted EXCEPT ![newest] = TRUE] /\ runStage' = runStage
    BY <1>5 DEF World!Cancel
  <2>2. newest \in World!Runs /\ runAborted \in [World!Runs -> BOOLEAN]
    BY <2>1, ClientsAssumption
    DEF WorldInv, World!TypeOK, World!ShownIsCurrent, World!Runs, World!WorldProofAssumption
  <2>3. phases' = phases /\ phases[newest] # "new"
    BY <2>1, <2>2 DEF phases, WorldInv, RequestedInOrder, World!Runs
  <2>4. withdrawn' = withdrawn \cup {newest}
    BY <2>1, <2>2 DEF withdrawn
  <2>5. PICK r \in World!Runs : r = newest
    BY <2>2
  <2>6. World!Promise!Withdraw(r)
    BY <2>2, <2>3, <2>4, <2>5 DEF World!Promise!Withdraw, World!Promise!Started, phases, withdrawn
  <2> QED BY <2>6, <1>2
<1>6. ASSUME \/ \E r \in World!Runs : World!BridgeServes(r) \/ World!WorldApp(r) \/ World!BackendHandles(r)
             \/ World!Tick \/ UNCHANGED World!vars
      PROVE  UNCHANGED World!Promise!requestVars
  BY <1>6, WorldStutters
  DEF World!BridgeServes, World!WorldApp, World!BackendHandles, World!Tick, World!vars, World!clientVars
<1> QED BY <1>3, <1>4, <1>5, <1>6 DEF World!Next

-----------------------------------------------------------------------------
(* The purchase panel *)

PanelStages == {"unused", "simulating", "confirming", "mining", "rereading", "done"}
Outcomes    == {"success", "reverted", "rejected", "timedOut"}
Notices     == [of : 0..MaxClicks, says : {"nothing", "working", "success", "reverted", "rejected"}]

\* What a click and the stages it has passed say of a flow.
ClicksOK ==
  /\ clickKind \in [Panel!Flows -> {"approve", "buy", None}]
  /\ clickWallet \in [Panel!Flows -> Wallets \cup {None}]
  /\ clickValue \in [Panel!Flows -> Panel!Amounts \cup {None}]
  /\ \A f \in Panel!Flows :
       /\ clickStage[f] # "unused" =>
            clickKind[f] \in {"approve", "buy"} /\ clickWallet[f] \in Wallets
            /\ clickValue[f] \in Panel!Amounts
       /\ clickStage[f] \in {"unused", "simulating", "confirming"} => clickTx[f] = None
       /\ clickStage[f] = "simulating" => clickKind[f] = "buy"
       /\ clickStage[f] # "done" => clickOutcome[f] = None
       /\ clickStage[f] = "mining" => clickTx[f] # None
       /\ clickStage[f] = "rereading" => clickTx[f] = "success"

\* A purchase nothing has changed for passes still, and was not mined.
UndisturbedPass ==
  \A f \in undisturbed :
    /\ clickStage[f] # "unused" /\ clickKind[f] = "buy" /\ clickTx[f] \in {None, "pending"}
    /\ Panel!Passes(clickWallet[f], clickValue[f])

\* The flows are clicked in order, the newest has the notice, and only it may be
\* under way, with its button busy.
NoticeOK ==
  /\ \A f \in Panel!Flows :
       /\ clickStage[f] # "unused" <=> f <= notice.of
       /\ clickStage[f] \notin {"unused", "done"} =>
            f = notice.of /\ notice.says = "working" /\ (approving \/ buying)
  /\ Panel!NoticeIsOnChain

\* The parts of the type invariant.
MarketTyped ==
  /\ tier \in [Wallets -> 0..1] /\ paused \in BOOLEAN /\ spent \in 0..Cap
  /\ allowance \in [Wallets -> 0..Cap]
PolledTyped ==
  /\ seenTier \in [Wallets -> {None, 0, 1}]
  /\ seenAllowance \in [Wallets -> 0..Cap \cup {None}]
  /\ seenRemaining \in [Wallets -> 0..Cap \cup {None}]
PanelFlowsTyped ==
  /\ clickStage \in [Panel!Flows -> PanelStages]
  /\ clickOutcome \in [Panel!Flows -> Outcomes \cup {None}]
  /\ clickTx \in [Panel!Flows -> {None, "pending", "success", "reverted"}]
  /\ notice \in Notices
  /\ undisturbed \subseteq Panel!Flows
ButtonsTyped == approving \in BOOLEAN /\ buying \in BOOLEAN /\ ~(approving /\ buying)
BuyerTyped ==
  buyer \in Wallets \cup {None} /\ buyerOnSepolia \in BOOLEAN /\ changes \in 0..MaxChanges

PanelInv ==
  /\ BuyerTyped /\ MarketTyped /\ PolledTyped /\ ButtonsTyped /\ PanelFlowsTyped
  /\ ClicksOK /\ UndisturbedPass /\ NoticeOK

\* They are the type invariant together.
LEMMA PanelTypes ==
  Panel!TypeOK <=> BuyerTyped /\ MarketTyped /\ PolledTyped /\ ButtonsTyped /\ PanelFlowsTyped
BY DEF Panel!TypeOK, BuyerTyped, MarketTyped, PolledTyped, ButtonsTyped, PanelFlowsTyped,
       PanelStages, Outcomes, Notices

\* What a step leaves alone stays typed.
LEMMA PanelParts ==
  /\ UNCHANGED <<tier, paused, spent, allowance>> /\ MarketTyped => MarketTyped'
  /\ UNCHANGED <<seenTier, seenAllowance, seenRemaining>> /\ PolledTyped => PolledTyped'
  /\ UNCHANGED <<approving, buying>> /\ ButtonsTyped => ButtonsTyped'
  /\ UNCHANGED <<buyer, buyerOnSepolia, changes>> /\ BuyerTyped => BuyerTyped'
  /\ UNCHANGED <<clickStage, clickOutcome, clickTx, notice, undisturbed>> /\ PanelFlowsTyped
       => PanelFlowsTyped'
  /\ UNCHANGED <<clickKind, clickWallet, clickValue, clickStage, clickOutcome, clickTx>> /\ ClicksOK
       => ClicksOK'
  /\ UNCHANGED <<approving, buying, clickStage, clickOutcome, clickTx, notice>> /\ NoticeOK
       => NoticeOK'
  /\ UNCHANGED <<tier, paused, spent, allowance, clickKind, clickWallet, clickValue, clickStage,
                 clickTx, undisturbed>> /\ UndisturbedPass
       => UndisturbedPass'
  /\ undisturbed' = {} => UndisturbedPass'
<1>1. UNCHANGED <<tier, paused, spent, allowance>> /\ MarketTyped => MarketTyped'
  BY DEF MarketTyped
<1>2. UNCHANGED <<seenTier, seenAllowance, seenRemaining>> /\ PolledTyped => PolledTyped'
  BY DEF PolledTyped
<1>3. UNCHANGED <<approving, buying>> /\ ButtonsTyped => ButtonsTyped'
  BY DEF ButtonsTyped
<1>4. UNCHANGED <<buyer, buyerOnSepolia, changes>> /\ BuyerTyped => BuyerTyped'
  BY DEF BuyerTyped
<1>5. UNCHANGED <<clickStage, clickOutcome, clickTx, notice, undisturbed>> /\ PanelFlowsTyped
        => PanelFlowsTyped'
  BY DEF PanelFlowsTyped
<1>6. UNCHANGED <<clickKind, clickWallet, clickValue, clickStage, clickOutcome, clickTx>> /\ ClicksOK
        => ClicksOK'
  BY DEF ClicksOK
<1>7. UNCHANGED <<approving, buying, clickStage, clickOutcome, clickTx, notice>> /\ NoticeOK
        => NoticeOK'
  BY DEF NoticeOK, Panel!NoticeIsOnChain
<1>8. UNCHANGED <<tier, paused, spent, allowance, clickKind, clickWallet, clickValue, clickStage,
                  clickTx, undisturbed>> /\ UndisturbedPass
        => UndisturbedPass'
  <2> SUFFICES ASSUME UNCHANGED <<tier, paused, spent, allowance, clickKind, clickWallet, clickValue,
                                  clickStage, clickTx, undisturbed>>,
                      UndisturbedPass
               PROVE  UndisturbedPass'
    OBVIOUS
  <2>1. ASSUME NEW f \in undisturbed'
        PROVE  /\ clickStage'[f] # "unused" /\ clickKind'[f] = "buy"
               /\ clickTx'[f] \in {None, "pending"}
               /\ Panel!Passes(clickWallet[f], clickValue[f])'
    BY <2>1 DEF UndisturbedPass, Panel!Passes, Panel!remaining
  <2> QED BY <2>1 DEF UndisturbedPass, Panel!Passes, Panel!remaining
<1>9. undisturbed' = {} => UndisturbedPass'
  BY DEF UndisturbedPass
<1> QED BY <1>1, <1>2, <1>3, <1>4, <1>5, <1>6, <1>7, <1>8, <1>9

\* The user's account and network, and the polls.
LEMMA LooksKeep ==
  ASSUME PanelInv,
         \/ \E w \in Wallets \cup {None} : Panel!ChooseAccount(w)
         \/ Panel!SwitchNetwork \/ Panel!Poll \/ UNCHANGED Panel!vars
  PROVE  PanelInv'
<1>1. /\ UNCHANGED <<tier, paused, spent, allowance, approving, buying, clickKind, clickWallet,
                     clickValue, clickStage, clickOutcome, clickTx, notice, undisturbed>>
      /\ BuyerTyped' /\ PolledTyped'
  <2> USE ClientsAssumption
      DEF PanelInv, Panel!PanelAssumption, Panel!walletVars, Panel!chainVars, Panel!seenVars,
      Panel!busyVars, Panel!clickVars, Panel!flowVars
  <2>1. CASE \E w \in Wallets \cup {None} : Panel!ChooseAccount(w)
    BY <2>1 DEF Panel!ChooseAccount, Panel!Change, BuyerTyped, PolledTyped
  <2>2. CASE Panel!SwitchNetwork
    BY <2>2 DEF Panel!SwitchNetwork, Panel!Change, BuyerTyped, PolledTyped
  <2>3. CASE Panel!Poll
    <3>1. buyer \in Wallets /\ tier[buyer] \in {0, 1} /\ allowance[buyer] \in 0..Cap
          /\ Panel!remaining \in 0..Cap
      BY <2>3 DEF Panel!Poll, BuyerTyped, MarketTyped, Panel!remaining
    <3>2. PolledTyped'
      BY <2>3, <3>1 DEF Panel!Poll, PolledTyped
    <3> QED BY <2>3, <3>2 DEF Panel!Poll, BuyerTyped
  <2>4. CASE UNCHANGED Panel!vars
    BY <2>4, PanelParts DEF Panel!vars
  <2> QED BY <2>1, <2>2, <2>3, <2>4
<1> QED BY <1>1, PanelParts DEF PanelInv

\* The market changes under the page.
LEMMA ChainChangesKeep ==
  ASSUME PanelInv, Panel!OwnerChanges \/ \E v \in Panel!Amounts : Panel!SpentElsewhere(v)
  PROVE  PanelInv'
<1>1. /\ UNCHANGED <<seenTier, seenAllowance, seenRemaining, approving, buying, clickKind, clickWallet,
                     clickValue, clickStage, clickOutcome, clickTx, notice>>
      /\ undisturbed' = {} /\ BuyerTyped' /\ MarketTyped'
  <2> USE ClientsAssumption
      DEF PanelInv, Panel!PanelAssumption, Panel!walletVars, Panel!chainVars, Panel!seenVars,
      Panel!busyVars, Panel!clickVars, Panel!flowVars
  <2>1. CASE Panel!OwnerChanges
    <3>1. MarketTyped'
      <4>1. CASE UNCHANGED tier
        BY <2>1, <4>1 DEF Panel!OwnerChanges, MarketTyped
      <4>2. ASSUME NEW w \in Wallets, tier' = [tier EXCEPT ![w] = 1 - @], UNCHANGED paused
            PROVE  MarketTyped'
        <5>1. 1 - tier[w] \in 0..1
          BY DEF MarketTyped
        <5> QED BY <2>1, <4>2, <5>1 DEF Panel!OwnerChanges, MarketTyped
      <4> QED BY <2>1, <4>1, <4>2 DEF Panel!OwnerChanges
    <3> QED BY <2>1, <3>1 DEF Panel!OwnerChanges, Panel!Change, BuyerTyped
  <2>2. ASSUME NEW v \in Panel!Amounts, Panel!SpentElsewhere(v)
        PROVE  BuyerTyped' /\ MarketTyped'
    BY <2>2 DEF Panel!SpentElsewhere, Panel!Change, Panel!Amounts, Panel!remaining, BuyerTyped, MarketTyped
  <2> QED BY <2>1, <2>2 DEF Panel!OwnerChanges, Panel!SpentElsewhere
<1>2. PanelFlowsTyped'
  BY <1>1 DEF PanelInv, PanelFlowsTyped
<1> QED BY <1>1, <1>2, PanelParts DEF PanelInv

\* A click starts a flow.
LEMMA ClickKeeps ==
  ASSUME PanelInv, NEW f \in Panel!Flows, NEW v \in Panel!Amounts,
         Panel!ApproveUsdc(f, v) \/ Panel!Buy(f, v)
  PROVE  PanelInv'
<1>1. PICK k \in {"approve", "buy"}, s \in {"simulating", "confirming"} :
        /\ s = "simulating" => k = "buy"
        /\ clickStage[f] = "unused" /\ clickStage' = [clickStage EXCEPT ![f] = s]
        /\ clickKind' = [clickKind EXCEPT ![f] = k]
        /\ clickWallet' = [clickWallet EXCEPT ![f] = buyer]
        /\ clickValue' = [clickValue EXCEPT ![f] = v]
        /\ notice' = [of |-> f, says |-> "working"]
        /\ \A g \in 1..(f - 1) : clickStage[g] # "unused"
  BY DEF Panel!ApproveUsdc, Panel!Buy, Panel!Begin
<1>2. /\ buyer # None
      /\ UNCHANGED <<buyer, buyerOnSepolia, changes, tier, paused, spent, allowance, seenTier,
                     seenAllowance, seenRemaining, clickOutcome, clickTx, undisturbed>>
  BY DEF Panel!ApproveUsdc, Panel!Buy, Panel!CanClick, Panel!Shown, Panel!walletVars,
     Panel!chainVars, Panel!seenVars
<1>3. ButtonsTyped'
  <2>1. ~approving /\ ~buying
    BY DEF Panel!ApproveUsdc, Panel!Buy, Panel!CanClick
  <2>2. approving \in BOOLEAN /\ buying \in BOOLEAN
    BY DEF PanelInv, ButtonsTyped
  <2>3. CASE Panel!ApproveUsdc(f, v)
    <3>1. approving' = TRUE /\ buying' = buying
      BY <2>3 DEF Panel!ApproveUsdc
    <3>2. approving' \in BOOLEAN /\ buying' \in BOOLEAN /\ ~buying'
      BY <2>1, <2>2, <3>1
    <3> QED BY <3>2 DEF ButtonsTyped
  <2>4. CASE Panel!Buy(f, v)
    <3>1. buying' = TRUE /\ approving' = approving
      BY <2>4 DEF Panel!Buy
    <3>2. approving' \in BOOLEAN /\ buying' \in BOOLEAN /\ ~approving'
      BY <2>1, <2>2, <3>1
    <3> QED BY <3>2 DEF ButtonsTyped
  <2> QED BY <2>3, <2>4
<1>4. PanelFlowsTyped /\ BuyerTyped
  BY DEF PanelInv
<1>5. PanelFlowsTyped'
  <2>1. notice' \in Notices
    BY <1>1, ClientsAssumption DEF Notices, Panel!Flows, Panel!PanelAssumption
  <2> QED BY <1>1, <1>2, <1>4, <2>1 DEF PanelFlowsTyped, PanelStages
<1>6. buyer \in Wallets
  BY <1>2, <1>4 DEF BuyerTyped
<1>7. ASSUME NEW g \in Panel!Flows
      PROVE  /\ clickStage'[g] = IF g = f THEN s ELSE clickStage[g]
             /\ clickKind'[g] = IF g = f THEN k ELSE clickKind[g]
             /\ clickWallet'[g] = IF g = f THEN buyer ELSE clickWallet[g]
             /\ clickValue'[g] = IF g = f THEN v ELSE clickValue[g]
  BY <1>1, <1>4 DEF PanelInv, ClicksOK, PanelFlowsTyped
<1>8. ClicksOK'
  BY <1>1, <1>2, <1>6, <1>7 DEF PanelInv, ClicksOK
<1>9. UndisturbedPass'
  <2>1. f \notin undisturbed
    BY <1>1 DEF PanelInv, UndisturbedPass
  <2>2. undisturbed \subseteq Panel!Flows
    BY <1>4 DEF PanelFlowsTyped
  <2> QED BY <1>2, <1>7, <2>1, <2>2 DEF PanelInv, UndisturbedPass, Panel!Passes, Panel!remaining
<1>10. NoticeOK'
  <2>1. ~approving /\ ~buying
    BY DEF Panel!ApproveUsdc, Panel!Buy, Panel!CanClick
  <2>2. approving' \/ buying'
    BY DEF Panel!ApproveUsdc, Panel!Buy
  <2>3. /\ notice.of \in 0..MaxClicks /\ MaxClicks \in Nat
        /\ Panel!Flows = 1..MaxClicks
    BY <1>4, ClientsAssumption DEF PanelFlowsTyped, Notices, Panel!Flows, Panel!PanelAssumption
  <2>4. notice'.of = f /\ notice'.says = "working"
    BY <1>1
  <2>5. ASSUME NEW g \in Panel!Flows
        PROVE  /\ clickStage[g] # "unused" <=> g <= notice.of
               /\ clickStage[g] \in {"unused", "done"}
    BY <2>1 DEF PanelInv, NoticeOK
  <2>6. notice.of < f
    BY <1>1, <2>3, <2>5
  <2>7. ASSUME NEW g \in Panel!Flows
        PROVE  clickStage'[g] # "unused" <=> g <= f
    BY <1>1, <1>7, <2>3, <2>5, <2>6, <2>7
  <2>8. ASSUME NEW g \in Panel!Flows, clickStage'[g] \notin {"unused", "done"}
        PROVE  g = f
    BY <1>7, <2>5, <2>8
  <2> QED BY <2>2, <2>4, <2>7, <2>8, <2>3 DEF NoticeOK, Panel!NoticeIsOnChain
<1> QED BY <1>2, <1>3, <1>5, <1>8, <1>9, <1>10, PanelParts DEF PanelInv

\* What a step of a flow does to it: it ends, or goes on.
PanelStep(f) ==
  \E s \in PanelStages \ {"unused", "simulating"} :
    /\ clickStage[f] \notin {"unused", "done"} /\ clickStage' = [clickStage EXCEPT ![f] = s]
    /\ \/ /\ s = "done"
          /\ \E why \in Outcomes :
               /\ clickOutcome' = [clickOutcome EXCEPT ![f] = why]
               /\ notice' = [of |-> f, says |-> Panel!Words(why)]
               /\ why = "success" => clickTx[f] = "success"
               /\ why = "reverted" => clickTx[f] = "reverted"
               /\ why = "rejected" => clickTx[f] = None
       \/ /\ s # "done" /\ UNCHANGED <<clickOutcome, notice, approving, buying>>
          /\ s = "confirming" => clickStage[f] = "simulating"
          /\ s = "rereading" => clickTx[f] = "success"
    /\ IF s = "mining"
         THEN clickStage[f] = "confirming" /\ clickTx' = [clickTx EXCEPT ![f] = "pending"]
         ELSE clickTx' = clickTx
    /\ \/ undisturbed' = undisturbed
       \/ /\ clickStage[f] = "simulating" /\ clickKind[f] = "buy" /\ undisturbed' = undisturbed \cup {f}
          /\ Panel!Passes(clickWallet[f], clickValue[f])

\* Every step of a flow is of that form, and keeps the buttons exclusive.
LEMMA PanelSteps ==
  ASSUME PanelInv, NEW f \in Panel!Flows, Panel!Step(f)
  PROVE  /\ PanelStep(f) /\ ButtonsTyped' /\ PolledTyped'
         /\ UNCHANGED <<buyer, buyerOnSepolia, changes, tier, paused, spent, allowance, clickKind,
                        clickWallet, clickValue>>
<1> USE DEF Panel!walletVars, Panel!chainVars, Panel!seenVars, Panel!busyVars, Panel!clickVars
<1>0. ClicksOK
  BY DEF PanelInv
<1>1. ButtonsTyped /\ PolledTyped /\ MarketTyped /\ BuyerTyped
  BY DEF PanelInv
<1>2. /\ \A why : Panel!End(f, why) => ButtonsTyped'
      /\ \A s : Panel!GoOn(f, s) => ButtonsTyped'
  <2>1. ASSUME NEW why, Panel!End(f, why)
        PROVE  ButtonsTyped'
    BY <1>1, <2>1, Zenon DEF Panel!End, Panel!ResetBusy, ButtonsTyped
  <2>2. ASSUME NEW s, Panel!GoOn(f, s)
        PROVE  ButtonsTyped'
    BY <1>1, <2>2, PanelParts DEF Panel!GoOn
  <2> QED BY <2>1, <2>2
<1> USE DEF PanelStages, Outcomes
<1>3. CASE Panel!Simulate(f)
  <2>1. clickKind[f] = "buy"
    BY <1>3 DEF Panel!Simulate, PanelInv, ClicksOK
  <2>2. CASE Panel!Simulated(f) /\ undisturbed' = undisturbed \cup {f}
    <3>1. PanelStep(f)
      BY <1>3, <2>1, <2>2 DEF Panel!Simulate, Panel!Simulated, Panel!GoOn, PanelStep
    <3> QED BY <1>1, <1>2, <1>3, <2>2, <3>1, PanelParts DEF Panel!Simulate, Panel!Simulated
  <2>3. CASE Panel!End(f, "rejected") /\ UNCHANGED undisturbed
    <3>1. PanelStep(f)
      BY <1>0, <1>3, <2>3 DEF Panel!Simulate, Panel!End, PanelStep, ClicksOK
    <3> QED BY <1>1, <1>2, <1>3, <2>3, <3>1, PanelParts DEF Panel!Simulate
  <2> QED BY <1>3, <2>2, <2>3 DEF Panel!Simulate
<1>4. CASE Panel!Send(f)
  <2>1. CASE Panel!GoOn(f, "mining") /\ clickTx' = [clickTx EXCEPT ![f] = "pending"]
    <3>1. PanelStep(f)
      BY <1>4, <2>1 DEF Panel!Send, Panel!GoOn, PanelStep
    <3> QED BY <1>1, <1>2, <1>4, <2>1, <3>1, PanelParts DEF Panel!Send
  <2>2. CASE Panel!End(f, "rejected") /\ UNCHANGED clickTx
    <3>1. PanelStep(f)
      BY <1>0, <1>4, <2>2 DEF Panel!Send, Panel!End, PanelStep, ClicksOK
    <3> QED BY <1>1, <1>2, <1>4, <2>2, <3>1, PanelParts DEF Panel!Send
  <2> QED BY <1>4, <2>1, <2>2 DEF Panel!Send
<1>5. CASE Panel!ReadReceipt(f)
  <2>1. CASE Panel!Succeeded(f) /\ Panel!GoOn(f, "rereading")
    <3>1. PanelStep(f)
      BY <1>5, <2>1 DEF Panel!ReadReceipt, Panel!Succeeded, Panel!GoOn, PanelStep
    <3> QED BY <1>1, <1>2, <1>5, <2>1, <3>1, PanelParts DEF Panel!ReadReceipt
  <2>2. CASE ~Panel!Succeeded(f) /\ clickTx[f] # "pending" /\ Panel!End(f, "reverted")
    <3>1. clickTx[f] = "reverted"
      BY <1>5, <2>2 DEF Panel!ReadReceipt, Panel!Succeeded, PanelInv, PanelFlowsTyped, ClicksOK
    <3>2. PanelStep(f)
      BY <1>5, <2>2, <3>1 DEF Panel!ReadReceipt, Panel!End, PanelStep
    <3> QED BY <1>1, <1>2, <1>5, <2>2, <3>2, PanelParts DEF Panel!ReadReceipt
  <2>3. CASE Panel!End(f, "timedOut")
    <3>1. PanelStep(f)
      BY <1>5, <2>3 DEF Panel!ReadReceipt, Panel!End, PanelStep
    <3> QED BY <1>1, <1>2, <1>5, <2>3, <3>1, PanelParts DEF Panel!ReadReceipt
  <2> QED BY <1>5, <2>1, <2>2, <2>3 DEF Panel!ReadReceipt
<1>6. CASE Panel!Reread(f)
  <2>1. PanelStep(f)
    BY <1>6 DEF Panel!Reread, Panel!End, PanelStep, PanelInv, ClicksOK
  <2>2. PolledTyped'
    <3>1. CASE UNCHANGED <<seenTier, seenAllowance, seenRemaining>>
      BY <1>1, <3>1, PanelParts
    <3>2. CASE buyer # None /\ ~UNCHANGED <<seenTier, seenAllowance, seenRemaining>>
      <4>1. buyer \in Wallets /\ allowance[buyer] \in 0..Cap /\ Panel!remaining \in 0..Cap
        BY <1>1, <3>2, ClientsAssumption
        DEF BuyerTyped, MarketTyped, Panel!remaining, Panel!PanelAssumption
      <4> QED BY <1>1, <1>6, <3>2, <4>1 DEF Panel!Reread, PolledTyped
    <3> QED BY <1>6, <3>1, <3>2 DEF Panel!Reread
  <2> QED BY <1>1, <1>2, <1>6, <2>1, <2>2 DEF Panel!Reread
<1> QED BY <1>3, <1>4, <1>5, <1>6 DEF Panel!Step, Panel!Awaited

\* The step of a flow keeps the invariant.
LEMMA PanelStepKeeps ==
  ASSUME PanelInv, NEW f \in Panel!Flows, PanelStep(f), ButtonsTyped', PolledTyped',
         UNCHANGED <<buyer, buyerOnSepolia, changes, tier, paused, spent, allowance, clickKind,
                     clickWallet, clickValue>>
  PROVE  PanelInv'
<1>1. PICK s \in PanelStages \ {"unused", "simulating"} :
        /\ clickStage[f] \notin {"unused", "done"} /\ clickStage' = [clickStage EXCEPT ![f] = s]
        /\ \/ /\ s = "done"
              /\ \E why \in Outcomes :
                   /\ clickOutcome' = [clickOutcome EXCEPT ![f] = why]
                   /\ notice' = [of |-> f, says |-> Panel!Words(why)]
                   /\ why = "success" => clickTx[f] = "success"
                   /\ why = "reverted" => clickTx[f] = "reverted"
                   /\ why = "rejected" => clickTx[f] = None
           \/ /\ s # "done" /\ UNCHANGED <<clickOutcome, notice, approving, buying>>
              /\ s = "confirming" => clickStage[f] = "simulating"
              /\ s = "rereading" => clickTx[f] = "success"
        /\ IF s = "mining"
             THEN clickStage[f] = "confirming" /\ clickTx' = [clickTx EXCEPT ![f] = "pending"]
             ELSE clickTx' = clickTx
        /\ \/ undisturbed' = undisturbed
           \/ /\ clickStage[f] = "simulating" /\ clickKind[f] = "buy" /\ undisturbed' = undisturbed \cup {f}
              /\ Panel!Passes(clickWallet[f], clickValue[f])
  BY DEF PanelStep
<1>2. /\ clickStage \in [Panel!Flows -> PanelStages]
      /\ clickOutcome \in [Panel!Flows -> Outcomes \cup {None}]
      /\ clickTx \in [Panel!Flows -> {None, "pending", "success", "reverted"}]
      /\ undisturbed \subseteq Panel!Flows
      /\ None \notin {"pending", "success", "reverted", "rejected"}
  BY ClientsAssumption DEF PanelInv, PanelFlowsTyped, Panel!PanelAssumption
<1>3. PanelFlowsTyped'
  <2>1. clickStage' \in [Panel!Flows -> PanelStages]
    BY <1>1, <1>2
  <2>2. clickOutcome' \in [Panel!Flows -> Outcomes \cup {None}]
    BY <1>1, <1>2
  <2>3. clickTx' \in [Panel!Flows -> {None, "pending", "success", "reverted"}]
    BY <1>1, <1>2
  <2>4. notice' \in Notices
    <3>1. notice \in Notices /\ f \in 0..MaxClicks
      BY ClientsAssumption DEF PanelInv, PanelFlowsTyped, Panel!Flows, Panel!PanelAssumption
    <3> QED BY <1>1, <3>1 DEF Notices, Outcomes, Panel!Words
  <2> QED BY <1>1, <1>2, <2>1, <2>2, <2>3, <2>4 DEF PanelFlowsTyped
<1>4. ASSUME NEW g \in Panel!Flows
      PROVE  /\ clickStage'[g] = IF g = f THEN s ELSE clickStage[g]
             /\ g # f \/ s # "done" => clickOutcome'[g] = clickOutcome[g]
             /\ clickTx'[g] = clickTx[g]
                \/ (g = f /\ clickTx'[g] = "pending" /\ s = "mining" /\ clickStage[f] = "confirming")
  BY <1>1, <1>2
<1>5. ClicksOK'
  <2>1. ASSUME NEW g \in Panel!Flows
        PROVE  /\ clickStage'[g] \in {"unused", "simulating", "confirming"} => clickTx'[g] = None
               /\ clickStage'[g] = "mining" => clickTx'[g] # None
               /\ clickStage'[g] = "rereading" => clickTx'[g] = "success"
    <3>1. CASE g = f
      BY <1>1, <1>2, <1>4, <3>1 DEF PanelInv, ClicksOK
    <3>2. CASE g # f
      BY <1>4, <3>2 DEF PanelInv, ClicksOK
    <3> QED BY <3>1, <3>2
  <2>2. ASSUME NEW g \in Panel!Flows
        PROVE  /\ clickStage'[g] # "unused" => clickStage[g] # "unused"
               /\ clickStage'[g] = "simulating" => clickStage[g] = "simulating"
               /\ clickStage'[g] # "done" => clickOutcome'[g] = None
    BY <1>1, <1>4 DEF PanelInv, ClicksOK
  <2> QED BY <2>1, <2>2 DEF PanelInv, ClicksOK
<1>6. UndisturbedPass'
  <2>1. ASSUME NEW g \in undisturbed'
        PROVE  /\ clickStage[g] # "unused" /\ clickKind[g] = "buy" /\ clickTx[g] \in {None, "pending"}
               /\ Panel!Passes(clickWallet[g], clickValue[g])
    BY <1>1, <2>1 DEF PanelInv, UndisturbedPass, ClicksOK
  <2>2. undisturbed' \subseteq Panel!Flows
    BY <1>3 DEF PanelFlowsTyped
  <2> QED BY <1>1, <1>4, <2>1, <2>2 DEF UndisturbedPass, Panel!Passes, Panel!remaining
<1>7. NoticeOK'
  <2>1. NoticeOK /\ ClicksOK /\ f = notice.of /\ notice.says = "working"
    BY <1>1 DEF PanelInv, NoticeOK
  <2>2. ASSUME NEW g \in Panel!Flows
        PROVE  clickStage'[g] # "unused" <=> g <= notice.of
    BY <1>1, <1>4, <2>1 DEF NoticeOK
  <2>3. CASE s = "done"
    <3>1. PICK why \in Outcomes :
            /\ clickOutcome' = [clickOutcome EXCEPT ![f] = why]
            /\ notice' = [of |-> f, says |-> Panel!Words(why)]
            /\ why = "success" => clickTx[f] = "success"
            /\ why = "reverted" => clickTx[f] = "reverted"
            /\ why = "rejected" => clickTx[f] = None
      BY <1>1, <2>3
    <3>2. /\ notice'.of = f /\ clickTx' = clickTx /\ clickOutcome'[f] = why
          /\ notice'.says = why \/ (why = "timedOut" /\ notice'.says = "rejected")
      BY <1>1, <1>2, <2>3, <3>1 DEF Panel!Words
    <3>3. \A g \in Panel!Flows : clickStage'[g] \in {"unused", "done"}
      BY <1>4, <2>1, <2>3 DEF NoticeOK
    <3>4. Panel!NoticeIsOnChain'
      BY <2>1, <2>2, <3>1, <3>2 DEF Panel!NoticeIsOnChain, Outcomes
    <3> QED BY <2>1, <2>2, <3>2, <3>3, <3>4 DEF NoticeOK
  <2>4. CASE s # "done"
    <3>1. UNCHANGED <<clickOutcome, notice, approving, buying>>
      BY <1>1, <2>4
    <3>2. \A g \in Panel!Flows : clickStage'[g] \notin {"unused", "done"} => g = f
      BY <1>4, <2>1, <2>4 DEF NoticeOK
    <3>3. approving \/ buying
      BY <1>1, <2>1 DEF NoticeOK
    <3>4. Panel!NoticeIsOnChain'
      BY <2>1, <2>2, <3>1 DEF Panel!NoticeIsOnChain
    <3> QED BY <2>1, <2>2, <3>1, <3>2, <3>3, <3>4 DEF NoticeOK
  <2> QED BY <2>3, <2>4
<1> QED BY <1>3, <1>5, <1>6, <1>7, PanelParts DEF PanelInv

\* A transaction is mined: it passes if nothing changed since it was simulated.
LEMMA PanelMineKeeps ==
  ASSUME PanelInv, NEW f \in Panel!Flows, Panel!Mine(f)
  PROVE  PanelInv' /\ \A g \in undisturbed : clickTx'[g] # "reverted"
<1>1. /\ clickTx[f] = "pending"
      /\ UNCHANGED <<buyer, buyerOnSepolia, changes, tier, paused, seenTier, seenAllowance,
                     seenRemaining, approving, buying, clickKind, clickWallet, clickValue,
                     clickStage, clickOutcome, notice>>
      /\ \/ /\ allowance' = [allowance EXCEPT ![clickWallet[f]] = clickValue[f]]
            /\ clickTx' = [clickTx EXCEPT ![f] = "success"] /\ undisturbed' = {} /\ spent' = spent
         \/ /\ Panel!Passes(clickWallet[f], clickValue[f])
            /\ allowance' = [allowance EXCEPT ![clickWallet[f]] = allowance[clickWallet[f]] - clickValue[f]]
            /\ spent' = spent + clickValue[f]
            /\ clickTx' = [clickTx EXCEPT ![f] = "success"] /\ undisturbed' = {}
         \/ /\ clickKind[f] # "approve" /\ ~Panel!Passes(clickWallet[f], clickValue[f])
            /\ clickTx' = [clickTx EXCEPT ![f] = "reverted"]
            /\ UNCHANGED <<allowance, spent, undisturbed>>
  BY DEF Panel!Mine, Panel!walletVars, Panel!seenVars, Panel!busyVars, Panel!clickVars
<1>2. /\ clickTx \in [Panel!Flows -> {None, "pending", "success", "reverted"}]
      /\ allowance \in [Wallets -> 0..Cap] /\ spent \in 0..Cap /\ Cap \in Nat
      /\ undisturbed \subseteq Panel!Flows
      /\ None \notin {"pending", "success", "reverted", "rejected"}
  BY ClientsAssumption DEF PanelInv, MarketTyped, PanelFlowsTyped, Panel!PanelAssumption
<1>3. clickStage[f] # "unused" /\ clickWallet[f] \in Wallets /\ clickValue[f] \in 1..Cap
  BY <1>1, <1>2 DEF PanelInv, ClicksOK, Panel!Amounts
<1>4. ASSUME NEW g \in Panel!Flows
      PROVE  clickTx'[g] = clickTx[g] \/ (g = f /\ clickTx'[g] \in {"success", "reverted"})
  BY <1>1, <1>2
<1>5. MarketTyped'
  <2>1. allowance' \in [Wallets -> 0..Cap] /\ spent' \in 0..Cap
    BY <1>1, <1>2, <1>3 DEF Panel!Passes, Panel!remaining
  <2> QED BY <1>1, <2>1 DEF PanelInv, MarketTyped
<1>6. PanelFlowsTyped'
  <2>1. clickTx' \in [Panel!Flows -> {None, "pending", "success", "reverted"}]
    BY <1>1, <1>2
  <2> QED BY <1>1, <2>1 DEF PanelInv, PanelFlowsTyped
<1>7. ClicksOK'
  <2>1. clickStage[f] # "rereading" /\ clickStage[f] \notin {"unused", "simulating", "confirming"}
    BY <1>1, <1>2 DEF PanelInv, ClicksOK
  <2> QED BY <1>1, <1>2, <1>4, <2>1 DEF PanelInv, ClicksOK
<1>8. clickTx'[f] = "reverted" => f \notin undisturbed
  BY <1>1, <1>2 DEF PanelInv, UndisturbedPass
<1>9. UndisturbedPass'
  <2>1. CASE undisturbed' = {}
    BY <2>1 DEF UndisturbedPass
  <2>2. CASE UNCHANGED <<allowance, spent, undisturbed>> /\ f \notin undisturbed
    BY <1>1, <1>2, <1>4, <2>2 DEF PanelInv, UndisturbedPass, Panel!Passes, Panel!remaining
  <2> QED BY <1>1, <1>2, <1>8, <2>1, <2>2
<1>10. NoticeOK'
  <2>1. NoticeOK
    BY DEF PanelInv
  <2>2. notice.of \in 0..MaxClicks /\ Panel!Flows = 1..MaxClicks /\ MaxClicks \in Nat
    BY ClientsAssumption DEF PanelInv, PanelFlowsTyped, Notices, Panel!Flows, Panel!PanelAssumption
  <2>3. Panel!NoticeIsOnChain /\ notice' = notice /\ clickStage' = clickStage /\ clickOutcome' = clickOutcome
    BY <1>1, <2>1 DEF NoticeOK
  <2>4. ASSUME notice.of # 0
        PROVE  /\ notice.says \in {"success", "reverted"} => clickTx'[notice.of] = notice.says
               /\ notice.says = "rejected" =>
                    clickTx'[notice.of] = None \/ clickOutcome[notice.of] = "timedOut"
    <3>1. notice.of \in Panel!Flows
      BY <2>2, <2>4
    <3>2. /\ notice.says \in {"success", "reverted"} => clickTx[notice.of] = notice.says
          /\ notice.says = "rejected" => clickTx[notice.of] = None \/ clickOutcome[notice.of] = "timedOut"
      BY <2>3, <2>4 DEF Panel!NoticeIsOnChain
    <3>3. clickTx'[notice.of] = clickTx[notice.of] \/ clickTx[notice.of] = "pending"
      BY <1>1, <1>4, <3>1
    <3> QED BY <1>2, <3>2, <3>3
  <2>5. Panel!NoticeIsOnChain'
    BY <2>3, <2>4 DEF Panel!NoticeIsOnChain
  <2> QED BY <1>1, <2>1, <2>5 DEF NoticeOK
<1>11. ASSUME NEW g \in undisturbed
       PROVE  clickTx'[g] # "reverted"
  <2>1. clickTx[g] # "reverted"
    BY <1>2 DEF PanelInv, UndisturbedPass
  <2> QED BY <1>2, <1>4, <1>8, <2>1
<1> QED BY <1>1, <1>5, <1>6, <1>7, <1>9, <1>10, <1>11, PanelParts DEF PanelInv

\* The panel as it is first shown.
LEMMA PanelStarts ==
  Panel!Init => PanelInv
<1> SUFFICES ASSUME Panel!Init PROVE PanelInv
  OBVIOUS
<1>1. Cap \in Nat \ {0} /\ MaxChanges \in Nat
  BY ClientsAssumption DEF Panel!PanelAssumption
<1>2. BuyerTyped /\ MarketTyped /\ PolledTyped
  <2>1. 0 \in 0..Cap /\ 0 \in 0..MaxChanges /\ 1 \in 0..1
    BY <1>1
  <2> QED BY <2>1 DEF Panel!Init, BuyerTyped, MarketTyped, PolledTyped
<1>3. ButtonsTyped /\ PanelFlowsTyped /\ ClicksOK
  <2>1. notice \in Notices
    BY ClientsAssumption DEF Panel!Init, Notices, Panel!PanelAssumption
  <2> QED BY <2>1 DEF Panel!Init, ButtonsTyped, PanelFlowsTyped, ClicksOK, PanelStages
<1>4. UndisturbedPass /\ NoticeOK
  <2>1. \A f \in Panel!Flows : f \in Nat /\ f > 0
    BY ClientsAssumption DEF Panel!Flows, Panel!PanelAssumption
  <2> QED BY <2>1 DEF Panel!Init, UndisturbedPass, NoticeOK, Panel!NoticeIsOnChain
<1> QED BY <1>2, <1>3, <1>4 DEF PanelInv

\* Every step of the panel keeps the invariant, and no purchase that nothing
\* disturbed reverts in it.
LEMMA PanelNextKeeps ==
  ASSUME PanelInv, [Panel!Next]_(Panel!vars)
  PROVE  PanelInv' /\ \A g \in undisturbed : clickTx'[g] # "reverted"
<1>1. \A g \in undisturbed : clickTx[g] # "reverted"
  BY ClientsAssumption DEF PanelInv, UndisturbedPass, Panel!PanelAssumption
<1>2. ASSUME NEW f \in Panel!Flows, Panel!Mine(f)
      PROVE  PanelInv' /\ \A g \in undisturbed : clickTx'[g] # "reverted"
  BY <1>2, PanelMineKeeps
<1>3. ASSUME NEW f \in Panel!Flows, Panel!Step(f)
      PROVE  PanelInv' /\ \A g \in undisturbed : clickTx'[g] # "reverted"
  <2>1. /\ PanelStep(f) /\ ButtonsTyped' /\ PolledTyped'
        /\ UNCHANGED <<buyer, buyerOnSepolia, changes, tier, paused, spent, allowance, clickKind,
                       clickWallet, clickValue>>
    BY <1>3, PanelSteps
  <2>2. PanelInv'
    BY <2>1, PanelStepKeeps
  <2>3. clickTx' = clickTx \/ clickTx' = [clickTx EXCEPT ![f] = "pending"]
    BY <2>1 DEF PanelStep
  <2>4. clickTx \in [Panel!Flows -> {None, "pending", "success", "reverted"}]
    BY DEF PanelInv, PanelFlowsTyped
  <2>5. undisturbed \subseteq Panel!Flows
    BY DEF PanelInv, PanelFlowsTyped
  <2> QED BY <1>1, <2>2, <2>3, <2>4, <2>5
<1>4. ASSUME NEW f \in Panel!Flows, NEW v \in Panel!Amounts, Panel!ApproveUsdc(f, v) \/ Panel!Buy(f, v)
      PROVE  PanelInv' /\ \A g \in undisturbed : clickTx'[g] # "reverted"
  <2>1. PanelInv'
    BY <1>4, ClickKeeps
  <2>2. clickTx' = clickTx
    BY <1>4 DEF Panel!ApproveUsdc, Panel!Buy
  <2> QED BY <1>1, <2>1, <2>2
<1>5. CASE \/ \E w \in Wallets \cup {None} : Panel!ChooseAccount(w)
           \/ Panel!SwitchNetwork \/ Panel!Poll \/ UNCHANGED Panel!vars
  <2>1. PanelInv'
    BY <1>5, LooksKeep
  <2>2. clickTx' = clickTx
    BY <1>5 DEF Panel!ChooseAccount, Panel!SwitchNetwork, Panel!Poll, Panel!vars, Panel!flowVars
  <2> QED BY <1>1, <2>1, <2>2
<1>6. CASE Panel!OwnerChanges \/ \E v \in Panel!Amounts : Panel!SpentElsewhere(v)
  <2>1. PanelInv'
    BY <1>6, ChainChangesKeep
  <2>2. clickTx' = clickTx
    BY <1>6 DEF Panel!OwnerChanges, Panel!SpentElsewhere, Panel!flowVars
  <2> QED BY <1>1, <2>1, <2>2
<1> QED BY <1>2, <1>3, <1>4, <1>5, <1>6 DEF Panel!Next

-----------------------------------------------------------------------------
(* The swap form *)

FormStages   == {"unused", "code", "planning", "approve", "approving", "swap", "swapping",
                 "balances", "done", "lost"}
FormOutcomes == {"success", "registering", "rejected"}

\* The parts of the type invariant.
AccountTyped ==
  formAccount \in Wallets \cup {None} /\ formNetwork \in {"anvil", "other"} /\ formChanges \in 0..MaxChanges
AnvilTyped ==
  formPaused \in BOOLEAN /\ formAllowance \in [Wallets -> 0..Cap] /\ formSpent \in 0..Cap
ShownTyped ==
  /\ formPhase \in {"idle", "registering", "success", "rejected"} \cup Form!Running
  /\ shownSwap \in {0} \cup {f \in Form!Flows : swapTx[f] # None}
FormFlowsTyped ==
  /\ formValue \in [Form!Flows -> Form!Amounts \cup {None}]
  /\ formStage \in [Form!Flows -> FormStages]
  /\ formOutcome \in [Form!Flows -> FormOutcomes \cup {None}]
SentTyped ==
  /\ approvalTx \in [Form!Flows -> Form!Transactions \cup {None}]
  /\ swapTx \in [Form!Flows -> Form!Transactions \cup {None}]
  /\ beside \subseteq Form!Flows

\* Transaction t was sent and succeeded on Anvil.
Made(t) == t # None /\ t.state = "success" /\ t.on = "anvil"

\* Only what was sent to Anvil is mined.
MinedOnAnvil ==
  \A f \in Form!Flows :
    /\ approvalTx[f] # None /\ approvalTx[f].state # "pending" => approvalTx[f].on = "anvil"
    /\ swapTx[f] # None /\ swapTx[f].state # "pending" => swapTx[f].on = "anvil"

\* What a flow has sent, at each of its stages, and what it reports.
FormFlowOK(f) ==
  /\ formStage[f] # "unused" => formValue[f] \in Form!Amounts
  /\ formStage[f] \in {"unused", "code", "planning", "approve"} => approvalTx[f] = None
  /\ approvalTx[f] = None => swapTx[f] = None
  /\ formStage[f] \in {"approving", "swap"} => approvalTx[f] # None /\ swapTx[f] = None
  /\ formStage[f] = "swap" \/ swapTx[f] # None => Made(approvalTx[f])
  /\ formStage[f] \in {"swapping", "balances"} => swapTx[f] # None
  /\ formStage[f] = "balances" => Made(swapTx[f])
  /\ formStage[f] # "done" => formOutcome[f] = None
  /\ formOutcome[f] = "success" => Made(swapTx[f])
  /\ formOutcome[f] = "registering" => approvalTx[f] = None

FormFlowsOK == \A f \in Form!Flows : FormFlowOK(f)

\* The hash shown is flow f's, or none, or of a flow that was under way beside it.
HashOf(f) == shownSwap \in {0, f} \/ {f, shownSwap} \subseteq beside

\* Two flows under way are beside each other, and so is, while "success" of f is
\* shown, whatever flow has gone on from its first check.
BesideOK ==
  /\ \A f \in Form!UnderWay : \A g \in Form!UnderWay : f # g => {f, g} \subseteq beside
  /\ \A f \in Form!Flows : formStage[f] \in {"swapping", "balances"} => HashOf(f)
  /\ formPhase = "success" =>
       \E f \in Form!Flows :
         /\ formOutcome[f] = "success" /\ HashOf(f)
         /\ \A g \in Form!UnderWay : formStage[g] # "code" => {f, g} \subseteq beside

FormInv ==
  /\ AccountTyped /\ AnvilTyped /\ ShownTyped /\ FormFlowsTyped /\ SentTyped
  /\ MinedOnAnvil /\ FormFlowsOK /\ BesideOK

\* They say what the form promises.
LEMMA FormInvTells ==
  ASSUME FormInv
  PROVE  Form!TypeOK /\ Form!ApprovedBeforeSwapped /\ Form!ShownIsOnChain
<1>1. Form!TypeOK
  <2>1. shownSwap \in 0..MaxClicks /\ (shownSwap # 0 => swapTx[shownSwap] # None)
    BY ClientsAssumption DEF FormInv, ShownTyped, Form!Flows, Form!SwapAssumption
  <2> QED
    BY <2>1 DEF FormInv, AccountTyped, AnvilTyped, ShownTyped, FormFlowsTyped, SentTyped,
       FormStages, FormOutcomes, Form!TypeOK
<1>2. Form!ApprovedBeforeSwapped
  BY DEF FormInv, FormFlowsOK, FormFlowOK, Made, Form!ApprovedBeforeSwapped
<1>3. Form!ShownIsOnChain
  <2>1. ASSUME NEW f \in Form!Flows
        PROVE  /\ formOutcome[f] = "success" => Form!Bought(f)
               /\ formOutcome[f] = "registering" => approvalTx[f] = None /\ swapTx[f] = None
    BY DEF FormInv, FormFlowsOK, FormFlowOK, Made, Form!Bought
  <2> QED BY <2>1 DEF FormInv, BesideOK, HashOf, Form!ShownIsOnChain
<1> QED BY <1>1, <1>2, <1>3

\* The wallet, the market and the Reset button leave the flows alone.
LEMMA FormAsideKeeps ==
  ASSUME FormInv, Form!WalletChanges \/ Form!MarketChanges \/ Form!Reset \/ UNCHANGED Form!vars
  PROVE  FormInv'
<1> USE DEF Form!walletVars, Form!chainVars, Form!flowVars, Form!vars
<1>1. UNCHANGED <<formValue, formStage, formOutcome, approvalTx, swapTx, beside>>
  BY DEF Form!WalletChanges, Form!MarketChanges, Form!Reset
<1>2. AccountTyped'
  BY ClientsAssumption
  DEF Form!WalletChanges, Form!MarketChanges, Form!Reset, Form!Change, FormInv, AccountTyped,
      Form!SwapAssumption
<1>3. AnvilTyped'
  <2>1. CASE Form!MarketChanges
    <3>1. formPaused' \in BOOLEAN /\ formAllowance' = formAllowance
      BY <2>1 DEF Form!MarketChanges, FormInv, AnvilTyped
    <3>2. formSpent' \in 0..Cap
      BY <2>1, ClientsAssumption
      DEF Form!MarketChanges, FormInv, AnvilTyped, Form!Amounts, Form!SwapAssumption
    <3> QED BY <3>1, <3>2 DEF FormInv, AnvilTyped
  <2>2. CASE UNCHANGED <<formPaused, formAllowance, formSpent>>
    BY <2>2 DEF FormInv, AnvilTyped
  <2> QED BY <2>1, <2>2 DEF Form!WalletChanges, Form!Reset
<1>4. ShownTyped'
  BY DEF Form!WalletChanges, Form!MarketChanges, Form!Reset, FormInv, ShownTyped
<1>5. FormFlowsTyped' /\ SentTyped'
  BY <1>1 DEF FormInv, FormFlowsTyped, SentTyped
<1>6. MinedOnAnvil' /\ FormFlowsOK'
  BY <1>1 DEF FormInv, MinedOnAnvil, FormFlowsOK, FormFlowOK, Made
<1>7. BesideOK'
  <2>1. BesideOK
    BY DEF FormInv
  <2>2. UNCHANGED <<formPhase, shownSwap>> \/ (formPhase' = "idle" /\ shownSwap' = 0)
    BY DEF Form!WalletChanges, Form!MarketChanges, Form!Reset
  <2>3. Form!UnderWay' = Form!UnderWay
    BY <1>1 DEF Form!UnderWay
  <2>4. CASE UNCHANGED <<formPhase, shownSwap>>
    BY <1>1, <2>1, <2>3, <2>4 DEF BesideOK, HashOf
  <2>5. CASE formPhase' = "idle" /\ shownSwap' = 0
    BY <1>1, <2>1, <2>3, <2>5 DEF BesideOK, HashOf
  <2> QED BY <2>2, <2>4, <2>5
<1> QED BY <1>2, <1>3, <1>4, <1>5, <1>6, <1>7 DEF FormInv

\* A click: a flow starts, or is refused at once.
LEMMA ExecuteKeeps ==
  ASSUME FormInv, NEW f \in Form!Flows, NEW v \in Form!Amounts, Form!Execute(f, v)
  PROVE  FormInv'
<1>1. /\ formStage[f] = "unused"
      /\ formValue' = [formValue EXCEPT ![f] = v]
      /\ \/ /\ formStage' = [formStage EXCEPT ![f] = "code"] /\ UNCHANGED <<formOutcome, formPhase>>
            /\ beside' = beside \cup IF Form!UnderWay = {} THEN {} ELSE Form!UnderWay \cup {f}
         \/ /\ beside' = beside
            /\ \E why \in {"registering", "rejected"} :
                 /\ formStage' = [formStage EXCEPT ![f] = "done"]
                 /\ formOutcome' = [formOutcome EXCEPT ![f] = why] /\ formPhase' = why
      /\ UNCHANGED <<formAccount, formNetwork, formChanges, formPaused, formAllowance, formSpent,
                     shownSwap, approvalTx, swapTx>>
  BY DEF Form!Execute, Form!GoOn, Form!End, Form!walletVars, Form!chainVars
<1>2. /\ formValue \in [Form!Flows -> Form!Amounts \cup {None}]
      /\ formStage \in [Form!Flows -> FormStages]
      /\ formOutcome \in [Form!Flows -> FormOutcomes \cup {None}]
  BY DEF FormInv, FormFlowsTyped
<1>3. ASSUME NEW g \in Form!Flows
      PROVE  /\ formValue'[g] = IF g = f THEN v ELSE formValue[g]
             /\ g # f => formStage'[g] = formStage[g] /\ formOutcome'[g] = formOutcome[g]
             /\ \/ formStage'[f] = "code" /\ formOutcome'[f] = formOutcome[f]
                \/ formStage'[f] = "done" /\ formOutcome'[f] \in {"registering", "rejected"}
  BY <1>1, <1>2
<1>4. AccountTyped' /\ AnvilTyped' /\ SentTyped' /\ MinedOnAnvil'
  <2>1. beside' \subseteq Form!Flows
    BY <1>1 DEF FormInv, SentTyped, Form!UnderWay
  <2> QED BY <1>1, <2>1 DEF FormInv, AccountTyped, AnvilTyped, SentTyped, MinedOnAnvil
<1>5. ShownTyped'
  BY <1>1 DEF FormInv, ShownTyped
<1>6. FormFlowsTyped'
  BY <1>1, <1>2 DEF FormFlowsTyped, FormStages, FormOutcomes
<1>7. FormFlowsOK'
  <2>1. approvalTx[f] = None /\ swapTx[f] = None /\ formOutcome[f] = None
    BY <1>1 DEF FormInv, FormFlowsOK, FormFlowOK
  <2>2. formOutcome'[f] # "success"
    BY <1>3, <2>1, ClientsAssumption DEF Form!SwapAssumption
  <2> QED BY <1>1, <1>3, <2>1, <2>2 DEF FormInv, FormFlowsOK, FormFlowOK, Made
<1>8. BesideOK'
  <2>1. BesideOK /\ f \notin Form!UnderWay
    BY <1>1 DEF FormInv, Form!UnderWay
  <2>2. UNCHANGED shownSwap /\ beside \subseteq beside'
    BY <1>1
  <2>3. CASE formStage'[f] = "code"
    <3>1. /\ UNCHANGED <<formOutcome, formPhase>>
          /\ beside' = beside \cup IF Form!UnderWay = {} THEN {} ELSE Form!UnderWay \cup {f}
      BY <1>1, <1>2, <2>3
    <3>2. Form!UnderWay' = Form!UnderWay \cup {f}
      BY <1>3, <2>3 DEF Form!UnderWay
    <3>3. \A g \in Form!UnderWay' : \A h \in Form!UnderWay' : g # h => {g, h} \subseteq beside'
      BY <2>1, <3>1, <3>2 DEF BesideOK
    <3>4. \A g \in Form!Flows : HashOf(g) => HashOf(g)'
      BY <2>2 DEF HashOf
    <3>5. \A g \in Form!Flows : formStage'[g] \in {"swapping", "balances"} => HashOf(g)'
      BY <1>3, <2>1, <2>3, <3>4 DEF BesideOK
    <3>6. ASSUME formPhase' = "success"
          PROVE  \E g \in Form!Flows :
                   /\ formOutcome'[g] = "success" /\ HashOf(g)'
                   /\ \A h \in Form!UnderWay' : formStage'[h] # "code" => {g, h} \subseteq beside'
      <4>1. PICK g \in Form!Flows :
              /\ formOutcome[g] = "success" /\ HashOf(g)
              /\ \A h \in Form!UnderWay : formStage[h] # "code" => {g, h} \subseteq beside
        BY <2>1, <3>1, <3>6 DEF BesideOK
      <4>2. \A h \in Form!UnderWay' : formStage'[h] # "code" => {g, h} \subseteq beside'
        BY <1>3, <2>2, <2>3, <3>2, <4>1 DEF Form!UnderWay
      <4> QED BY <3>1, <3>4, <4>1, <4>2
    <3> QED BY <3>3, <3>5, <3>6 DEF BesideOK
  <2>4. CASE formStage'[f] = "done"
    <3>1. beside' = beside /\ formPhase' # "success"
      BY <1>1, <1>2, <2>4
    <3>2. Form!UnderWay' = Form!UnderWay
      BY <1>1, <1>3, <2>4 DEF Form!UnderWay
    <3>3. \A g \in Form!Flows : formStage'[g] \in {"swapping", "balances"} => HashOf(g)'
      BY <1>3, <2>1, <2>2, <2>4, <3>1 DEF BesideOK, HashOf
    <3> QED BY <2>1, <3>1, <3>2, <3>3 DEF BesideOK
  <2> QED BY <1>3, <2>3, <2>4
<1> QED BY <1>4, <1>5, <1>6, <1>7, <1>8 DEF FormInv

\* What a step of a flow does to it: it ends, goes on, or sends a transaction.
FormEnds(f) ==
  \E why \in {"success", "rejected"} :
    /\ formStage' = [formStage EXCEPT ![f] = "done"]
    /\ formOutcome' = [formOutcome EXCEPT ![f] = why]
    /\ formPhase' = why
    /\ why = "success" => formStage[f] = "balances"
    /\ UNCHANGED <<shownSwap, approvalTx, swapTx>>

FormGoesOn(f) ==
  \E s \in {"planning", "approve", "swap", "balances", "lost"} :
    /\ formStage' = [formStage EXCEPT ![f] = s]
    /\ s \in {"planning", "lost"} => formStage[f] = "code"
    /\ s = "approve" => formStage[f] = "planning"
    /\ s = "swap" => formStage[f] = "approving" /\ approvalTx[f].state = "success"
    /\ s = "balances" => formStage[f] = "swapping" /\ swapTx[f].state = "success"
    /\ formPhase' # "success" \/ (UNCHANGED formPhase /\ s # "planning")
    /\ UNCHANGED <<formOutcome, shownSwap, approvalTx, swapTx>>

FormSends(f) ==
  /\ formAccount # None /\ UNCHANGED <<formOutcome, formPhase>>
  /\ \/ /\ formStage[f] = "approve" /\ formStage' = [formStage EXCEPT ![f] = "approving"]
        /\ approvalTx' = [approvalTx EXCEPT ![f] = Form!Written] /\ UNCHANGED <<shownSwap, swapTx>>
     \/ /\ formStage[f] = "swap" /\ formStage' = [formStage EXCEPT ![f] = "swapping"]
        /\ swapTx' = [swapTx EXCEPT ![f] = Form!Written] /\ shownSwap' = f /\ UNCHANGED approvalTx

FormStep(f) ==
  /\ formStage[f] \notin {"unused", "done", "lost"}
  /\ formPhase' \in {formPhase, "success", "rejected"} \cup Form!Running
  /\ FormEnds(f) \/ FormGoesOn(f) \/ FormSends(f)
  /\ UNCHANGED <<formAccount, formNetwork, formChanges, formPaused, formAllowance, formSpent,
                 formValue, beside>>

\* Every step of a flow is of that form.
LEMMA FormSteps ==
  ASSUME NEW f \in Form!Flows, Form!Step(f)
  PROVE  FormStep(f)
<1> USE DEF Form!GoOn, Form!End, Form!walletVars, Form!chainVars, Form!Running
<1>1. CASE Form!CodeRead(f)
  BY <1>1 DEF Form!CodeRead, FormStep, FormEnds, FormGoesOn
<1>2. CASE Form!Plan(f)
  BY <1>2 DEF Form!Plan, FormStep, FormEnds, FormGoesOn
<1>3. CASE Form!Approve(f)
  BY <1>3 DEF Form!Approve, FormStep, FormEnds, FormSends
<1>4. CASE Form!Approved(f)
  BY <1>4 DEF Form!Approved, Form!ApprovalMined, Form!Confirmed, FormStep, FormEnds, FormGoesOn
<1>5. CASE Form!Swap(f)
  BY <1>5 DEF Form!Swap, FormStep, FormEnds, FormSends
<1>6. CASE Form!Swapped(f)
  BY <1>6 DEF Form!Swapped, Form!Confirmed, FormStep, FormEnds, FormGoesOn
<1>7. CASE Form!BalancesRead(f)
  BY <1>7 DEF Form!BalancesRead, FormStep, FormEnds
<1> QED BY <1>1, <1>2, <1>3, <1>4, <1>5, <1>6, <1>7 DEF Form!Step, Form!Awaited, Form!Prompted

\* A step of a flow leaves the flows that are under way beside each other.
LEMMA BesideKeeps ==
  ASSUME FormInv, NEW f \in Form!Flows, FormStep(f)
  PROVE  BesideOK'
<1>1. /\ BesideOK /\ formStage \in [Form!Flows -> FormStages]
      /\ formOutcome \in [Form!Flows -> FormOutcomes \cup {None}]
  BY DEF FormInv, FormFlowsTyped
<1>2. f \in Form!UnderWay /\ UNCHANGED beside
  BY DEF FormStep, Form!UnderWay
<1>3. ASSUME NEW g \in Form!Flows, g # f
      PROVE  formStage'[g] = formStage[g] /\ formOutcome'[g] = formOutcome[g]
  BY <1>1, <1>3 DEF FormStep, FormEnds, FormGoesOn, FormSends
<1>4. ASSUME NEW g \in Form!UnderWay'
      PROVE  g \in Form!UnderWay /\ (formStage'[g] # "code" /\ g # f => formStage[g] # "code")
  BY <1>2, <1>3 DEF Form!UnderWay
<1>5. \A g \in Form!UnderWay' : \A h \in Form!UnderWay' : g # h => {g, h} \subseteq beside'
  BY <1>1, <1>2, <1>4 DEF BesideOK
<1>6. shownSwap' = shownSwap \/ (shownSwap' = f /\ formStage'[f] = "swapping" /\ formStage[f] = "swap")
  BY <1>1 DEF FormStep, FormEnds, FormGoesOn, FormSends
<1>7. formStage'[f] = "balances" => formStage[f] = "swapping" /\ shownSwap' = shownSwap
  BY <1>1 DEF FormStep, FormEnds, FormGoesOn, FormSends
<1>8. formStage'[f] = "swapping" => shownSwap' = f
  BY <1>1 DEF FormStep, FormEnds, FormGoesOn, FormSends
<1>9. ASSUME NEW g \in Form!Flows, formStage'[g] \in {"swapping", "balances"}
      PROVE  HashOf(g)'
  <2>1. CASE g = f
    BY <1>1, <1>2, <1>7, <1>8, <1>9, <2>1 DEF BesideOK, HashOf
  <2>2. CASE g # f /\ shownSwap' = shownSwap
    BY <1>1, <1>2, <1>3, <1>9, <2>2 DEF BesideOK, HashOf
  <2>3. CASE g # f /\ shownSwap' = f
    <3>1. g \in Form!UnderWay
      BY <1>3, <1>9, <2>3 DEF Form!UnderWay
    <3> QED BY <1>1, <1>2, <2>3, <3>1 DEF BesideOK, HashOf
  <2> QED BY <1>6, <2>1, <2>2, <2>3
<1>10. ASSUME formPhase' = "success"
       PROVE  \E g \in Form!Flows :
                /\ formOutcome'[g] = "success" /\ HashOf(g)'
                /\ \A h \in Form!UnderWay' : formStage'[h] # "code" => {g, h} \subseteq beside'
  <2>1. CASE FormEnds(f)
    <3>1. /\ formOutcome'[f] = "success" /\ formStage[f] = "balances" /\ shownSwap' = shownSwap
          /\ formStage'[f] = "done"
      BY <1>1, <1>10, <2>1 DEF FormEnds
    <3>2. HashOf(f)'
      BY <1>1, <1>2, <3>1 DEF BesideOK, HashOf
    <3>3. ASSUME NEW h \in Form!UnderWay'
          PROVE  {f, h} \subseteq beside'
      <4>1. h # f
        BY <3>1 DEF Form!UnderWay
      <4> QED BY <1>1, <1>2, <1>4, <4>1 DEF BesideOK
    <3> QED BY <3>1, <3>2, <3>3
  <2>2. CASE FormGoesOn(f) \/ FormSends(f)
    <3>1. /\ UNCHANGED <<formPhase, formOutcome>>
          /\ formStage'[f] \in {"code", "lost"} \/ formStage[f] # "code"
      BY <1>1, <1>10, <2>2 DEF FormGoesOn, FormSends
    <3>2. PICK g \in Form!Flows :
            /\ formOutcome[g] = "success" /\ HashOf(g)
            /\ \A h \in Form!UnderWay : formStage[h] # "code" => {g, h} \subseteq beside
      BY <1>1, <1>10, <3>1 DEF BesideOK
    <3>3. ASSUME NEW h \in Form!UnderWay', formStage'[h] # "code"
          PROVE  {g, h} \subseteq beside'
      <4>1. h \in Form!UnderWay /\ formStage[h] # "code"
        BY <1>4, <3>1, <3>3 DEF Form!UnderWay
      <4> QED BY <1>2, <3>2, <4>1
    <3>4. HashOf(g)'
      BY <1>2, <1>6, <3>2 DEF HashOf
    <3> QED BY <3>1, <3>2, <3>3, <3>4
  <2> QED BY <2>1, <2>2 DEF FormStep
<1> QED BY <1>5, <1>9, <1>10 DEF BesideOK

\* A flow that ends or goes on keeps the invariant.
LEMMA FormGoKeeps ==
  ASSUME FormInv, NEW f \in Form!Flows, FormStep(f), FormEnds(f) \/ FormGoesOn(f)
  PROVE  FormInv'
<1>1. PICK s \in {"planning", "approve", "swap", "balances", "lost", "done"} :
        /\ formStage' = [formStage EXCEPT ![f] = s]
        /\ s \in {"planning", "lost"} => formStage[f] = "code"
        /\ s = "approve" => formStage[f] = "planning"
        /\ s = "swap" => formStage[f] = "approving" /\ approvalTx[f].state = "success"
        /\ s = "balances" => formStage[f] = "swapping" /\ swapTx[f].state = "success"
        /\ s # "done" => formOutcome' = formOutcome
        /\ s = "done" => \E why \in {"success", "rejected"} :
                           /\ formOutcome' = [formOutcome EXCEPT ![f] = why]
                           /\ why = "success" => formStage[f] = "balances"
  BY DEF FormEnds, FormGoesOn
<1>2. UNCHANGED <<formAccount, formNetwork, formChanges, formPaused, formAllowance, formSpent,
                  formValue, shownSwap, approvalTx, swapTx, beside>>
  BY DEF FormStep, FormEnds, FormGoesOn
<1>3. /\ formStage \in [Form!Flows -> FormStages]
      /\ formOutcome \in [Form!Flows -> FormOutcomes \cup {None}]
  BY DEF FormInv, FormFlowsTyped
<1>4. ASSUME NEW g \in Form!Flows
      PROVE  /\ formStage'[g] = IF g = f THEN s ELSE formStage[g]
             /\ g # f \/ s # "done" => formOutcome'[g] = formOutcome[g]
  BY <1>1, <1>3
<1>5. AccountTyped' /\ AnvilTyped' /\ SentTyped' /\ MinedOnAnvil'
  BY <1>2 DEF FormInv, AccountTyped, AnvilTyped, SentTyped, MinedOnAnvil
<1>6. ShownTyped'
  BY <1>2 DEF FormStep, FormInv, ShownTyped
<1>7. FormFlowsTyped'
  <2>1. formStage' \in [Form!Flows -> FormStages]
    BY <1>1, <1>3 DEF FormStages
  <2>2. formOutcome' \in [Form!Flows -> FormOutcomes \cup {None}]
    BY <1>1, <1>3 DEF FormOutcomes
  <2> QED BY <1>2, <2>1, <2>2 DEF FormInv, FormFlowsTyped
<1>8. FormFlowsOK'
  <2>1. ASSUME NEW g \in Form!Flows, g # f
        PROVE  FormFlowOK(g)'
    BY <1>2, <1>4, <2>1 DEF FormInv, FormFlowsOK, FormFlowOK, Made
  <2>2. FormFlowOK(f)
    BY DEF FormInv, FormFlowsOK
  <2>3. formStage[f] \notin {"unused", "done", "lost"}
    BY DEF FormStep
  <2>4. s = "done" => formOutcome'[f] \in {"success", "rejected"}
                      /\ (formOutcome'[f] = "success" => formStage[f] = "balances")
    BY <1>1, <1>3
  <2>5. /\ s = "swap" => Made(approvalTx[f])
        /\ s = "balances" => Made(swapTx[f])
    BY <1>1, <2>2 DEF FormInv, MinedOnAnvil, FormFlowOK, Made
  <2>6. FormFlowOK(f)'
    <3>1. CASE s = "done"
      BY <1>2, <1>4, <2>2, <2>3, <2>4, <3>1 DEF FormFlowOK, Made
    <3>2. CASE s # "done"
      <4>1. formOutcome'[f] = None
        BY <1>4, <2>2, <2>3, <3>2 DEF FormFlowOK
      <4> QED
        BY <1>1, <1>2, <1>4, <2>2, <2>3, <2>5, <3>2, <4>1, ClientsAssumption
        DEF FormFlowOK, Made, Form!SwapAssumption
    <3> QED BY <3>1, <3>2
  <2> QED BY <2>1, <2>6 DEF FormFlowsOK
<1> QED BY <1>5, <1>6, <1>7, <1>8, BesideKeeps DEF FormInv

\* A flow that sends its approval or its swap keeps the invariant.
LEMMA FormSendKeeps ==
  ASSUME FormInv, NEW f \in Form!Flows, FormStep(f), FormSends(f)
  PROVE  FormInv'
<1>1. /\ formAccount \in Wallets /\ formNetwork \in {"anvil", "other"}
      /\ None \notin Form!Transactions
  BY ClientsAssumption DEF FormSends, FormInv, AccountTyped, Form!SwapAssumption
<1>2. /\ Form!Written \in Form!Transactions /\ Form!Written # None
      /\ Form!Written.state = "pending"
  BY <1>1 DEF Form!Written, Form!Transactions
<1>3. /\ UNCHANGED <<formAccount, formNetwork, formChanges, formPaused, formAllowance, formSpent,
                     formValue, formOutcome, beside>>
  BY DEF FormStep, FormSends
<1>4. /\ formStage \in [Form!Flows -> FormStages]
      /\ approvalTx \in [Form!Flows -> Form!Transactions \cup {None}]
      /\ swapTx \in [Form!Flows -> Form!Transactions \cup {None}]
  BY DEF FormInv, FormFlowsTyped, SentTyped
<1>5. FormFlowOK(f)
  BY DEF FormInv, FormFlowsOK
<1>6. ASSUME NEW g \in Form!Flows, g # f
      PROVE  /\ formStage'[g] = formStage[g] /\ approvalTx'[g] = approvalTx[g]
             /\ swapTx'[g] = swapTx[g]
  BY <1>4, <1>6 DEF FormSends
<1>7. \/ /\ formStage[f] = "approve" /\ formStage'[f] = "approving"
         /\ approvalTx'[f] = Form!Written /\ swapTx'[f] = swapTx[f] /\ shownSwap' = shownSwap
      \/ /\ formStage[f] = "swap" /\ formStage'[f] = "swapping"
         /\ swapTx'[f] = Form!Written /\ shownSwap' = f /\ approvalTx'[f] = approvalTx[f]
  BY <1>4 DEF FormSends
<1>8. AccountTyped' /\ AnvilTyped'
  BY <1>3 DEF FormInv, AccountTyped, AnvilTyped
<1>9. FormFlowsTyped'
  <2>1. formStage' \in [Form!Flows -> FormStages]
    BY <1>4 DEF FormSends, FormStages
  <2> QED BY <1>3, <2>1 DEF FormInv, FormFlowsTyped
<1>10. SentTyped'
  BY <1>2, <1>3, <1>4 DEF FormSends, FormInv, SentTyped
<1>11. MinedOnAnvil'
  BY <1>2, <1>6, <1>7 DEF FormInv, MinedOnAnvil
<1>12. ShownTyped'
  <2>1. \A g \in Form!Flows : swapTx[g] # None => swapTx'[g] # None
    BY <1>2, <1>6, <1>7
  <2>2. shownSwap' \in {0} \cup {g \in Form!Flows : swapTx'[g] # None}
    BY <1>2, <1>7, <2>1 DEF FormInv, ShownTyped
  <2>3. formPhase' \in {"idle", "registering", "success", "rejected"} \cup Form!Running
    BY DEF FormStep, FormInv, ShownTyped
  <2> QED BY <2>2, <2>3 DEF ShownTyped
<1>13. FormFlowsOK'
  <2>1. ASSUME NEW g \in Form!Flows, g # f
        PROVE  FormFlowOK(g)'
    BY <1>3, <1>6, <2>1 DEF FormInv, FormFlowsOK, FormFlowOK, Made
  <2>2. FormFlowOK(f)'
    BY <1>1, <1>2, <1>3, <1>5, <1>7, ClientsAssumption DEF FormFlowOK, Made, Form!SwapAssumption
  <2> QED BY <2>1, <2>2 DEF FormFlowsOK
<1> QED BY <1>8, <1>9, <1>10, <1>11, <1>12, <1>13, BesideKeeps DEF FormInv

\* What Anvil does with a transaction.
Mined(t, state) == [t EXCEPT !.state = state]

\* A transaction that was mined stays who sent it and where.
LEMMA MinedIs ==
  ASSUME NEW t \in Form!Transactions, NEW state \in {"pending", "success", "reverted"}
  PROVE  /\ Mined(t, state) \in Form!Transactions /\ Mined(t, state).state = state
         /\ Mined(t, state).on = t.on
BY DEF Mined, Form!Transactions

\* An approval is mined.
LEMMA MineApprovalKeeps ==
  ASSUME FormInv, NEW f \in Form!Flows, Form!MineApproval(f)
  PROVE  FormInv'
<1>1. /\ approvalTx[f] # None /\ approvalTx[f].state = "pending" /\ approvalTx[f].on = "anvil"
      /\ formAllowance' = [formAllowance EXCEPT ![approvalTx[f].by] = formValue[f]]
      /\ approvalTx' = [approvalTx EXCEPT ![f].state = "success"]
      /\ UNCHANGED <<formAccount, formNetwork, formChanges, formPaused, formSpent, formPhase, shownSwap,
                     formValue, formStage, formOutcome, swapTx, beside>>
  BY DEF Form!MineApproval, Form!Pending, Form!walletVars
<1>2. approvalTx \in [Form!Flows -> Form!Transactions \cup {None}] /\ FormFlowOK(f)
  BY DEF FormInv, SentTyped, FormFlowsOK
<1>3. approvalTx[f] \in Form!Transactions /\ None \notin Form!Transactions
  BY <1>1, <1>2, ClientsAssumption DEF Form!SwapAssumption
<1>4. approvalTx' = [approvalTx EXCEPT ![f] = Mined(approvalTx[f], "success")]
  BY <1>1, <1>2 DEF Mined
<1>5. /\ Mined(approvalTx[f], "success") \in Form!Transactions
      /\ Mined(approvalTx[f], "success").state = "success"
      /\ Mined(approvalTx[f], "success").on = "anvil"
  BY <1>1, <1>3, MinedIs
<1>6. ASSUME NEW g \in Form!Flows
      PROVE  approvalTx'[g] = IF g = f THEN Mined(approvalTx[f], "success") ELSE approvalTx[g]
  BY <1>2, <1>4
<1>7. formValue[f] \in 0..Cap /\ approvalTx[f].by \in Wallets
  <2>1. formValue[f] \in Form!Amounts
    BY <1>1, <1>2 DEF FormFlowOK
  <2> QED BY <1>3, <2>1, ClientsAssumption DEF Form!Amounts, Form!Transactions, Form!SwapAssumption
<1>8. AnvilTyped'
  BY <1>1, <1>7 DEF FormInv, AnvilTyped
<1>9. AccountTyped' /\ FormFlowsTyped'
  BY <1>1 DEF FormInv, AccountTyped, FormFlowsTyped
<1>10. ShownTyped'
  BY <1>1 DEF FormInv, ShownTyped
<1>11. SentTyped'
  BY <1>1, <1>2, <1>4, <1>5 DEF FormInv, SentTyped
<1>12. MinedOnAnvil'
  BY <1>1, <1>5, <1>6 DEF FormInv, MinedOnAnvil
<1>13. FormFlowsOK'
  <2>1. ASSUME NEW g \in Form!Flows, g # f
        PROVE  FormFlowOK(g)'
    BY <1>1, <1>6, <2>1 DEF FormInv, FormFlowsOK, FormFlowOK, Made
  <2>2. FormFlowOK(f)'
    BY <1>1, <1>2, <1>3, <1>5, <1>6 DEF FormFlowOK, Made
  <2> QED BY <2>1, <2>2 DEF FormFlowsOK
<1>14. BesideOK'
  BY <1>1 DEF FormInv, BesideOK, HashOf, Form!UnderWay
<1> QED BY <1>8, <1>9, <1>10, <1>11, <1>12, <1>13, <1>14 DEF FormInv

\* A swap is mined.
LEMMA MineSwapKeeps ==
  ASSUME FormInv, NEW f \in Form!Flows, Form!MineSwap(f)
  PROVE  FormInv'
<1>1. /\ swapTx[f] # None /\ swapTx[f].state = "pending" /\ swapTx[f].on = "anvil"
      /\ \/ /\ Form!Passes(swapTx[f].by, formValue[f])
            /\ formAllowance' = [formAllowance EXCEPT ![swapTx[f].by] =
                                   formAllowance[swapTx[f].by] - formValue[f]]
            /\ formSpent' = formSpent + formValue[f]
            /\ swapTx' = [swapTx EXCEPT ![f].state = "success"]
         \/ swapTx' = [swapTx EXCEPT ![f].state = "reverted"] /\ UNCHANGED <<formAllowance, formSpent>>
      /\ UNCHANGED <<formAccount, formNetwork, formChanges, formPaused, formPhase, shownSwap,
                     formValue, formStage, formOutcome, approvalTx, beside>>
  BY DEF Form!MineSwap, Form!Pending, Form!walletVars
<1>2. swapTx \in [Form!Flows -> Form!Transactions \cup {None}] /\ FormFlowOK(f)
  BY DEF FormInv, SentTyped, FormFlowsOK
<1>3. swapTx[f] \in Form!Transactions /\ None \notin Form!Transactions
  BY <1>1, <1>2, ClientsAssumption DEF Form!SwapAssumption
<1>4. PICK state \in {"success", "reverted"} :
        swapTx' = [swapTx EXCEPT ![f] = Mined(swapTx[f], state)]
  BY <1>1, <1>2 DEF Mined
<1>5. /\ Mined(swapTx[f], state) \in Form!Transactions
      /\ Mined(swapTx[f], state).state = state
      /\ Mined(swapTx[f], state).on = "anvil"
  BY <1>1, <1>3, MinedIs
<1>6. ASSUME NEW g \in Form!Flows
      PROVE  swapTx'[g] = IF g = f THEN Mined(swapTx[f], state) ELSE swapTx[g]
  BY <1>2, <1>4
<1>7. formValue[f] \in 1..Cap /\ swapTx[f].by \in Wallets /\ Cap \in Nat
  <2>1. formValue[f] \in Form!Amounts
    BY <1>1, <1>2 DEF FormFlowOK
  <2> QED BY <1>3, <2>1, ClientsAssumption DEF Form!Amounts, Form!Transactions, Form!SwapAssumption
<1>8. AnvilTyped'
  <2>1. CASE UNCHANGED <<formAllowance, formSpent>>
    BY <1>1, <2>1 DEF FormInv, AnvilTyped
  <2>2. CASE /\ Form!Passes(swapTx[f].by, formValue[f])
             /\ formAllowance' = [formAllowance EXCEPT ![swapTx[f].by] =
                                    formAllowance[swapTx[f].by] - formValue[f]]
             /\ formSpent' = formSpent + formValue[f]
    BY <1>1, <1>7, <2>2 DEF FormInv, AnvilTyped, Form!Passes
  <2> QED BY <1>1, <2>1, <2>2
<1>9. AccountTyped' /\ FormFlowsTyped'
  BY <1>1 DEF FormInv, AccountTyped, FormFlowsTyped
<1>10. ShownTyped'
  BY <1>1, <1>3, <1>5, <1>6 DEF FormInv, ShownTyped
<1>11. SentTyped'
  BY <1>1, <1>2, <1>4, <1>5 DEF FormInv, SentTyped
<1>12. MinedOnAnvil'
  BY <1>1, <1>5, <1>6 DEF FormInv, MinedOnAnvil
<1>13. FormFlowsOK'
  <2>1. ASSUME NEW g \in Form!Flows, g # f
        PROVE  FormFlowOK(g)'
    BY <1>1, <1>6, <2>1 DEF FormInv, FormFlowsOK, FormFlowOK, Made
  <2>2. ~Made(swapTx[f])
    BY <1>1 DEF Made
  <2>3. FormFlowOK(f)'
    BY <1>1, <1>2, <1>3, <1>5, <1>6, <2>2 DEF FormFlowOK, Made
  <2> QED BY <2>1, <2>3 DEF FormFlowsOK
<1>14. BesideOK'
  BY <1>1 DEF FormInv, BesideOK, HashOf, Form!UnderWay
<1> QED BY <1>8, <1>9, <1>10, <1>11, <1>12, <1>13, <1>14 DEF FormInv

\* The form as it is first shown.
LEMMA FormStarts ==
  Form!Init => FormInv
<1> SUFFICES ASSUME Form!Init PROVE FormInv
  OBVIOUS
<1>1. Cap \in Nat \ {0} /\ MaxChanges \in Nat
  BY ClientsAssumption DEF Form!SwapAssumption
<1>2. AccountTyped /\ AnvilTyped /\ ShownTyped
  <2>1. 0 \in 0..Cap /\ 0 \in 0..MaxChanges
    BY <1>1
  <2> QED BY <2>1 DEF Form!Init, AccountTyped, AnvilTyped, ShownTyped
<1>3. FormFlowsTyped /\ SentTyped /\ MinedOnAnvil
  BY DEF Form!Init, FormFlowsTyped, SentTyped, MinedOnAnvil, FormStages
<1>4. FormFlowsOK /\ BesideOK
  BY ClientsAssumption
  DEF Form!Init, FormFlowsOK, FormFlowOK, BesideOK, Form!UnderWay, Form!SwapAssumption
<1> QED BY <1>2, <1>3, <1>4 DEF FormInv

\* Every step of the form keeps the invariant.
LEMMA FormNextKeeps ==
  ASSUME FormInv, [Form!Next]_(Form!vars)
  PROVE  FormInv'
<1>1. ASSUME NEW f \in Form!Flows, Form!Step(f)
      PROVE  FormInv'
  <2>1. FormStep(f)
    BY <1>1, FormSteps
  <2>2. CASE FormEnds(f) \/ FormGoesOn(f)
    BY <2>1, <2>2, FormGoKeeps
  <2>3. CASE FormSends(f)
    BY <2>1, <2>3, FormSendKeeps
  <2> QED BY <2>1, <2>2, <2>3 DEF FormStep
<1> QED
  BY <1>1, FormAsideKeeps, ExecuteKeeps, MineApprovalKeeps, MineSwapKeeps DEF Form!Next

-----------------------------------------------------------------------------
(* The four parts together *)

PageInv == Inv /\ ReadsTyped /\ LinkedTyped /\ PhaseTyped /\ DemoTyped

ClientsInv == PageInv /\ WorldInv /\ PanelInv /\ FormInv

clientState == <<part, pageState, worldState, panelState, formState>>

\* A part that does not move stays as it is; one that moves does so by itself.
LEMMA EachPartMoves ==
  ASSUME [ClientsNext]_clientState
  PROVE  /\ [Next]_vars /\ [World!Next]_(World!vars)
         /\ [Panel!Next]_(Panel!vars) /\ [Form!Next]_(Form!vars)
<1>1. UNCHANGED pageState => UNCHANGED vars
  BY DEF pageState
<1>2. UNCHANGED worldState => UNCHANGED World!vars
  BY DEF worldState, World!vars, World!clientVars
<1>3. UNCHANGED panelState => UNCHANGED Panel!vars
  BY DEF panelState, Panel!vars, Panel!walletVars, Panel!chainVars, Panel!seenVars, Panel!busyVars,
     Panel!clickVars, Panel!flowVars
<1>4. UNCHANGED formState => UNCHANGED Form!vars
  BY DEF formState, Form!vars, Form!walletVars, Form!chainVars, Form!flowVars
<1>5. \/ Next       /\ UNCHANGED worldState /\ UNCHANGED panelState /\ UNCHANGED formState
      \/ World!Next /\ UNCHANGED pageState  /\ UNCHANGED panelState /\ UNCHANGED formState
      \/ Panel!Next /\ UNCHANGED pageState  /\ UNCHANGED worldState /\ UNCHANGED formState
      \/ Form!Next  /\ UNCHANGED pageState  /\ UNCHANGED worldState /\ UNCHANGED panelState
      \/ /\ UNCHANGED pageState /\ UNCHANGED worldState /\ UNCHANGED panelState
         /\ UNCHANGED formState
  BY DEF ClientsNext, clientState
<1> QED BY <1>1, <1>2, <1>3, <1>4, <1>5

\* The clients begin in the invariant.
LEMMA ClientsStart ==
  ClientsInit => ClientsInv /\ World!Promise!Init
<1> SUFFICES ASSUME ClientsInit PROVE ClientsInv /\ World!Promise!Init
  OBVIOUS
<1>1. Init /\ World!Init /\ Panel!Init /\ Form!Init
  BY DEF ClientsInit
<1>2. World!Promise!Init
  BY <1>1 DEF World!Init, World!Promise!Init
<1> QED BY <1>1, <1>2, PageStarts, WorldStarts, PanelStarts, FormStarts DEF ClientsInv, PageInv

\* Every step keeps it.
LEMMA ClientsKeep ==
  ClientsInv /\ [ClientsNext]_clientState => ClientsInv'
<1> SUFFICES ASSUME ClientsInv, [ClientsNext]_clientState PROVE ClientsInv'
  OBVIOUS
<1>1. /\ [Next]_vars /\ [World!Next]_(World!vars)
      /\ [Panel!Next]_(Panel!vars) /\ [Form!Next]_(Form!vars)
  BY EachPartMoves
<1>2. PageInv'
  BY <1>1, StepKeeps, ReadsKept, LinkedKept, PhaseKept, DemoKept DEF ClientsInv, PageInv
<1>3. WorldInv'
  <2>1. ASSUME UNCHANGED World!vars
        PROVE  WorldInv'
    BY <2>1 DEF ClientsInv, WorldInv, World!vars, World!clientVars, World!TypeOK, RequestedInOrder,
       World!ShownIsCurrent, World!EndsTruthfully
  <2> QED BY <1>1, <2>1, WorldStepKeeps DEF ClientsInv
<1>4. PanelInv'
  BY <1>1, PanelNextKeeps DEF ClientsInv
<1>5. FormInv'
  BY <1>1, FormNextKeeps DEF ClientsInv
<1> QED BY <1>2, <1>3, <1>4, <1>5 DEF ClientsInv

\* The invariant of the clients holds throughout.
THEOREM ClientsInvariant ==
  ClientsSpec => []ClientsInv
BY ClientsStart, ClientsKeep, PTL DEF ClientsSpec, clientState

\* Whatever the wallet, World App and the chain answer, and however late: what a
\* World request answers and what the panel and the form display is so, for the
\* purchase the display is of, with the exceptions the properties of the parts name
\* (the words after a wait for a receipt that timed out; a hash beside another
\* flow's "success" only of flows that were under way together); and a purchase
\* is sent only after its own approval was mined.
THEOREM ClientsTellTheTruth ==
  ClientsSpec => []SaysWhatHappened
<1>1. ClientsInv => SaysWhatHappened
  <2>1. SUFFICES ASSUME ClientsInv PROVE SaysWhatHappened
    OBVIOUS
  <2>2. TypeOK
    BY <2>1, PageTypes DEF ClientsInv, PageInv
  <2>3. World!TypeOK /\ World!ShownIsCurrent /\ World!EndsTruthfully
    BY <2>1 DEF ClientsInv, WorldInv
  <2>4. Panel!TypeOK /\ Panel!NoticeIsOnChain
    BY <2>1, PanelTypes DEF ClientsInv, PanelInv, NoticeOK
  <2>5. Form!TypeOK /\ Form!ApprovedBeforeSwapped /\ Form!ShownIsOnChain
    BY <2>1, FormInvTells DEF ClientsInv
  <2> QED BY <2>2, <2>3, <2>4, <2>5 DEF SaysWhatHappened
<1> QED BY <1>1, ClientsInvariant, PTL

\* A purchase that passed its simulation reverts only when the chain changed
\* after it: a stale allowance, tier or remaining on the page costs nobody gas.
THEOREM StaleDisplayCostsNoGas ==
  ClientsSpec => RevertsOnlyAfterChange
<1>1. ClientsInv /\ [ClientsNext]_clientState
        => [\A f \in undisturbed : clickTx'[f] # "reverted"]_(Panel!vars)
  BY EachPartMoves, PanelNextKeeps DEF ClientsInv
<1> QED
  BY <1>1, ClientsInvariant, PTL
  DEF ClientsSpec, clientState, RevertsOnlyAfterChange, Panel!RevertsOnlyAfterChange

\* The World requests, with their polls, errors and clocks, take only steps of
\* the promise the page relies on: a new request withdraws the earlier ones,
\* and the proof of a withdrawn request is never sent.
THEOREM WithdrawnProofIsNeverSent ==
  ClientsSpec => World!Promise!Init /\ [][World!Promise!Next]_(World!Promise!requestVars)
<1>1. ClientsInv /\ [ClientsNext]_clientState
        => [World!Promise!Next]_(World!Promise!requestVars)
  BY EachPartMoves, WorldStepPromised DEF ClientsInv
<1> QED BY <1>1, ClientsStart, ClientsInvariant, PTL DEF ClientsSpec, clientState
=============================================================================
