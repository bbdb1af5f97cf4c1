----------------------------- MODULE WorldProof -----------------------------
(***************************************************************************)
(* The page's requests for a World proof: enrollProofOfHuman and           *)
(* continueProofOfHuman with the loop that polls World's bridge, the user  *)
(* and World App behind the bridge, and the answer of the backend.         *)
(*                                                                         *)
(* A request is a chain of awaits.  Every await may end late, with an      *)
(* error, or after the request was withdrawn by "Cancel verification" or   *)
(* by a newer request (worldRequest aborts the previous controller); time  *)
(* passes only while something is awaited.  One unit of time is the pause  *)
(* between two polls.  What handleEnroll and handleContinue do beyond      *)
(* their verdict is in Enrollment.                                         *)
(***************************************************************************)
EXTENDS Integers, FiniteSets

CONSTANTS
  NumRuns,       \* bound: requests the page makes
  TTL,           \* RP_CONTEXT_TTL_SECONDS
  Skews,         \* how far the clock of the page may be from the server's
  None

\* How a request ends: well, without any proof sent to the backend, or otherwise.
Unsent  == {"cancelled", "timeout", "proof_failed", "world_app_unavailable"}
Reasons == Unsent \cup {"ok", "missing_session", "invalid_session", "expired", "already_enrolled",
                        "world_unavailable", "configuration", "environment_mismatch",
                        "verification_rejected", "unexpected"}

WorldProofAssumption ==
  /\ NumRuns \in Nat /\ TTL \in Nat \ {0}
  /\ Skews \subseteq Int /\ None \notin Reasons

Runs == 1..NumRuns

Pending == {"waiting_for_connection", "awaiting_confirmation"}

\* IDKit's error codes, as far as the page tells them apart.
BridgeErrors == {"user_rejected", "connection_failed", "generic_error"}

VARIABLES
  kind,          \* "enroll" or "continue", of each request
  stage,         \* what the request awaits
  aborted,       \* its signal
  life,          \* time before its RP context expires at the server
  patience,      \* time before the deadline of waitForProof
  bridge,        \* what World's bridge knows of it
  seen,          \* the answer on its way to pollOnce
  verdict,       \* what the backend did with its proof
  reason,        \* how it ended: "ok" or the reason of the failure
  current,       \* abortRef: the newest request, 0 before the first
  shown,         \* the request whose QR code is on the page, or 0
  enrolled,      \* the human has an enrollment
  cookie         \* the browser has the resume cookie of it

clientVars == <<kind, stage, aborted, patience, seen, reason, current, shown>>
vars == <<clientVars, life, bridge, verdict, enrolled, cookie>>

Active == {r \in Runs : stage[r] \notin {"unused", "done"}}

Init ==
  /\ kind \in [Runs -> {"enroll", "continue"}]
  /\ stage = [r \in Runs |-> "unused"]
  /\ aborted = [r \in Runs |-> FALSE]
  /\ life = [r \in Runs |-> 0]
  /\ patience = [r \in Runs |-> 0]
  /\ bridge = [r \in Runs |-> None]
  /\ seen = [r \in Runs |-> None]
  /\ verdict = [r \in Runs |-> None]
  /\ reason = [r \in Runs |-> None]
  /\ current = 0 /\ shown = 0
  /\ enrolled = FALSE /\ cookie = FALSE

-----------------------------------------------------------------------------
(* How a request goes on and ends *)

\* completionFailure: IDKit's code as a reason of the client.
completionFailure(code) ==
  CASE code = "user_rejected"     -> "cancelled"
    [] code = "timeout"           -> "timeout"
    [] code = "connection_failed" -> "world_app_unavailable"
    [] OTHER                      -> "proof_failed"

\* The page takes the QR code away when a request of its ends.
Finish(r, why) ==
  /\ stage' = [stage EXCEPT ![r] = "done"]
  /\ reason' = [reason EXCEPT ![r] = why]
  /\ shown' = 0

GoOn(r, next) ==
  /\ stage' = [stage EXCEPT ![r] = next]
  /\ UNCHANGED <<reason, shown>>

\* The head of the loop of waitForProof, with t left before the deadline.
NoDeadline(r, t) == aborted[r]              \* faulty variant: only the signal ends it
LoopEnds(r, t) == t = 0 \/ aborted[r]

LoopHead(r, t) ==
  IF LoopEnds(r, t)
    THEN Finish(r, completionFailure(IF t = 0 THEN "timeout" ELSE "cancelled"))
    ELSE GoOn(r, "polling")

-----------------------------------------------------------------------------
(* The page *)

\* A click starts request r; worldRequest aborts the one before.
AbortPrevious == IF current = 0 THEN aborted ELSE [aborted EXCEPT ![current] = TRUE]

Start(r) ==
  /\ r = current + 1
  /\ current' = r
  /\ aborted' = AbortPrevious
  /\ stage' = [stage EXCEPT ![r] = IF kind[r] = "continue" THEN "session" ELSE "context"]
  /\ shown' = 0
  /\ UNCHANGED <<kind, patience, seen, reason, life, bridge, verdict, enrolled, cookie>>

\* "Cancel verification", beside the QR code.
Cancel ==
  /\ shown # 0
  /\ aborted' = [aborted EXCEPT ![current] = TRUE]
  /\ UNCHANGED <<kind, stage, patience, seen, reason, current, shown,
                 life, bridge, verdict, enrolled, cookie>>

\* A continuation first asks /api/world/resume for the session.
SessionAnswered(r) ==
  /\ stage[r] = "session"
  /\ \/ cookie /\ ~aborted[r] /\ GoOn(r, "context")
     \/ Finish(r, "missing_session")
     \/ cookie /\ ~aborted[r] /\ Finish(r, "expired")
  /\ UNCHANGED <<kind, aborted, patience, seen, current, life, bridge, verdict, enrolled, cookie>>

\* The RP context arrives, or does not, or is not what IDKit needs.
ContextAnswered(r) ==
  /\ stage[r] = "context"
  /\ \/ /\ ~aborted[r]
        /\ life' = [life EXCEPT ![r] = TTL]
        /\ GoOn(r, "opening")
     \/ /\ \/ Finish(r, "world_unavailable")
           \/ ~aborted[r] /\ \E why \in {"configuration", "environment_mismatch"} : Finish(r, why)
        /\ UNCHANGED life
  /\ UNCHANGED <<kind, aborted, patience, seen, current, bridge, verdict, enrolled, cookie>>

\* openRequest does not look at the signal: a withdrawn request is opened,
\* and withdrawn at the head of its loop.  onHandoff shows its QR code.
AtLeastOne(t) == IF t < 1 THEN 1 ELSE t

Opened(r) ==
  /\ stage[r] = "opening"
  /\ \E skew \in Skews :
       LET t == AtLeastOne(life[r] + skew)
       IN  /\ patience' = [patience EXCEPT ![r] = t]
           /\ IF LoopEnds(r, t) THEN LoopHead(r, t)
                                ELSE /\ stage' = [stage EXCEPT ![r] = "polling"]
                                     /\ shown' = r
                                     /\ UNCHANGED reason
  /\ bridge' = [bridge EXCEPT ![r] = "waiting_for_connection"]
  /\ UNCHANGED <<kind, aborted, seen, current, life, verdict, enrolled, cookie>>

OpenFailed(r) ==
  /\ stage[r] = "opening"
  /\ Finish(r, "world_app_unavailable")
  /\ UNCHANGED <<kind, aborted, patience, seen, current, life, bridge, verdict, enrolled, cookie>>

\* pollOnce returns what the bridge knew when it was asked; fetch rejects at
\* once when the signal is already aborted.
PollAnswered(r) ==
  /\ stage[r] = "polling" /\ seen[r] # None
  /\ seen' = [seen EXCEPT ![r] = None]
  /\ CASE seen[r] \in Pending      -> GoOn(r, "delay")
       [] seen[r] \in BridgeErrors -> Finish(r, completionFailure(seen[r]))
       [] OTHER ->
            IF aborted[r] THEN Finish(r, "world_unavailable")
                          ELSE /\ stage' = [stage EXCEPT ![r] = "posting"]
                               /\ shown' = 0
                               /\ UNCHANGED reason
  /\ UNCHANGED <<kind, aborted, patience, current, life, bridge, verdict, enrolled, cookie>>

PollFailed(r) ==
  /\ stage[r] = "polling"
  /\ seen' = [seen EXCEPT ![r] = None]
  /\ IF aborted[r] \/ patience[r] = 0
       THEN Finish(r, completionFailure(IF aborted[r] THEN "cancelled" ELSE "timeout"))
       ELSE GoOn(r, "delay")
  /\ UNCHANGED <<kind, aborted, patience, current, life, bridge, verdict, enrolled, cookie>>

DelayOver(r) ==
  /\ stage[r] = "delay"
  /\ LoopHead(r, patience[r])
  /\ UNCHANGED <<kind, aborted, patience, seen, current, life, bridge, verdict, enrolled, cookie>>

\* The backend's answer, as the client reports it.
ReasonOf(answer) ==
  CASE answer = "conflict"    -> "already_enrolled"
    [] answer = "unavailable" -> "world_unavailable"
    [] answer = "refused"     -> "verification_rejected"
    [] OTHER                  -> "ok"

PostAnswered(r) ==
  /\ stage[r] = "posting" /\ ~aborted[r] /\ verdict[r] # None
  /\ Finish(r, ReasonOf(verdict[r]))
  /\ cookie' = (cookie \/ (kind[r] = "enroll" /\ verdict[r] = "accepted"))
  /\ UNCHANGED <<kind, aborted, patience, seen, current, life, bridge, verdict, enrolled>>

\* The answer is lost, or the request was withdrawn while it was on its way.
PostFailed(r) ==
  /\ stage[r] = "posting"
  /\ Finish(r, "world_unavailable")
  /\ UNCHANGED <<kind, aborted, patience, seen, current, life, bridge, verdict, enrolled, cookie>>

-----------------------------------------------------------------------------
(* World's bridge, World App and the backend *)

BridgeServes(r) ==
  /\ stage[r] = "polling" /\ seen[r] = None
  /\ seen' = [seen EXCEPT ![r] = bridge[r]]
  /\ UNCHANGED <<kind, stage, aborted, patience, reason, current, shown,
                 life, bridge, verdict, enrolled, cookie>>

\* World App retrieves a request, and its user approves it or does not.
WorldApp(r) ==
  /\ \/ /\ bridge[r] = "waiting_for_connection"
        /\ \E next \in {"awaiting_confirmation"} \cup BridgeErrors :
             bridge' = [bridge EXCEPT ![r] = next]
     \/ /\ bridge[r] = "awaiting_confirmation"
        /\ \E next \in {"confirmed"} \cup BridgeErrors :
             bridge' = [bridge EXCEPT ![r] = next]
  /\ UNCHANGED <<clientVars, life, verdict, enrolled, cookie>>

\* handleEnroll and handleContinue: World must accept the proof in time, the
\* human enrolls once, and continues what is enrolled.
BackendHandles(r) ==
  /\ stage[r] = "posting" /\ verdict[r] = None
  /\ \/ /\ life[r] > 0
        /\ (kind[r] = "continue") => enrolled
        /\ verdict' = [verdict EXCEPT ![r] =
                         IF kind[r] = "enroll" /\ enrolled THEN "conflict" ELSE "accepted"]
        /\ enrolled' = TRUE
     \/ /\ \E answer \in {"refused", "unavailable"} : verdict' = [verdict EXCEPT ![r] = answer]
        /\ UNCHANGED enrolled
  /\ UNCHANGED <<clientVars, life, bridge, cookie>>

Less(t) == IF t = 0 THEN 0 ELSE t - 1

Tick ==
  /\ \E r \in Active : life[r] > 0 \/ patience[r] > 0
  /\ life' = [r \in Runs |-> Less(life[r])]
  /\ patience' = [r \in Runs |-> Less(patience[r])]
  /\ UNCHANGED <<kind, stage, aborted, seen, reason, current, shown,
                 bridge, verdict, enrolled, cookie>>

\* An await of request r ends.
Awaited(r) ==
  \/ SessionAnswered(r) \/ ContextAnswered(r) \/ Opened(r) \/ OpenFailed(r)
  \/ PollAnswered(r) \/ PollFailed(r) \/ DelayOver(r)
  \/ PostAnswered(r) \/ PostFailed(r)

Next ==
  \/ \E r \in Runs : Start(r) \/ Awaited(r) \/ BridgeServes(r) \/ WorldApp(r) \/ BackendHandles(r)
  \/ Cancel
  \/ Tick

\* Every await ends with an answer or an error, and time passes.  Nobody has
\* to answer in World App.
Fairness == WF_vars(Tick) /\ \A r \in Runs : WF_vars(Awaited(r))

Spec == Init /\ [][Next]_vars /\ Fairness

-----------------------------------------------------------------------------
(* Properties *)

\* Every variable stays in its type; a request that ended has a reason, and
\* only one that did has.
TypeOK ==
  /\ kind \in [Runs -> {"enroll", "continue"}]
  /\ stage \in [Runs -> {"unused", "session", "context", "opening", "polling", "delay",
                         "posting", "done"}]
  /\ aborted \in [Runs -> BOOLEAN]
  /\ life \in [Runs -> 0..TTL]
  /\ patience \in [Runs -> Nat]
  /\ bridge \in [Runs -> Pending \cup BridgeErrors \cup {None, "confirmed"}]
  /\ seen \in [Runs -> Pending \cup BridgeErrors \cup {None, "confirmed"}]
  /\ verdict \in [Runs -> {None, "accepted", "conflict", "refused", "unavailable"}]
  /\ reason \in [Runs -> Reasons \cup {None}]
  /\ \A r \in Runs : reason[r] = None <=> stage[r] # "done"
  /\ current \in 0..NumRuns /\ shown \in 0..NumRuns
  /\ enrolled \in BOOLEAN /\ cookie \in BOOLEAN

\* The promise of the two clients to the page.
Promise == INSTANCE ProofRequest WITH
  phase     <- [r \in Runs |-> CASE stage[r] = "unused"  -> "new"
                                 [] stage[r] = "posting" -> "sent"
                                 [] stage[r] = "done"    -> "ended"
                                 [] OTHER                -> "open"],
  withdrawn <- {r \in Runs : aborted[r]}

\* Whatever is late, lost or withdrawn, a new request withdraws the earlier
\* ones, the proof of a withdrawn request is never sent, and every request
\* ends, also when nobody ever answers in World App (enrollClient.ts waitForProof).
KeepsPromise == Promise!Spec

\* A QR code on the page is that of the newest request: the user never approves
\* a request the page has given up (enrollClient.ts: onHandoff before the loop).
ShownIsCurrent == shown \in {0, current}

\* A request that is reported as ended in World App was never seen by the
\* backend, and one reported as a success was accepted there (docs/
\* world-integration.md: a cancelled, failed or timed-out widget does not authorize).
EndsTruthfully ==
  \A r \in Runs :
    /\ reason[r] \in Unsent => verdict[r] = None
    /\ reason[r] = "ok" => verdict[r] = "accepted"

=============================================================================
