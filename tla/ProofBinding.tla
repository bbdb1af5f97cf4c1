---------------------------- MODULE ProofBinding ----------------------------
(***************************************************************************)
(* What binds a World proof to an enrollment: the relying-party context a  *)
(* request is signed with, the classification of the proof in handleEnroll *)
(* and handleContinue, World's verdict on it, and the unique rows of       *)
(* world_enrollment.                                                       *)
(*                                                                         *)
(* The operator restarts the server with another environment or another    *)
(* session encryption key while requests are under way; the database       *)
(* stays.  World writes one nullifier in hexadecimal or in decimal digits. *)
(* A proof whose JSON has the wrong shape or is of the wrong kind for its  *)
(* handler is refused at once and is left out, and so are the grant and    *)
(* resume tokens (module Enrollment) and the page (module WorldProof); the *)
(* app and the relying party are always the same.                          *)
(***************************************************************************)
EXTENDS Naturals, Sequences, FiniteSets

CONSTANTS
  Humans,
  Environments,  \* of World ID, among them "staging"
  Keys,          \* values of WORLD_SESSION_ENCRYPTION_KEY
  NumRequests,   \* bound: requests for a proof
  MaxRestarts,   \* bound: restarts with another configuration
  None

Answers == {"wrong_environment", "wrong_credential", "expired_proof", "not_enrolled",
            "world_unavailable", "internal_error", "invalid_proof", "missing_nullifier",
            "exists", "enrolled", "continued", "lost"}

ProofBindingAssumption ==
  /\ "staging" \in Environments /\ None \notin Answers
  /\ NumRequests \in Nat /\ MaxRestarts \in Nat

Requests == 1..NumRequests
Forms == {"hex", "decimal"}

VARIABLES
  config,      \* of the running server: [environment, key]
  restarts,
  credential,  \* the issuer of a human's proof of human: 1, or 128
  rows,        \* world_enrollment: [human, environment, nullifier, session, key]
  stage,       \* of a request: "unused", "asked", "proved", "verifying" or "done"
  request,     \* [kind, human, environment, session, form]: what is asked and proved
  expired,     \* requests whose proof is too old
  answer       \* what the handler answered, or "lost" when the page got no answer

vars == <<config, restarts, credential, rows, stage, request, expired, answer>>

Unasked == [kind |-> "enroll", human |-> None, environment |-> None,
            session |-> 0, form |-> "hex"]

Init ==
  /\ config \in [environment : Environments, key : Keys]
  /\ restarts = 0
  /\ credential \in [Humans -> {1, 128}]
  /\ rows = <<>>
  /\ stage = [i \in Requests |-> "unused"]
  /\ request = [i \in Requests |-> Unasked]
  /\ expired = {}
  /\ answer = [i \in Requests |-> None]

Answer(i, result) ==
  /\ stage' = [stage EXCEPT ![i] = "done"]
  /\ answer' = [answer EXCEPT ![i] = result]

-----------------------------------------------------------------------------
(* The request and World App *)

\* Requests are numbered in the order they are made.
NextRequest(i) == stage[i] = "unused" /\ \A j \in 1..i - 1 : stage[j] # "unused"

\* handleRpContext signs the context of a signup under the configuration of
\* the moment; World App makes a new session for it.
AskEnroll(i, h) ==
  /\ NextRequest(i)
  /\ stage' = [stage EXCEPT ![i] = "asked"]
  /\ request' = [request EXCEPT ![i] =
       [Unasked EXCEPT !.human = h, !.environment = config.environment, !.session = i]]
  /\ UNCHANGED <<config, restarts, credential, rows, expired, answer>>

\* handleResume: the saved session, when the server's key decrypts it.
Readable(row) == row.key = config.key

\* The page reads its saved session and asks for the context of a continuation.
AskContinue(i, r) ==
  /\ NextRequest(i)
  /\ Readable(rows[r])
  /\ stage' = [stage EXCEPT ![i] = "asked"]
  /\ request' = [request EXCEPT ![i] =
       [Unasked EXCEPT !.kind = "continue", !.human = rows[r].human,
                       !.environment = config.environment, !.session = rows[r].session]]
  /\ UNCHANGED <<config, restarts, credential, rows, expired, answer>>

\* World App knows a session in the environment it was made in.
Provable(i) ==
  request[i].kind = "continue" =>
    \E r \in DOMAIN rows : /\ rows[r].session = request[i].session
                           /\ rows[r].environment = request[i].environment

Prove(i) ==
  /\ stage[i] = "asked" /\ Provable(i)
  /\ stage' = [stage EXCEPT ![i] = "proved"]
  /\ \E form \in Forms : request' = [request EXCEPT ![i].form = form]
  /\ UNCHANGED <<config, restarts, credential, rows, expired, answer>>

Expire(i) ==
  /\ stage[i] \in {"proved", "verifying"} /\ i \notin expired
  /\ expired' = expired \cup {i}
  /\ UNCHANGED <<config, restarts, credential, rows, stage, request, answer>>

-----------------------------------------------------------------------------
(* The handlers, before and after they ask World *)

\* issuerAllowed for an enrollment; a continuation accepts issuer 1 only.
IssuerAllowed(i) ==
  \/ credential[request[i].human] = 1
  \/ request[i].kind = "enroll" /\ config.environment = "staging"

EnvironmentAccepted(i) == request[i].environment = config.environment

\* findBySessionHash, the checks of its row, and decryptSessionId.
Known(i) ==
  \E r \in DOMAIN rows :
    /\ rows[r].session = request[i].session
    /\ rows[r].environment = config.environment
    /\ Readable(rows[r])

\* classifyBoundEnrollment
EnrollRefusal(i) ==
  CASE ~EnvironmentAccepted(i) -> "wrong_environment"
    [] EnvironmentAccepted(i) /\ ~IssuerAllowed(i) -> "wrong_credential"
    [] OTHER -> None

\* classifySessionProof, which makes the same two checks first, reads the expiry
\* itself; then handleContinue looks the session up.
SessionRefusal(i) ==
  CASE EnrollRefusal(i) # None -> EnrollRefusal(i)
    [] EnrollRefusal(i) = None /\ i \in expired -> "expired_proof"
    [] EnrollRefusal(i) = None /\ i \notin expired /\ ~Known(i) -> "not_enrolled"
    [] OTHER -> None

Refusal(i) == IF request[i].kind = "enroll" THEN EnrollRefusal(i) ELSE SessionRefusal(i)

\* The page posts the proof; what is not refused goes to World.
Post(i) ==
  /\ stage[i] = "proved"
  /\ IF Refusal(i) = None
     THEN stage' = [stage EXCEPT ![i] = "verifying"] /\ UNCHANGED answer
     ELSE Answer(i, Refusal(i))
  /\ UNCHANGED <<config, restarts, credential, rows, request, expired>>

\* World does not answer within VERIFY_TIMEOUT_MS, or cannot be reached:
\* portalVerifyClient throws an EnrollmentRejected, which handleContinue does
\* not know.
Outage(i) ==
  /\ stage[i] = "verifying"
  /\ Answer(i, IF request[i].kind = "enroll" THEN "world_unavailable" ELSE "internal_error")
  /\ UNCHANGED <<config, restarts, credential, rows, request, expired>>

\* acceptPortalVerification and acceptSessionPortal refuse what World refuses.
Rejected(i) ==
  /\ stage[i] = "verifying"
  /\ Answer(i, IF i \in expired THEN "expired_proof" ELSE "invalid_proof")
  /\ UNCHANGED <<config, restarts, credential, rows, request, expired>>

\* canonicalNullifierBytes: one value for the two ways to write it.
AsWritten(human, form) == <<human, form>>   \* faulty variant: the string as it came
Canonical(human, form) == <<human, "bytes">>

\* UNIQUE (app_id, environment, action, nullifier_hash)
Taken(row, i) ==
  /\ row.environment = request[i].environment
  /\ row.nullifier = Canonical(request[i].human, request[i].form)

IsTaken(i) == \E r \in DOMAIN rows : Taken(rows[r], i)

RowOf(i) ==
  [human |-> request[i].human, environment |-> request[i].environment,
   nullifier |-> Canonical(request[i].human, request[i].form),
   session |-> request[i].session, key |-> config.key]

Verified(i) == stage[i] = "verifying" /\ request[i].kind = "enroll" /\ i \notin expired

\* World verified an enrollment's proof and writes the nullifier in some form,
\* which acceptPortalVerification compares with that of the proof.
Matches(i, form) == Canonical(request[i].human, form) = Canonical(request[i].human, request[i].form)

\* It is not the same, or the row is there already.
EnrollRefused(i) ==
  /\ Verified(i)
  /\ LET differs == \E form \in Forms : ~Matches(i, form) IN
       /\ differs \/ IsTaken(i)
       /\ Answer(i, IF differs THEN "missing_nullifier" ELSE "exists")
  /\ UNCHANGED <<config, restarts, credential, rows, request, expired>>

\* insert, insertGrant and saveResume; one process runs them without a pause.
Statements == 3

\* The handler gets through the first `done' of them: a statement that throws is
\* answered 500, a process that stops does not answer, and the answer of one that
\* got through may be lost.  What was written stays.
Enroll(i, done) ==
  /\ Verified(i) /\ ~IsTaken(i)
  /\ \E form \in Forms : Matches(i, form)
  /\ rows' = IF done = 0 THEN rows ELSE Append(rows, RowOf(i))
  /\ \E result \in {"lost", IF done = Statements THEN "enrolled" ELSE "internal_error"} :
       Answer(i, result)
  /\ UNCHANGED <<config, restarts, credential, request, expired>>

\* The process stops while World decides, or a refusal is lost on its way.
Lost(i) ==
  /\ stage[i] = "verifying"
  /\ Answer(i, "lost")
  /\ UNCHANGED <<config, restarts, credential, rows, request, expired>>

Continue(i) ==
  /\ stage[i] = "verifying" /\ request[i].kind = "continue" /\ i \notin expired
  /\ Answer(i, "continued")
  /\ UNCHANGED <<config, restarts, credential, rows, request, expired>>

\* The operator restarts the server: requests that wait for World are lost.
Restart ==
  /\ restarts < MaxRestarts
  /\ \E next \in [environment : Environments, key : Keys] :
       next # config /\ config' = next
  /\ restarts' = restarts + 1
  /\ stage' = [i \in Requests |-> IF stage[i] = "verifying" THEN "done" ELSE stage[i]]
  /\ answer' = [i \in Requests |-> IF stage[i] = "verifying" THEN "lost" ELSE answer[i]]
  /\ UNCHANGED <<credential, rows, request, expired>>

Handle(i) ==
  \/ Post(i) \/ Outage(i) \/ Rejected(i) \/ EnrollRefused(i) \/ Continue(i) \/ Lost(i)
  \/ \E done \in 0..Statements : Enroll(i, done)

Next ==
  \/ \E i \in Requests :
       \/ \E h \in Humans : AskEnroll(i, h)
       \/ \E r \in DOMAIN rows : AskContinue(i, r)
       \/ Prove(i)
       \/ Expire(i)
       \/ Handle(i)
  \/ Restart

Spec == Init /\ [][Next]_vars

-----------------------------------------------------------------------------
(* Properties *)

\* Every variable stays in its type, and a request is answered when it is done.
TypeOK ==
  /\ config \in [environment : Environments, key : Keys]
  /\ restarts \in 0..MaxRestarts
  /\ credential \in [Humans -> {1, 128}]
  /\ rows \in Seq([human : Humans, environment : Environments,
                   nullifier : Humans \X {"bytes"}, session : Requests, key : Keys])
  /\ stage \in [Requests -> {"unused", "asked", "proved", "verifying", "done"}]
  /\ request \in [Requests -> {Unasked} \cup
       [kind : {"enroll", "continue"}, human : Humans, environment : Environments,
        session : Requests, form : Forms]]
  /\ expired \subseteq Requests
  /\ \A i \in Requests : IF stage[i] = "done" THEN answer[i] \in Answers
                                              ELSE answer[i] = None

\* However many signups of one human are under way, however World writes the
\* nullifier of each, and whatever key the server has, the human has one
\* enrollment in an environment, hence one allocation (enrollmentProof.ts
\* canonicalNullifierBytes and the unique index of enrollmentStore.ts).
OneRowPerHuman ==
  \A r, q \in DOMAIN rows :
    rows[r].human = rows[q].human /\ rows[r].environment = rows[q].environment => r = q

\* An answer of enrollment can be relied on, and its absence cannot: whoever is
\* told "enrolled" has the row of that request, whoever is told of an existing one
\* has another's in that environment, and a row is of a signup that World verified
\* for its human and environment, be it answered "enrolled", with a 500 or not at
\* all, but never one that was refused (enroll.ts:161-210).
AnswersAreTrue ==
  /\ \A i \in Requests :
       /\ answer[i] = "enrolled" => \E r \in DOMAIN rows : rows[r].session = i
       /\ answer[i] = "exists" =>
            \E r \in DOMAIN rows : /\ rows[r].human = request[i].human
                                   /\ rows[r].environment = request[i].environment
                                   /\ rows[r].session # i
  /\ \A r \in DOMAIN rows :
       LET i == rows[r].session IN
       /\ answer[i] \in {"enrolled", "internal_error", "lost"}
       /\ request[i].kind = "enroll"
       /\ request[i].human = rows[r].human /\ request[i].environment = rows[r].environment

\* A session the page was given is known to handleContinue while the server
\* keeps its configuration: "not enrolled" needs a restart (continue.ts).
GivenIsKnown ==
  \A i \in Requests : answer[i] = "not_enrolled" => restarts > 0

=============================================================================
