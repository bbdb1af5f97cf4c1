----------------------------- MODULE Enrollment -----------------------------
(***************************************************************************)
(* Proof-of-human enrollment: a human proves uniqueness in World App for a *)
(* new session, the backend asks World for its verdict and then writes the *)
(* enrollment, a continuation grant and a browser resume; later the same   *)
(* human continues that session for another grant.                         *)
(*                                                                         *)
(* The backend is one process whose handlers interleave at their awaits: a *)
(* request is in `requests' while World decides, and what follows the      *)
(* verdict runs at once.  Only a crash or a storage error separates the    *)
(* three statements of an enrollment.  Tokens are random and unique: a     *)
(* grant's token is its row number, a resume's is its enrollment.  The     *)
(* nullifier World returns for a human is the same every time, so it is    *)
(* the human.                                                              *)
(***************************************************************************)
EXTENDS Integers, Sequences, FiniteSets

CONSTANTS
  Humans,
  Sessions,      \* World session ids; one no row or request uses is new
  Allocations,
  GRANT_TTL, RESUME_TTL,
  MaxGrants,     \* bound: grants issued
  MaxTime,       \* bound: the last second considered
  None

ASSUME EnrollmentAssumption ==
  /\ {GRANT_TTL, RESUME_TTL, MaxGrants, MaxTime} \subseteq Nat
  /\ None \notin Sessions

VARIABLES
  enrollments,   \* world_enrollment: [human, session, allocation], in order of id
  grants,        \* continuation_grant: [enrollment, expires, status], in order of id
  resumes,       \* browser_resume: [enrollment, expires]
  requests,      \* proofs sent to the backend, waiting for World's verdict
  resumed,       \* the session id the page of a human got from /api/world/resume
  cookie,        \* the resume in the browser of a human, or 0
  tokens,        \* the continuation tokens the page of a human got
  now            \* Date.now in seconds

storeVars  == <<enrollments, grants, resumes>>
clientVars == <<resumed, cookie, tokens>>
vars       == <<storeVars, clientVars, requests, now>>

Init ==
  /\ enrollments = <<>>
  /\ grants = <<>>
  /\ resumes = {}
  /\ requests = {}
  /\ resumed = [h \in Humans |-> None]
  /\ cookie = [h \in Humans |-> 0]
  /\ tokens = [h \in Humans |-> {}]
  /\ now = 0

-----------------------------------------------------------------------------
(* The store *)

EnrolledSessions == {enrollments[i].session : i \in DOMAIN enrollments}

\* UNIQUE (app_id, environment, action, nullifier_hash)
AnyNullifier(human) == TRUE                 \* faulty variant: no constraint
FreshNullifier(human) == \A i \in DOMAIN enrollments : enrollments[i].human # human

FreshAllocation(a) == \A i \in DOMAIN enrollments : enrollments[i].allocation # a

\* findBySessionHash
NewestRow(rows, s) == Len(rows)             \* faulty variant: whoever came last
RowOfSession(rows, s) == CHOOSE i \in DOMAIN rows : rows[i].session = s

Grant(id, at) == [enrollment |-> id, expires |-> at + GRANT_TTL, status |-> "open"]

\* saveResume: an enrollment has one resume.
WithResume(rows, id, at) ==
  {r \in rows : r.enrollment # id} \cup {[enrollment |-> id, expires |-> at + RESUME_TTL]}

-----------------------------------------------------------------------------
(* The client *)

\* enrollProofOfHuman, once World App proved the human for a new session.
AskEnroll(h, s) ==
  /\ s \notin EnrolledSessions \cup {r.session : r \in requests}
  /\ requests' = requests \cup {[kind |-> "enroll", human |-> h, session |-> s]}
  /\ UNCHANGED <<storeVars, clientVars, now>>

\* identity.ts lookup: the resume in the browser, not expired.
Verified(h) == \E r \in resumes : r.enrollment = cookie[h] /\ r.expires > now
Expired(h)  == \E r \in resumes : r.enrollment = cookie[h] /\ r.expires <= now

\* The page asks for its session.
Resume(h) ==
  /\ Verified(h)
  /\ resumed' = [resumed EXCEPT ![h] = enrollments[cookie[h]].session]
  /\ UNCHANGED <<storeVars, cookie, tokens, requests, now>>

\* continueProofOfHuman sends World App's proof of it; handleContinue reads
\* the clock and finds the enrollment before it asks World.
AskContinue(h) ==
  /\ resumed[h] \in EnrolledSessions
  /\ requests' = requests \cup
       {[kind |-> "continue", human |-> h, session |-> resumed[h], at |-> now]}
  /\ resumed' = [resumed EXCEPT ![h] = None]
  /\ UNCHANGED <<storeVars, cookie, tokens, now>>

LoseCookie(h) ==
  /\ cookie[h] # 0
  /\ cookie' = [cookie EXCEPT ![h] = 0]
  /\ UNCHANGED <<storeVars, resumed, tokens, requests, now>>

-----------------------------------------------------------------------------
(* After World's verdict *)

\* World refuses the proof, cannot be reached or does not answer in time.
Refused(r) ==
  /\ r \in requests
  /\ requests' = requests \ {r}
  /\ UNCHANGED <<storeVars, clientVars, now>>

\* The nullifier is enrolled: 409.
AlreadyEnrolled(r) ==
  /\ r \in requests /\ r.kind = "enroll"
  /\ ~FreshNullifier(r.human)
  /\ requests' = requests \ {r}
  /\ UNCHANGED <<storeVars, clientVars, now>>

\* handleEnroll runs the first `done' of insert, insertGrant and saveResume;
\* after all three it answers, and the answer arrives or not.
Enroll(r, a, done, arrives) ==
  /\ r \in requests /\ r.kind = "enroll"
  /\ FreshNullifier(r.human) /\ FreshAllocation(a)
  /\ Len(grants) < MaxGrants
  /\ arrives => done = 3
  /\ LET rows == Append(enrollments,
                        [human |-> r.human, session |-> r.session, allocation |-> a])
         id   == RowOfSession(rows, r.session)
     IN  /\ enrollments' = rows
         /\ grants' = IF done >= 2 THEN Append(grants, Grant(id, now)) ELSE grants
         /\ resumes' = IF done = 3 THEN WithResume(resumes, id, now) ELSE resumes
         /\ cookie' = IF arrives THEN [cookie EXCEPT ![r.human] = id] ELSE cookie
         /\ tokens' = IF arrives THEN [tokens EXCEPT ![r.human] = @ \cup {Len(grants')}]
                                 ELSE tokens
  /\ requests' = requests \ {r}
  /\ UNCHANGED <<resumed, now>>

\* handleContinue issues a grant from the time it read before it asked.
Continue(r, arrives) ==
  /\ r \in requests /\ r.kind = "continue"
  /\ Len(grants) < MaxGrants
  /\ grants' = Append(grants, Grant(RowOfSession(enrollments, r.session), r.at))
  /\ tokens' = IF arrives THEN [tokens EXCEPT ![r.human] = @ \cup {Len(grants')}] ELSE tokens
  /\ requests' = requests \ {r}
  /\ UNCHANGED <<enrollments, resumes, resumed, cookie, now>>

Tick ==
  /\ now < MaxTime
  /\ now' = now + 1
  /\ UNCHANGED <<storeVars, clientVars, requests>>

Client(h) ==
  \/ \E s \in Sessions : AskEnroll(h, s)
  \/ Resume(h)
  \/ AskContinue(h)
  \/ LoseCookie(h)

Answer(r) ==
  \/ AlreadyEnrolled(r)
  \/ \E a \in Allocations, done \in 1..3, arrives \in BOOLEAN : Enroll(r, a, done, arrives)
  \/ \E arrives \in BOOLEAN : Continue(r, arrives)

Backend == \E r \in requests : Answer(r) \/ Refused(r)

Next == (\E h \in Humans : Client(h)) \/ Backend \/ Tick

Spec == Init /\ [][Next]_vars

-----------------------------------------------------------------------------
(* A human who keeps verifying, in a browser that keeps its cookie, with a *)
(* World that says yes every time and answers that arrive.                 *)

WillingNext ==
  \/ \E h \in Humans :
       \/ \E s \in Sessions : AskEnroll(h, s)
       \/ Resume(h)
       \/ AskContinue(h)
  \/ \E r \in requests :
       \/ AlreadyEnrolled(r)
       \/ \E a \in Allocations : Enroll(r, a, 3, TRUE)
       \/ Continue(r, TRUE)
  \/ Tick

AsksAgain(h) == \E s \in Sessions : AskEnroll(h, s)
IsAnswered(h) == \E r \in requests : r.human = h /\ Answer(r)

WillingSpec ==
  /\ Init /\ [][WillingNext]_vars
  /\ \A h \in Humans : SF_vars(AsksAgain(h)) /\ SF_vars(IsAnswered(h))

-----------------------------------------------------------------------------
(* Properties *)

\* Every variable stays in its type; a grant and a resume belong to a stored
\* enrollment, a cookie and a token to a stored resume and grant.
TypeOK ==
  /\ enrollments \in Seq([human : Humans, session : Sessions, allocation : Allocations])
  /\ grants \in Seq([enrollment : DOMAIN enrollments,
                     expires : 0..MaxTime + GRANT_TTL, status : {"open", "consumed"}])
  /\ resumes \subseteq [enrollment : DOMAIN enrollments, expires : 0..MaxTime + RESUME_TTL]
  /\ requests \subseteq
       [kind : {"enroll"}, human : Humans, session : Sessions]
         \cup [kind : {"continue"}, human : Humans, session : Sessions, at : 0..MaxTime]
  /\ resumed \in [Humans -> Sessions \cup {None}]
  /\ cookie \in [Humans -> {0} \cup {r.enrollment : r \in resumes}]
  /\ tokens \in [Humans -> SUBSET DOMAIN grants]
  /\ now \in 0..MaxTime

AllocationOf(token) == enrollments[grants[token].enrollment].allocation

\* However many signups a human has in flight at once, and whatever was lost on
\* the way, all the grants a human ever receives lead to one allocation, and
\* nobody else receives a grant for it.
OneAllocationPerHuman ==
  \A g, h \in Humans : \A t \in tokens[g], u \in tokens[h] :
    AllocationOf(t) = AllocationOf(u) <=> g = h

\* What a human's browser holds is that human's own: its grants and its resume
\* lead to an enrollment of the human who proved the session.
BrowserLeadsHome ==
  \A h \in Humans :
    /\ \A t \in tokens[h] : enrollments[grants[t].enrollment].human = h
    /\ cookie[h] # 0 => enrollments[cookie[h]].human = h

\* An expired session can be started again with World App (identity.ts tells
\* the user so): the human is verified again at some later time.
ExpiredCanStartAgain == \A h \in Humans : Expired(h) ~> Verified(h)
=============================================================================
