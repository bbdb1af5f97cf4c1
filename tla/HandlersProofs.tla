--------------------------- MODULE HandlersProofs ---------------------------
(***************************************************************************)
(* The handlers and the console keep what they promise, for any clients,   *)
(* requests, lifetimes and bounds.  Each part has its own inductive        *)
(* invariant, kept by its own steps; a step of one part leaves the others  *)
(* alone, so the conjunction is one of the whole.                          *)
(***************************************************************************)
EXTENDS Handlers, Sequences, FiniteSetTheorems, TLAPS

-----------------------------------------------------------------------------
(* The request limiter.  A call the map has forgotten is older than a window, *)
(* so the calls the limiter counts are all that lie in the window that ends   *)
(* now; a window that ended earlier does not change any more.                 *)

\* The numbers and times of the calls so far lie in the past.
InThePast ==
  \A k \in Keys : \A c \in admitted[k] : c.id <= calls /\ c.time <= now

\* What the map forgot is older than the window.
ForgottenIsOld ==
  \A k \in Keys : \A c \in admitted[k] \ hits[k] : c.time + Window <= now

Finite == \A k \in Keys : IsFiniteSet(admitted[k])

IInv == TypeOK /\ InThePast /\ ForgottenIsOld /\ Finite /\ NeverOverLimit

\* The calls the limiter counts are the admitted ones of the window.
LEMMA CountsTheWindow ==
  ASSUME IInv, NEW k \in Keys
  PROVE  /\ Recent(hits[k]) = From(admitted[k], now - Window + 1)
         /\ IsFiniteSet(Recent(hits[k]))
<1>1. now \in Nat /\ Window \in Nat /\ Limit \in Nat
  BY LimitAssumption DEF IInv, TypeOK
<1>2. hits[k] \subseteq admitted[k] /\ \A c \in admitted[k] : c.time \in Nat
  BY LimitAssumption DEF IInv, TypeOK, Call
<1>3. Recent(hits[k]) = From(admitted[k], now - Window + 1)
  BY <1>1, <1>2 DEF IInv, InThePast, ForgottenIsOld, Recent, From
<1>4. IsFiniteSet(Recent(hits[k]))
  <2>1. Recent(hits[k]) \subseteq admitted[k]
    BY <1>2 DEF Recent
  <2> QED BY <2>1, FS_Subset DEF IInv, Finite
<1> QED BY <1>3, <1>4

\* The type invariant is kept by every step.
LEMMA TypeStep ==
  ASSUME IInv, [Next]_vars
  PROVE  TypeOK'
<1> USE LimitAssumption
<1>1. ASSUME NEW k \in Keys, Admit(k) \/ Refuse(k)
      PROVE  TypeOK'
  <2>1. [id |-> calls + 1, time |-> now] \in Call
    BY <1>1 DEF IInv, TypeOK, Call, Admit, Refuse, AfterRefusal
  <2>2. Recent(hits[k]) \subseteq hits[k]
    BY DEF Recent
  <2> QED BY <1>1, <2>1, <2>2 DEF IInv, TypeOK, Admit, Refuse, AfterRefusal
<1>2. CASE Tick
  BY <1>2 DEF IInv, TypeOK, Tick
<1>3. CASE UNCHANGED vars
  BY <1>3 DEF IInv, TypeOK, vars
<1> QED BY <1>1, <1>2, <1>3 DEF Next

\* One call more in a set of calls is at most one more in any window of it.
LEMMA OneMore ==
  ASSUME NEW cs, IsFiniteSet(cs), NEW new, NEW t
  PROVE  /\ IsFiniteSet(From(cs, t)) /\ IsFiniteSet(From(cs \cup {new}, t))
         /\ Cardinality(From(cs \cup {new}, t)) <= Cardinality(From(cs, t)) + 1
<1>1. From(cs, t) \subseteq cs /\ From(cs \cup {new}, t) \subseteq From(cs, t) \cup {new}
  BY DEF From
<1>2. IsFiniteSet(From(cs, t)) /\ Cardinality(From(cs, t)) \in Nat
  BY <1>1, FS_Subset, FS_CardinalityType
<1>3. /\ IsFiniteSet(From(cs, t) \cup {new})
      /\ Cardinality(From(cs, t) \cup {new}) <= Cardinality(From(cs, t)) + 1
  <2> DEFINE S == From(cs, t)
  <2>1. IsFiniteSet(S) /\ Cardinality(S) \in Nat
    BY <1>2
  <2> HIDE DEF S
  <2>2. /\ IsFiniteSet(S \cup {new})
        /\ Cardinality(S \cup {new}) =
             IF new \in S THEN Cardinality(S) ELSE Cardinality(S) + 1
    BY <2>1, FS_AddElement
  <2>3. IsFiniteSet(S \cup {new}) /\ Cardinality(S \cup {new}) <= Cardinality(S) + 1
    BY <2>1, <2>2
  <2> QED BY <2>3 DEF S
<1>4. /\ IsFiniteSet(From(cs \cup {new}, t))
      /\ Cardinality(From(cs \cup {new}, t)) <= Cardinality(From(cs, t) \cup {new})
  BY <1>1, <1>3, FS_Subset
<1>5. /\ Cardinality(From(cs \cup {new}, t)) \in Nat
      /\ Cardinality(From(cs, t) \cup {new}) \in Nat
  BY <1>3, <1>4, FS_CardinalityType
<1> QED BY <1>2, <1>3, <1>4, <1>5

\* Of a window that holds the new call, nothing lies outside the window that
\* ends now.
LEMMA WindowStep ==
  ASSUME IInv, NEW k \in Keys, Admit(k), NEW t \in 0..MaxTime
  PROVE  Cardinality(From(admitted'[k], t)) <= Limit
<1> DEFINE new == [id |-> calls + 1, time |-> now]
<1>1. /\ admitted'[k] = admitted[k] \cup {new} /\ IsFiniteSet(admitted[k])
      /\ now \in Nat /\ Window \in Nat /\ Limit \in Nat /\ t \in Nat
  BY LimitAssumption DEF IInv, TypeOK, Finite, Admit
<1>2. CASE t <= now /\ now < t + Window
  <2> DEFINE recent == From(admitted[k], now - Window + 1)
  <2>1. IsFiniteSet(recent) /\ Cardinality(recent) < Limit
    BY CountsTheWindow DEF Admit
  <2>2. From(admitted[k], t) \subseteq recent
    <3>1. \A c \in admitted[k] : c.time \in Nat /\ c.time <= now
      BY LimitAssumption DEF IInv, TypeOK, InThePast, Call
    <3> QED BY <1>1, <1>2, <3>1 DEF From
  <2>3. Cardinality(From(admitted[k], t)) <= Cardinality(recent)
    BY <2>1, <2>2, FS_Subset
  <2>4. Cardinality(From(admitted'[k], t)) <= Cardinality(From(admitted[k], t)) + 1
    BY <1>1, OneMore
  <2>5. /\ Cardinality(recent) \in Nat /\ Cardinality(From(admitted[k], t)) \in Nat
        /\ Cardinality(From(admitted'[k], t)) \in Nat
    BY <1>1, <2>1, OneMore, FS_CardinalityType
  <2> QED BY <1>1, <2>1, <2>3, <2>4, <2>5
<1>3. CASE ~(t <= now /\ now < t + Window)
  <2>1. From(admitted'[k], t) = From(admitted[k], t)
    BY <1>1, <1>3 DEF From
  <2> QED BY <2>1 DEF IInv, NeverOverLimit
<1> QED BY <1>2, <1>3

\* The inductive invariant holds at first and is kept by every step.
LEMMA InvInit == Init => IInv
<1> SUFFICES ASSUME Init PROVE IInv
  OBVIOUS
<1>1. \A k \in Keys, t \in 0..MaxTime : From(admitted[k], t) = {}
  BY DEF Init, From
<1>2. NeverOverLimit
  BY <1>1, FS_EmptySet, LimitAssumption DEF NeverOverLimit
<1> QED BY <1>2, FS_EmptySet, LimitAssumption
        DEF Init, IInv, TypeOK, InThePast, ForgottenIsOld, Finite

\* Every step keeps it.
LEMMA InvStep == IInv /\ [Next]_vars => IInv'
<1> SUFFICES ASSUME IInv, [Next]_vars PROVE IInv'
  OBVIOUS
<1> USE LimitAssumption
<1>1. TypeOK'
  BY TypeStep
<1>2. ASSUME NEW k \in Keys, Admit(k)
      PROVE  (InThePast /\ ForgottenIsOld /\ Finite /\ NeverOverLimit)'
  <2> DEFINE new == [id |-> calls + 1, time |-> now]
  <2>1. /\ admitted' = [admitted EXCEPT ![k] = @ \cup {new}]
        /\ hits' = [hits EXCEPT ![k] = Recent(@) \cup {new}]
        /\ calls' = calls + 1 /\ now' = now
        /\ admitted \in [Keys -> SUBSET Call] /\ hits \in [Keys -> SUBSET Call]
        /\ now \in Nat /\ calls \in Nat /\ Window \in Nat
        /\ \A j \in Keys : \A c \in admitted[j] : c.id \in Nat /\ c.time \in Nat
    BY <1>2 DEF Admit, IInv, TypeOK, Call
  <2>2. InThePast'
    BY <2>1 DEF IInv, InThePast
  <2>3. ForgottenIsOld'
    BY <2>1 DEF IInv, ForgottenIsOld, Recent
  <2>4. Finite'
    <3>1. \A j \in Keys : IsFiniteSet(admitted[j] \cup {new})
      BY FS_AddElement DEF IInv, Finite
    <3> QED BY <2>1, <3>1 DEF IInv, Finite
  <2>5. NeverOverLimit'
    <3>1. \A t \in 0..MaxTime : Cardinality(From(admitted'[k], t)) <= Limit
      BY <1>2, WindowStep
    <3>2. \A j \in Keys \ {k} : admitted'[j] = admitted[j]
      BY <2>1
    <3> QED BY <3>1, <3>2 DEF IInv, NeverOverLimit, From
  <2> QED BY <2>2, <2>3, <2>4, <2>5
<1>3. ASSUME NEW k \in Keys, Refuse(k)
      PROVE  (InThePast /\ ForgottenIsOld /\ Finite /\ NeverOverLimit)'
  <2>1. /\ admitted' = admitted /\ hits' = [hits EXCEPT ![k] = Recent(@)]
        /\ calls' = calls + 1 /\ now' = now
        /\ hits \in [Keys -> SUBSET Call]
        /\ now \in Nat /\ calls \in Nat /\ Window \in Nat
        /\ \A j \in Keys : \A c \in admitted[j] : c.id \in Nat /\ c.time \in Nat
    BY <1>3 DEF Refuse, IInv, TypeOK, Call, AfterRefusal
  <2>2. InThePast'
    BY <2>1 DEF IInv, InThePast
  <2>3. ForgottenIsOld'
    BY <2>1 DEF IInv, ForgottenIsOld, Recent
  <2> QED BY <2>1, <2>2, <2>3 DEF IInv, Finite, NeverOverLimit, From
<1>4. ASSUME Tick
      PROVE  (InThePast /\ ForgottenIsOld /\ Finite /\ NeverOverLimit)'
  <2>1. /\ now' = now + 1 /\ UNCHANGED <<hits, calls, admitted>>
        /\ now \in Nat /\ Window \in Nat
        /\ \A j \in Keys : \A c \in admitted[j] : c.time \in Nat
    BY <1>4 DEF Tick, IInv, TypeOK, Call
  <2> QED BY <2>1 DEF IInv, InThePast, ForgottenIsOld, Finite, NeverOverLimit, From
<1>5. ASSUME UNCHANGED vars
      PROVE  (InThePast /\ ForgottenIsOld /\ Finite /\ NeverOverLimit)'
  BY <1>5 DEF vars, IInv, InThePast, ForgottenIsOld, Finite, NeverOverLimit, From
<1>6. (InThePast /\ ForgottenIsOld /\ Finite /\ NeverOverLimit)'
  BY <1>2, <1>3, <1>4, <1>5 DEF Next
<1> QED BY <1>1, <1>6 DEF IInv

-----------------------------------------------------------------------------
(* The binding of World proofs *)

Asked ==
  [kind : {"enroll", "continue"}, human : Humans, environment : Environments,
   session : Binding!Requests, form : Binding!Forms]

Rows ==
  [human : Humans, environment : Environments, nullifier : Humans \X {"bytes"},
   session : Binding!Requests, key : SessionKeys]

BindingTyped ==
  /\ config \in [environment : Environments, key : SessionKeys]
  /\ restarts \in 0..MaxRestarts
  /\ credential \in [Humans -> {1, 128}]
  /\ rows \in Seq(Rows)
  /\ proofStage \in [Binding!Requests -> {"unused", "asked", "proved", "verifying", "done"}]
  /\ proof \in [Binding!Requests -> {Binding!Unasked} \cup Asked]
  /\ expired \subseteq Binding!Requests
  /\ answer \in [Binding!Requests -> Binding!Answers \cup {None}]

\* A request is answered when it is done; a signup has a session of its own, a
\* continuation one of the table; and the configuration is the one it was asked
\* under until the first restart.
RequestBound(i) ==
  /\ proofStage[i] = "done" <=> answer[i] # None
  /\ proofStage[i] # "unused" =>
       /\ proof[i] \in Asked
       /\ proof[i].kind = "enroll" => proof[i].session = i
       /\ proof[i].kind = "continue" => \E r \in DOMAIN rows : rows[r].session = proof[i].session
       /\ restarts = 0 => proof[i].environment = config.environment

\* A row is of a signup that got that far, whatever it was told.
RowBound(r) ==
  /\ rows[r].nullifier = <<rows[r].human, "bytes">>
  /\ answer[rows[r].session] \in {"enrolled", "internal_error", "lost"}
  /\ proof[rows[r].session].kind = "enroll"
  /\ proof[rows[r].session].human = rows[r].human
  /\ proof[rows[r].session].environment = rows[r].environment
  /\ restarts = 0 => rows[r].key = config.key /\ rows[r].environment = config.environment

BindingInv ==
  /\ BindingTyped
  /\ \A i \in Binding!Requests : RequestBound(i)
  /\ \A r \in DOMAIN rows : RowBound(r)
  /\ Binding!OneRowPerHuman /\ Binding!AnswersAreTrue /\ Binding!GivenIsKnown

\* The binding begins in its invariant.
LEMMA BindingStarts ==
  ASSUME Binding!Init
  PROVE  BindingInv
<1> USE HandlersAssumption DEF Binding!ProofBindingAssumption
<1>1. rows = <<>> /\ DOMAIN rows = {}
  BY DEF Binding!Init
<1>2. 0 \in 0..MaxRestarts
  OBVIOUS
<1>3. BindingTyped
  <2>1. rows \in Seq(Rows)
    BY <1>1
  <2> QED BY <1>2, <2>1 DEF Binding!Init, BindingTyped
<1>4. \A i \in Binding!Requests : RequestBound(i)
  BY DEF Binding!Init, RequestBound
<1>5. Binding!OneRowPerHuman /\ Binding!AnswersAreTrue /\ Binding!GivenIsKnown
  BY <1>1 DEF Binding!Init, Binding!OneRowPerHuman, Binding!AnswersAreTrue, Binding!GivenIsKnown,
     Binding!Answers
<1> QED BY <1>1, <1>3, <1>4, <1>5 DEF BindingInv

\* A step that writes no row keeps the types, if it keeps those of what it writes.
LEMMA BindingRowsKept ==
  ASSUME BindingInv, BindingTyped', UNCHANGED <<rows, config, restarts>>,
         \A i \in Binding!Requests : RequestBound(i)',
         \A i \in Binding!Requests : proofStage[i] # "unused" =>
           /\ proof'[i].human = proof[i].human /\ proof'[i].environment = proof[i].environment
           /\ proof'[i].kind = proof[i].kind
           /\ answer[i] # None => answer'[i] = answer[i]
           /\ answer'[i] # "enrolled" \/ answer'[i] = answer[i],
         \A i \in Binding!Requests : proofStage[i] = "unused" => answer'[i] = None,
         \A i \in Binding!Requests : answer'[i] = "exists" /\ answer[i] # "exists" =>
           \E r \in DOMAIN rows : /\ rows[r].human = proof[i].human
                                  /\ rows[r].environment = proof[i].environment
                                  /\ rows[r].session # i,
         \A i \in Binding!Requests : answer'[i] = "not_enrolled" /\ answer[i] # "not_enrolled" =>
           restarts > 0
  PROVE  BindingInv'
<1>1. None \notin Binding!Answers
  BY HandlersAssumption DEF Binding!ProofBindingAssumption
<1>2. \A r \in DOMAIN rows : rows[r] \in Rows /\ rows[r].session \in Binding!Requests
  <2>1. rows \in Seq(Rows)
    BY DEF BindingInv, BindingTyped
  <2>2. \A r \in DOMAIN rows : rows[r] \in Rows
    BY <2>1
  <2> QED BY <2>2 DEF Rows
<1>3. \A r \in DOMAIN rows : RowBound(r)'
  BY <1>1, <1>2 DEF BindingInv, RowBound, RequestBound, Binding!Answers
<1>4. Binding!OneRowPerHuman'
  BY DEF BindingInv, Binding!OneRowPerHuman
<1>5. Binding!AnswersAreTrue'
  <2>1. ASSUME NEW i \in Binding!Requests, answer'[i] = "exists"
        PROVE  \E r \in DOMAIN rows : /\ rows[r].human = proof'[i].human
                                       /\ rows[r].environment = proof'[i].environment
                                       /\ rows[r].session # i
    <3>1. proofStage[i] # "unused"
      BY <1>1, <2>1 DEF Binding!Answers
    <3>2. proof'[i].human = proof[i].human /\ proof'[i].environment = proof[i].environment
      BY <3>1
    <3>3. CASE answer[i] = "exists"
      BY <3>2, <3>3 DEF BindingInv, Binding!AnswersAreTrue
    <3>4. CASE answer[i] # "exists"
      BY <2>1, <3>2, <3>4
    <3> QED BY <3>3, <3>4
  <2>2. ASSUME NEW i \in Binding!Requests, answer'[i] = "enrolled"
        PROVE  \E r \in DOMAIN rows : rows[r].session = i
    <3>1. answer[i] = "enrolled"
      BY <1>1, <2>2 DEF Binding!Answers
    <3> QED BY <3>1 DEF BindingInv, Binding!AnswersAreTrue
  <2>3. ASSUME NEW r \in DOMAIN rows
        PROVE  LET i == rows[r].session IN
               /\ answer'[i] \in {"enrolled", "internal_error", "lost"}
               /\ proof'[i].kind = "enroll"
               /\ proof'[i].human = rows[r].human /\ proof'[i].environment = rows[r].environment
    BY <1>3 DEF RowBound
  <2> QED BY <2>1, <2>2, <2>3 DEF Binding!AnswersAreTrue
<1>6. Binding!GivenIsKnown'
  BY DEF BindingInv, Binding!GivenIsKnown
<1> QED BY <1>3, <1>4, <1>5, <1>6 DEF BindingInv

\* Asking for a proof, and proving.
LEMMA BindingAskKeeps ==
  ASSUME BindingInv, NEW i \in Binding!Requests,
         \/ \E h \in Humans : Binding!AskEnroll(i, h)
         \/ \E r \in DOMAIN rows : Binding!AskContinue(i, r)
         \/ Binding!Prove(i)
         \/ Binding!Expire(i)
  PROVE  BindingInv'
<1> USE HandlersAssumption DEF Binding!ProofBindingAssumption
<1>1. /\ rows \in Seq(Rows) /\ \A r \in DOMAIN rows : rows[r] \in Rows
      /\ config.environment \in Environments
  <2>1. rows \in Seq(Rows)
    BY DEF BindingInv, BindingTyped
  <2> QED BY <2>1 DEF BindingInv, BindingTyped
<1>2. ASSUME NEW q \in Asked, NEW s \in {"asked", "proved"},
             proofStage' = [proofStage EXCEPT ![i] = s], proof' = [proof EXCEPT ![i] = q],
             proofStage[i] \in {"unused", "asked"},
             proofStage[i] # "unused" =>
               /\ q.human = proof[i].human /\ q.environment = proof[i].environment
               /\ q.kind = proof[i].kind /\ q.session = proof[i].session,
             proofStage[i] = "unused" =>
               /\ q.environment = config.environment
               /\ q.kind = "enroll" => q.session = i
               /\ q.kind = "continue" => \E r \in DOMAIN rows : rows[r].session = q.session,
             UNCHANGED <<config, restarts, credential, rows, expired, answer>>
      PROVE  BindingInv'
  <2>1. BindingTyped'
    BY <1>2 DEF BindingInv, BindingTyped
  <2>2. \A j \in Binding!Requests : RequestBound(j)'
    BY <1>2 DEF BindingInv, BindingTyped, RequestBound
  <2>3. \A j \in Binding!Requests : j # i => proof'[j] = proof[j]
    BY <1>2 DEF BindingInv, BindingTyped
  <2>4. \A j \in Binding!Requests : proofStage[j] # "unused" =>
           /\ proof'[j].human = proof[j].human /\ proof'[j].environment = proof[j].environment
           /\ proof'[j].kind = proof[j].kind
    BY <1>2, <2>3 DEF BindingInv, BindingTyped
  <2>5. \A j \in Binding!Requests : proofStage[j] = "unused" => answer'[j] = None
    BY <1>2 DEF BindingInv, RequestBound
  <2> QED BY <1>2, <2>1, <2>2, <2>4, <2>5, BindingRowsKept
<1>3. ASSUME NEW h \in Humans, Binding!AskEnroll(i, h)
      PROVE  BindingInv'
  <2> DEFINE q == [Binding!Unasked EXCEPT !.human = h, !.environment = config.environment,
                                          !.session = i]
  <2>1. q \in Asked /\ q.environment = config.environment /\ q.kind = "enroll" /\ q.session = i
    BY <1>1 DEF Asked, Binding!Unasked, Binding!Forms
  <2>2. /\ proofStage[i] = "unused" /\ proofStage' = [proofStage EXCEPT ![i] = "asked"]
        /\ proof' = [proof EXCEPT ![i] = q]
        /\ UNCHANGED <<config, restarts, credential, rows, expired, answer>>
    BY ONLY <1>3 DEF Binding!AskEnroll, Binding!NextRequest
  <2> HIDE DEF q
  <2> QED BY <1>2, <2>1, <2>2
<1>4. ASSUME NEW r \in DOMAIN rows, Binding!AskContinue(i, r)
      PROVE  BindingInv'
  <2> DEFINE q == [Binding!Unasked EXCEPT !.kind = "continue", !.human = rows[r].human,
                     !.environment = config.environment, !.session = rows[r].session]
  <2>1. rows[r].human \in Humans /\ rows[r].session \in Binding!Requests
    BY <1>1 DEF Rows
  <2>2. /\ q \in Asked /\ q.environment = config.environment /\ q.kind = "continue"
        /\ q.session = rows[r].session
    BY <1>1, <2>1 DEF Asked, Binding!Unasked, Binding!Forms
  <2>3. /\ proofStage[i] = "unused" /\ proofStage' = [proofStage EXCEPT ![i] = "asked"]
        /\ proof' = [proof EXCEPT ![i] = q]
        /\ UNCHANGED <<config, restarts, credential, rows, expired, answer>>
    BY ONLY <1>4 DEF Binding!AskContinue, Binding!NextRequest
  <2> HIDE DEF q
  <2> QED BY <1>2, <2>2, <2>3
<1>5. CASE Binding!Prove(i)
  <2>1. PICK form \in Binding!Forms : proof' = [proof EXCEPT ![i].form = form]
    BY <1>5 DEF Binding!Prove
  <2>2. proof[i] \in Asked /\ proofStage[i] = "asked"
    BY <1>5 DEF Binding!Prove, BindingInv, RequestBound
  <2> DEFINE q == [proof[i] EXCEPT !.form = form]
  <2>3. /\ q \in Asked /\ q.human = proof[i].human /\ q.environment = proof[i].environment
        /\ q.kind = proof[i].kind /\ q.session = proof[i].session
    BY <2>2 DEF Asked
  <2>4. proof' = [proof EXCEPT ![i] = q]
    BY <2>1 DEF BindingInv, BindingTyped
  <2> QED BY <1>2, <1>5, <2>2, <2>3, <2>4 DEF Binding!Prove
<1>6. CASE Binding!Expire(i)
  <2>1. UNCHANGED <<config, restarts, credential, rows, proofStage, proof, answer>>
    BY <1>6 DEF Binding!Expire
  <2>2. BindingTyped' /\ \A j \in Binding!Requests : RequestBound(j)'
    BY <1>6, <2>1 DEF Binding!Expire, BindingInv, BindingTyped, RequestBound
  <2> QED BY <2>1, <2>2, BindingRowsKept DEF BindingInv, RequestBound
<1> QED BY <1>3, <1>4, <1>5, <1>6

\* A request is answered, without a new row.
LEMMA BindingAnswerKeeps ==
  ASSUME BindingInv, NEW i \in Binding!Requests, NEW result \in Binding!Answers \ {"enrolled"},
         proofStage[i] \in {"proved", "verifying"}, Binding!Answer(i, result),
         UNCHANGED <<config, restarts, credential, rows, proof, expired>>,
         result = "exists" =>
           \E r \in DOMAIN rows : /\ rows[r].human = proof[i].human
                                  /\ rows[r].environment = proof[i].environment
                                  /\ rows[r].session # i,
         result = "not_enrolled" => restarts > 0
  PROVE  BindingInv'
<1> USE HandlersAssumption DEF Binding!ProofBindingAssumption
<1>1. /\ proofStage' = [proofStage EXCEPT ![i] = "done"]
      /\ answer' = [answer EXCEPT ![i] = result]
      /\ answer[i] = None /\ result # None
  BY DEF Binding!Answer, BindingInv, RequestBound
<1>2. BindingTyped'
  BY <1>1 DEF BindingInv, BindingTyped
<1>3. \A j \in Binding!Requests : RequestBound(j)'
  BY <1>1 DEF BindingInv, BindingTyped, RequestBound
<1>4. /\ \A j \in Binding!Requests : j # i => answer'[j] = answer[j]
      /\ answer'[i] = result
  BY <1>1 DEF BindingInv, BindingTyped
<1>5. \A j \in Binding!Requests : proofStage[j] = "unused" => answer'[j] = None
  BY <1>4 DEF BindingInv, RequestBound
<1>6. \A j \in Binding!Requests : proofStage[j] # "unused" =>
           /\ proof'[j].human = proof[j].human /\ proof'[j].environment = proof[j].environment
           /\ proof'[j].kind = proof[j].kind
           /\ answer[j] # None => answer'[j] = answer[j]
           /\ answer'[j] # "enrolled" \/ answer'[j] = answer[j]
  BY <1>1, <1>4
<1> QED BY <1>2, <1>3, <1>4, <1>5, <1>6, BindingRowsKept

\* Until a restart, the session of a continuation is known.
LEMMA GivenSessionKnown ==
  ASSUME BindingInv, NEW i \in Binding!Requests, proofStage[i] # "unused",
         proof[i].kind = "continue", restarts = 0
  PROVE  Binding!Known(i)
BY DEF BindingInv, RequestBound, RowBound, Binding!Known, Binding!Readable

\* What is not World's verdict on a signup.
LEMMA BindingHandleKeeps ==
  ASSUME BindingInv, NEW i \in Binding!Requests,
         \/ Binding!Post(i) \/ Binding!Outage(i) \/ Binding!Rejected(i)
         \/ Binding!Continue(i) \/ Binding!Lost(i)
  PROVE  BindingInv'
<1> USE HandlersAssumption DEF Binding!ProofBindingAssumption
<1>1. CASE Binding!Post(i)
  <2>1. CASE Binding!Refusal(i) = None
    <3>1. /\ proofStage' = [proofStage EXCEPT ![i] = "verifying"] /\ proofStage[i] = "proved"
          /\ UNCHANGED <<config, restarts, credential, rows, proof, expired, answer>>
      BY <1>1, <2>1 DEF Binding!Post
    <3>2. BindingTyped' /\ \A j \in Binding!Requests : RequestBound(j)'
      BY <3>1 DEF BindingInv, BindingTyped, RequestBound
    <3> QED BY <3>1, <3>2, BindingRowsKept DEF BindingInv, RequestBound
  <2>2. CASE Binding!Refusal(i) # None
    <3>1. /\ proofStage[i] = "proved" /\ Binding!Answer(i, Binding!Refusal(i))
          /\ UNCHANGED <<config, restarts, credential, rows, proof, expired>>
      BY <1>1, <2>2 DEF Binding!Post
    <3>2. Binding!EnrollRefusal(i) \in {None, "wrong_environment", "wrong_credential"}
      BY DEF Binding!EnrollRefusal
    <3>3. Binding!SessionRefusal(i) \in {None, "wrong_environment", "wrong_credential",
                                         "expired_proof", "not_enrolled"}
      BY <3>2 DEF Binding!SessionRefusal
    <3>4. Binding!Refusal(i) \in Binding!Answers \ {"enrolled", "exists"}
      BY <2>2, <3>2, <3>3 DEF Binding!Refusal, Binding!Answers
    <3>5. Binding!Refusal(i) = "not_enrolled" => ~Binding!Known(i) /\ proof[i].kind = "continue"
      <4>1. proof[i].kind \in {"enroll", "continue"}
        BY <3>1 DEF BindingInv, RequestBound, Asked
      <4> QED BY <3>2, <4>1 DEF Binding!Refusal, Binding!SessionRefusal, Binding!Answers
    <3>6. restarts = 0 \/ restarts > 0
      BY DEF BindingInv, BindingTyped
    <3>7. Binding!Refusal(i) = "not_enrolled" => restarts > 0
      BY <3>1, <3>5, <3>6, GivenSessionKnown
    <3> QED BY <3>1, <3>4, <3>7, BindingAnswerKeeps
  <2> QED BY <2>1, <2>2
<1>2. CASE Binding!Outage(i)
  <2>1. PICK result \in {"world_unavailable", "internal_error"} : Binding!Answer(i, result)
    BY <1>2 DEF Binding!Outage
  <2> QED BY <1>2, <2>1, BindingAnswerKeeps DEF Binding!Outage, Binding!Answers
<1>3. CASE Binding!Rejected(i)
  <2>1. PICK result \in {"expired_proof", "invalid_proof"} : Binding!Answer(i, result)
    BY <1>3 DEF Binding!Rejected
  <2> QED BY <1>3, <2>1, BindingAnswerKeeps DEF Binding!Rejected, Binding!Answers
<1>4. CASE Binding!Continue(i)
  BY <1>4, BindingAnswerKeeps DEF Binding!Continue, Binding!Answers
<1>5. CASE Binding!Lost(i)
  BY <1>5, BindingAnswerKeeps DEF Binding!Lost, Binding!Answers
<1> QED BY <1>1, <1>2, <1>3, <1>4, <1>5

\* The row of a human who has none in the environment.
LEMMA BindingNewRow ==
  ASSUME BindingInv, NEW i \in Binding!Requests,
         NEW result \in {"enrolled", "internal_error", "lost"},
         proofStage[i] = "verifying", proof[i].kind = "enroll",
         Binding!Answer(i, result), ~Binding!IsTaken(i),
         rows' = Append(rows, Binding!RowOf(i)),
         proof[i].environment = config.environment \/ restarts > 0,
         UNCHANGED <<config, restarts, credential, proof, expired>>
  PROVE  BindingInv'
<1> USE HandlersAssumption DEF Binding!ProofBindingAssumption
<1> DEFINE new == [human |-> proof[i].human, environment |-> proof[i].environment,
                   nullifier |-> <<proof[i].human, "bytes">>, session |-> i, key |-> config.key]
<1>1. /\ proof[i] \in Asked /\ proof[i].session = i /\ answer[i] = None
      /\ config.key \in SessionKeys
  BY DEF BindingInv, BindingTyped, RequestBound
<1>2. new \in Rows
  BY <1>1 DEF Asked, Rows
<1>3. rows' = Append(rows, new) /\ rows \in Seq(Rows)
  BY <1>1 DEF Binding!RowOf, Binding!Canonical, BindingInv, BindingTyped
<1> HIDE DEF new
<1>4. /\ rows' \in Seq(Rows) /\ Len(rows') = Len(rows) + 1 /\ Len(rows) \in Nat
      /\ DOMAIN rows = 1..Len(rows) /\ DOMAIN rows' = 1..Len(rows) + 1
      /\ \A r \in DOMAIN rows : rows[r] \in Rows /\ rows'[r] = rows[r]
      /\ rows'[Len(rows) + 1] = new
  BY <1>2, <1>3
<1>5. /\ new.human = proof[i].human /\ new.environment = proof[i].environment
      /\ new.nullifier = <<new.human, "bytes">> /\ new.session = i /\ new.key = config.key
  BY DEF new
<1>6. /\ proofStage' = [proofStage EXCEPT ![i] = "done"]
      /\ answer' = [answer EXCEPT ![i] = result] /\ result \in Binding!Answers
  BY DEF Binding!Answer, Binding!Answers
<1>7. BindingTyped'
  BY <1>4, <1>6 DEF BindingInv, BindingTyped
<1>8. \A j \in Binding!Requests : RequestBound(j)'
  <2> SUFFICES ASSUME NEW j \in Binding!Requests PROVE RequestBound(j)'
    OBVIOUS
  <2>1. RequestBound(j)
    BY DEF BindingInv
  <2>2. \A s : (\E r \in DOMAIN rows : rows[r].session = s)
                 => \E r \in DOMAIN rows' : rows'[r].session = s
    BY <1>4
  <2>3. proofStage'[j] = "done" <=> answer'[j] # None
    BY <1>6, <2>1 DEF BindingInv, BindingTyped, RequestBound
  <2>4. UNCHANGED <<proof, config, restarts>> /\ proofStage[i] # "unused"
    OBVIOUS
  <2>5. proofStage'[j] # "unused" => proofStage[j] # "unused"
    BY <1>6, <2>4 DEF BindingInv, BindingTyped
  <2> QED BY <2>1, <2>2, <2>3, <2>4, <2>5 DEF RequestBound
<1>9. \A r \in DOMAIN rows : rows[r].session # i /\ rows[r].session \in Binding!Requests
  BY <1>1, <1>4 DEF BindingInv, RowBound, Rows, Binding!Answers
<1>10. \A r \in DOMAIN rows' : RowBound(r)'
  <2>1. ASSUME NEW r \in DOMAIN rows PROVE RowBound(r)'
    <3>1. answer'[rows[r].session] = answer[rows[r].session]
      BY <1>6, <1>9
    <3> QED BY <1>4, <3>1 DEF BindingInv, RowBound
  <2>2. ASSUME NEW r, r = Len(rows) + 1 PROVE RowBound(r)'
    <3>1. answer'[i] = result
      BY <1>6 DEF BindingInv, BindingTyped
    <3>2. restarts = 0 => proof[i].environment = config.environment
      BY DEF BindingInv, BindingTyped
    <3> QED BY <1>4, <1>5, <2>2, <3>1, <3>2 DEF RowBound
  <2> QED BY <1>4, <2>1, <2>2
<1>11. Binding!OneRowPerHuman'
  <2>1. \A r \in DOMAIN rows : ~(rows[r].human = new.human /\ rows[r].environment = new.environment)
    BY <1>5 DEF BindingInv, RowBound, Binding!IsTaken, Binding!Taken, Binding!Canonical
  <2> QED BY <1>4, <2>1 DEF BindingInv, Binding!OneRowPerHuman
<1>12. Binding!AnswersAreTrue'
  <2>1. \A j \in Binding!Requests : j # i => answer'[j] = answer[j]
    BY <1>6 DEF BindingInv, BindingTyped
  <2>2. answer'[i] = result
    BY <1>6 DEF BindingInv, BindingTyped
  <2>3. ASSUME NEW j \in Binding!Requests, answer'[j] = "exists"
        PROVE  \E r \in DOMAIN rows' : /\ rows'[r].human = proof'[j].human
                                        /\ rows'[r].environment = proof'[j].environment
                                        /\ rows'[r].session # j
    <3>1. answer[j] = "exists"
      BY <2>1, <2>2, <2>3
    <3>2. PICK r \in DOMAIN rows : /\ rows[r].human = proof[j].human
                                   /\ rows[r].environment = proof[j].environment
                                   /\ rows[r].session # j
      BY <3>1 DEF BindingInv, Binding!AnswersAreTrue
    <3> QED BY <1>4, <3>2
  <2>4. ASSUME NEW j \in Binding!Requests, answer'[j] = "enrolled"
        PROVE  \E r \in DOMAIN rows' : rows'[r].session = j
    <3>1. CASE j = i
      <4>1. Len(rows) + 1 \in DOMAIN rows' /\ rows'[Len(rows) + 1].session = j
        BY <1>4, <1>5, <3>1
      <4> QED BY ONLY <4>1
    <3>2. CASE j # i
      <4>1. PICK r \in DOMAIN rows : rows[r].session = j
        BY <2>1, <2>4, <3>2 DEF BindingInv, Binding!AnswersAreTrue
      <4> QED BY <1>4, <4>1
    <3> QED BY <3>1, <3>2
  <2>5. ASSUME NEW r \in DOMAIN rows'
        PROVE  LET k == rows'[r].session IN
               /\ answer'[k] \in {"enrolled", "internal_error", "lost"}
               /\ proof'[k].kind = "enroll"
               /\ proof'[k].human = rows'[r].human /\ proof'[k].environment = rows'[r].environment
    BY <1>10, <2>5 DEF RowBound
  <2> QED BY <2>3, <2>4, <2>5 DEF Binding!AnswersAreTrue
<1>13. Binding!GivenIsKnown'
  BY <1>6 DEF BindingInv, BindingTyped, Binding!GivenIsKnown
<1> QED BY <1>7, <1>8, <1>10, <1>11, <1>12, <1>13 DEF BindingInv

\* World's verdict on a signup.
LEMMA BindingEnrollKeeps ==
  ASSUME BindingInv, NEW i \in Binding!Requests,
         Binding!EnrollRefused(i) \/ \E done \in 0..Binding!Statements : Binding!Enroll(i, done)
  PROVE  BindingInv'
<1> USE HandlersAssumption DEF Binding!ProofBindingAssumption
<1>1. \A form \in Binding!Forms : Binding!Matches(i, form)
  BY DEF Binding!Matches, Binding!Canonical
<1>2. CASE Binding!EnrollRefused(i)
  <2>1. /\ proofStage[i] = "verifying" /\ Binding!Answer(i, "exists") /\ Binding!IsTaken(i)
        /\ UNCHANGED <<config, restarts, credential, rows, proof, expired>>
    BY <1>1, <1>2 DEF Binding!EnrollRefused, Binding!Verified
  <2>2. PICK r \in DOMAIN rows : Binding!Taken(rows[r], i)
    BY <2>1 DEF Binding!IsTaken
  <2>3. /\ rows[r].human = proof[i].human /\ rows[r].environment = proof[i].environment
        /\ answer[rows[r].session] \in Binding!Answers /\ answer[i] = None
    BY <2>1, <2>2 DEF BindingInv, RowBound, RequestBound, Binding!Taken, Binding!Canonical,
                      Binding!Answers
  <2>4. rows[r].session # i
    BY <2>3
  <2> QED BY <2>1, <2>3, <2>4, BindingAnswerKeeps DEF Binding!Answers
<1>3. ASSUME NEW done \in 0..Binding!Statements, Binding!Enroll(i, done)
      PROVE  BindingInv'
  <2>1. /\ proofStage[i] = "verifying" /\ proof[i].kind = "enroll" /\ ~Binding!IsTaken(i)
        /\ UNCHANGED <<config, restarts, credential, proof, expired>>
        /\ rows' = IF done = 0 THEN rows ELSE Append(rows, Binding!RowOf(i))
    BY <1>3 DEF Binding!Enroll, Binding!Verified
  <2>2. PICK result \in {"lost", IF done = Binding!Statements THEN "enrolled"
                                                          ELSE "internal_error"} :
          Binding!Answer(i, result)
    BY <1>3 DEF Binding!Enroll
  <2>3. CASE done = 0
    <3>1. result \in {"lost", "internal_error"}
      BY <2>2, <2>3 DEF Binding!Statements
    <3> QED BY <2>1, <2>2, <2>3, <3>1, BindingAnswerKeeps DEF Binding!Answers
  <2>4. CASE done # 0
    <3>1. proof[i].environment = config.environment \/ restarts > 0
      BY <2>1 DEF BindingInv, BindingTyped, RequestBound
    <3>2. result \in {"enrolled", "internal_error", "lost"}
      BY <2>2
    <3> QED BY <2>1, <2>2, <2>4, <3>1, <3>2, BindingNewRow
  <2> QED BY <2>3, <2>4
<1> QED BY <1>2, <1>3

\* A restart answers nothing new but "lost".
LEMMA BindingRestartKeeps ==
  ASSUME BindingInv, Binding!Restart
  PROVE  BindingInv'
<1> USE HandlersAssumption DEF Binding!ProofBindingAssumption
<1>1. /\ restarts' = restarts + 1 /\ restarts < MaxRestarts
      /\ config' \in [environment : Environments, key : SessionKeys]
      /\ proofStage' = [i \in Binding!Requests |->
                          IF proofStage[i] = "verifying" THEN "done" ELSE proofStage[i]]
      /\ answer' = [i \in Binding!Requests |->
                          IF proofStage[i] = "verifying" THEN "lost" ELSE answer[i]]
      /\ UNCHANGED <<credential, rows, proof, expired>>
  BY DEF Binding!Restart
<1>2. restarts' \in 1..MaxRestarts
  BY <1>1 DEF BindingInv, BindingTyped
<1>3. BindingTyped'
  BY <1>1, <1>2 DEF BindingInv, BindingTyped, Binding!Answers
<1>4. \A i \in Binding!Requests : RequestBound(i)'
  <2>1. restarts' # 0 /\ "lost" # None
    BY <1>2 DEF Binding!Answers
  <2> QED BY <1>1, <2>1 DEF BindingInv, RequestBound
<1>5. \A i \in Binding!Requests : answer'[i] # "lost" => answer'[i] = answer[i]
  BY <1>1
<1>6. \A i \in Binding!Requests : answer[i] # None => answer'[i] = answer[i]
  BY <1>1 DEF BindingInv, RequestBound
<1>7. None # "enrolled" /\ None # "exists"
  BY DEF Binding!Answers
<1>8. \A r \in DOMAIN rows : RowBound(r)'
  <2>1. \A r \in DOMAIN rows : rows[r].session \in Binding!Requests
    <3>1. rows \in Seq(Rows)
      BY DEF BindingInv, BindingTyped
    <3>2. \A r \in DOMAIN rows : rows[r] \in Rows
      BY <3>1
    <3> QED BY <3>2 DEF Rows
  <2> QED BY <1>1, <1>2, <1>6, <1>7, <2>1 DEF BindingInv, RowBound
<1>9. Binding!AnswersAreTrue'
  <2>1. ASSUME NEW i \in Binding!Requests, answer'[i] \in {"enrolled", "exists"}
        PROVE  answer[i] = answer'[i]
    BY <1>5, <2>1
  <2>2. ASSUME NEW r \in DOMAIN rows
        PROVE  LET k == rows[r].session IN
               /\ answer'[k] \in {"enrolled", "internal_error", "lost"}
               /\ proof'[k].kind = "enroll"
               /\ proof'[k].human = rows[r].human /\ proof'[k].environment = rows[r].environment
    BY <1>1, <1>8, <2>2 DEF RowBound
  <2>3. /\ \A i \in Binding!Requests : answer'[i] = "enrolled" =>
             \E r \in DOMAIN rows : rows[r].session = i
        /\ \A i \in Binding!Requests : answer'[i] = "exists" =>
             \E r \in DOMAIN rows : /\ rows[r].human = proof[i].human
                                    /\ rows[r].environment = proof[i].environment
                                    /\ rows[r].session # i
    BY <2>1 DEF BindingInv, Binding!AnswersAreTrue
  <2> QED BY <1>1, <2>2, <2>3 DEF Binding!AnswersAreTrue
<1>10. Binding!OneRowPerHuman' /\ Binding!GivenIsKnown'
  BY <1>1, <1>2 DEF BindingInv, Binding!OneRowPerHuman, Binding!GivenIsKnown
<1> QED BY <1>1, <1>3, <1>4, <1>8, <1>9, <1>10 DEF BindingInv

\* Every step keeps the invariant, which says what the run checks.
LEMMA BindingStepKeeps ==
  ASSUME BindingInv, [Binding!Next]_(Binding!vars)
  PROVE  BindingInv'
<1>1. ASSUME NEW i \in Binding!Requests, Binding!Handle(i)
      PROVE  BindingInv'
  BY <1>1, BindingHandleKeeps, BindingEnrollKeeps DEF Binding!Handle
<1>2. CASE UNCHANGED Binding!vars
  BY <1>2 DEF Binding!vars, BindingInv, BindingTyped, RequestBound, RowBound, Binding!OneRowPerHuman,
     Binding!AnswersAreTrue, Binding!GivenIsKnown
<1> QED BY <1>1, <1>2, BindingAskKeeps, BindingRestartKeeps DEF Binding!Next

\* The invariant in the words of the run.
LEMMA BindingInvHolds ==
  ASSUME BindingInv
  PROVE  BindingHolds
<1>1. Binding!TypeOK
  <2>1. \A i \in Binding!Requests : IF proofStage[i] = "done" THEN answer[i] \in Binding!Answers
                                                             ELSE answer[i] = None
    BY DEF BindingInv, BindingTyped, RequestBound
  <2> QED BY <2>1 DEF BindingInv, BindingTyped, Binding!TypeOK, Rows, Asked
<1> QED BY <1>1 DEF BindingInv, BindingHolds

-----------------------------------------------------------------------------
(* The presentation demo *)

DemoTyped ==
  /\ demoTime \in 0..MaxDemoTime /\ changes \in 0..MaxChanges
  /\ allowed \subseteq Wallets /\ lastAllowed \in [Wallets -> 0..MaxDemoTime \cup {None}]
  /\ signerMatches \in BOOLEAN /\ policyMatches \in BOOLEAN /\ owner \in Wallets \cup {None}
  /\ bound \in [Wallets -> {None, "demo", "world"}] /\ usedNonce \subseteq Demo!Requests
  /\ issued \subseteq Demo!Grants /\ signed \subseteq issued /\ authorizations \subseteq Demo!Grants
  /\ action \in [Demo!Requests -> {None, "preflight", "authorize"}]
  /\ wallet \in [Demo!Requests -> Wallets \cup {None}]
  /\ challenge \in [Demo!Requests -> Demo!Grants \cup {None}]
  /\ signature \in [Demo!Requests -> Demo!Grants \cup {None}]
  /\ listed \in [Demo!Requests -> BOOLEAN]
  /\ span \in [Demo!Requests -> [began : 0..MaxDemoTime, ended : 0..MaxDemoTime]]
  /\ DOMAIN seen = Demo!Requests
  /\ demoStage \in [Demo!Requests -> {"unused", "reading", "nonce", "sign", "done"}]
  /\ demoOutcome \in [Demo!Requests ->
                        {None, "refused", "ready", "already_linked", "used", "authorized"}]

\* The history of the list: a listed wallet is listed now.
DemoList ==
  /\ \A w \in allowed : lastAllowed[w] = demoTime
  /\ \A w \in Wallets : lastAllowed[w] # None => lastAllowed[w] <= demoTime

\* A request under way has read, or may read, what the chain has now.
DemoReads ==
  \A r \in Demo!Active : \A x \in Demo!Facts :
    Demo!Reads(wallet[r])[x] \in seen[r][x]

\* What a request brings is known to the route, and what it passed stays so
\* until it ends.
DemoRequest(r) ==
  /\ demoStage[r] # "unused" => wallet[r] \in Wallets /\ action[r] \in {"preflight", "authorize"}
  /\ demoStage[r] # "unused" /\ action[r] = "authorize" =>
       challenge[r] \in issued /\ signature[r] \in {None} \cup (signed \cap {challenge[r]})
  /\ demoStage[r] # "unused" /\ listed[r] =>
       lastAllowed[wallet[r]] # None /\ span[r].began <= lastAllowed[wallet[r]]
  /\ demoStage[r] \in {"nonce", "sign"} =>
       /\ action[r] = "authorize" /\ challenge[r] \in signed /\ challenge[r].wallet = wallet[r]
       /\ wallet[r] \notin Reserved /\ listed[r]
       /\ TRUE \in seen[r]["signer"] /\ TRUE \in seen[r]["policy"] /\ TRUE \in seen[r]["owner"]
       /\ None \in seen[r]["binding"]
  /\ demoStage[r] # "done" => demoOutcome[r] = None
  /\ demoOutcome[r] = "used" => bound[wallet[r]] = "demo"

\* A nonce is of one wallet; what is authorized was signed by its wallet, by the clock at
\* the end of a request whose copy of the list had it.
DemoGrants ==
  /\ \A c \in issued : demoStage[c.nonce] = "done" /\ wallet[c.nonce] = c.wallet
  /\ \A n \in usedNonce : demoStage[n] = "done" /\ bound[wallet[n]] = "demo"
  /\ \A a \in authorizations :
       /\ a.wallet \notin Reserved
       /\ \E r \in Demo!Requests :
            /\ wallet[r] = a.wallet /\ demoStage[r] = "done" /\ demoOutcome[r] = "authorized"
            /\ listed[r] /\ a.expiry = span[r].ended + AuthorizationTTL
       /\ \E c \in signed : c.wallet = a.wallet /\ c.nonce = a.nonce

PresentationInv ==
  /\ DemoTyped /\ DemoList /\ DemoReads /\ DemoGrants
  /\ \A r \in Demo!Requests : DemoRequest(r)

\* The bounds and lifetimes are numbers, and None is none of the values.
LEMMA DemoNumbers ==
  /\ MaxDemoTime \in Nat /\ MaxChanges \in Nat /\ ChallengeTTL \in Nat /\ AuthorizationTTL \in Nat
  /\ Reserved \subseteq Wallets /\ None \notin Wallets /\ None \notin Nat /\ None \notin Demo!Grants
  /\ None # "demo" /\ None # "world" /\ None # "used" /\ None # "authorized"
BY HandlersAssumption DEF Demo!DemoAssumption

\* The presentation begins in its invariant.
LEMMA DemoStarts ==
  ASSUME Demo!Init
  PROVE  PresentationInv
<1> USE DemoNumbers
<1>1. 0 \in 0..MaxDemoTime /\ 0 \in 0..MaxChanges
  OBVIOUS
<1>2. DemoTyped
  BY <1>1 DEF Demo!Init, DemoTyped
<1>3. DemoList
  BY DEF Demo!Init, DemoList
<1>4. Demo!Active = {}
  BY DEF Demo!Init, Demo!Active
<1>5. DemoReads /\ DemoGrants
  BY <1>4 DEF Demo!Init, DemoReads, DemoGrants
<1>6. \A r \in Demo!Requests : DemoRequest(r)
  BY DEF Demo!Init, DemoRequest
<1> QED BY <1>2, <1>3, <1>5, <1>6 DEF PresentationInv

\* The history of the list only grows: what it says of a request it says later.
LEMMA DemoLater ==
  ASSUME PresentationInv, NEW r \in Demo!Requests,
         \A w \in Wallets : lastAllowed[w] # None =>
           lastAllowed'[w] # None /\ lastAllowed'[w] >= lastAllowed[w],
         lastAllowed' \in [Wallets -> 0..MaxDemoTime \cup {None}],
         UNCHANGED <<bound, issued, action, wallet, challenge, signature, listed, span, seen,
                     demoStage, demoOutcome>>,
         signed \subseteq signed'
  PROVE  DemoRequest(r)'
<1> USE DemoNumbers
<1>1. DemoRequest(r)
  BY DEF PresentationInv
<1>2. demoStage[r] # "unused" /\ listed[r] =>
        lastAllowed'[wallet[r]] # None /\ span[r].began <= lastAllowed'[wallet[r]]
  <2> SUFFICES ASSUME demoStage[r] # "unused", listed[r]
               PROVE  lastAllowed'[wallet[r]] # None /\ span[r].began <= lastAllowed'[wallet[r]]
    OBVIOUS
  <2>1. /\ wallet[r] \in Wallets /\ lastAllowed[wallet[r]] # None
        /\ span[r].began <= lastAllowed[wallet[r]]
    BY <1>1 DEF DemoRequest
  <2>2. span[r].began \in Nat /\ lastAllowed[wallet[r]] \in Nat
    BY <2>1 DEF PresentationInv, DemoTyped
  <2>3. lastAllowed'[wallet[r]] # None /\ lastAllowed'[wallet[r]] >= lastAllowed[wallet[r]]
    BY <2>1
  <2>4. lastAllowed'[wallet[r]] \in Nat
    BY <2>1, <2>3
  <2> QED BY <2>1, <2>2, <2>3, <2>4
<1> QED BY <1>1, <1>2 DEF DemoRequest

\* The clock moves, whatever is under way.
LEMMA DemoTickKeeps ==
  ASSUME PresentationInv, Demo!Tick
  PROVE  PresentationInv'
<1> USE DemoNumbers
<1>1. /\ demoTime' = demoTime + 1 /\ demoTime \in Nat /\ demoTime' \in 0..MaxDemoTime
      /\ lastAllowed' = [w \in Wallets |-> IF w \in allowed THEN demoTime' ELSE lastAllowed[w]]
      /\ UNCHANGED <<changes, allowed, signerMatches, policyMatches, owner, bound, usedNonce, issued,
                     signed, authorizations, action, wallet, challenge, signature, listed, span,
                     seen, demoStage, demoOutcome>>
  BY DEF Demo!Tick, Demo!chainVars, Demo!requestVars, PresentationInv, DemoTyped
<1>2. /\ \A w \in Wallets : lastAllowed'[w] = IF w \in allowed THEN demoTime' ELSE lastAllowed[w]
      /\ lastAllowed' \in [Wallets -> 0..MaxDemoTime \cup {None}]
  BY <1>1 DEF PresentationInv, DemoTyped
<1>3. DemoTyped'
  BY <1>1, <1>2 DEF PresentationInv, DemoTyped
<1>4. DemoList'
  BY <1>1, <1>2 DEF PresentationInv, DemoTyped, DemoList
<1>5. DemoReads'
  <2>1. \A w : Demo!Reads(w)' = Demo!Reads(w)
    BY <1>1 DEF Demo!Reads
  <2> QED BY <1>1, <2>1 DEF PresentationInv, DemoReads, Demo!Active
<1>6. DemoGrants'
  BY <1>1 DEF PresentationInv, DemoGrants
<1>7. \A w \in Wallets : lastAllowed[w] # None =>
        lastAllowed'[w] # None /\ lastAllowed'[w] >= lastAllowed[w]
  BY <1>1, <1>2 DEF PresentationInv, DemoTyped, DemoList
<1>8. \A r \in Demo!Requests : DemoRequest(r)'
  BY <1>1, <1>2, <1>7, DemoLater
<1> QED BY <1>3, <1>4, <1>5, <1>6, <1>8 DEF PresentationInv

\* The operator edits the list, or a wallet signs.
LEMMA DemoOutsideKeeps ==
  ASSUME PresentationInv,
         \/ \E w \in Wallets : Demo!EditList(w)
         \/ \E c \in issued : Demo!SignChallenge(c)
  PROVE  PresentationInv'
<1> USE DemoNumbers
<1>1. /\ UNCHANGED <<demoTime, signerMatches, policyMatches, owner, bound, usedNonce, issued,
                     authorizations, action, wallet, challenge, signature, listed, span, seen,
                     demoStage, demoOutcome>>
      /\ signed \subseteq signed' /\ demoTime \in 0..MaxDemoTime
  BY DEF Demo!EditList, Demo!SignChallenge, Demo!chainVars, Demo!requestVars, PresentationInv,
     DemoTyped
<1>2. /\ \A w \in Wallets : lastAllowed'[w] = lastAllowed[w] \/ lastAllowed'[w] = demoTime
      /\ \A w \in allowed' : lastAllowed'[w] = demoTime
      /\ DemoTyped'
  <2>1. ASSUME NEW w \in Wallets, Demo!EditList(w)
        PROVE  /\ \A v \in Wallets : lastAllowed'[v] = lastAllowed[v] \/ lastAllowed'[v] = demoTime
               /\ \A v \in allowed' : lastAllowed'[v] = demoTime
               /\ DemoTyped'
    <3>1. /\ lastAllowed' = [lastAllowed EXCEPT ![w] = demoTime] /\ signed' = signed
          /\ allowed' = allowed \cup {w} \/ allowed' = allowed \ {w}
          /\ changes' \in 0..MaxChanges
      BY <2>1 DEF Demo!EditList, Demo!Change, PresentationInv, DemoTyped
    <3> QED BY <1>1, <2>1, <3>1 DEF PresentationInv, DemoTyped, DemoList
  <2>2. ASSUME NEW c \in issued, Demo!SignChallenge(c)
        PROVE  /\ \A v \in Wallets : lastAllowed'[v] = lastAllowed[v] \/ lastAllowed'[v] = demoTime
               /\ \A v \in allowed' : lastAllowed'[v] = demoTime
               /\ DemoTyped'
    BY <1>1, <2>2 DEF Demo!SignChallenge, PresentationInv, DemoTyped, DemoList
  <2> QED BY <2>1, <2>2
<1>3. DemoList'
  BY <1>1, <1>2 DEF PresentationInv, DemoList, DemoTyped
<1>4. DemoReads'
  <2>1. \A w : Demo!Reads(w)' = Demo!Reads(w)
    BY <1>1 DEF Demo!Reads
  <2> QED BY <1>1, <2>1 DEF PresentationInv, DemoReads, Demo!Active
<1>5. DemoGrants'
  BY <1>1 DEF PresentationInv, DemoGrants
<1>6. \A w \in Wallets : lastAllowed[w] # None =>
        lastAllowed'[w] # None /\ lastAllowed'[w] >= lastAllowed[w]
  BY <1>1, <1>2 DEF PresentationInv, DemoTyped, DemoList
<1>7. lastAllowed' \in [Wallets -> 0..MaxDemoTime \cup {None}]
  BY <1>2 DEF DemoTyped
<1>8. UNCHANGED issued
  BY DEF Demo!EditList, Demo!SignChallenge
<1>9. \A r \in Demo!Requests : DemoRequest(r)'
  BY <1>1, <1>6, <1>7, <1>8, DemoLater
<1> QED BY <1>2, <1>3, <1>4, <1>5, <1>9 DEF PresentationInv

\* The chain changes, and what a request may read grows by what is true now.
LEMMA DemoSeeKeeps ==
  ASSUME PresentationInv, Demo!See,
         UNCHANGED <<demoTime, allowed, lastAllowed, issued, signed, authorizations, action, wallet,
                     challenge, signature, listed, span, demoStage, demoOutcome>>,
         changes' \in 0..MaxChanges,
         signerMatches' \in BOOLEAN, policyMatches' \in BOOLEAN, owner' \in Wallets \cup {None},
         bound' \in [Wallets -> {None, "demo", "world"}], usedNonce' \subseteq Demo!Requests,
         \A w \in Wallets : bound[w] = "demo" => bound'[w] = "demo",
         \A n \in usedNonce' : demoStage[n] = "done" /\ bound'[wallet[n]] = "demo"
  PROVE  PresentationInv'
<1> USE DemoNumbers
<1>1. \A r \in Demo!Requests : demoOutcome[r] = "used" => wallet[r] \in Wallets
  BY DEF PresentationInv, DemoRequest, DemoTyped
<1>2. seen' = [r \in Demo!Requests |->
        IF r \in Demo!Active
          THEN [x \in Demo!Facts |-> seen[r][x] \cup {Demo!Reads(wallet[r])'[x]}] ELSE seen[r]]
  BY DEF Demo!See
<1>3. Demo!Active' = Demo!Active /\ Demo!Active \subseteq Demo!Requests
  BY DEF Demo!Active
<1>4. DemoTyped'
  BY <1>2 DEF PresentationInv, DemoTyped
<1>5. DemoList'
  BY DEF PresentationInv, DemoList
<1>6. DemoReads'
  <2>1. ASSUME NEW r \in Demo!Active, NEW x \in Demo!Facts
        PROVE  seen'[r][x] = seen[r][x] \cup {Demo!Reads(wallet[r])'[x]}
    BY <1>2, <1>3
  <2> QED BY <1>3, <2>1 DEF DemoReads
<1>7. DemoGrants'
  BY DEF PresentationInv, DemoGrants
<1>8. ASSUME NEW r \in Demo!Requests
      PROVE  DemoRequest(r)'
  <2>1. DemoRequest(r)
    BY DEF PresentationInv
  <2>2. \A x \in Demo!Facts : seen[r][x] \subseteq seen'[r][x]
    BY <1>2
  <2>3. \A x \in {"signer", "policy", "owner", "binding"} : seen[r][x] \subseteq seen'[r][x]
    BY <2>2 DEF Demo!Facts
  <2> QED BY <1>1, <2>1, <2>3 DEF DemoRequest
<1> QED BY <1>4, <1>5, <1>6, <1>7, <1>8 DEF PresentationInv

\* The owner, the deployer and World flows change the chain.
LEMMA DemoChainKeeps ==
  ASSUME PresentationInv, Demo!ChainChanges
  PROVE  PresentationInv'
<1> USE DemoNumbers
<1>1. /\ UNCHANGED <<demoTime, allowed, lastAllowed, issued, signed, authorizations, action, wallet,
                     challenge, signature, listed, span, demoStage, demoOutcome, usedNonce>>
      /\ Demo!See /\ changes' \in 0..MaxChanges
  BY DEF Demo!ChainChanges, Demo!Change, Demo!requestVars, PresentationInv, DemoTyped
<1>2. /\ signerMatches' \in BOOLEAN /\ policyMatches' \in BOOLEAN /\ owner' \in Wallets \cup {None}
      /\ bound' \in [Wallets -> {None, "demo", "world"}]
  BY DEF Demo!ChainChanges, PresentationInv, DemoTyped
<1>3. \A w \in Wallets : bound[w] = "demo" => bound'[w] = "demo"
  BY DEF Demo!ChainChanges, PresentationInv, DemoTyped
<1>4. \A n \in Demo!Requests : demoStage[n] = "done" => wallet[n] \in Wallets
  BY DEF PresentationInv, DemoRequest
<1>5. /\ usedNonce' \subseteq Demo!Requests
      /\ \A n \in usedNonce' : demoStage[n] = "done" /\ bound'[wallet[n]] = "demo"
  BY <1>1, <1>3, <1>4 DEF PresentationInv, DemoTyped, DemoGrants
<1> QED BY <1>1, <1>2, <1>3, <1>5, DemoSeeKeeps

\* A registration is of the wallet that signed its nonce.
LEMMA DemoRegisterKeeps ==
  ASSUME PresentationInv, NEW a \in authorizations, Demo!Register(a)
  PROVE  PresentationInv'
<1> USE DemoNumbers
<1>1. /\ UNCHANGED <<demoTime, changes, allowed, lastAllowed, signerMatches, policyMatches, owner,
                     issued, signed, authorizations, action, wallet, challenge, signature, listed, span,
                     demoStage, demoOutcome>>
      /\ Demo!See /\ bound' = [bound EXCEPT ![a.wallet] = "demo"]
      /\ usedNonce' = usedNonce \cup {a.nonce}
  BY DEF Demo!Register, Demo!requestVars
<1>2. a.wallet \in Wallets /\ a.nonce \in Demo!Requests
  BY DEF PresentationInv, DemoTyped, Demo!Grants
<1>3. demoStage[a.nonce] = "done" /\ wallet[a.nonce] = a.wallet
  <2>1. PICK c \in signed : c.wallet = a.wallet /\ c.nonce = a.nonce
    BY DEF PresentationInv, DemoGrants
  <2> QED BY <2>1 DEF PresentationInv, DemoTyped, DemoGrants
<1>4. /\ bound' \in [Wallets -> {None, "demo", "world"}]
      /\ \A w \in Wallets : bound[w] = "demo" => bound'[w] = "demo"
      /\ bound'[a.wallet] = "demo"
  BY <1>1, <1>2 DEF PresentationInv, DemoTyped
<1>5. \A n \in Demo!Requests : demoStage[n] = "done" => wallet[n] \in Wallets
  BY DEF PresentationInv, DemoRequest
<1>6. /\ usedNonce' \subseteq Demo!Requests
      /\ \A n \in usedNonce' : demoStage[n] = "done" /\ bound'[wallet[n]] = "demo"
  BY <1>1, <1>2, <1>3, <1>4, <1>5 DEF PresentationInv, DemoTyped, DemoGrants
<1>7. /\ changes' \in 0..MaxChanges /\ signerMatches' \in BOOLEAN /\ policyMatches' \in BOOLEAN
      /\ owner' \in Wallets \cup {None}
  BY <1>1 DEF PresentationInv, DemoTyped
<1> QED BY <1>1, <1>4, <1>6, <1>7, DemoSeeKeeps

\* A request begins, with a challenge that was issued or without one.
LEMMA DemoBeginKeeps ==
  ASSUME PresentationInv, NEW r \in Demo!Requests, NEW w \in Wallets,
         Demo!Preflight(r, w) \/ \E c \in issued : Demo!Authorize(r, w, c)
  PROVE  PresentationInv'
<1> USE DemoNumbers
<1>1. /\ UNCHANGED <<demoTime, changes, allowed, lastAllowed, signerMatches, policyMatches, owner,
                     bound, usedNonce, issued, signed, authorizations, demoOutcome>>
      /\ demoStage[r] = "unused" /\ demoStage' = [demoStage EXCEPT ![r] = "reading"]
      /\ wallet' = [wallet EXCEPT ![r] = w]
      /\ listed' = [listed EXCEPT ![r] = Demo!Listed(w)]
      /\ span' = [span EXCEPT ![r].began = demoTime]
      /\ seen' = [seen EXCEPT ![r] = [x \in Demo!Facts |-> {Demo!Reads(w)[x]}]]
  BY DEF Demo!Preflight, Demo!Authorize, Demo!Begin, Demo!chainVars
<1>2. /\ action' \in [Demo!Requests -> {None, "preflight", "authorize"}]
      /\ challenge' \in [Demo!Requests -> Demo!Grants \cup {None}]
      /\ signature' \in [Demo!Requests -> Demo!Grants \cup {None}]
      /\ \A q \in Demo!Requests \ {r} : /\ action'[q] = action[q] /\ challenge'[q] = challenge[q]
                                        /\ signature'[q] = signature[q]
      /\ action'[r] \in {"preflight", "authorize"}
      /\ action'[r] = "authorize" =>
           challenge'[r] \in issued /\ signature'[r] \in {None} \cup (signed \cap {challenge'[r]})
  <2>1. CASE Demo!Preflight(r, w)
    BY <2>1 DEF Demo!Preflight, PresentationInv, DemoTyped
  <2>2. ASSUME NEW c \in issued, Demo!Authorize(r, w, c)
        PROVE  <1>2!:
    <3>1. /\ action' = [action EXCEPT ![r] = "authorize"] /\ challenge' = [challenge EXCEPT ![r] = c]
          /\ \E x \in {None} \cup (signed \cap {c}) : signature' = [signature EXCEPT ![r] = x]
      BY <2>2 DEF Demo!Authorize
    <3> QED BY <3>1 DEF PresentationInv, DemoTyped
  <2> QED BY <2>1, <2>2
<1>2a. /\ listed' \in [Demo!Requests -> BOOLEAN] /\ listed'[r] = (w \in allowed)
       /\ span' \in [Demo!Requests -> [began : 0..MaxDemoTime, ended : 0..MaxDemoTime]]
       /\ span'[r].began = demoTime
  BY <1>1 DEF PresentationInv, DemoTyped, Demo!Listed
<1>3. DemoTyped'
  <2> HIDE DEF Demo!Listed
  <2> QED BY <1>1, <1>2, <1>2a DEF PresentationInv, DemoTyped
<1>4. DemoList'
  BY <1>1 DEF PresentationInv, DemoList
<1>5. \A q \in Demo!Requests \ {r} :
        /\ wallet'[q] = wallet[q] /\ demoStage'[q] = demoStage[q] /\ seen'[q] = seen[q]
        /\ listed'[q] = listed[q] /\ span'[q] = span[q]
  BY <1>1 DEF PresentationInv, DemoTyped
<1>6. wallet'[r] = w /\ demoStage'[r] = "reading" /\ DOMAIN seen = Demo!Requests
  BY <1>1 DEF PresentationInv, DemoTyped
<1>7. DemoReads'
  <2>1. \A v : Demo!Reads(v)' = Demo!Reads(v)
    BY <1>1 DEF Demo!Reads
  <2>2. ASSUME NEW q \in Demo!Active', NEW x \in Demo!Facts, q = r
        PROVE  Demo!Reads(wallet[q])'[x] \in seen'[q][x]
    <3>1. seen'[r][x] = {Demo!Reads(w)[x]}
      BY <1>1, <1>6
    <3>2. Demo!Reads(wallet[q])'[x] = Demo!Reads(w)[x]
      BY <1>6, <2>1, <2>2
    <3> QED BY <2>2, <3>1, <3>2
  <2>3. ASSUME NEW q \in Demo!Active', NEW x \in Demo!Facts, q # r
        PROVE  Demo!Reads(wallet[q])'[x] \in seen'[q][x]
    BY <1>5, <2>1, <2>3 DEF PresentationInv, DemoReads, Demo!Active
  <2> QED BY <2>2, <2>3 DEF DemoReads
<1>8. DemoGrants'
  <2>1. \A n \in Demo!Requests : demoStage[n] = "done" =>
          /\ demoStage'[n] = "done" /\ wallet'[n] = wallet[n]
          /\ listed'[n] = listed[n] /\ span'[n] = span[n]
    BY <1>1, <1>5
  <2>2. \A c \in issued : c.nonce \in Demo!Requests
    BY DEF PresentationInv, DemoTyped, Demo!Grants
  <2>3. usedNonce \subseteq Demo!Requests
    BY DEF PresentationInv, DemoTyped
  <2> QED BY <1>1, <2>1, <2>2, <2>3 DEF PresentationInv, DemoGrants
<1>9. ASSUME NEW q \in Demo!Requests
      PROVE  DemoRequest(q)'
  <2>1. DemoRequest(q)
    BY DEF PresentationInv
  <2>2. CASE q = r
    <3>1. demoOutcome[r] = None
      BY <1>1, <2>1, <2>2 DEF DemoRequest
    <3>2. listed'[r] => lastAllowed[w] # None /\ demoTime <= lastAllowed[w]
      BY <1>2a DEF PresentationInv, DemoList, DemoTyped
    <3>3. UNCHANGED <<lastAllowed, bound, issued, signed, demoOutcome>>
      BY <1>1
    <3> QED BY ONLY <1>2, <1>2a, <1>6, <2>2, <3>1, <3>2, <3>3, DemoNumbers, w \in Wallets
            DEF DemoRequest
  <2>3. CASE q # r
    <3>1. UNCHANGED <<lastAllowed, bound, issued, signed, demoOutcome>>
      BY <1>1
    <3>2. /\ action'[q] = action[q] /\ challenge'[q] = challenge[q] /\ signature'[q] = signature[q]
          /\ wallet'[q] = wallet[q] /\ demoStage'[q] = demoStage[q] /\ seen'[q] = seen[q]
          /\ listed'[q] = listed[q] /\ span'[q] = span[q]
      BY <1>2, <1>5, <2>3
    <3> QED BY ONLY <2>1, <3>1, <3>2 DEF DemoRequest
  <2> QED BY <2>2, <2>3
<1> QED BY <1>3, <1>4, <1>7, <1>8, <1>9 DEF PresentationInv

\* What ends a request, or takes it further, as far as the others can tell:
\* the request moves on, and a challenge or an authorization may be new.
LEMMA DemoMovesOn ==
  ASSUME PresentationInv, NEW r \in Demo!Requests, demoStage[r] \in {"reading", "nonce", "sign"},
         UNCHANGED <<demoTime, changes, allowed, lastAllowed, signerMatches, policyMatches, owner,
                     bound, usedNonce, signed, action, wallet, challenge, signature, listed, seen>>,
         NEW s \in {"nonce", "sign", "done"}, demoStage' = [demoStage EXCEPT ![r] = s],
         NEW o \in {None, "refused", "ready", "already_linked", "used", "authorized"},
         demoOutcome' = [demoOutcome EXCEPT ![r] = o],
         span' = span \/ span' = [span EXCEPT ![r].ended = demoTime],
         issued \subseteq issued', issued' \subseteq Demo!Grants,
         \A c \in issued' \ issued : s = "done" /\ c.nonce = r /\ c.wallet = wallet[r],
         authorizations' \subseteq Demo!Grants, DemoRequest(r)',
         \A a \in authorizations' \ authorizations :
           /\ a.wallet \notin Reserved
           /\ wallet[r] = a.wallet /\ s = "done" /\ o = "authorized" /\ listed[r]
           /\ a.expiry = span'[r].ended + AuthorizationTTL
           /\ \E c \in signed : c.wallet = a.wallet /\ c.nonce = a.nonce
  PROVE  PresentationInv'
<1> USE DemoNumbers
<1>1. DemoTyped'
  <2>1. demoTime \in 0..MaxDemoTime
    BY DEF PresentationInv, DemoTyped
  <2>2. span' \in [Demo!Requests -> [began : 0..MaxDemoTime, ended : 0..MaxDemoTime]]
    BY <2>1 DEF PresentationInv, DemoTyped
  <2> QED BY <2>2 DEF PresentationInv, DemoTyped
<1>2. DemoList'
  BY DEF PresentationInv, DemoList
<1>3. DemoReads'
  <2>1. \A v : Demo!Reads(v)' = Demo!Reads(v)
    BY DEF Demo!Reads
  <2>2. Demo!Active' \subseteq Demo!Active
    BY DEF Demo!Active, PresentationInv, DemoTyped
  <2> QED BY <2>1, <2>2 DEF PresentationInv, DemoReads
<1>4. \A q \in Demo!Requests \ {r} :
        demoStage'[q] = demoStage[q] /\ demoOutcome'[q] = demoOutcome[q] /\ span'[q] = span[q]
  BY DEF PresentationInv, DemoTyped
<1>5. demoStage'[r] = s /\ demoOutcome'[r] = o
  BY DEF PresentationInv, DemoTyped
<1>6. DemoGrants'
  <2>1. \A n \in Demo!Requests : demoStage[n] = "done" => n # r
    OBVIOUS
  <2>2. \A c \in issued' : c.nonce \in Demo!Requests
    BY DEF PresentationInv, DemoTyped, Demo!Grants
  <2>3. \A c \in issued' : demoStage'[c.nonce] = "done" /\ wallet[c.nonce] = c.wallet
    BY <1>4, <1>5, <2>1, <2>2 DEF PresentationInv, DemoGrants
  <2>4. \A n \in usedNonce : demoStage'[n] = "done" /\ bound[wallet[n]] = "demo"
    BY <1>4, <2>1 DEF PresentationInv, DemoGrants, DemoTyped
  <2>5. ASSUME NEW a \in authorizations'
        PROVE  /\ a.wallet \notin Reserved
               /\ \E q \in Demo!Requests :
                    /\ wallet[q] = a.wallet /\ demoStage'[q] = "done" /\ demoOutcome'[q] = "authorized"
                    /\ listed[q] /\ a.expiry = span'[q].ended + AuthorizationTTL
               /\ \E c \in signed : c.wallet = a.wallet /\ c.nonce = a.nonce
    <3>1. CASE a \in authorizations
      BY <1>4, <2>1, <3>1 DEF PresentationInv, DemoGrants
    <3>2. CASE a \notin authorizations
      BY <1>5, <3>2
    <3> QED BY <3>1, <3>2
  <2> QED BY <2>3, <2>4, <2>5 DEF DemoGrants
<1>7. ASSUME NEW q \in Demo!Requests, q # r
      PROVE  DemoRequest(q)'
  <2>1. DemoRequest(q)
    BY DEF PresentationInv
  <2> QED BY <1>4, <1>7, <2>1 DEF DemoRequest
<1> QED BY <1>1, <1>2, <1>3, <1>6, <1>7 DEF PresentationInv

\* A decision refuses, answers, or goes on to the nonce.
LEMMA DecidesOne ==
  ASSUME PresentationInv, NEW r \in Demo!Requests, Demo!Decide(r)
  PROVE  \/ Demo!End(r, "refused") /\ UNCHANGED issued
         \/ Demo!End(r, "already_linked") /\ UNCHANGED issued
         \/ /\ Demo!End(r, "ready")
            /\ issued' = issued \cup {[wallet |-> wallet[r], nonce |-> Demo!NonceOf(r),
                                       expiry |-> demoTime + ChallengeTTL]}
         \/ \E f \in Demo!Answers(r) :
              /\ Demo!Approved(r, f) /\ action[r] = "authorize" /\ Demo!Acceptable(r)
              /\ f.binding # "demo" /\ UNCHANGED <<issued, demoOutcome, span>>
              /\ demoStage' = [demoStage EXCEPT ![r] = "nonce"]
<1> USE DemoNumbers
<1>1. action[r] \in {"preflight", "authorize"}
  BY DEF Demo!Decide, PresentationInv, DemoRequest
<1>2. \/ Demo!End(r, "refused") /\ UNCHANGED issued
      \/ \E f \in Demo!Answers(r) :
           CASE ~Demo!Approved(r, f) -> Demo!End(r, "refused") /\ UNCHANGED issued
             [] Demo!Approved(r, f) /\ action[r] = "preflight" ->
                  IF f.binding = "demo"
                    THEN Demo!End(r, "already_linked") /\ UNCHANGED issued
                    ELSE /\ Demo!End(r, "ready")
                         /\ issued' = issued \cup {[wallet |-> wallet[r], nonce |-> Demo!NonceOf(r),
                                                    expiry |-> demoTime + ChallengeTTL]}
             [] Demo!Approved(r, f) /\ action[r] = "authorize" ->
                  /\ UNCHANGED issued
                  /\ IF ~Demo!Acceptable(r) THEN Demo!End(r, "refused")
                     ELSE IF f.binding = "demo" THEN Demo!End(r, "already_linked")
                     ELSE demoStage' = [demoStage EXCEPT ![r] = "nonce"] /\ UNCHANGED <<demoOutcome, span>>
  BY DEF Demo!Decide
<1> QED BY <1>1, <1>2

\* A decision is made on facts the request read.
LEMMA DemoDecideKeeps ==
  ASSUME PresentationInv, NEW r \in Demo!Requests, Demo!Decide(r)
  PROVE  PresentationInv'
<1> USE DemoNumbers
<1>1. /\ UNCHANGED <<demoTime, changes, allowed, lastAllowed, signerMatches, policyMatches, owner,
                     bound, usedNonce, signed, authorizations, action, wallet, challenge, signature,
                     listed, seen>>
      /\ demoStage[r] = "reading"
  BY DEF Demo!Decide, Demo!chainVars, Demo!requestVars
<1>2. /\ DemoRequest(r) /\ wallet[r] \in Wallets /\ demoOutcome[r] = None
      /\ action[r] \in {"preflight", "authorize"}
  BY <1>1 DEF PresentationInv, DemoRequest
<1>2a. /\ demoOutcome \in [Demo!Requests ->
                            {None, "refused", "ready", "already_linked", "used", "authorized"}]
      /\ demoStage \in [Demo!Requests -> {"unused", "reading", "nonce", "sign", "done"}]
      /\ demoTime \in Nat /\ authorizations \subseteq Demo!Grants /\ issued \subseteq Demo!Grants
      /\ action[r] \in {None, "preflight", "authorize"}
  BY DEF PresentationInv, DemoTyped
<1>3. ASSUME NEW o \in {"refused", "already_linked", "ready"}, Demo!End(r, o),
             \/ UNCHANGED issued
             \/ issued' = issued \cup {[wallet |-> wallet[r], nonce |-> Demo!NonceOf(r),
                                        expiry |-> demoTime + ChallengeTTL]}
      PROVE  PresentationInv'
  <2>1. /\ demoStage' = [demoStage EXCEPT ![r] = "done"]
        /\ demoOutcome' = [demoOutcome EXCEPT ![r] = o]
        /\ span' = [span EXCEPT ![r].ended = demoTime]
    BY <1>3 DEF Demo!End
  <2>2. [wallet |-> wallet[r], nonce |-> r, expiry |-> demoTime + ChallengeTTL] \in Demo!Grants
    BY <1>2, <1>2a DEF Demo!Grants
  <2>3. /\ issued \subseteq issued' /\ issued' \subseteq Demo!Grants
        /\ \A c \in issued' \ issued : c.nonce = r /\ c.wallet = wallet[r]
    BY <1>2, <1>2a, <1>3, <2>2 DEF Demo!NonceOf
  <2>4. demoStage'[r] = "done" /\ demoOutcome'[r] = o
    BY <1>2, <1>2a, <2>1
  <2>5. span'[r].began = span[r].began
    BY <2>1 DEF PresentationInv, DemoTyped
  <2>6. DemoRequest(r)'
    BY <1>1, <1>2, <1>2a, <2>3, <2>4, <2>5 DEF DemoRequest
  <2> QED BY <1>1, <1>2, <1>2a, <2>1, <2>3, <2>6, DemoMovesOn
<1>4. ASSUME NEW f \in Demo!Answers(r), Demo!Approved(r, f), action[r] = "authorize",
             Demo!Acceptable(r), f.binding # "demo", UNCHANGED <<issued, demoOutcome, span>>,
             demoStage' = [demoStage EXCEPT ![r] = "nonce"]
      PROVE  PresentationInv'
  <2>1. demoOutcome' = [demoOutcome EXCEPT ![r] = None]
    BY <1>2, <1>2a, <1>4
  <2>2. demoStage'[r] = "nonce" /\ demoOutcome'[r] = None
    BY <1>2, <1>2a, <1>4, <2>1
  <2>3. /\ f.signer \in seen[r]["signer"] /\ f.policy \in seen[r]["policy"]
        /\ f.owner \in seen[r]["owner"] /\ f.binding \in seen[r]["binding"]
    BY DEF Demo!Answers
  <2>5. /\ TRUE \in seen[r]["signer"] /\ TRUE \in seen[r]["policy"] /\ TRUE \in seen[r]["owner"]
        /\ None \in seen[r]["binding"]
    BY <1>4, <2>3 DEF Demo!Approved, Demo!Matches
  <2>6. wallet[r] \notin Reserved /\ listed[r]
    BY <1>4 DEF Demo!Approved
  <2>7. challenge[r] \in signed /\ challenge[r].wallet = wallet[r]
    <3>1. /\ challenge[r] \in issued /\ signature[r] = challenge[r]
          /\ signature[r] \in {None} \cup (signed \cap {challenge[r]})
          /\ challenge[r].wallet = wallet[r]
      BY <1>1, <1>2, <1>4 DEF Demo!Acceptable, DemoRequest
    <3>2. challenge[r] # None
      BY <1>2a, <3>1
    <3> QED BY <3>1, <3>2
  <2>8. DemoRequest(r)'
    BY <1>1, <1>2, <1>2a, <1>4, <2>2, <2>5, <2>6, <2>7 DEF DemoRequest
  <2> QED BY <1>1, <1>2, <1>2a, <1>4, <2>1, <2>8, DemoMovesOn
<1> QED BY <1>3, <1>4, DecidesOne

\* The nonce is looked up: a spent one is of the wallet itself.
LEMMA DemoNonceKeeps ==
  ASSUME PresentationInv, NEW r \in Demo!Requests, Demo!ReadNonce(r)
  PROVE  PresentationInv'
<1> USE DemoNumbers
<1>1. /\ UNCHANGED <<demoTime, changes, allowed, lastAllowed, signerMatches, policyMatches, owner,
                     bound, usedNonce, issued, signed, authorizations, action, wallet, challenge,
                     signature, listed, seen>>
      /\ demoStage[r] = "nonce"
  BY DEF Demo!ReadNonce, Demo!chainVars, Demo!requestVars
<1>2. DemoRequest(r) /\ wallet[r] \in Wallets /\ demoOutcome[r] = None
  BY <1>1 DEF PresentationInv, DemoRequest
<1>3. /\ demoOutcome \in [Demo!Requests ->
                            {None, "refused", "ready", "already_linked", "used", "authorized"}]
      /\ demoStage \in [Demo!Requests -> {"unused", "reading", "nonce", "sign", "done"}]
      /\ span \in [Demo!Requests -> [began : 0..MaxDemoTime, ended : 0..MaxDemoTime]]
      /\ authorizations \subseteq Demo!Grants /\ issued \subseteq Demo!Grants
  BY DEF PresentationInv, DemoTyped
<1>4. challenge[r] \in issued /\ challenge[r].wallet = wallet[r]
  BY <1>1, <1>2 DEF DemoRequest
<1>5. challenge[r].nonce \in usedNonce => bound[wallet[r]] = "demo"
  BY <1>4 DEF PresentationInv, DemoGrants
<1>6. PICK o \in {None, "refused", "used"}, s \in {"sign", "done"} :
        /\ demoStage' = [demoStage EXCEPT ![r] = s] /\ demoOutcome' = [demoOutcome EXCEPT ![r] = o]
        /\ span' = span \/ span' = [span EXCEPT ![r].ended = demoTime]
        /\ o = "used" => challenge[r].nonce \in usedNonce
        /\ s = "sign" => o = None
  <2>1. demoOutcome = [demoOutcome EXCEPT ![r] = None]
    BY <1>2, <1>3
  <2> QED BY <2>1 DEF Demo!ReadNonce, Demo!End
<1>7. demoStage'[r] = s /\ demoOutcome'[r] = o /\ span'[r].began = span[r].began
  BY <1>2, <1>3, <1>6
<1>8. DemoRequest(r)'
  BY <1>1, <1>2, <1>5, <1>6, <1>7 DEF DemoRequest
<1> QED BY <1>1, <1>2, <1>3, <1>6, <1>8, DemoMovesOn

\* An authorization is of a wallet that signed a challenge and was on the list
\* the request copied.
LEMMA DemoSignKeeps ==
  ASSUME PresentationInv, NEW r \in Demo!Requests, Demo!Sign(r)
  PROVE  PresentationInv'
<1> USE DemoNumbers
<1>1. /\ UNCHANGED <<demoTime, changes, allowed, lastAllowed, signerMatches, policyMatches, owner,
                     bound, usedNonce, issued, signed, action, wallet, challenge, signature, listed,
                     seen>>
      /\ demoStage[r] = "sign"
      /\ demoStage' = [demoStage EXCEPT ![r] = "done"]
      /\ demoOutcome' = [demoOutcome EXCEPT ![r] = "authorized"]
      /\ span' = [span EXCEPT ![r].ended = demoTime]
      /\ authorizations' = authorizations \cup {[wallet |-> wallet[r],
           nonce |-> challenge[r].nonce, expiry |-> demoTime + AuthorizationTTL]}
  BY DEF Demo!Sign, Demo!End, Demo!chainVars, Demo!requestVars
<1>2. DemoRequest(r) /\ wallet[r] \in Wallets
  BY <1>1 DEF PresentationInv, DemoRequest
<1>3. /\ demoOutcome \in [Demo!Requests ->
                            {None, "refused", "ready", "already_linked", "used", "authorized"}]
      /\ demoStage \in [Demo!Requests -> {"unused", "reading", "nonce", "sign", "done"}]
      /\ span \in [Demo!Requests -> [began : 0..MaxDemoTime, ended : 0..MaxDemoTime]]
      /\ demoTime \in Nat /\ authorizations \subseteq Demo!Grants /\ issued \subseteq Demo!Grants
  BY DEF PresentationInv, DemoTyped
<1>4. /\ challenge[r] \in issued /\ challenge[r] \in signed /\ challenge[r].wallet = wallet[r]
      /\ challenge[r].nonce \in Demo!Requests /\ wallet[r] \notin Reserved /\ listed[r]
  BY <1>1, <1>2, <1>3 DEF DemoRequest, Demo!Grants
<1>5. /\ demoStage'[r] = "done" /\ demoOutcome'[r] = "authorized"
      /\ span'[r].began = span[r].began /\ span'[r].ended = demoTime
  BY <1>1, <1>3
<1>6. DemoRequest(r)'
  BY <1>1, <1>2, <1>5 DEF DemoRequest
<1>7. [wallet |-> wallet[r], nonce |-> challenge[r].nonce, expiry |-> demoTime + AuthorizationTTL]
         \in Demo!Grants
  BY <1>2, <1>3, <1>4 DEF Demo!Grants
<1>8. authorizations' \subseteq Demo!Grants
  BY <1>1, <1>3, <1>7
<1>9. ASSUME NEW a \in authorizations' \ authorizations
       PROVE  /\ a.wallet \notin Reserved
              /\ wallet[r] = a.wallet /\ "done" = "done" /\ "authorized" = "authorized" /\ listed[r]
              /\ a.expiry = span'[r].ended + AuthorizationTTL
              /\ \E c \in signed : c.wallet = a.wallet /\ c.nonce = a.nonce
  <2>1. a.wallet = wallet[r] /\ a.nonce = challenge[r].nonce /\ a.expiry = demoTime + AuthorizationTTL
    BY <1>1
  <2> QED BY <1>4, <1>5, <2>1
<1>10. issued \subseteq issued' /\ issued' \subseteq Demo!Grants /\ issued' \ issued = {}
  BY <1>1, <1>3
<1> QED BY <1>1, <1>6, <1>8, <1>9, <1>10, DemoMovesOn

\* Every step of the presentation keeps its invariant.
LEMMA DemoStepKeeps ==
  ASSUME PresentationInv, [Demo!Next]_(Demo!vars)
  PROVE  PresentationInv'
<1>1. ASSUME NEW r \in Demo!Requests,
             \/ \E w \in Wallets :
                  Demo!Preflight(r, w) \/ \E c \in issued : Demo!Authorize(r, w, c)
             \/ Demo!Decide(r) \/ Demo!ReadNonce(r) \/ Demo!Sign(r)
      PROVE  PresentationInv'
  BY <1>1, DemoBeginKeeps, DemoDecideKeeps, DemoNonceKeeps, DemoSignKeeps
<1>2. CASE UNCHANGED Demo!vars
  <2>1. UNCHANGED <<demoTime, changes, allowed, lastAllowed, signerMatches, policyMatches, owner,
                    bound, usedNonce, issued, signed, authorizations, action, wallet, challenge,
                    signature, listed, span, seen, demoStage, demoOutcome>>
    BY <1>2 DEF Demo!vars, Demo!chainVars, Demo!requestVars
  <2>2. DemoTyped' /\ DemoList'
    BY <2>1 DEF PresentationInv, DemoTyped, DemoList
  <2>3. DemoReads'
    <3>1. \A w : Demo!Reads(w)' = Demo!Reads(w)
      BY <2>1 DEF Demo!Reads
    <3> QED BY <2>1, <3>1 DEF PresentationInv, DemoReads, Demo!Active
  <2>4. DemoGrants'
    BY <2>1 DEF PresentationInv, DemoGrants
  <2>5. ASSUME NEW r \in Demo!Requests
        PROVE  DemoRequest(r)'
    BY <2>1 DEF PresentationInv, DemoRequest
  <2> QED BY <2>2, <2>3, <2>4, <2>5 DEF PresentationInv
<1> QED
  BY <1>1, <1>2, DemoTickKeeps, DemoOutsideKeeps, DemoChainKeeps, DemoRegisterKeeps DEF Demo!Next

\* Only a registration binds a wallet to the demo, within one lifetime of the end of the
\* request that signed its authorization, and the wallet was listed as that began.
LEMMA BoundWhileListed ==
  ASSUME PresentationInv, Demo!Next, NEW w \in Wallets, bound[w] = None, bound'[w] = "demo"
  PROVE  /\ w \notin Reserved /\ lastAllowed[w] # None
         /\ \E r \in Demo!Requests :
              /\ wallet[r] = w /\ demoOutcome[r] = "authorized"
              /\ span[r].began <= lastAllowed[w]
              /\ demoTime <= span[r].ended + AuthorizationTTL
<1> USE DemoNumbers
<1>1. bound \in [Wallets -> {None, "demo", "world"}] /\ bound' # bound
  BY DEF PresentationInv, DemoTyped
<1>2. ~Demo!ChainChanges
  BY <1>1 DEF Demo!ChainChanges
<1>3. ~Demo!Tick /\ ~(\E v \in Wallets : Demo!EditList(v)) /\ ~(\E c \in issued : Demo!SignChallenge(c))
  BY <1>1 DEF Demo!Tick, Demo!EditList, Demo!SignChallenge, Demo!chainVars
<1>4. ASSUME NEW r \in Demo!Requests
      PROVE  /\ ~(\E v \in Wallets : Demo!Preflight(r, v) \/ \E c \in issued : Demo!Authorize(r, v, c))
             /\ ~Demo!Decide(r) /\ ~Demo!ReadNonce(r) /\ ~Demo!Sign(r)
  <2>1. ~(\E v \in Wallets : Demo!Preflight(r, v) \/ \E c \in issued : Demo!Authorize(r, v, c))
    BY <1>1 DEF Demo!Preflight, Demo!Authorize, Demo!Begin, Demo!chainVars
  <2>2. ~Demo!Decide(r)
    BY <1>1 DEF Demo!Decide, Demo!chainVars
  <2>3. ~Demo!ReadNonce(r) /\ ~Demo!Sign(r)
    BY <1>1 DEF Demo!ReadNonce, Demo!Sign, Demo!chainVars
  <2> QED BY <2>1, <2>2, <2>3
<1>5. PICK a \in authorizations : Demo!Register(a)
  BY <1>2, <1>3, <1>4 DEF Demo!Next
<1>6. a.wallet = w /\ a.expiry >= demoTime
  BY <1>1, <1>5 DEF Demo!Register
<1>7. w \notin Reserved
  BY <1>6 DEF PresentationInv, DemoGrants
<1>8. PICK r \in Demo!Requests :
        /\ wallet[r] = w /\ demoStage[r] = "done" /\ demoOutcome[r] = "authorized" /\ listed[r]
        /\ a.expiry = span[r].ended + AuthorizationTTL
  BY <1>6 DEF PresentationInv, DemoGrants
<1>9. lastAllowed[w] # None /\ span[r].began <= lastAllowed[w]
  BY <1>8 DEF PresentationInv, DemoRequest
<1> QED BY <1>6, <1>7, <1>8, <1>9

\* A request that met no change is authorized on what the chain has.
LEMMA AuthorizedAsRead ==
  ASSUME PresentationInv, Demo!Next, NEW r \in Demo!Requests,
         demoOutcome[r] = None, demoOutcome'[r] = "authorized",
         Demo!MetNoChange(r)
  PROVE  /\ signerMatches /\ policyMatches /\ owner # wallet[r] /\ bound[wallet[r]] = None
         /\ challenge[r].nonce \notin usedNonce
<1> USE DemoNumbers
<1>1. /\ demoOutcome \in [Demo!Requests ->
                             {None, "refused", "ready", "already_linked", "used", "authorized"}]
      /\ demoOutcome' # demoOutcome
  BY DEF PresentationInv, DemoTyped
<1>2. /\ ~Demo!ChainChanges /\ ~Demo!Tick /\ ~(\E v \in Wallets : Demo!EditList(v))
      /\ ~(\E c \in issued : Demo!SignChallenge(c)) /\ ~(\E a \in authorizations : Demo!Register(a))
  BY <1>1 DEF Demo!Tick, Demo!EditList, Demo!SignChallenge, Demo!ChainChanges, Demo!Register
<1>3. ~(\E q \in Demo!Requests, v \in Wallets :
          Demo!Preflight(q, v) \/ \E c \in issued : Demo!Authorize(q, v, c))
  BY <1>1 DEF Demo!Preflight, Demo!Authorize, Demo!Begin
<1>4. ~(\E q \in Demo!Requests : Demo!Decide(q))
  <2> SUFFICES ASSUME NEW q \in Demo!Requests, Demo!Decide(q) PROVE FALSE
    OBVIOUS
  <2> QED BY <1>1, DecidesOne DEF Demo!End
<1>4a. ~(\E q \in Demo!Requests : Demo!ReadNonce(q))
  BY <1>1 DEF Demo!ReadNonce, Demo!End
<1>5. PICK q \in Demo!Requests : Demo!Sign(q)
  BY <1>2, <1>3, <1>4, <1>4a DEF Demo!Next
<1>6. q = r /\ demoStage[r] = "sign"
  BY <1>1, <1>5 DEF Demo!Sign, Demo!End
<1>7. /\ TRUE \in seen[r]["signer"] /\ TRUE \in seen[r]["policy"] /\ TRUE \in seen[r]["owner"]
      /\ None \in seen[r]["binding"]
  BY <1>6 DEF PresentationInv, DemoRequest
<1>8. \A x \in Demo!Facts : Demo!Reads(wallet[r])[x] \in seen[r][x]
  BY <1>6 DEF PresentationInv, DemoReads, Demo!Active
<1>9. \A x \in Demo!Facts : \A y \in seen[r][x] : y = Demo!Reads(wallet[r])[x]
  BY <1>8 DEF Demo!MetNoChange
<1>10. {"signer", "policy", "owner", "binding"} = Demo!Facts
  BY DEF Demo!Facts
<1>11. /\ TRUE = Demo!Reads(wallet[r])["signer"] /\ TRUE = Demo!Reads(wallet[r])["policy"]
       /\ TRUE = Demo!Reads(wallet[r])["owner"] /\ None = Demo!Reads(wallet[r])["binding"]
  BY <1>7, <1>9, <1>10
<1>12. /\ Demo!Reads(wallet[r])["signer"] = signerMatches
       /\ Demo!Reads(wallet[r])["policy"] = policyMatches
       /\ Demo!Reads(wallet[r])["owner"] = (owner # wallet[r])
       /\ Demo!Reads(wallet[r])["binding"] = bound[wallet[r]]
  BY DEF Demo!Reads, Demo!Facts
<1>13. challenge[r].nonce \in usedNonce => bound[wallet[r]] = "demo"
  <2>1. challenge[r] \in issued /\ challenge[r].wallet = wallet[r]
    BY <1>6 DEF PresentationInv, DemoRequest
  <2> QED BY <2>1 DEF PresentationInv, DemoGrants
<1> QED BY <1>11, <1>12, <1>13

\* What the invariant says to a reader.
LEMMA DemoTells ==
  PresentationInv => Demo!TypeOK /\ Demo!UsedIsLinked
<1> SUFFICES ASSUME PresentationInv PROVE Demo!TypeOK /\ Demo!UsedIsLinked
  OBVIOUS
<1>1. Demo!TypeOK
  BY DEF PresentationInv, DemoTyped, DemoGrants, Demo!TypeOK
<1>2. Demo!UsedIsLinked
  BY DEF PresentationInv, DemoRequest, Demo!UsedIsLinked
<1> QED BY <1>1, <1>2

-----------------------------------------------------------------------------
(* The guided demo *)

Chains ==
  [spent : [Box!Spenders -> 0..DemoCap], allowance : [Box!Payers -> Nat],
   approved : SUBSET Box!Requests, bought : SUBSET Box!Requests, reverted : SUBSET Box!Requests]

BuyStages   == {"approve", "approving", "buy", "buying", "confirmed", "failed", "asking"}
ResetStages == {"read", "revert", "snapshot", "seed", "write"}

BoxTyped ==
  /\ chain \in Chains /\ nextId \in Nat
  /\ DOMAIN snaps \subseteq 0..(nextId - 1) /\ file \in 0..(nextId - 1)
  /\ \A i \in DOMAIN snaps : snaps[i] \in Chains
  /\ op \in [Box!Requests -> Ops \cup {None}]
  /\ boxStage \in [Box!Requests -> BuyStages \cup ResetStages \cup {"unused", "done", "dead"}]
  /\ id \in [Box!Requests -> Nat \cup {None}]
  /\ before \in [Box!Requests -> 0..DemoCap \cup {None}]
  /\ reading \in [Box!Requests -> [spent : 0..DemoCap, remaining : 0..DemoCap] \cup {None}]
  /\ boxOutcome \in [Box!Requests -> {None, "confirmed", "rejected", "failed", "reset", "error"}]
  /\ met \in [Box!Requests -> SUBSET Box!Requests] /\ resets \subseteq Box!Requests
  /\ seeded \subseteq Box!Requests /\ torn \in BOOLEAN /\ crashes \in 0..MaxCrashes

\* A request is at a stage of what it asks for.
BoxRequest(r) ==
  /\ boxStage[r] \in BuyStages => op[r] \in Buys /\ before[r] \in 0..DemoCap
  /\ boxStage[r] \in ResetStages => op[r] \in {"reset", "journey"}
  /\ boxStage[r] = "seed" => op[r] = "journey"
  /\ boxStage[r] \in {"revert", "snapshot", "write"} => id[r] \in 0..(nextId - 1)
  /\ boxStage[r] = "done" /\ op[r] \in Buys => before[r] \in 0..DemoCap
  /\ boxStage[r] # "done" => boxOutcome[r] = None
  /\ boxStage[r] = "unused" => met[r] = {}

\* Requests under way together have met.
BoxMet ==
  /\ \A r, q \in Box!Active : r # q => q \in met[r]
  /\ \A r \in Box!Requests : \A q \in met[r] : boxStage[q] # "unused"

\* No chain knows a purchase that was not sent, and each knows one outcome of it.
Unsent(c, r) == r \notin c.bought /\ r \notin c.reverted

BoxMined(r) ==
  /\ boxStage[r] \in {"unused", "approve", "approving", "buy"} =>
       Unsent(chain, r) /\ \A i \in DOMAIN snaps : Unsent(snaps[i], r)
  /\ ~(r \in chain.bought /\ r \in chain.reverted)
  /\ \A i \in DOMAIN snaps : ~(r \in snaps[i].bought /\ r \in snaps[i].reverted)

SpentOf(r) == chain.spent[Human[op[r]]]

\* What a request found spent stays spent unless the chain is taken back, and
\* its own purchase comes on top.
BoxConfirmed(r) ==
  /\ boxStage[r] \in {"approve", "approving", "buy", "buying"} => SpentOf(r) >= before[r]
  /\ \/ boxStage[r] = "buying" /\ r \in chain.bought
     \/ boxStage[r] = "confirmed"
     => SpentOf(r) >= before[r] + Amount[op[r]]
  /\ boxOutcome[r] = "confirmed" => reading[r].spent >= before[r] + Amount[op[r]]

BoxFits(r) == Amount[op[r]] <= DemoCap - before[r]

\* A request that met no other finds the chain as it left it.
BoxJourney(r) ==
  /\ boxStage[r] \in {"approve", "approving", "buy"} => SpentOf(r) = before[r]
  /\ boxStage[r] = "approving" => r \in chain.approved
  /\ boxStage[r] \in {"approving", "buy"} => chain.allowance[Wallet[op[r]]] = Amount[op[r]]
  /\ boxStage[r] = "buying" =>
       IF BoxFits(r) THEN r \in chain.bought ELSE r \in chain.reverted /\ r \notin chain.bought
  /\ boxStage[r] = "confirmed" => BoxFits(r)
  /\ boxStage[r] \in {"failed", "asking"} => ~BoxFits(r)
  /\ boxStage[r] \in {"buying", "confirmed", "failed", "asking"} =>
       SpentOf(r) = before[r] + IF BoxFits(r) THEN Amount[op[r]] ELSE 0
  /\ boxStage[r] = "asking" =>
       reading[r] = [spent |-> before[r], remaining |-> DemoCap - before[r]]
  /\ boxStage[r] = "done" /\ op[r] \in Buys =>
       LET spent == before[r] + IF BoxFits(r) THEN Amount[op[r]] ELSE 0
       IN  /\ boxOutcome[r] = (IF BoxFits(r) THEN "confirmed" ELSE "rejected")
           /\ reading[r] = [spent |-> spent, remaining |-> DemoCap - spent]

\* A purchase in a snapshot met a reset, or was there when the journey seeded.
MetReset(r) == \E q \in met[r] : op[q] \in {"reset", "journey"}

CleanChain(c) == \A r \in c.bought \ seeded : MetReset(r)

BoxClean ==
  /\ \A i \in DOMAIN snaps : CleanChain(snaps[i])
  /\ (\E r \in Box!Requests : boxStage[r] = "snapshot") => CleanChain(chain)

\* A journey that met no reset has its own snapshot still.
BoxAlone ==
  \A r \in Box!Requests : boxStage[r] = "write" /\ Box!MetPurchases(r) => id[r] \in DOMAIN snaps

\* Unless the file is torn: no reset runs beside the journey,
BoxApart ==
  \A r, q \in Box!Active : r # q /\ op[r] = "journey" => op[q] \notin {"reset", "journey"}

\* and of the ids around at most one is live: the file's, or that of the one
\* reset which has taken its snapshot and not written it.
BoxRestart ==
  /\ \A r, q \in Box!Requests :
       boxStage[r] \in {"snapshot", "write"} /\ boxStage[q] \in {"snapshot", "write"} => r = q
  /\ \A r \in Box!Requests :
       /\ boxStage[r] # "seed"
       /\ boxStage[r] \in {"snapshot", "write"} =>
            /\ file \notin DOMAIN snaps
            /\ \A q \in Box!Requests : boxStage[q] = "revert" => id[q] \notin DOMAIN snaps
       /\ boxStage[r] = "write" => id[r] \in DOMAIN snaps
       /\ boxStage[r] = "revert" /\ op[r] = "journey" => id[r] = file
  /\ (\A r \in Box!Requests : boxStage[r] \notin {"snapshot", "write"}) =>
       /\ file \in DOMAIN snaps
       /\ \A q \in Box!Requests : boxStage[q] = "revert" /\ id[q] \in DOMAIN snaps => id[q] = file

BoxInv ==
  /\ BoxTyped
  /\ \A r \in Box!Requests : BoxRequest(r)
  /\ BoxMet
  /\ \A r \in Box!Requests : BoxMined(r)
  /\ \A r \in Box!Requests \ resets : BoxConfirmed(r)
  /\ \A r \in Box!Requests : met[r] = {} => BoxJourney(r)
  /\ BoxClean /\ BoxAlone
  /\ ~torn => BoxApart /\ BoxRestart

\* The demo begins in its invariant.
LEMMA BoxStarts ==
  ASSUME Box!Init
  PROVE  BoxInv
<1> USE HandlersAssumption DEF Box!SandboxAssumption
<1>1. 0 \in 0..DemoCap /\ 0 \in 0..MaxCrashes
  OBVIOUS
<1>2. Box!Fresh \in Chains
  BY <1>1 DEF Box!Fresh, Chains
<1>3. BoxTyped
  <2>1. /\ DOMAIN snaps \subseteq 0..(nextId - 1) /\ file \in 0..(nextId - 1) /\ nextId \in Nat
        /\ chain \in Chains /\ \A i \in DOMAIN snaps : snaps[i] \in Chains
    BY <1>2 DEF Box!Init
  <2>2. /\ boxStage \in [Box!Requests -> BuyStages \cup ResetStages \cup {"unused", "done", "dead"}]
        /\ op \in [Box!Requests -> Ops \cup {None}] /\ id \in [Box!Requests -> Nat \cup {None}]
        /\ met \in [Box!Requests -> SUBSET Box!Requests]
    BY DEF Box!Init
  <2>3. /\ before \in [Box!Requests -> 0..DemoCap \cup {None}]
        /\ reading \in [Box!Requests -> [spent : 0..DemoCap, remaining : 0..DemoCap] \cup {None}]
        /\ boxOutcome \in [Box!Requests -> {None, "confirmed", "rejected", "failed", "reset", "error"}]
    BY DEF Box!Init
  <2>4. /\ resets \subseteq Box!Requests /\ seeded \subseteq Box!Requests /\ torn \in BOOLEAN
        /\ crashes \in 0..MaxCrashes
    BY <1>1 DEF Box!Init
  <2> QED BY <2>1, <2>2, <2>3, <2>4 DEF BoxTyped
<1>4. \A r \in Box!Requests : boxStage[r] = "unused" /\ boxOutcome[r] = None /\ op[r] = None
  BY DEF Box!Init
<1>5. \A r \in Box!Requests : BoxRequest(r) /\ BoxConfirmed(r) /\ BoxJourney(r)
  BY <1>4 DEF Box!Init, BoxRequest, BuyStages, ResetStages, BoxConfirmed, BoxJourney
<1>6. BoxMet
  BY <1>4 DEF Box!Init, BoxMet, Box!Active
<1>7. \A r \in Box!Requests : BoxMined(r)
  BY DEF Box!Init, Box!Fresh, BoxMined, Unsent
<1>8. BoxApart /\ BoxRestart
  BY <1>4 DEF Box!Init, BoxApart, BoxRestart, Box!Active
<1>9. BoxClean /\ BoxAlone
  BY <1>4 DEF Box!Init, Box!Fresh, BoxClean, BoxAlone, CleanChain
<1> QED BY <1>3, <1>5, <1>6, <1>7, <1>8, <1>9 DEF BoxInv

\* The steps of a request under way.
BoxAct(r) ==
  \/ Box!SendApproval(r) \/ Box!ApprovalReceipt(r) \/ Box!SendPurchase(r)
  \/ Box!PurchaseReceipt(r) \/ Box!ReadAfter(r) \/ Box!AskReason(r)
  \/ Box!ReadFile(r) \/ Box!EvmRevert(r) \/ Box!EvmSnapshot(r) \/ Box!WriteFile(r)
  \/ Box!Crash(r)

\* Such a step touches no other request, and no history of any but `resets'.
LEMMA BoxFrame ==
  ASSUME BoxTyped, NEW r \in Box!Requests, BoxAct(r)
  PROVE  /\ UNCHANGED <<op, before, met>> /\ r \in Box!Active
         /\ \A q \in Box!Requests : q # r =>
              /\ boxStage'[q] = boxStage[q] /\ boxOutcome'[q] = boxOutcome[q]
              /\ id'[q] = id[q] /\ reading'[q] = reading[q]
<1> USE DEF BoxTyped, Box!requestVars, Box!histories, Box!GoOn, Box!End, Box!Active, Box!Done
<1>1. CASE Box!SendApproval(r)
  BY <1>1 DEF Box!SendApproval
<1>2. CASE Box!ApprovalReceipt(r)
  BY <1>2 DEF Box!ApprovalReceipt
<1>3. CASE Box!SendPurchase(r)
  BY <1>3 DEF Box!SendPurchase
<1>4. CASE Box!PurchaseReceipt(r)
  BY <1>4 DEF Box!PurchaseReceipt
<1>5. CASE Box!ReadAfter(r)
  BY <1>5 DEF Box!ReadAfter
<1>6. CASE Box!AskReason(r)
  BY <1>6 DEF Box!AskReason
<1>7. CASE Box!ReadFile(r)
  BY <1>7 DEF Box!ReadFile
<1>8. CASE Box!EvmRevert(r)
  BY <1>8 DEF Box!EvmRevert
<1>9. CASE Box!EvmSnapshot(r)
  BY <1>9 DEF Box!EvmSnapshot
<1>10. CASE Box!WriteFile(r)
  BY <1>10 DEF Box!WriteFile
<1>11. CASE Box!Crash(r)
  BY <1>11 DEF Box!Crash
<1> QED BY <1>1, <1>2, <1>3, <1>4, <1>5, <1>6, <1>7, <1>8, <1>9, <1>10, <1>11 DEF BoxAct

\* The figures of a purchase are in the types of the chain.
LEMMA BoxFigures ==
  ASSUME BoxTyped, NEW r \in Box!Requests, op[r] \in Buys
  PROVE  /\ Amount[op[r]] \in Nat \ {0} /\ Human[op[r]] \in Box!Spenders
         /\ Wallet[op[r]] \in Box!Payers /\ DemoCap \in Nat
         /\ SpentOf(r) \in 0..DemoCap /\ Box!Reading(r) \in [spent : 0..DemoCap, remaining : 0..DemoCap]
<1>1. DemoCap \in Nat /\ Amount \in [Buys -> Nat \ {0}]
  BY HandlersAssumption DEF Box!SandboxAssumption
<1>2. Human[op[r]] \in Box!Spenders /\ Wallet[op[r]] \in Box!Payers
  BY DEF Box!Spenders, Box!Payers
<1>3. SpentOf(r) \in 0..DemoCap
  BY <1>2 DEF BoxTyped, Chains, SpentOf
<1>4. DemoCap - SpentOf(r) \in 0..DemoCap
  BY <1>1, <1>3
<1> QED BY <1>1, <1>2, <1>3, <1>4 DEF Box!Reading, Box!remaining, SpentOf

\* What each transaction does to the chain.
LEMMA BoxMines ==
  ASSUME BoxTyped, NEW r \in Box!Requests, BoxRequest(r)
  PROVE  /\ Box!SendApproval(r) =>
              /\ chain' \in Chains /\ op[r] \in Buys
              /\ chain'.spent = chain.spent /\ chain'.bought = chain.bought
              /\ chain'.reverted = chain.reverted /\ chain'.approved = chain.approved \cup {r}
              /\ chain'.allowance[Wallet[op[r]]] = Amount[op[r]]
         /\ Box!SendPurchase(r) =>
              /\ chain' \in Chains /\ op[r] \in Buys
              /\ IF Box!WithinCap(op[r]) /\ Box!Covered(op[r])
                 THEN /\ chain'.bought = chain.bought \cup {r} /\ chain'.reverted = chain.reverted
                      /\ chain'.spent = [chain.spent EXCEPT ![Human[op[r]]] = @ + Amount[op[r]]]
                 ELSE /\ chain'.bought = chain.bought /\ chain'.reverted = chain.reverted \cup {r}
                      /\ chain'.spent = chain.spent
<1>1. ASSUME Box!SendApproval(r)
      PROVE  /\ chain' \in Chains /\ op[r] \in Buys
             /\ chain'.spent = chain.spent /\ chain'.bought = chain.bought
             /\ chain'.reverted = chain.reverted /\ chain'.approved = chain.approved \cup {r}
             /\ chain'.allowance[Wallet[op[r]]] = Amount[op[r]]
  <2>1. op[r] \in Buys
    BY <1>1 DEF Box!SendApproval, BoxRequest, BuyStages
  <2>2. chain' = [chain EXCEPT !.allowance[Wallet[op[r]]] = Amount[op[r]], !.approved = @ \cup {r}]
    BY <1>1 DEF Box!SendApproval
  <2> QED BY <2>1, <2>2, BoxFigures DEF BoxTyped, Chains
<1>2. ASSUME Box!SendPurchase(r)
      PROVE  /\ chain' \in Chains /\ op[r] \in Buys
             /\ IF Box!WithinCap(op[r]) /\ Box!Covered(op[r])
                THEN /\ chain'.bought = chain.bought \cup {r} /\ chain'.reverted = chain.reverted
                     /\ chain'.spent = [chain.spent EXCEPT ![Human[op[r]]] = @ + Amount[op[r]]]
                ELSE /\ chain'.bought = chain.bought /\ chain'.reverted = chain.reverted \cup {r}
                     /\ chain'.spent = chain.spent
  <2>1. op[r] \in Buys
    BY <1>2 DEF Box!SendPurchase, BoxRequest, BuyStages
  <2>2. CASE Box!WithinCap(op[r]) /\ Box!Covered(op[r])
    <3>1. chain' = [chain EXCEPT !.spent[Human[op[r]]] = @ + Amount[op[r]],
                                 !.allowance[Wallet[op[r]]] = @ - Amount[op[r]],
                                 !.bought = @ \cup {r}]
      BY <1>2, <2>2 DEF Box!SendPurchase, Box!Bought
    <3>2. /\ chain.spent[Human[op[r]]] + Amount[op[r]] \in 0..DemoCap
          /\ chain.allowance[Wallet[op[r]]] - Amount[op[r]] \in Nat
      BY <2>1, <2>2, BoxFigures DEF Box!WithinCap, Box!Covered, Box!remaining, BoxTyped, Chains, SpentOf
    <3> QED BY <2>1, <2>2, <3>1, <3>2, BoxFigures DEF BoxTyped, Chains
  <2>3. CASE ~(Box!WithinCap(op[r]) /\ Box!Covered(op[r]))
    <3>1. chain' = [chain EXCEPT !.reverted = @ \cup {r}]
      BY <1>2, <2>3 DEF Box!SendPurchase
    <3> QED BY <2>1, <2>3, <3>1 DEF BoxTyped, Chains
  <2> QED BY <2>1, <2>2, <2>3
<1> QED BY <1>1, <1>2

\* The types, and the stage a request is at, are kept.
LEMMA BoxTypedKept ==
  ASSUME BoxTyped, NEW r \in Box!Requests, BoxRequest(r), BoxAct(r)
  PROVE  BoxTyped'
<1> USE DEF BoxTyped, Box!requestVars, Box!histories, Box!GoOn, Box!End, BuyStages, ResetStages
<1>1. CASE Box!SendApproval(r)
  <2>1. chain' \in Chains
    BY <1>1, BoxMines
  <2> QED BY <1>1, <2>1 DEF Box!SendApproval
<1>2. CASE Box!ApprovalReceipt(r)
  BY <1>2 DEF Box!ApprovalReceipt
<1>3. CASE Box!SendPurchase(r)
  <2>1. chain' \in Chains
    BY <1>3, BoxMines
  <2> QED BY <1>3, <2>1 DEF Box!SendPurchase
<1>4. CASE Box!PurchaseReceipt(r)
  BY <1>4 DEF Box!PurchaseReceipt
<1>5. CASE Box!ReadAfter(r)
  <2>1. op[r] \in Buys
    BY <1>5 DEF Box!ReadAfter, BoxRequest
  <2> QED BY <1>5, <2>1, BoxFigures DEF Box!ReadAfter
<1>6. CASE Box!AskReason(r)
  BY <1>6 DEF Box!AskReason
<1>7. CASE Box!ReadFile(r)
  BY <1>7 DEF Box!ReadFile
<1>8. CASE Box!EvmRevert(r)
  <2>1. resets' \subseteq Box!Requests
    BY <1>8 DEF Box!EvmRevert, Box!Active
  <2>2. /\ chain' \in Chains /\ DOMAIN snaps' \subseteq DOMAIN snaps
        /\ \A i \in DOMAIN snaps' : snaps'[i] \in Chains
    BY <1>8 DEF Box!EvmRevert, Box!Restored
  <2> QED BY <1>8, <2>1, <2>2 DEF Box!EvmRevert
<1>9. CASE Box!EvmSnapshot(r)
  <2>1. /\ DOMAIN snaps' = DOMAIN snaps \cup {nextId} /\ nextId' = nextId + 1
        /\ \A i \in DOMAIN snaps' : snaps'[i] \in Chains
    BY <1>9 DEF Box!EvmSnapshot
  <2>2. DOMAIN snaps' \subseteq 0..(nextId' - 1) /\ file \in 0..(nextId' - 1)
    BY <2>1
  <2>3. seeded' \subseteq Box!Requests
    BY <1>9 DEF Box!EvmSnapshot, Chains
  <2> QED BY <1>9, <2>1, <2>2, <2>3 DEF Box!EvmSnapshot
<1>10. CASE Box!WriteFile(r)
  <2>1. file' \in 0..(nextId' - 1) /\ torn' \in BOOLEAN
    BY <1>10 DEF Box!WriteFile, Box!WritesId, BoxRequest
  <2> QED BY <1>10, <2>1 DEF Box!WriteFile
<1>11. CASE Box!Crash(r)
  <2>1. crashes' \in 0..MaxCrashes
    BY <1>11, HandlersAssumption DEF Box!Crash, Box!SandboxAssumption
  <2>2. torn' \in BOOLEAN
    BY <1>11 DEF Box!Crash
  <2> QED BY <1>11, <2>1, <2>2 DEF Box!Crash
<1> QED BY <1>1, <1>2, <1>3, <1>4, <1>5, <1>6, <1>7, <1>8, <1>9, <1>10, <1>11 DEF BoxAct

\* Every request stays at a stage of what it asks for.
LEMMA BoxRequestKept ==
  ASSUME BoxTyped, NEW r \in Box!Requests, \A q \in Box!Requests : BoxRequest(q), BoxAct(r)
  PROVE  \A q \in Box!Requests : BoxRequest(q)'
<1>1. nextId \in Nat /\ nextId' \in {nextId, nextId + 1}
  BY DEF BoxTyped, BoxAct, Box!SendApproval, Box!ApprovalReceipt, Box!SendPurchase,
     Box!PurchaseReceipt, Box!ReadAfter, Box!AskReason, Box!ReadFile, Box!EvmRevert,
     Box!EvmSnapshot, Box!WriteFile, Box!Crash
<1>2. ASSUME NEW q \in Box!Requests, q # r
      PROVE  BoxRequest(q)'
  BY <1>1, <1>2, BoxFrame DEF BoxRequest, BoxTyped
<1>3. BoxRequest(r)'
  <2>1. /\ BoxRequest(r) /\ UNCHANGED <<op, before, met>>
        /\ "reset" \notin Buys /\ "journey" \notin Buys
    BY BoxFrame, HandlersAssumption DEF Box!SandboxAssumption
  <2> USE DEF BoxTyped, BoxRequest, Box!requestVars, Box!GoOn, Box!End, BuyStages, ResetStages
  <2>2. CASE Box!SendApproval(r)
    BY <1>1, <2>1, <2>2 DEF Box!SendApproval
  <2>3. CASE Box!ApprovalReceipt(r)
    BY <1>1, <2>1, <2>3 DEF Box!ApprovalReceipt
  <2>4. CASE Box!SendPurchase(r)
    BY <1>1, <2>1, <2>4 DEF Box!SendPurchase
  <2>5. CASE Box!PurchaseReceipt(r)
    BY <1>1, <2>1, <2>5 DEF Box!PurchaseReceipt
  <2>6. CASE Box!ReadAfter(r)
    BY <1>1, <2>1, <2>6 DEF Box!ReadAfter
  <2>7. CASE Box!AskReason(r)
    BY <1>1, <2>1, <2>7 DEF Box!AskReason
  <2>8. CASE Box!ReadFile(r)
    BY <1>1, <2>1, <2>8 DEF Box!ReadFile
  <2>9. CASE Box!EvmRevert(r)
    BY <1>1, <2>1, <2>9 DEF Box!EvmRevert
  <2>10. CASE Box!EvmSnapshot(r)
    BY <1>1, <2>1, <2>10 DEF Box!EvmSnapshot
  <2>11. CASE Box!WriteFile(r)
    BY <1>1, <2>1, <2>11 DEF Box!WriteFile
  <2>12. CASE Box!Crash(r)
    BY <1>1, <2>1, <2>12 DEF Box!Crash, Box!Active, Box!Done
  <2> QED BY <2>2, <2>3, <2>4, <2>5, <2>6, <2>7, <2>8, <2>9, <2>10, <2>11, <2>12 DEF BoxAct
<1> QED BY <1>2, <1>3

\* Requests under way together have met before.
LEMMA BoxMetKept ==
  ASSUME BoxTyped, BoxMet, NEW r \in Box!Requests, BoxAct(r)
  PROVE  BoxMet'
<1>1. \A q \in Box!Active' : q \in Box!Active
  BY BoxFrame DEF Box!Active
<1>2. \A q \in Box!Requests : boxStage[q] # "unused" => boxStage'[q] # "unused"
  <2>1. boxStage'[r] # "unused"
    BY DEF BoxAct, BoxTyped, Box!GoOn, Box!End, Box!SendApproval, Box!ApprovalReceipt,
       Box!SendPurchase, Box!PurchaseReceipt, Box!ReadAfter, Box!AskReason, Box!ReadFile,
       Box!EvmRevert, Box!EvmSnapshot, Box!WriteFile, Box!Crash
  <2> QED BY <2>1, BoxFrame
<1>3. UNCHANGED met /\ met \in [Box!Requests -> SUBSET Box!Requests]
  BY BoxFrame DEF BoxTyped
<1> QED BY <1>1, <1>2, <1>3 DEF BoxMet

\* Each chain goes on knowing one outcome of a purchase that was sent.
LEMMA BoxMinedKept ==
  ASSUME BoxTyped, NEW r \in Box!Requests, \A q \in Box!Requests : BoxRequest(q) /\ BoxMined(q),
         BoxAct(r)
  PROVE  \A q \in Box!Requests : BoxMined(q)'
<1> DEFINE Early == {"unused", "approve", "approving", "buy"}
<1>1. ASSUME NEW q \in Box!Requests, boxStage'[q] \in Early
      PROVE  boxStage[q] \in Early /\ (q = r => ~Box!SendPurchase(r))
  <2>1. CASE q # r
    BY <1>1, <2>1, BoxFrame
  <2>2. CASE q = r
    <3> USE <1>1, <2>2 DEF BoxTyped, Box!GoOn, Box!End
    <3>1. CASE Box!SendApproval(r)
      BY <3>1 DEF Box!SendApproval, Box!SendPurchase
    <3>2. CASE Box!ApprovalReceipt(r)
      BY <3>2 DEF Box!ApprovalReceipt, Box!SendPurchase
    <3>3. CASE Box!SendPurchase(r)
      BY <3>3 DEF Box!SendPurchase
    <3>4. CASE Box!PurchaseReceipt(r)
      BY <3>4 DEF Box!PurchaseReceipt
    <3>5. CASE Box!ReadAfter(r) \/ Box!AskReason(r) \/ Box!ReadFile(r)
      BY <3>5 DEF Box!ReadAfter, Box!AskReason, Box!ReadFile
    <3>6. CASE Box!EvmRevert(r) \/ Box!EvmSnapshot(r) \/ Box!WriteFile(r) \/ Box!Crash(r)
      BY <3>6 DEF Box!EvmRevert, Box!EvmSnapshot, Box!WriteFile, Box!Crash
    <3> QED BY <3>1, <3>2, <3>3, <3>4, <3>5, <3>6 DEF BoxAct
  <2> QED BY <2>1, <2>2
<1>2. CASE UNCHANGED <<chain, snaps>>
  BY <1>1, <1>2 DEF BoxMined, Unsent
<1>3. CASE Box!SendApproval(r)
  <2>1. chain'.bought = chain.bought /\ chain'.reverted = chain.reverted
    BY <1>3, BoxMines
  <2>2. snaps' = snaps
    BY <1>3 DEF Box!SendApproval
  <2> QED BY <1>1, <2>1, <2>2 DEF BoxMined, Unsent
<1>4. CASE Box!SendPurchase(r)
  <2>1. /\ snaps' = snaps /\ boxStage[r] = "buy"
        /\ chain'.bought \subseteq chain.bought \cup {r}
        /\ chain'.reverted \subseteq chain.reverted \cup {r}
        /\ chain'.bought = chain.bought \/ chain'.reverted = chain.reverted
    BY <1>4, BoxMines DEF Box!SendPurchase
  <2>2. Unsent(chain, r)
    BY <2>1 DEF BoxMined
  <2> QED BY <1>1, <1>4, <2>1, <2>2 DEF BoxMined, Unsent
<1>5. CASE Box!EvmRevert(r) /\ id[r] \in DOMAIN snaps
  <2>1. /\ chain' = snaps[id[r]] /\ DOMAIN snaps' \subseteq DOMAIN snaps
        /\ \A i \in DOMAIN snaps' : snaps'[i] = snaps[i]
    BY <1>5 DEF Box!EvmRevert, Box!Restored
  <2> QED BY <1>1, <1>5, <2>1 DEF BoxMined, Unsent
<1>6. CASE Box!EvmSnapshot(r)
  <2>1. /\ chain' = chain
        /\ \A i \in DOMAIN snaps' : \/ snaps'[i] = chain
                                    \/ i \in DOMAIN snaps /\ snaps'[i] = snaps[i]
    BY <1>6 DEF Box!EvmSnapshot
  <2> QED BY <1>1, <1>6, <2>1 DEF BoxMined, Unsent
<1> QED
  BY <1>2, <1>3, <1>4, <1>5, <1>6
  DEF BoxAct, Box!ApprovalReceipt, Box!PurchaseReceipt, Box!ReadAfter, Box!AskReason,
      Box!ReadFile, Box!EvmRevert, Box!WriteFile, Box!Crash

\* What was spent only grows, unless the chain is taken back.
LEMMA BoxSpentGrows ==
  ASSUME BoxTyped, NEW r \in Box!Requests, BoxRequest(r), BoxAct(r), ~Box!EvmRevert(r)
  PROVE  \A h \in Box!Spenders : chain'.spent[h] >= chain.spent[h] /\ chain.spent[h] \in Nat
<1>1. \A h \in Box!Spenders : chain.spent[h] \in Nat
  BY HandlersAssumption DEF BoxTyped, Chains, Box!SandboxAssumption
<1>2. CASE Box!SendPurchase(r)
  <2>1. /\ op[r] \in Buys
        /\ \/ chain'.spent = chain.spent
           \/ chain'.spent = [chain.spent EXCEPT ![Human[op[r]]] = @ + Amount[op[r]]]
    BY <1>2, BoxMines
  <2>2. Amount[op[r]] \in Nat
    BY <2>1, BoxFigures
  <2>3. chain.spent \in [Box!Spenders -> 0..DemoCap]
    BY DEF BoxTyped, Chains
  <2> QED BY <1>1, <2>1, <2>2, <2>3
<1>3. CASE Box!SendApproval(r)
  <2>1. chain'.spent = chain.spent
    BY <1>3, BoxMines
  <2> QED BY <1>1, <2>1
<1>4. CASE ~Box!SendPurchase(r) /\ ~Box!SendApproval(r)
  <2>1. chain' = chain
    BY <1>4 DEF BoxAct, Box!ApprovalReceipt, Box!PurchaseReceipt, Box!ReadAfter,
        Box!AskReason, Box!ReadFile, Box!EvmRevert, Box!EvmSnapshot, Box!WriteFile, Box!Crash
  <2> QED BY <1>1, <2>1
<1> QED BY <1>2, <1>3, <1>4

\* What a request found spent stays spent, and its purchase comes on top.
LEMMA BoxConfirmedKept ==
  ASSUME BoxTyped, NEW r \in Box!Requests, \A q \in Box!Requests : BoxRequest(q) /\ BoxMined(q),
         \A q \in Box!Requests \ resets : BoxConfirmed(q), BoxAct(r)
  PROVE  \A q \in Box!Requests \ resets' : BoxConfirmed(q)'
<1>1. resets \subseteq resets'
  BY DEF BoxAct, Box!histories, Box!SendApproval, Box!ApprovalReceipt, Box!SendPurchase,
     Box!PurchaseReceipt, Box!ReadAfter, Box!AskReason, Box!ReadFile, Box!EvmRevert,
     Box!EvmSnapshot, Box!WriteFile, Box!Crash
<1>2. None # "confirmed"
  BY HandlersAssumption DEF Box!SandboxAssumption
<1>3. ASSUME NEW q \in Box!Requests \ resets', q # r
      PROVE  BoxConfirmed(q)'
  <2>1. /\ BoxConfirmed(q) /\ BoxRequest(q) /\ op' = op /\ before' = before
        /\ boxStage'[q] = boxStage[q] /\ boxOutcome'[q] = boxOutcome[q] /\ reading'[q] = reading[q]
    BY <1>1, <1>3, BoxFrame
  <2>2. CASE q \notin Box!Active
    BY <2>1, <2>2 DEF BoxConfirmed, Box!Active, Box!Done
  <2>3. CASE q \in Box!Active
    <3>1. ~(Box!EvmRevert(r) /\ id[r] \in DOMAIN snaps)
      BY <1>3, <2>3 DEF Box!EvmRevert
    <3>2. \A h \in Box!Spenders : chain'.spent[h] >= chain.spent[h] /\ chain.spent[h] \in Nat
      <4>1. CASE ~Box!EvmRevert(r)
        BY <4>1, BoxSpentGrows
      <4>2. CASE Box!EvmRevert(r)
        BY <3>1, <4>2, HandlersAssumption DEF Box!EvmRevert, BoxTyped, Chains, Box!SandboxAssumption
      <4> QED BY <4>1, <4>2
    <3>3. q \in chain'.bought => q \in chain.bought
      <4>1. CASE Box!SendPurchase(r)
        BY <1>3, <4>1, BoxMines
      <4>2. CASE Box!SendApproval(r)
        BY <4>2, BoxMines
      <4>3. CASE ~Box!SendPurchase(r) /\ ~Box!SendApproval(r)
        BY <3>1, <4>3 DEF BoxAct, Box!ApprovalReceipt, Box!PurchaseReceipt, Box!ReadAfter,
           Box!AskReason, Box!ReadFile, Box!EvmRevert, Box!EvmSnapshot, Box!WriteFile, Box!Crash
      <4> QED BY <4>1, <4>2, <4>3
    <3>4. boxStage[q] \in BuyStages => op[q] \in Buys /\ before[q] \in 0..DemoCap
      BY <2>1 DEF BoxRequest
    <3>5. CASE boxStage[q] \in {"approve", "approving", "buy", "buying", "confirmed"}
      <4>1. op[q] \in Buys /\ before[q] \in Nat /\ Amount[op[q]] \in Nat
        BY <3>4, <3>5, BoxFigures DEF BuyStages
      <4>2. SpentOf(q)' >= SpentOf(q) /\ SpentOf(q) \in Nat /\ SpentOf(q)' \in Int
        <5>1. Human[op[q]] \in Box!Spenders /\ op'[q] = op[q]
          BY <2>1, <4>1, BoxFigures
        <5>2. BoxTyped'
          BY BoxTypedKept
        <5>3. chain'.spent[Human[op[q]]] \in Int
          BY <5>1, <5>2 DEF BoxTyped, Chains
        <5> QED BY <3>2, <5>1, <5>3 DEF SpentOf
      <4> QED BY <2>1, <3>3, <3>5, <4>1, <4>2 DEF BoxConfirmed, BoxRequest
    <3>6. CASE boxStage[q] \notin {"approve", "approving", "buy", "buying", "confirmed"}
      BY <2>1, <3>6 DEF BoxConfirmed
    <3> QED BY <3>5, <3>6
  <2> QED BY <2>2, <2>3
<1>4. ASSUME r \notin resets'
      PROVE  BoxConfirmed(r)'
  <2>1. /\ BoxConfirmed(r) /\ BoxRequest(r) /\ BoxMined(r) /\ op' = op /\ before' = before
    BY <1>1, <1>4, BoxFrame
  <2> USE DEF BoxTyped, Box!GoOn, Box!End, BuyStages, ResetStages
  <2>2. CASE Box!SendApproval(r)
    <3>1. boxStage[r] = "approve" /\ boxStage'[r] = "approving" /\ boxOutcome' = boxOutcome
      BY <2>2 DEF Box!SendApproval
    <3>2. SpentOf(r)' = SpentOf(r)
      <4>1. chain'.spent = chain.spent
        BY <2>1, <2>2, BoxMines
      <4> QED BY <2>1, <4>1 DEF SpentOf
    <3> QED BY <1>2, <2>1, <3>1, <3>2 DEF BoxConfirmed, BoxRequest
  <2>3. CASE Box!ApprovalReceipt(r)
    BY <1>2, <2>1, <2>3 DEF Box!ApprovalReceipt, BoxConfirmed, SpentOf, BoxRequest
  <2>4. CASE Box!SendPurchase(r)
    <3>1. /\ boxStage'[r] = "buying" /\ boxOutcome'[r] # "confirmed" /\ boxStage[r] = "buy"
          /\ op[r] \in Buys /\ before[r] \in Nat
      BY <1>2, <2>1, <2>4, HandlersAssumption DEF Box!SendPurchase, BoxRequest, Box!SandboxAssumption
    <3>2. SpentOf(r) >= before[r] /\ r \notin chain.bought
      BY <2>1, <3>1 DEF BoxConfirmed, BoxMined, Unsent
    <3>3. /\ Amount[op[r]] \in Nat /\ SpentOf(r) \in Nat /\ Human[op[r]] \in Box!Spenders
      BY <3>1, BoxFigures
    <3>4. chain.spent \in [Box!Spenders -> 0..DemoCap]
      BY DEF Chains
    <3>5. /\ SpentOf(r)' >= before[r]
          /\ r \in chain'.bought => SpentOf(r)' >= before[r] + Amount[op[r]]
      <4>1. \/ chain'.bought = chain.bought /\ chain'.spent = chain.spent
            \/ chain'.spent = [chain.spent EXCEPT ![Human[op[r]]] = @ + Amount[op[r]]]
        BY <2>1, <2>4, BoxMines
      <4>2. \/ chain'.bought = chain.bought /\ SpentOf(r)' = SpentOf(r)
            \/ SpentOf(r)' = SpentOf(r) + Amount[op[r]]
        BY <2>1, <3>3, <3>4, <4>1 DEF SpentOf
      <4> QED BY <3>1, <3>2, <3>3, <4>2
    <3> QED BY <2>1, <3>1, <3>5 DEF BoxConfirmed
  <2>5. CASE Box!PurchaseReceipt(r)
    BY <1>2, <2>1, <2>5 DEF Box!PurchaseReceipt, BoxConfirmed, SpentOf, BoxRequest
  <2>6. CASE Box!ReadAfter(r)
    BY <1>2, <2>1, <2>6 DEF Box!ReadAfter, Box!Reading, BoxConfirmed, SpentOf, BoxRequest
  <2>7. CASE Box!AskReason(r)
    BY <1>2, <2>1, <2>7 DEF Box!AskReason, BoxConfirmed, BoxRequest
  <2>8. CASE Box!ReadFile(r)
    BY <1>2, <2>1, <2>8 DEF Box!ReadFile, BoxConfirmed, BoxRequest
  <2>9. CASE Box!EvmRevert(r)
    BY <1>2, <2>1, <2>9 DEF Box!EvmRevert, BoxConfirmed, BoxRequest
  <2>10. CASE Box!EvmSnapshot(r)
    BY <1>2, <2>1, <2>10 DEF Box!EvmSnapshot, BoxConfirmed, BoxRequest
  <2>11. CASE Box!WriteFile(r)
    BY <1>2, <2>1, <2>11 DEF Box!WriteFile, BoxConfirmed, BoxRequest
  <2>12. CASE Box!Crash(r)
    BY <1>2, <2>1, <2>12 DEF Box!Crash, Box!Active, Box!Done, BoxConfirmed, BoxRequest
  <2> QED BY <2>2, <2>3, <2>4, <2>5, <2>6, <2>7, <2>8, <2>9, <2>10, <2>11, <2>12 DEF BoxAct
<1> QED BY <1>3, <1>4

\* A request that met no other finds the chain as it left it.
LEMMA BoxJourneyKept ==
  ASSUME BoxTyped, BoxMet, NEW r \in Box!Requests,
         \A q \in Box!Requests : BoxRequest(q) /\ BoxMined(q),
         \A q \in Box!Requests : met[q] = {} => BoxJourney(q), BoxAct(r)
  PROVE  \A q \in Box!Requests : met'[q] = {} => BoxJourney(q)'
<1>1. /\ UNCHANGED <<op, before, met>> /\ r \in Box!Active
      /\ "reset" \notin Buys /\ "journey" \notin Buys /\ DemoCap \in Nat
  BY BoxFrame, HandlersAssumption DEF Box!SandboxAssumption
<1>2. ASSUME NEW q \in Box!Requests, met[q] = {}, q # r
      PROVE  BoxJourney(q)'
  <2>1. q \notin Box!Active
    BY <1>1, <1>2 DEF BoxMet
  <2>2. /\ boxStage'[q] = boxStage[q] /\ boxOutcome'[q] = boxOutcome[q] /\ reading'[q] = reading[q]
        /\ BoxJourney(q)
    BY <1>2, BoxFrame
  <2> QED BY <1>1, <2>1, <2>2 DEF BoxJourney, BoxFits, Box!Active, Box!Done
<1>3. ASSUME met[r] = {}
      PROVE  BoxJourney(r)'
  <2>1. BoxJourney(r) /\ BoxRequest(r) /\ BoxMined(r)
    BY <1>3
  <2>2. ASSUME op[r] \in Buys
        PROVE  /\ Amount[op[r]] \in Nat \ {0} /\ Human[op[r]] \in Box!Spenders
               /\ SpentOf(r) \in 0..DemoCap
    BY <2>2, BoxFigures
  <2> USE DEF BoxTyped, Box!GoOn, Box!End, BuyStages, ResetStages
  <2>3. CASE Box!SendApproval(r)
    <3>1. /\ boxStage[r] = "approve" /\ boxStage'[r] = "approving"
          /\ SpentOf(r)' = SpentOf(r) /\ r \in chain'.approved
          /\ chain'.allowance[Wallet[op[r]]] = Amount[op[r]]
      <4>1. /\ chain'.spent = chain.spent /\ chain'.approved = chain.approved \cup {r}
            /\ chain'.allowance[Wallet[op[r]]] = Amount[op[r]]
        BY <2>1, <2>3, BoxMines
      <4>2. boxStage[r] = "approve" /\ boxStage'[r] = "approving"
        BY <2>3 DEF Box!SendApproval
      <4> QED BY <1>1, <4>1, <4>2 DEF SpentOf
    <3> QED BY <1>1, <2>1, <3>1 DEF BoxJourney, BoxFits
  <2>4. CASE Box!ApprovalReceipt(r)
    BY <1>1, <2>1, <2>4 DEF Box!ApprovalReceipt, BoxJourney, BoxFits, SpentOf
  <2>5. CASE Box!SendPurchase(r)
    <3>1. /\ boxStage[r] = "buy" /\ boxStage'[r] = "buying" /\ op[r] \in Buys
      BY <2>1, <2>5 DEF Box!SendPurchase, BoxRequest
    <3>2. /\ SpentOf(r) = before[r] /\ chain.allowance[Wallet[op[r]]] = Amount[op[r]]
          /\ r \notin chain.bought
      BY <2>1, <3>1 DEF BoxJourney, BoxMined, Unsent
    <3>3. /\ Amount[op[r]] \in Nat /\ SpentOf(r) \in Nat /\ Human[op[r]] \in Box!Spenders
      BY <2>2, <3>1
    <3>4. Box!WithinCap(op[r]) <=> BoxFits(r)
      BY <3>2 DEF Box!WithinCap, Box!remaining, BoxFits, SpentOf
    <3>5. Box!Covered(op[r])
      BY <3>2, <3>3 DEF Box!Covered
    <3>6. CASE BoxFits(r)
      <4>1. /\ chain'.bought = chain.bought \cup {r}
            /\ chain'.spent = [chain.spent EXCEPT ![Human[op[r]]] = @ + Amount[op[r]]]
        BY <2>1, <2>5, <3>4, <3>5, <3>6, BoxMines
      <4>2. chain.spent \in [Box!Spenders -> 0..DemoCap]
        BY DEF Chains
      <4>3. SpentOf(r)' = SpentOf(r) + Amount[op[r]]
        BY <1>1, <3>3, <4>1, <4>2 DEF SpentOf
      <4> QED BY <1>1, <3>1, <3>2, <3>6, <4>1, <4>3 DEF BoxJourney, BoxFits
    <3>7. CASE ~BoxFits(r)
      <4>1. /\ chain'.bought = chain.bought /\ chain'.spent = chain.spent
            /\ chain'.reverted = chain.reverted \cup {r}
        BY <2>1, <2>5, <3>4, <3>7, BoxMines
      <4> QED BY <1>1, <3>1, <3>2, <3>3, <3>7, <4>1 DEF BoxJourney, BoxFits, SpentOf
    <3> QED BY <3>6, <3>7
  <2>6. CASE Box!PurchaseReceipt(r)
    <3>1. /\ boxStage[r] = "buying" /\ op[r] \in Buys /\ UNCHANGED <<chain, reading>>
      BY <2>1, <2>6 DEF Box!PurchaseReceipt, BoxRequest
    <3>2. /\ IF BoxFits(r) THEN r \in chain.bought ELSE r \in chain.reverted /\ r \notin chain.bought
          /\ SpentOf(r) = before[r] + IF BoxFits(r) THEN Amount[op[r]] ELSE 0
      BY <2>1, <3>1 DEF BoxJourney
    <3>3. boxStage'[r] = IF BoxFits(r) THEN "confirmed" ELSE "failed"
      BY <2>1, <2>6, <3>2 DEF Box!PurchaseReceipt, BoxMined
    <3>4. BoxFits(r)' <=> BoxFits(r)
      BY <1>1 DEF BoxFits
    <3>5. SpentOf(r)' = SpentOf(r)
      BY <1>1, <3>1 DEF SpentOf
    <3> QED BY <1>1, <3>1, <3>2, <3>3, <3>4, <3>5 DEF BoxJourney
  <2>7. CASE Box!ReadAfter(r)
    <3>1. /\ boxStage[r] \in {"confirmed", "failed"} /\ op[r] \in Buys /\ chain' = chain
          /\ reading'[r] = [spent |-> SpentOf(r), remaining |-> DemoCap - SpentOf(r)]
          /\ IF boxStage[r] = "confirmed"
             THEN boxStage'[r] = "done" /\ boxOutcome'[r] = "confirmed"
             ELSE boxStage'[r] = "asking"
      BY <2>1, <2>7 DEF Box!ReadAfter, BoxRequest, Box!Reading, Box!remaining, SpentOf
    <3>2. /\ BoxFits(r) <=> boxStage[r] = "confirmed"
          /\ SpentOf(r) = before[r] + IF BoxFits(r) THEN Amount[op[r]] ELSE 0
      BY <2>1, <3>1 DEF BoxJourney
    <3>3. before[r] \in Nat /\ Amount[op[r]] \in Nat
      BY <2>1, <2>2, <3>1 DEF BoxRequest
    <3>4. BoxFits(r)' <=> BoxFits(r)
      BY <1>1 DEF BoxFits
    <3>5. SpentOf(r)' = SpentOf(r)
      BY <1>1, <3>1 DEF SpentOf
    <3> QED BY <1>1, <3>1, <3>2, <3>3, <3>4, <3>5 DEF BoxJourney
  <2>8. CASE Box!AskReason(r)
    <3>1. /\ boxStage[r] = "asking" /\ boxStage'[r] = "done" /\ op[r] \in Buys
          /\ UNCHANGED <<chain, reading>>
          /\ boxOutcome'[r] = IF Box!WithinCap(op[r]) THEN "failed" ELSE "rejected"
      BY <2>1, <2>8 DEF Box!AskReason, BoxRequest
    <3>2. /\ ~BoxFits(r) /\ SpentOf(r) = before[r] + 0
          /\ reading[r] = [spent |-> before[r], remaining |-> DemoCap - before[r]]
      BY <2>1, <3>1 DEF BoxJourney
    <3>3. before[r] \in Nat
      BY <2>1, <3>1 DEF BoxRequest
    <3>4. ~Box!WithinCap(op[r])
      BY <3>2, <3>3 DEF Box!WithinCap, Box!remaining, BoxFits, SpentOf
    <3>5. BoxFits(r)' <=> BoxFits(r)
      BY <1>1 DEF BoxFits
    <3> QED BY <1>1, <3>1, <3>2, <3>3, <3>4, <3>5 DEF BoxJourney
  <2>9. CASE Box!ReadFile(r) \/ Box!EvmRevert(r) \/ Box!EvmSnapshot(r) \/ Box!WriteFile(r)
    <3>1. op[r] \notin Buys
      BY <1>1, <2>1, <2>9
      DEF BoxRequest, Box!ReadFile, Box!EvmRevert, Box!EvmSnapshot, Box!WriteFile
    <3>2. boxStage'[r] \in ResetStages \cup {"done"}
      BY <2>9 DEF Box!ReadFile, Box!EvmRevert, Box!EvmSnapshot, Box!WriteFile
    <3> QED BY <1>1, <3>1, <3>2 DEF BoxJourney
  <2>10. CASE Box!Crash(r)
    <3>1. boxStage'[r] = "dead"
      BY <2>10 DEF Box!Crash
    <3> QED BY <3>1 DEF BoxJourney
  <2> QED BY <2>3, <2>4, <2>5, <2>6, <2>7, <2>8, <2>9, <2>10 DEF BoxAct
<1> QED BY <1>1, <1>2, <1>3

\* The steps that tear the file, or make it whole, say so.
LEMMA BoxTornBy ==
  ASSUME BoxTyped, NEW r \in Box!Requests, BoxAct(r), ~torn'
  PROVE  /\ torn => Box!WriteFile(r) /\ op[r] = "journey" /\ Box!MetPurchases(r)
         /\ ~(Box!Crash(r) /\ boxStage[r] \in {"snapshot", "seed", "write"})
<1>1. CASE Box!WriteFile(r)
  <2>1. torn' = (torn /\ ~(op[r] = "journey" /\ Box!MetPurchases(r)))
    BY <1>1 DEF Box!WriteFile
  <2>2. ~Box!Crash(r)
    BY <1>1 DEF Box!WriteFile, Box!Crash, Box!End, BoxTyped
  <2> QED BY <1>1, <2>1, <2>2
<1>2. CASE Box!Crash(r)
  <2>1. torn' = (torn \/ boxStage[r] \in {"snapshot", "seed", "write"})
    BY <1>2 DEF Box!Crash
  <2> QED BY <2>1
<1>3. CASE ~Box!WriteFile(r) /\ ~Box!Crash(r)
  <2>1. torn' = torn
    BY <1>3 DEF BoxAct, Box!histories, Box!SendApproval, Box!ApprovalReceipt, Box!SendPurchase,
       Box!PurchaseReceipt, Box!ReadAfter, Box!AskReason, Box!ReadFile, Box!EvmRevert,
       Box!EvmSnapshot
  <2> QED BY <1>3, <2>1
<1> QED BY <1>1, <1>2, <1>3

\* A reset that a request met stays met, and what was seeded stays seeded.
LEMMA BoxCleanKept ==
  ASSUME BoxTyped, BoxMet, BoxClean, NEW r \in Box!Requests,
         \A q \in Box!Requests : BoxRequest(q), BoxAct(r)
  PROVE  BoxClean'
<1>1. /\ UNCHANGED <<op, before, met>> /\ r \in Box!Active
      /\ \A q \in Box!Requests : q # r => boxStage'[q] = boxStage[q]
  BY BoxFrame
<1>2. \A q : MetReset(q)' <=> MetReset(q)
  BY <1>1 DEF MetReset
<1>3. seeded \subseteq seeded'
  BY DEF BoxAct, Box!histories, Box!SendApproval, Box!ApprovalReceipt, Box!SendPurchase,
     Box!PurchaseReceipt, Box!ReadAfter, Box!AskReason, Box!ReadFile, Box!EvmRevert,
     Box!EvmSnapshot, Box!WriteFile, Box!Crash
<1>4. ASSUME NEW c, CleanChain(c)
      PROVE  \A q \in c.bought \ seeded' : MetReset(q)'
  BY <1>2, <1>3, <1>4 DEF CleanChain
<1> USE DEF BoxTyped, Box!GoOn, Box!End
<1>5. ASSUME UNCHANGED snaps, chain'.bought = chain.bought,
             boxStage'[r] # "snapshot"
      PROVE  BoxClean'
  <2>1. \A i \in DOMAIN snaps : \A q \in snaps[i].bought \ seeded' : MetReset(q)'
    BY <1>4 DEF BoxClean
  <2>2. ASSUME NEW x \in Box!Requests, boxStage'[x] = "snapshot"
        PROVE  \A q \in chain.bought \ seeded' : MetReset(q)'
    <3>1. boxStage[x] = "snapshot"
      BY <1>1, <1>5, <2>2
    <3>2. CleanChain(chain)
      BY <3>1 DEF BoxClean
    <3> QED BY <1>4, <3>2
  <2> QED BY <1>5, <2>1, <2>2 DEF BoxClean, CleanChain
<1>6. CASE Box!SendApproval(r)
  <2>1. chain'.bought = chain.bought
    BY <1>6, BoxMines
  <2> QED BY <1>5, <1>6, <2>1 DEF Box!SendApproval
<1>7. CASE Box!SendPurchase(r)
  <2>1. /\ boxStage'[r] = "buying" /\ UNCHANGED snaps /\ seeded' = seeded
        /\ chain'.bought \subseteq chain.bought \cup {r} /\ op[r] \in Buys
    BY <1>7, BoxMines DEF Box!SendPurchase, Box!histories
  <2>2. \A i \in DOMAIN snaps : \A q \in snaps[i].bought \ seeded' : MetReset(q)'
    BY <1>4 DEF BoxClean
  <2>3. ASSUME NEW x \in Box!Requests, boxStage'[x] = "snapshot"
        PROVE  \A q \in chain'.bought \ seeded' : MetReset(q)'
    <3>1. x # r /\ boxStage[x] = "snapshot"
      BY <1>1, <2>1, <2>3
    <3>2. CleanChain(chain)
      BY <3>1 DEF BoxClean
    <3>3. x \in met[r] /\ op[x] \in {"reset", "journey"}
      BY <1>1, <3>1 DEF BoxMet, Box!Active, Box!Done, BoxRequest, ResetStages
    <3>4. MetReset(r)'
      BY <1>2, <3>3 DEF MetReset
    <3> QED BY <1>4, <2>1, <3>2, <3>4
  <2> QED BY <2>1, <2>2, <2>3 DEF BoxClean, CleanChain
<1>8. CASE Box!EvmRevert(r) /\ id[r] \in DOMAIN snaps
  <2>1. /\ chain' = snaps[id[r]] /\ DOMAIN snaps' \subseteq DOMAIN snaps
        /\ \A i \in DOMAIN snaps' : snaps'[i] = snaps[i]
    BY <1>8 DEF Box!EvmRevert, Box!Restored
  <2>2. \A i \in DOMAIN snaps : \A q \in snaps[i].bought \ seeded' : MetReset(q)'
    BY <1>4 DEF BoxClean
  <2> QED BY <1>8, <2>1, <2>2 DEF BoxClean, CleanChain
<1>9. CASE Box!EvmSnapshot(r)
  <2>1. /\ chain' = chain /\ boxStage'[r] = "write"
        /\ \A i \in DOMAIN snaps' : \/ snaps'[i] = chain
                                    \/ i \in DOMAIN snaps /\ snaps'[i] = snaps[i]
    BY <1>9 DEF Box!EvmSnapshot
  <2>2. \A i \in DOMAIN snaps : \A q \in snaps[i].bought \ seeded' : MetReset(q)'
    BY <1>4 DEF BoxClean
  <2>3. \A q \in chain.bought \ seeded' : MetReset(q)'
    <3>1. CASE boxStage[r] = "snapshot"
      <4>1. CleanChain(chain)
        BY <3>1 DEF BoxClean
      <4> QED BY <1>4, <4>1
    <3>2. CASE boxStage[r] = "seed"
      BY <1>9, <3>2 DEF Box!EvmSnapshot
    <3> QED BY <1>9, <3>1, <3>2 DEF Box!EvmSnapshot
  <2> QED BY <2>1, <2>2, <2>3 DEF BoxClean, CleanChain
<1>10. CASE \/ Box!ApprovalReceipt(r) \/ Box!PurchaseReceipt(r) \/ Box!ReadAfter(r)
            \/ Box!AskReason(r) \/ Box!ReadFile(r) \/ Box!WriteFile(r) \/ Box!Crash(r)
            \/ (Box!EvmRevert(r) /\ id[r] \notin DOMAIN snaps)
  BY <1>5, <1>10
  DEF Box!ApprovalReceipt, Box!PurchaseReceipt, Box!ReadAfter, Box!AskReason, Box!ReadFile,
      Box!WriteFile, Box!Crash, Box!EvmRevert
<1> QED BY <1>6, <1>7, <1>8, <1>9, <1>10 DEF BoxAct

\* Two requests at stages of a reset have met, and a journey that met purchases
\* only is not beside a reset.
LEMMA BoxNotBeside ==
  ASSUME BoxMet, NEW r \in Box!Active, NEW q \in Box!Active, q # r, Box!MetPurchases(r)
  PROVE  op[q] \in Buys
  BY DEF BoxMet, Box!MetPurchases

\* Nobody takes the snapshot of a journey that met no reset.
LEMMA BoxAloneKept ==
  ASSUME BoxTyped, BoxMet, BoxAlone, NEW r \in Box!Requests,
         \A q \in Box!Requests : BoxRequest(q), BoxAct(r)
  PROVE  BoxAlone'
<1>1. /\ UNCHANGED <<op, before, met>> /\ r \in Box!Active
      /\ \A q \in Box!Requests : q # r => boxStage'[q] = boxStage[q] /\ id'[q] = id[q]
      /\ "reset" \notin Buys /\ "journey" \notin Buys
  BY BoxFrame, HandlersAssumption DEF Box!SandboxAssumption
<1> SUFFICES ASSUME NEW q \in Box!Requests, boxStage'[q] = "write", Box!MetPurchases(q)
             PROVE  id'[q] \in DOMAIN snaps'
  BY <1>1 DEF BoxAlone, Box!MetPurchases
<1> USE DEF BoxTyped, Box!GoOn, Box!End
<1>2. CASE q = r
  <2>1. Box!EvmSnapshot(r)
    BY <1>2 DEF BoxAct, Box!SendApproval, Box!ApprovalReceipt, Box!SendPurchase,
       Box!PurchaseReceipt, Box!ReadAfter, Box!AskReason, Box!ReadFile, Box!EvmRevert,
       Box!WriteFile, Box!Crash
  <2> QED BY <1>2, <2>1 DEF Box!EvmSnapshot
<1>3. CASE q # r
  <2>1. boxStage[q] = "write" /\ id'[q] = id[q] /\ id[q] \in DOMAIN snaps
    BY <1>1, <1>3 DEF BoxAlone
  <2>2. q \in Box!Active
    BY <2>1 DEF Box!Active, Box!Done
  <2>3. op[r] \in Buys
    BY <1>1, <1>3, <2>2, BoxNotBeside
  <2>4. ~Box!EvmRevert(r)
    BY <1>1, <2>3 DEF Box!EvmRevert, BoxRequest, ResetStages
  <2>5. DOMAIN snaps \subseteq DOMAIN snaps'
    BY <2>4 DEF BoxAct, Box!SendApproval, Box!ApprovalReceipt, Box!SendPurchase,
       Box!PurchaseReceipt, Box!ReadAfter, Box!AskReason, Box!ReadFile, Box!EvmSnapshot,
       Box!WriteFile, Box!Crash
  <2> QED BY <2>1, <2>5
<1> QED BY <1>2, <1>3

\* A step away from the chain calls of the resets leaves them in order.
LEMMA BoxRestartFrame ==
  ASSUME BoxRestart, UNCHANGED <<snaps, file>>,
         \A q \in Box!Requests :
           \/ boxStage'[q] = boxStage[q] /\ id'[q] = id[q] /\ op'[q] = op[q]
           \/ /\ boxStage[q] \notin {"revert", "snapshot", "seed", "write"}
              /\ boxStage'[q] \notin {"revert", "snapshot", "seed", "write"}
  PROVE  BoxRestart'
<1>1. \A q \in Box!Requests :
        boxStage'[q] \in {"revert", "snapshot", "seed", "write"}
          => boxStage'[q] = boxStage[q] /\ id'[q] = id[q] /\ op'[q] = op[q]
  OBVIOUS
<1>2. \A q \in Box!Requests :
        boxStage[q] \in {"snapshot", "write"} => boxStage'[q] \in {"snapshot", "write"}
  OBVIOUS
<1>3. ASSUME NEW p \in Box!Requests, NEW q \in Box!Requests,
             boxStage'[p] \in {"snapshot", "write"}, boxStage'[q] \in {"snapshot", "write"}
      PROVE  p = q
  BY <1>1, <1>3 DEF BoxRestart
<1>4. ASSUME NEW p \in Box!Requests
      PROVE  /\ boxStage'[p] # "seed"
             /\ boxStage'[p] = "write" => id'[p] \in DOMAIN snaps
             /\ boxStage'[p] = "revert" /\ op'[p] = "journey" => id'[p] = file
  BY <1>1 DEF BoxRestart
<1>5. ASSUME NEW p \in Box!Requests, boxStage'[p] \in {"snapshot", "write"}
      PROVE  /\ file \notin DOMAIN snaps
             /\ \A q \in Box!Requests : boxStage'[q] = "revert" => id'[q] \notin DOMAIN snaps
  BY <1>1, <1>5 DEF BoxRestart
<1>6. ASSUME \A q \in Box!Requests : boxStage'[q] \notin {"snapshot", "write"}
      PROVE  /\ file \in DOMAIN snaps
             /\ \A q \in Box!Requests :
                  boxStage'[q] = "revert" /\ id'[q] \in DOMAIN snaps => id'[q] = file
  BY <1>1, <1>2, <1>6 DEF BoxRestart
<1> QED BY <1>3, <1>4, <1>5, <1>6 DEF BoxRestart

\* While the file is not torn, a reset leaves it with a live snapshot, and the
\* journey makes a torn one whole.
LEMMA BoxRestartKept ==
  ASSUME BoxTyped, BoxMet, BoxAlone, NEW r \in Box!Requests,
         \A q \in Box!Requests : BoxRequest(q), ~torn => BoxApart /\ BoxRestart,
         BoxAct(r), ~torn'
  PROVE  BoxApart' /\ BoxRestart'
<1>1. /\ UNCHANGED <<op, before, met>> /\ r \in Box!Active
      /\ \A q \in Box!Requests : q # r => boxStage'[q] = boxStage[q] /\ id'[q] = id[q]
      /\ "reset" \notin Buys /\ "journey" \notin Buys
  BY BoxFrame, HandlersAssumption DEF Box!SandboxAssumption
<1>2. Box!Active' \subseteq Box!Active
  BY <1>1 DEF Box!Active
<1>3. /\ torn => Box!WriteFile(r) /\ op[r] = "journey" /\ Box!MetPurchases(r)
      /\ ~(Box!Crash(r) /\ boxStage[r] \in {"snapshot", "seed", "write"})
  BY BoxTornBy
<1> USE DEF BoxTyped, Box!GoOn, Box!End
<1>4. ASSUME torn
      PROVE  BoxApart' /\ BoxRestart'
  <2>1. /\ boxStage[r] = "write" /\ boxStage'[r] = "done" /\ file' = id[r] /\ UNCHANGED <<snaps, id>>
        /\ Box!MetPurchases(r)
    BY <1>3, <1>4 DEF Box!WriteFile, Box!WritesId
  <2>2. \A q \in Box!Active : q # r => op[q] \in Buys
    BY <1>1, <2>1, BoxNotBeside
  <2>3. r \notin Box!Active'
    BY <2>1 DEF Box!Active, Box!Done
  <2>4. \A q \in Box!Requests : boxStage'[q] \notin {"revert", "snapshot", "seed", "write"}
    <3>1. ASSUME NEW q \in Box!Requests, q # r, boxStage[q] \in ResetStages
          PROVE  FALSE
      BY <1>1, <2>2, <3>1 DEF BoxRequest, Box!Active, Box!Done, ResetStages
    <3> QED BY <1>1, <2>1, <3>1 DEF ResetStages
  <2>5. file' \in DOMAIN snaps'
    BY <2>1 DEF BoxAlone
  <2>6. BoxApart'
    BY <1>1, <1>2, <2>2, <2>3 DEF BoxApart
  <2> QED BY <2>4, <2>5, <2>6 DEF BoxRestart
<1>5. ASSUME ~torn
      PROVE  BoxApart' /\ BoxRestart'
  <2>1. BoxApart /\ BoxRestart
    BY <1>5
  <2>2. BoxApart'
    BY <1>1, <1>2, <2>1 DEF BoxApart
  <2> SUFFICES BoxRestart'
    BY <2>2
  <2>3. ASSUME boxStage[r] \notin {"revert", "snapshot", "seed", "write"},
               boxStage'[r] \notin {"revert", "snapshot", "seed", "write"},
               UNCHANGED <<snaps, file>>
        PROVE  BoxRestart'
    <3>1. \A q \in Box!Requests :
            \/ boxStage'[q] = boxStage[q] /\ id'[q] = id[q] /\ op'[q] = op[q]
            \/ /\ boxStage[q] \notin {"revert", "snapshot", "seed", "write"}
               /\ boxStage'[q] \notin {"revert", "snapshot", "seed", "write"}
      BY <1>1, <2>3
    <3> QED BY <2>1, <2>3, <3>1, BoxRestartFrame
  <2>4. CASE \/ Box!SendApproval(r) \/ Box!ApprovalReceipt(r) \/ Box!SendPurchase(r)
             \/ Box!PurchaseReceipt(r) \/ Box!ReadAfter(r) \/ Box!AskReason(r)
    BY <2>3, <2>4
    DEF Box!SendApproval, Box!ApprovalReceipt, Box!SendPurchase, Box!PurchaseReceipt,
        Box!ReadAfter, Box!AskReason
  <2>5. CASE Box!Crash(r)
    <3>1. /\ boxStage[r] \notin {"snapshot", "seed", "write"} /\ boxStage'[r] = "dead"
          /\ UNCHANGED <<snaps, file, id>>
      BY <1>3, <2>5 DEF Box!Crash
    <3>2. \A q \in Box!Requests :
            /\ boxStage'[q] \in {"revert", "snapshot", "seed", "write"} =>
                 boxStage'[q] = boxStage[q]
            /\ boxStage[q] \in {"snapshot", "write"} => boxStage'[q] = boxStage[q]
      BY <1>1, <3>1
    <3> QED BY <1>1, <2>1, <3>1, <3>2 DEF BoxRestart
  <2>6. CASE Box!ReadFile(r)
    <3>1. /\ boxStage[r] = "read" /\ boxStage'[r] = "revert" /\ id'[r] = file
          /\ UNCHANGED <<snaps, file>>
      BY <2>6 DEF Box!ReadFile
    <3>2. \A q \in Box!Requests :
            \/ boxStage'[q] = boxStage[q] /\ id'[q] = id[q]
            \/ boxStage[q] = "read" /\ boxStage'[q] = "revert" /\ id'[q] = file
      BY <1>1, <3>1
    <3>3. \A p, q \in Box!Requests :
            boxStage'[p] \in {"snapshot", "write"} /\ boxStage'[q] \in {"snapshot", "write"} => p = q
      BY <2>1, <3>2 DEF BoxRestart
    <3>4. ASSUME NEW p \in Box!Requests
          PROVE  /\ boxStage'[p] # "seed"
                 /\ boxStage'[p] = "write" => id'[p] \in DOMAIN snaps
                 /\ boxStage'[p] = "revert" /\ op[p] = "journey" => id'[p] = file
      BY <2>1, <3>2 DEF BoxRestart
    <3>5. ASSUME NEW p \in Box!Requests, boxStage'[p] \in {"snapshot", "write"}
          PROVE  /\ file \notin DOMAIN snaps
                 /\ \A q \in Box!Requests : boxStage'[q] = "revert" => id'[q] \notin DOMAIN snaps
      BY <2>1, <3>2, <3>5 DEF BoxRestart
    <3>6. ASSUME \A q \in Box!Requests : boxStage'[q] \notin {"snapshot", "write"}
          PROVE  /\ file \in DOMAIN snaps
                 /\ \A q \in Box!Requests :
                      boxStage'[q] = "revert" /\ id'[q] \in DOMAIN snaps => id'[q] = file
      BY <2>1, <3>2, <3>6 DEF BoxRestart
    <3> QED BY <1>1, <3>1, <3>3, <3>4, <3>5, <3>6 DEF BoxRestart
  <2>7. CASE Box!EvmRevert(r) /\ id[r] \in DOMAIN snaps
    <3>1. /\ boxStage[r] = "revert" /\ boxStage'[r] = "snapshot" /\ id' = id
          /\ DOMAIN snaps' = {j \in DOMAIN snaps : j < id[r]} /\ file' = file
      BY <2>7 DEF Box!EvmRevert
    <3>2. \A q \in Box!Requests : boxStage[q] \notin {"snapshot", "write"}
      BY <2>1, <2>7, <3>1 DEF BoxRestart
    <3>3. /\ id[r] = file /\ file \in Nat
          /\ \A q \in Box!Requests : boxStage[q] = "revert" /\ id[q] \in DOMAIN snaps => id[q] = file
      BY <2>1, <2>7, <3>1, <3>2 DEF BoxRestart
    <3>4. file \notin DOMAIN snaps'
      BY <3>1, <3>3
    <3>5. \A q \in Box!Requests : q # r => boxStage'[q] \notin {"snapshot", "write"}
      BY <1>1, <3>2
    <3>6. \A q \in Box!Requests : boxStage'[q] = "revert" => id[q] \notin DOMAIN snaps'
      BY <1>1, <3>1, <3>3, <3>4
    <3>7. \A q \in Box!Requests :
            /\ boxStage'[q] # "seed" /\ boxStage'[q] # "write"
            /\ boxStage'[q] = "revert" /\ op[q] = "journey" => id[q] = file
      BY <1>1, <2>1, <3>1, <3>5 DEF BoxRestart
    <3>8. /\ \A p, q \in Box!Requests :
                boxStage'[p] \in {"snapshot", "write"} /\ boxStage'[q] \in {"snapshot", "write"} => p = q
          /\ \E q \in Box!Requests : boxStage'[q] \in {"snapshot", "write"}
      BY <3>1, <3>5
    <3> QED BY <1>1, <3>1, <3>4, <3>6, <3>7, <3>8 DEF BoxRestart
  <2>8. CASE Box!EvmRevert(r) /\ id[r] \notin DOMAIN snaps
    <3>1. boxStage[r] = "revert" /\ UNCHANGED <<snaps, file, id>>
      BY <2>8 DEF Box!EvmRevert
    <3>2. op[r] # "journey"
      <4>1. ASSUME op[r] = "journey"
            PROVE  FALSE
        <5>1. id[r] = file
          BY <2>1, <3>1, <4>1 DEF BoxRestart
        <5>2. \A q \in Box!Requests : q # r => boxStage[q] \notin {"snapshot", "write"}
          <6>1. ASSUME NEW q \in Box!Requests, q # r, boxStage[q] \in {"snapshot", "write"}
                PROVE  FALSE
            <7>1. q \in Box!Active /\ op[q] \in {"reset", "journey"}
              BY <6>1 DEF Box!Active, Box!Done, BoxRequest, ResetStages
            <7> QED BY <1>1, <2>1, <4>1, <6>1, <7>1 DEF BoxApart
          <6> QED BY <6>1
        <5>3. file \in DOMAIN snaps
          BY <2>1, <3>1, <5>2 DEF BoxRestart
        <5> QED BY <2>8, <5>1, <5>3
      <4> QED BY <4>1
    <3>3. boxStage'[r] = "done"
      BY <2>8, <3>2 DEF Box!EvmRevert
    <3>4. \A q \in Box!Requests :
            /\ boxStage'[q] \in {"revert", "snapshot", "seed", "write"} =>
                 boxStage'[q] = boxStage[q]
            /\ boxStage[q] \in {"snapshot", "write"} => boxStage'[q] = boxStage[q]
      BY <1>1, <3>1, <3>3
    <3> QED BY <1>1, <2>1, <3>1, <3>4 DEF BoxRestart
  <2>9. CASE Box!EvmSnapshot(r)
    <3>1. /\ boxStage[r] = "snapshot" /\ boxStage'[r] = "write" /\ id'[r] = nextId
          /\ DOMAIN snaps' = DOMAIN snaps \cup {nextId} /\ file' = file
      BY <2>1, <2>9 DEF Box!EvmSnapshot, BoxRestart
    <3>2. \A q \in Box!Requests : q # r => boxStage'[q] \notin {"snapshot", "write"}
      BY <1>1, <2>1, <3>1 DEF BoxRestart
    <3>3. file # nextId /\ \A q \in Box!Requests : boxStage[q] = "revert" => id[q] # nextId
      BY DEF BoxRequest
    <3>4. /\ file \notin DOMAIN snaps'
          /\ \A q \in Box!Requests : boxStage'[q] = "revert" => id'[q] \notin DOMAIN snaps'
      BY <1>1, <2>1, <3>1, <3>3 DEF BoxRestart
    <3>5. \A q \in Box!Requests :
            /\ boxStage'[q] # "seed"
            /\ boxStage'[q] = "write" => id'[q] \in DOMAIN snaps'
            /\ boxStage'[q] = "revert" /\ op[q] = "journey" => id'[q] = file
      BY <1>1, <2>1, <3>1, <3>2 DEF BoxRestart
    <3>6. /\ \A p, q \in Box!Requests :
                boxStage'[p] \in {"snapshot", "write"} /\ boxStage'[q] \in {"snapshot", "write"} => p = q
          /\ \E q \in Box!Requests : boxStage'[q] \in {"snapshot", "write"}
      BY <3>1, <3>2
    <3> QED BY <1>1, <3>1, <3>4, <3>5, <3>6 DEF BoxRestart
  <2>10. CASE Box!WriteFile(r)
    <3>1. /\ boxStage[r] = "write" /\ boxStage'[r] = "done" /\ file' = id[r] /\ UNCHANGED <<snaps, id>>
      BY <2>10 DEF Box!WriteFile, Box!WritesId
    <3>2. \A q \in Box!Requests : boxStage'[q] \notin {"snapshot", "seed", "write"}
      BY <1>1, <2>1, <3>1 DEF BoxRestart
    <3>3. \A q \in Box!Requests : boxStage'[q] = "revert" => op[q] # "journey" /\ id[q] \notin DOMAIN snaps
      <4>1. ASSUME NEW q \in Box!Requests, boxStage'[q] = "revert"
            PROVE  op[q] # "journey" /\ id[q] \notin DOMAIN snaps
        <5>1. boxStage[q] = "revert" /\ q # r
          BY <1>1, <3>1, <4>1
        <5>2. q \in Box!Active /\ op[r] \in {"reset", "journey"}
          BY <3>1, <5>1 DEF Box!Active, Box!Done, BoxRequest, ResetStages
        <5> QED BY <1>1, <2>1, <3>1, <5>1, <5>2 DEF BoxApart, BoxRestart
      <4> QED BY <4>1
    <3>4. file' \in DOMAIN snaps'
      BY <2>1, <3>1 DEF BoxRestart
    <3> QED BY <1>1, <3>1, <3>2, <3>3, <3>4 DEF BoxRestart
  <2> QED BY <2>4, <2>5, <2>6, <2>7, <2>8, <2>9, <2>10 DEF BoxAct
<1> QED BY <1>4, <1>5

\* A request begins.
LEMMA BoxBegins ==
  ASSUME BoxInv, NEW r \in Box!Requests, NEW o \in Ops, Box!Request(r, o)
  PROVE  BoxInv'
<1> DEFINE next  == IF o \in Buys THEN "approve" ELSE "read"
           found == IF o \in Buys THEN chain.spent[Human[o]] ELSE None
<1>1. /\ o \in Buys \/ o \in {"reset", "journey"}
      /\ {"reset", "journey"} \cap Buys = {} /\ None # "confirmed"
  BY HandlersAssumption DEF Box!SandboxAssumption
<1>2. /\ boxStage[r] = "unused" /\ boxStage' = [boxStage EXCEPT ![r] = next]
      /\ op' = [op EXCEPT ![r] = o] /\ before' = [before EXCEPT ![r] = found]
      /\ met' = [q \in Box!Requests |-> met[q] \cup IF q = r THEN Box!Active
                                                     ELSE IF q \in Box!Active THEN {r} ELSE {}]
      /\ torn' = (torn \/ Box!Tears(o))
      /\ UNCHANGED <<boxOutcome, chain, snaps, nextId, file, id, reading, resets, seeded, crashes>>
  BY DEF Box!Request, Box!GoOn
<1>3. BoxTyped /\ \A q \in Box!Requests : BoxRequest(q)
  BY DEF BoxInv
<1>4. o \in Buys => Human[o] \in Box!Spenders /\ chain.spent[Human[o]] \in 0..DemoCap
  BY <1>3 DEF Box!Spenders, BoxTyped, Chains
<1>5. /\ next \in BuyStages \cup ResetStages /\ found \in 0..DemoCap \cup {None}
      /\ next \in {"approve", "read"}
  BY <1>4 DEF BuyStages, ResetStages
<1>6. met[r] = {} /\ boxOutcome[r] = None
  BY <1>2, <1>3 DEF BoxRequest
<1>6a. \A q \in Box!Requests :
         /\ met'[q] = met[q] \cup IF q = r THEN Box!Active ELSE IF q \in Box!Active THEN {r} ELSE {}
         /\ met[q] \subseteq met'[q]
  BY <1>2
<1>7. /\ boxStage'[r] = next /\ op'[r] = o /\ before'[r] = found
      /\ \A q \in Box!Requests : q # r =>
           boxStage'[q] = boxStage[q] /\ op'[q] = op[q] /\ before'[q] = before[q]
  BY <1>2, <1>3 DEF BoxTyped
<1>8. BoxTyped'
  <2>1. met' \in [Box!Requests -> SUBSET Box!Requests]
    BY <1>2, <1>3 DEF BoxTyped, Box!Active
  <2>2. torn' \in BOOLEAN
    BY <1>2
  <2> QED BY <1>2, <1>3, <1>5, <2>1, <2>2 DEF BoxTyped
<1>9. ASSUME NEW q \in Box!Requests
      PROVE  BoxRequest(q)'
  <2>1. q \in Box!Active \cup {r} => boxStage'[q] # "unused"
    BY <1>5, <1>7 DEF Box!Active
  <2>2. boxStage'[q] = "unused" => met'[q] = {}
    BY <1>3, <1>6a, <1>7, <2>1 DEF BoxRequest
  <2>3. CASE q = r
    BY <1>1, <1>2, <1>4, <1>6, <1>7, <2>2, <2>3 DEF BoxRequest, BuyStages, ResetStages
  <2>4. CASE q # r
    BY <1>2, <1>3, <1>7, <2>2, <2>4 DEF BoxRequest
  <2> QED BY <2>3, <2>4
<1>10. BoxMet'
  <2>1. Box!Active' \subseteq Box!Active \cup {r}
    BY <1>7 DEF Box!Active, Box!Done
  <2>2. \A p, q \in Box!Active : p # q => q \in met[p]
    BY DEF BoxInv, BoxMet
  <2>3. Box!Active \subseteq Box!Requests /\ r \notin Box!Active
    BY <1>2 DEF Box!Active
  <2>4. ASSUME NEW p \in Box!Active', NEW q \in Box!Active', p # q
        PROVE  q \in met'[p]
    BY <1>6a, <2>1, <2>2, <2>3, <2>4
  <2>5. ASSUME NEW p \in Box!Requests, NEW q \in met'[p]
        PROVE  boxStage'[q] # "unused"
    <3>1. \A x \in met[p] : x \in Box!Requests /\ boxStage[x] # "unused"
      BY <1>3 DEF BoxInv, BoxMet, BoxTyped
    <3>2. \A x \in Box!Active : x \in Box!Requests /\ boxStage[x] # "unused"
      BY DEF Box!Active
    <3>3. q \in met[p] \/ q \in Box!Active \/ q = r
      BY <1>6a
    <3> QED BY <1>2, <1>5, <1>7, <3>1, <3>2, <3>3
  <2> QED BY <2>4, <2>5 DEF BoxMet
<1>11. ASSUME NEW q \in Box!Requests
       PROVE  BoxMined(q)'
  <2>1. BoxMined(q)
    BY DEF BoxInv
  <2>2. boxStage'[q] \in {"unused", "approve", "approving", "buy"}
          => boxStage[q] \in {"unused", "approve", "approving", "buy"}
    BY <1>2, <1>7
  <2> QED BY <1>2, <2>1, <2>2 DEF BoxMined, Unsent
<1>12. ASSUME NEW q \in Box!Requests \ resets'
       PROVE  BoxConfirmed(q)'
  <2>1. BoxConfirmed(q)
    BY <1>2, <1>12 DEF BoxInv
  <2>2. CASE q = r
    <3>1. boxStage'[q] = "approve" => SpentOf(q)' = before'[q] /\ before'[q] \in Int
      BY <1>1, <1>2, <1>4, <1>7, <2>2 DEF SpentOf
    <3> QED BY <1>1, <1>2, <1>5, <1>6, <1>7, <2>2, <3>1 DEF BoxConfirmed
  <2>3. CASE q # r
    BY <1>2, <1>7, <2>1, <2>3 DEF BoxConfirmed, SpentOf
  <2> QED BY <2>2, <2>3
<1>13. ASSUME NEW q \in Box!Requests, met'[q] = {}
       PROVE  BoxJourney(q)'
  <2>1. BoxJourney(q)
    BY <1>6a, <1>13 DEF BoxInv
  <2>2. CASE q = r
    <3>1. boxStage'[q] = "approve" => SpentOf(q)' = before'[q]
      BY <1>1, <1>2, <1>4, <1>7, <2>2 DEF SpentOf
    <3> QED BY <1>5, <1>7, <2>2, <3>1 DEF BoxJourney
  <2>3. CASE q # r
    BY <1>2, <1>7, <2>1, <2>3 DEF BoxJourney, SpentOf, BoxFits
  <2> QED BY <2>2, <2>3
<1>14. \A q \in Box!Requests : \A x \in met[q] : op'[x] = op[x] /\ x \in met'[q]
  <2>1. \A q \in Box!Requests : \A x \in met[q] : x \in Box!Requests /\ boxStage[x] # "unused"
    BY <1>3 DEF BoxInv, BoxMet, BoxTyped
  <2> QED BY <1>2, <1>6a, <1>7, <2>1
<1>15. BoxClean'
  <2>1. \A q \in Box!Requests : MetReset(q) => MetReset(q)'
    BY <1>14 DEF MetReset
  <2>2. chain.bought \subseteq Box!Requests /\ \A i \in DOMAIN snaps : snaps[i].bought \subseteq Box!Requests
    BY <1>3 DEF BoxTyped, Chains
  <2>3. (\E q \in Box!Requests : boxStage'[q] = "snapshot")
          => \E q \in Box!Requests : boxStage[q] = "snapshot"
    BY <1>5, <1>7
  <2> QED BY <1>2, <2>1, <2>2, <2>3 DEF BoxInv, BoxClean, CleanChain
<1>16. BoxAlone'
  <2>1. ASSUME NEW q \in Box!Requests, boxStage'[q] = "write", Box!MetPurchases(q)'
        PROVE  id'[q] \in DOMAIN snaps'
    <3>1. boxStage[q] = "write"
      BY <1>5, <1>7, <2>1
    <3>2. Box!MetPurchases(q)
      BY <1>14, <2>1 DEF Box!MetPurchases
    <3> QED BY <1>2, <3>1, <3>2 DEF BoxInv, BoxAlone
  <2> QED BY <2>1 DEF BoxAlone
<1>17. ASSUME ~torn'
       PROVE  BoxApart' /\ BoxRestart'
  <2>1. BoxApart /\ BoxRestart /\ ~Box!Tears(o)
    BY <1>2, <1>17 DEF BoxInv
  <2>2. BoxRestart'
    BY <1>2, <1>5, <1>7, <2>1, BoxRestartFrame
  <2>3. Box!Active' \subseteq Box!Active \cup {r} /\ r \notin Box!Active
    BY <1>2, <1>7 DEF Box!Active, Box!Done
  <2>4. \A q \in Box!Active : q \in Box!Requests /\ op'[q] = op[q]
    BY <1>7, <2>3 DEF Box!Active
  <2>5. ASSUME NEW p \in Box!Active', NEW q \in Box!Active', p # q, op'[p] = "journey"
        PROVE  op'[q] \notin {"reset", "journey"}
    <3>1. CASE p = r
      <4>1. o = "journey" /\ q \in Box!Active
        BY <1>7, <2>3, <2>5, <3>1
      <4> QED BY <2>1, <2>4, <4>1 DEF Box!Tears, Box!Resetting
    <3>2. CASE q = r
      <4>1. p \in Box!Active /\ op[p] = "journey" /\ op'[q] = o
        BY <1>7, <2>3, <2>4, <2>5, <3>2
      <4> QED BY <2>1, <4>1 DEF Box!Tears, Box!Resetting
    <3>3. CASE p # r /\ q # r
      BY <2>1, <2>3, <2>4, <2>5, <3>3 DEF BoxApart
    <3> QED BY <3>1, <3>2, <3>3
  <2> QED BY <2>2, <2>5 DEF BoxApart
<1> QED BY <1>8, <1>9, <1>10, <1>11, <1>12, <1>13, <1>15, <1>16, <1>17 DEF BoxInv

\* Every step keeps the invariant.
LEMMA BoxStepKeeps ==
  ASSUME BoxInv, [Box!Next]_(Box!vars)
  PROVE  BoxInv'
<1>1. ASSUME NEW r \in Box!Requests, BoxAct(r)
      PROVE  BoxInv'
  <2>1. /\ BoxTyped /\ \A q \in Box!Requests : BoxRequest(q) /\ BoxMined(q)
        /\ BoxMet /\ \A q \in Box!Requests \ resets : BoxConfirmed(q)
        /\ \A q \in Box!Requests : met[q] = {} => BoxJourney(q)
        /\ BoxClean /\ BoxAlone /\ (~torn => BoxApart /\ BoxRestart)
    BY DEF BoxInv
  <2>2. BoxTyped' /\ \A q \in Box!Requests : BoxRequest(q)'
    BY <1>1, <2>1, BoxTypedKept, BoxRequestKept
  <2>3. BoxMet' /\ \A q \in Box!Requests : BoxMined(q)'
    BY <1>1, <2>1, BoxMetKept, BoxMinedKept
  <2>4. \A q \in Box!Requests \ resets' : BoxConfirmed(q)'
    BY <1>1, <2>1, BoxConfirmedKept
  <2>5. \A q \in Box!Requests : met'[q] = {} => BoxJourney(q)'
    BY <1>1, <2>1, BoxJourneyKept
  <2>6. BoxClean' /\ BoxAlone'
    BY <1>1, <2>1, BoxCleanKept, BoxAloneKept
  <2>7. ~torn' => BoxApart' /\ BoxRestart'
    BY <1>1, <2>1, BoxRestartKept
  <2> QED BY <2>2, <2>3, <2>4, <2>5, <2>6, <2>7 DEF BoxInv
<1>2. CASE UNCHANGED Box!vars
  <2>1. UNCHANGED <<chain, snaps, nextId, file, op, boxStage, id, before, met, reading, boxOutcome,
                    resets, seeded, torn, crashes>>
    BY <1>2 DEF Box!vars, Box!requestVars, Box!histories
  <2>2. BoxTyped' /\ BoxMet' /\ \A r \in Box!Requests : BoxRequest(r)' /\ BoxMined(r)'
    BY <2>1 DEF BoxInv, BoxTyped, BoxMet, Box!Active, BoxRequest, BoxMined, Unsent
  <2>3. \A r \in Box!Requests \ resets' : BoxConfirmed(r)'
    BY <2>1 DEF BoxInv, BoxConfirmed, SpentOf
  <2>4. \A r \in Box!Requests : met'[r] = {} => BoxJourney(r)'
    BY <2>1 DEF BoxInv, BoxJourney, BoxFits, SpentOf
  <2>5. BoxClean'
    BY <2>1 DEF BoxInv, BoxClean, CleanChain, MetReset
  <2>6. BoxAlone'
    BY <2>1 DEF BoxInv, BoxAlone, Box!MetPurchases
  <2>7. ~torn' => BoxApart' /\ BoxRestart'
    BY <2>1 DEF BoxInv, BoxApart, Box!Active, BoxRestart
  <2> QED BY <2>2, <2>3, <2>4, <2>5, <2>6, <2>7 DEF BoxInv
<1> QED BY <1>1, <1>2, BoxBegins DEF Box!Next, BoxAct

\* The invariant in the words of the run.
LEMMA BoxInvHolds ==
  ASSUME BoxInv
  PROVE  DemoIsTrue
<1>1. BoxTyped /\ \A r \in Box!Requests : BoxRequest(r) /\ BoxMined(r)
  BY DEF BoxInv
<1>2. Box!TypeOK
  <2>1. \A c \in {chain} \cup {snaps[i] : i \in DOMAIN snaps} : c \in Chains
    BY <1>1 DEF BoxTyped
  <2>2. \A c \in {chain} \cup {snaps[i] : i \in DOMAIN snaps} : c.bought \cap c.reverted = {}
    <3>1. chain.bought \cap chain.reverted = {}
      BY <1>1 DEF BoxMined, BoxTyped, Chains
    <3>2. ASSUME NEW i \in DOMAIN snaps
          PROVE  snaps[i].bought \cap snaps[i].reverted = {}
      BY <1>1 DEF BoxMined, BoxTyped, Chains
    <3> QED BY <3>1, <3>2
  <2> QED BY <1>1, <2>1, <2>2 DEF Box!TypeOK, BoxTyped, Chains
<1>3. Box!MatchesJourney
  <2> SUFFICES ASSUME NEW r \in Box!Requests, met[r] = {}, op[r] \in Buys,
                      boxStage[r] = "done"
               PROVE  LET expected == Box!applyPurchase(before[r], Amount[op[r]]) IN
                        /\ boxOutcome[r] = (IF expected.accepted THEN "confirmed" ELSE "rejected")
                        /\ reading[r] = [spent |-> expected.spent, remaining |-> expected.remaining]
    BY DEF Box!MatchesJourney
  <2>1. Amount[op[r]] \in Nat \ {0} /\ before[r] \in 0..DemoCap /\ DemoCap \in Nat
    BY <1>1, BoxFigures DEF BoxRequest
  <2>2. BoxJourney(r)
    BY DEF BoxInv
  <2>3. LET spent == before[r] + IF BoxFits(r) THEN Amount[op[r]] ELSE 0
        IN  /\ boxOutcome[r] = (IF BoxFits(r) THEN "confirmed" ELSE "rejected")
            /\ reading[r] = [spent |-> spent, remaining |-> DemoCap - spent]
    BY <2>2 DEF BoxJourney
  <2> DEFINE expected == Box!applyPurchase(before[r], Amount[op[r]])
  <2>4. expected.accepted <=> BoxFits(r)
    <3>1. expected.accepted = (Amount[op[r]] > 0 /\ Amount[op[r]] <= DemoCap - before[r])
      BY Zenon DEF Box!applyPurchase
    <3>2. (Amount[op[r]] > 0 /\ Amount[op[r]] <= DemoCap - before[r]) <=> BoxFits(r)
      BY <2>1 DEF BoxFits
    <3> QED BY <3>1, <3>2, Zenon
  <2>5. expected.spent = before[r] + IF BoxFits(r) THEN Amount[op[r]] ELSE 0
    BY <2>1 DEF BoxFits, Box!applyPurchase
  <2>6. expected.remaining = DemoCap - expected.spent
    BY DEF Box!applyPurchase
  <2> HIDE DEF expected
  <2>7. /\ boxOutcome[r] = (IF expected.accepted THEN "confirmed" ELSE "rejected")
        /\ reading[r] = [spent |-> expected.spent, remaining |-> expected.remaining]
    BY <2>3, <2>4, <2>5, <2>6
  <2> QED BY <2>7 DEF expected
<1>4. Box!ConfirmedIsRead
  BY DEF BoxInv, BoxConfirmed, Box!ConfirmedIsRead
<1>5. Box!CanRestart
  <2>1. ASSUME Box!Resetting = {}, ~torn
        PROVE  file \in DOMAIN snaps
    <3>1. BoxRestart
      BY <2>1 DEF BoxInv
    <3>2. \A r \in Box!Requests : boxStage[r] \notin {"snapshot", "write"}
      BY <1>1, <2>1 DEF BoxRequest, ResetStages, Box!Resetting, Box!Active, Box!Done
    <3> QED BY <3>1, <3>2 DEF BoxRestart
  <2> QED BY <2>1 DEF Box!CanRestart
<1>6. Box!LoadsNoOther
  BY DEF BoxInv, BoxClean, CleanChain, MetReset, Box!LoadsNoOther
<1> QED BY <1>2, <1>3, <1>4, <1>5, <1>6 DEF DemoIsTrue

-----------------------------------------------------------------------------
(* The console *)

Settings == [owner : Accounts, threshold : Console!Levels, oracle : Oracles, paused : BOOLEAN]

ConsoleTyped ==
  /\ account \in Accounts /\ switches \in 0..MaxSwitches /\ clicks \in 0..MaxClicks
  /\ hook \in Settings /\ moved \in BOOLEAN
  /\ volatility \in [Oracles -> Console!Levels]
  /\ addresses \in [Pages -> {"loading", "ready", "failed"}]
  /\ call \in [Console!Clicks -> Console!Call \cup {None}]
  /\ sender \in [Console!Clicks -> Accounts \cup {None}]
  /\ clickStage \in [Console!Clicks -> {"unused", "wallet", "receipt", "done"}]
  /\ status \in [Console!Clicks -> {None, "pending", "success", "failed"}]
  /\ tx \in [Console!Clicks -> {None, "pending", "applied", "reverted"}]

\* A click has an entry of the log, a stage and a transaction that agree.
ClickOK(i) ==
  /\ i > clicks => clickStage[i] = "unused" /\ status[i] = None
  /\ i <= clicks => clickStage[i] # "unused" /\ call[i] \in Console!Call
  /\ clickStage[i] \in {"unused", "wallet"} => tx[i] = None
  /\ clickStage[i] \in {"wallet", "receipt"} => status[i] = "pending"
  /\ clickStage[i] = "receipt" => tx[i] # None
  /\ clickStage[i] = "done" => status[i] \in {"success", "failed"}
  /\ status[i] = "success" => tx[i] \in {"applied", "reverted"}
  /\ i <= clicks /\ (~moved \/ call[i].kind = "setVolatility") => sender[i] = Deployer
  /\ tx[i] = "reverted" => moved \/ Console!ZeroOracle(i)

\* The deployer owns the oracle, and the hook until it is handed on.
OwnersShown ==
  /\ DOMAIN shown = Pages /\ \A p \in Pages : DOMAIN shown[p] = Console!Reads(p)
  /\ ~moved => hook.owner = Deployer
  /\ "observatory" \in Pages =>
       /\ shown["observatory"]["oracleOwner"] \in {None, Deployer}
       /\ ~moved => shown["observatory"]["owner"] \in {None, Deployer}

ConsoleInv == ConsoleTyped /\ OwnersShown /\ \A i \in Console!Clicks : ClickOK(i)

\* The console begins in its invariant.
LEMMA ConsoleStarts ==
  ASSUME Console!Init
  PROVE  ConsoleInv
<1> USE HandlersAssumption DEF Console!ConsoleAssumption
<1>1. 0 \in 0..MaxSwitches /\ 0 \in 0..MaxClicks /\ 0 \in Console!Levels /\ 1 \in Console!Levels
      /\ MaxVolatility \in Console!Levels
  BY DEF Console!Levels
<1>2. hook \in Settings
  BY <1>1 DEF Console!Init, Settings
<1>3. volatility \in [Oracles -> Console!Levels]
  BY <1>1 DEF Console!Init
<1>4. ConsoleTyped
  BY <1>1, <1>2, <1>3 DEF Console!Init, ConsoleTyped
<1>5. \A i \in Console!Clicks : ClickOK(i)
  BY DEF Console!Init, ClickOK, Console!Clicks
<1>6. \A p \in Pages : shown[p] = [r \in Console!Reads(p) |-> None]
  BY DEF Console!Init
<1>7. OwnersShown
  BY <1>6 DEF Console!Init, OwnersShown, Console!Reads, Console!ObservatoryReads
<1> QED BY <1>4, <1>5, <1>7 DEF ConsoleInv

\* What the pages, the account and the owner do touches no click.
LEMMA ConsolePagesKeep ==
  ASSUME ConsoleInv,
         \/ Console!SwitchAccount \/ Console!TransferOwnership
         \/ \E p \in Pages : Console!LoadAddresses(p) \/ \E r \in Console!Reads(p) : Console!Poll(p, r)
         \/ UNCHANGED Console!vars
  PROVE  ConsoleInv'
<1> USE HandlersAssumption DEF Console!ConsoleAssumption
<1>1. UNCHANGED <<clicks, call, sender, clickStage, status, tx>>
  BY DEF Console!SwitchAccount, Console!TransferOwnership, Console!LoadAddresses, Console!Poll,
     Console!logVars, Console!vars
<1>2. \A i \in Console!Clicks : ClickOK(i)'
  <2>1. moved => moved'
    BY DEF Console!SwitchAccount, Console!TransferOwnership, Console!LoadAddresses, Console!Poll,
       Console!chainVars, Console!vars
  <2> QED BY <1>1, <2>1 DEF ConsoleInv, ConsoleTyped, ClickOK, Console!ZeroOracle
<1>3. ConsoleTyped'
  <2>1. CASE Console!SwitchAccount
    BY <2>1 DEF Console!SwitchAccount, Console!Switch, Console!chainVars, Console!pageVars,
       Console!logVars, ConsoleInv, ConsoleTyped
  <2>2. CASE Console!TransferOwnership
    BY <2>2 DEF Console!TransferOwnership, Console!Switch, Console!chainVars, Console!pageVars,
       Console!logVars, ConsoleInv, ConsoleTyped, Settings
  <2>3. ASSUME NEW p \in Pages, Console!LoadAddresses(p)
        PROVE  ConsoleTyped'
    BY <2>3 DEF Console!LoadAddresses, Console!chainVars,
       Console!logVars, ConsoleInv, ConsoleTyped
  <2>4. ASSUME NEW p \in Pages, NEW r \in Console!Reads(p), Console!Poll(p, r)
        PROVE  ConsoleTyped'
    BY <2>4 DEF Console!Poll, Console!chainVars, Console!logVars, ConsoleInv, ConsoleTyped
  <2>5. CASE UNCHANGED Console!vars
    BY <2>5 DEF Console!vars, Console!chainVars, Console!pageVars, Console!logVars, ConsoleInv,
       ConsoleTyped
  <2> QED BY <2>1, <2>2, <2>3, <2>4, <2>5
<1>4. OwnersShown'
  <2>1. CASE Console!SwitchAccount
    BY <2>1 DEF Console!SwitchAccount, Console!chainVars, Console!pageVars, ConsoleInv, OwnersShown
  <2>2. CASE Console!TransferOwnership
    BY <2>2 DEF Console!TransferOwnership, Console!pageVars, ConsoleInv, OwnersShown
  <2>3. ASSUME NEW p \in Pages, Console!LoadAddresses(p)
        PROVE  OwnersShown'
    BY <2>3 DEF Console!LoadAddresses, Console!chainVars, ConsoleInv, OwnersShown
  <2>4. ASSUME NEW p \in Pages, NEW r \in Console!Reads(p), Console!Poll(p, r)
        PROVE  OwnersShown'
    <3>1. /\ shown' = [shown EXCEPT ![p][r] = Console!Value(r)] /\ UNCHANGED <<hook, moved>>
      BY <2>4 DEF Console!Poll, Console!chainVars
    <3>2. OwnersShown
      BY DEF ConsoleInv
    <3>3. /\ DOMAIN shown' = Pages /\ \A q \in Pages : DOMAIN shown'[q] = Console!Reads(q)
          /\ \A q \in Pages : \A x \in Console!Reads(q) :
               shown'[q][x] = shown[q][x] \/ shown'[q][x] = Console!Value(x)
      BY <3>1, <3>2 DEF OwnersShown
    <3>4. /\ Console!Value("owner") = hook.owner /\ Console!Value("oracleOwner") = Deployer
      BY DEF Console!Value
    <3>5. {"owner", "oracleOwner"} \subseteq Console!Reads("observatory")
      BY DEF Console!Reads, Console!ObservatoryReads
    <3> QED BY <3>1, <3>2, <3>3, <3>4, <3>5 DEF OwnersShown
  <2>5. CASE UNCHANGED Console!vars
    BY <2>5 DEF Console!vars, Console!chainVars, Console!pageVars, ConsoleInv, OwnersShown
  <2> QED BY <2>1, <2>2, <2>3, <2>4, <2>5
<1> QED BY <1>2, <1>3, <1>4 DEF ConsoleInv

\* A click opens the next entry of the log.
LEMMA ConsoleSubmitKeeps ==
  ASSUME ConsoleInv, NEW c \in Console!Call, Console!Submit(c)
  PROVE  ConsoleInv'
<1> USE HandlersAssumption DEF Console!ConsoleAssumption
<1>1. /\ clicks' = clicks + 1 /\ clicks' \in 0..MaxClicks /\ clicks' \in Console!Clicks
      /\ clicks \in Nat
  BY DEF Console!Submit, ConsoleInv, ConsoleTyped, Console!Clicks
<1>2. ConsoleTyped'
  BY <1>1 DEF Console!Submit, ConsoleInv, ConsoleTyped, Console!chainVars, Console!pageVars
<1>3. /\ UNCHANGED <<hook, moved, shown, tx>>
      /\ ~moved \/ c.kind = "setVolatility" => account = Deployer
  <2>1. UNCHANGED <<hook, moved, shown, tx>> /\ Console!MayAsk(c) /\ "observatory" \in Pages
    BY DEF Console!Submit, Console!chainVars, Console!pageVars
  <2>2. account # None /\ OwnersShown
    BY DEF ConsoleInv, ConsoleTyped
  <2> QED BY <2>1, <2>2 DEF Console!MayAsk, OwnersShown
<1>4. OwnersShown'
  BY <1>3 DEF ConsoleInv, OwnersShown
<1>5. ASSUME NEW i \in Console!Clicks
      PROVE  ClickOK(i)'
  <2>1. i \in Nat /\ ClickOK(i)
    BY DEF ConsoleInv, Console!Clicks
  <2>2. CASE i = clicks + 1
    <3>1. /\ call'[i] = c /\ clickStage'[i] = "wallet" /\ status'[i] = "pending"
          /\ sender'[i] = account
      BY <1>1, <2>2 DEF Console!Submit, ConsoleInv, ConsoleTyped
    <3> QED BY <1>1, <1>3, <2>1, <2>2, <3>1 DEF ClickOK
  <2>3. CASE i # clicks + 1
    <3>1. /\ call'[i] = call[i] /\ clickStage'[i] = clickStage[i] /\ status'[i] = status[i]
          /\ sender'[i] = sender[i]
      BY <1>1, <2>3 DEF Console!Submit, ConsoleInv, ConsoleTyped
    <3> QED BY <1>1, <1>3, <2>1, <2>3, <3>1 DEF ClickOK, Console!ZeroOracle
  <2> QED BY <2>2, <2>3
<1> QED BY <1>2, <1>4, <1>5 DEF ConsoleInv

\* What becomes of a click.
LEMMA ConsoleClickKeeps ==
  ASSUME ConsoleInv, NEW i \in Console!Clicks,
         \/ Console!Rejected(i) \/ Console!Sent(i) \/ Console!ReceiptRead(i) \/ Console!TimesOut(i)
  PROVE  ConsoleInv'
<1> USE HandlersAssumption DEF Console!ConsoleAssumption
<1>1. UNCHANGED <<account, switches, hook, moved, volatility, addresses, shown, clicks, call, sender>>
  BY DEF Console!Rejected, Console!Sent, Console!ReceiptRead, Console!TimesOut, Console!At,
     Console!chainVars, Console!pageVars
<1>2. ConsoleTyped' /\ \A j \in Console!Clicks : ClickOK(j)'
  <2>1. CASE Console!Rejected(i)
    BY <1>1, <2>1 DEF Console!Rejected, Console!At, Console!Patch, Console!EntryOf, Console!EndFlow,
       ConsoleInv, ConsoleTyped, ClickOK, Console!ZeroOracle
  <2>2. CASE Console!Sent(i)
    BY <1>1, <2>2 DEF Console!Sent, Console!At, ConsoleInv, ConsoleTyped, ClickOK, Console!ZeroOracle
  <2>3. CASE Console!ReceiptRead(i)
    BY <1>1, <2>3 DEF Console!ReceiptRead, Console!At, Console!Patch, Console!EntryOf,
       Console!EndFlow, ConsoleInv, ConsoleTyped, ClickOK, Console!ZeroOracle
  <2>4. CASE Console!TimesOut(i)
    BY <1>1, <2>4 DEF Console!TimesOut, Console!At, Console!Patch, Console!EntryOf,
       Console!EndFlow, ConsoleInv, ConsoleTyped, ClickOK, Console!ZeroOracle
  <2> QED BY <2>1, <2>2, <2>3, <2>4
<1>3. OwnersShown'
  BY <1>1 DEF ConsoleInv, OwnersShown
<1> QED BY <1>2, <1>3 DEF ConsoleInv

\* A transaction of the console is mined, after its flow gave up on it or before.
LEMMA ConsoleMineKeeps ==
  ASSUME ConsoleInv, NEW i \in Console!Clicks, Console!Mine(i)
  PROVE  ConsoleInv'
<1> USE HandlersAssumption DEF Console!ConsoleAssumption
<1>1. /\ UNCHANGED <<account, switches, addresses, shown, clicks, call, sender, clickStage, status>>
      /\ tx[i] = "pending"
  BY DEF Console!Mine, Console!pageVars, Console!logVars
<1>2. PICK t \in {"applied", "reverted"} :
        /\ tx' = [tx EXCEPT ![i] = t]
        /\ t = "reverted" => ~Console!Accepts(i)
  BY DEF Console!Mine
<1>2a. /\ moved' = moved /\ hook'.owner = hook.owner
  BY DEF Console!Mine, Console!chainVars, Console!Set, ConsoleInv, ConsoleTyped, Settings
<1>2b. ~Console!Accepts(i) => moved \/ Console!ZeroOracle(i)
  <2>1. ClickOK(i) /\ i <= clicks
    BY <1>1 DEF ConsoleInv, ConsoleTyped, ClickOK, Console!Clicks
  <2>2. ~moved => hook.owner = Deployer
    BY DEF ConsoleInv, OwnersShown
  <2> QED BY <2>1, <2>2 DEF ClickOK, Console!Accepts, Console!ZeroOracle
<1>3. ASSUME NEW j \in Console!Clicks
      PROVE  ClickOK(j)'
  <2>1. ClickOK(j) /\ tx'[j] = IF j = i THEN t ELSE tx[j]
    BY <1>2 DEF ConsoleInv, ConsoleTyped
  <2> QED BY <1>1, <1>2, <1>2a, <1>2b, <2>1 DEF ClickOK, Console!ZeroOracle
<1>4. call[i] \in Console!Call
  BY <1>1 DEF ConsoleInv, ConsoleTyped, ClickOK, Console!Clicks
<1>5. hook' \in Settings /\ volatility' \in [Oracles -> Console!Levels]
  <2>1. hook \in Settings /\ volatility \in [Oracles -> Console!Levels]
    BY DEF ConsoleInv, ConsoleTyped
  <2>2. CASE ~Console!Accepts(i)
    BY <2>1, <2>2 DEF Console!Mine, Console!chainVars
  <2>3. CASE Console!Accepts(i) /\ call[i].kind = "setVolatilityThreshold"
    <3>1. call[i].value \in Console!Levels
      BY <1>4, <2>3 DEF Console!Call
    <3>2. Console!Set("threshold", i)
      BY <2>3 DEF Console!Mine
    <3> QED BY <2>1, <3>1, <3>2 DEF Console!Set, Settings
  <2>4. CASE Console!Accepts(i) /\ call[i].kind = "setOracle"
    <3>1. call[i].value \in Oracles
      BY <1>4, <2>4 DEF Console!Call, Console!Accepts
    <3>2. Console!Set("oracle", i)
      BY <2>4 DEF Console!Mine
    <3> QED BY <2>1, <3>1, <3>2 DEF Console!Set, Settings
  <2>5. CASE Console!Accepts(i) /\ call[i].kind = "setPoolPaused"
    <3>1. call[i].value \in BOOLEAN
      BY <1>4, <2>5 DEF Console!Call
    <3>2. Console!Set("paused", i)
      BY <2>5 DEF Console!Mine
    <3> QED BY <2>1, <3>1, <3>2 DEF Console!Set, Settings
  <2>6. CASE Console!Accepts(i) /\ call[i].kind = "setVolatility"
    <3>1. call[i].value \in Console!Levels
      BY <1>4, <2>6 DEF Console!Call
    <3>2. volatility' = [volatility EXCEPT ![Deployed] = call[i].value] /\ UNCHANGED <<hook, moved>>
      BY <2>6 DEF Console!Mine
    <3> QED BY <2>1, <3>1, <3>2
  <2>7. CASE /\ Console!Accepts(i)
             /\ call[i].kind \notin {"setVolatilityThreshold", "setOracle", "setPoolPaused",
                                     "setVolatility"}
    BY <2>1, <2>7 DEF Console!Mine, Console!chainVars
  <2> QED BY <2>2, <2>3, <2>4, <2>5, <2>6, <2>7
<1>6. ConsoleTyped'
  BY <1>1, <1>2, <1>2a, <1>5 DEF ConsoleInv, ConsoleTyped
<1>7. OwnersShown'
  BY <1>1, <1>2a DEF ConsoleInv, OwnersShown
<1> QED BY <1>3, <1>6, <1>7 DEF ConsoleInv

\* Every step keeps the invariant.
LEMMA ConsoleStepKeeps ==
  ASSUME ConsoleInv, [Console!Next]_(Console!vars)
  PROVE  ConsoleInv'
BY ConsolePagesKeep, ConsoleSubmitKeeps, ConsoleClickKeeps, ConsoleMineKeeps DEF Console!Next

\* The pages' copy of the fee rule agrees with the hook's, for every tier that may trade.
LEMMA FeesAgree ==
  ASSUME NEW level \in Console!Levels, NEW threshold \in Console!Levels, NEW tier \in 1..2
  PROVE  Console!ShownFee(tier, level, threshold) = Console!ChargedFee(tier, level, threshold)
<1>1. MaxVolatility \in Nat /\ level \in Nat /\ threshold \in Nat /\ (tier = 1 \/ tier = 2)
  BY HandlersAssumption DEF Console!ConsoleAssumption, Console!Levels
<1> QED BY <1>1 DEF Console!ShownFee, Console!ChargedFee

\* The invariant in the words of the run.
LEMMA ConsoleInvHolds ==
  ASSUME ConsoleInv
  PROVE  ConsoleIsTrue
<1> USE HandlersAssumption DEF Console!ConsoleAssumption
<1>1. Console!TypeOK
  <2>1. \A i \in Console!Clicks : (status[i] = None) = (i > clicks)
    BY DEF ConsoleInv, ConsoleTyped, ClickOK, Console!Clicks
  <2> QED BY <2>1 DEF ConsoleInv, ConsoleTyped, Settings, Console!TypeOK
<1>2. Console!EntryIsItsOwn
  BY DEF ConsoleInv, ConsoleTyped, ClickOK, Console!EntryIsItsOwn, Console!Clicks
<1>3. Console!FeeAsCharged
  <2> SUFFICES ASSUME NEW p \in Pages, Console!IsCurrent(p), hook.oracle = Deployed, NEW tier \in 1..2
               PROVE  /\ Console!PageFee(p, tier)
                           = Console!ChargedFee(tier, volatility[hook.oracle], hook.threshold)
                      /\ \A level \in Console!Levels :
                           Console!Chart(shown[p].threshold)[level][tier]
                             = Console!ChargedFee(tier, level, hook.threshold)
    BY DEF Console!FeeAsCharged
  <2>1. shown[p]["threshold"] = hook.threshold /\ shown[p]["volatility"] = volatility[Deployed]
    BY DEF Console!IsCurrent, Console!Value
  <2>2. hook.threshold \in Console!Levels /\ volatility[Deployed] \in Console!Levels
    BY DEF ConsoleInv, ConsoleTyped, Settings
  <2>3. Console!PageFee(p, tier)
           = Console!ChargedFee(tier, volatility[hook.oracle], hook.threshold)
    BY <2>1, <2>2, FeesAgree DEF Console!PageFee
  <2>4. ASSUME NEW level \in Console!Levels
        PROVE  Console!Chart(shown[p].threshold)[level][tier]
                 = Console!ChargedFee(tier, level, hook.threshold)
    BY <2>1, <2>2, FeesAgree DEF Console!Chart
  <2> QED BY <2>3, <2>4
<1> QED BY <1>1, <1>2, <1>3 DEF ConsoleIsTrue

-----------------------------------------------------------------------------
(* The status report, and the directory that runs it and looks the offering's  *)
(* record up.  What a report under way holds was so at some moment of it, and  *)
(* is so while nothing moved and no read failed.                               *)

Reports ==
  [at : {"idle", "chainId", "ledger", "signer", "owner", "market", "hook", "tokens", "policy"},
   hasCode : BOOLEAN, signer : Directory!Sides, owner : BOOLEAN,
   unread : SUBSET (Directory!Market \cup {"group", "period"}), bare : SUBSET Directory!Market,
   group : Directory!Sides, period : Periods \cup {None}, available : BOOLEAN, failed : BOOLEAN]

StatusTyped ==
  /\ env \in Directory!Environment /\ ledger \in Directory!Chain
  /\ administered \in 0..MaxAdministered /\ asked \in 0..MaxReports
  /\ report \in Reports /\ held \subseteq Directory!Chain
  /\ report.at # "idle" => reported = None /\ ledger \in held

\* Code stays where it is, and the tokens of the executor are immutable.
WhatStays ==
  /\ \A c \in held : c.pair = ledger.pair
  /\ report.at # "idle" =>
       /\ report.hasCode => "ledger" \in ledger.code
       /\ report.at = "market" => (Directory!Market \ report.unread) \ report.bare \subseteq ledger.code
       /\ report.at \in {"hook", "tokens"} \/ report.available => Directory!Market \subseteq ledger.code

\* What a report under way has read was so at some moment of it.
ReadWasSo ==
  report.at # "idle" =>
    /\ report.at \in {"chainId", "ledger"} => ~report.hasCode
    /\ report.at \in {"chainId", "ledger", "signer"} => report.signer = "other"
    /\ report.at \in {"chainId", "ledger", "signer", "owner"} =>
         /\ report.bare = {} /\ report.period = None /\ report.group = "other"
         /\ ~report.failed /\ ~report.available
    /\ report.at \in {"signer", "owner"} => report.hasCode
    /\ report.at \in {"market", "hook", "tokens"} => env.market
    /\ report.at = "market" => report.unread # {} /\ report.unread \subseteq Directory!Market
    /\ report.at = "hook" => report.unread # {} /\ report.unread \subseteq {"group", "period"}
    /\ report.hasCode /\ report.signer = "configured" => \E c \in held : Directory!Registers(c)
    /\ report.group = "configured" => \E c \in held : c.group = "configured"
    /\ report.period # None => \E c \in held : c.period = report.period
    /\ report.at = "hook" /\ "period" \notin report.unread => report.period # None
    /\ report.at = "tokens" => report.period # None /\ report.group = "configured"
    /\ report.available =>
         /\ report.at = "policy" /\ report.period # None /\ report.group = "configured"
         /\ ledger.pair = "configured" /\ env.market

\* What it has read is so, while nothing was administered and no read failed.
ReadIsSo ==
  report.at # "idle" /\ ~report.failed /\ held = {ledger} =>
    /\ report.at \notin {"chainId", "ledger"} => (report.hasCode <=> "ledger" \in ledger.code)
    /\ report.at \notin {"chainId", "ledger", "signer"} /\ report.hasCode =>
         report.signer = ledger.signer
    /\ report.at \notin {"hook", "tokens", "policy"} => report.period = None
    /\ report.at = "market" =>
         report.bare = (Directory!Market \ report.unread) \ ledger.code
    /\ report.at = "hook" =>
         /\ "group" \notin report.unread => report.group = ledger.group
         /\ "period" \notin report.unread => report.period = ledger.period
    /\ report.at = "tokens" => report.period = ledger.period /\ report.group = ledger.group
    /\ report.at = "policy" =>
         /\ Directory!PeriodToRead(report) = Directory!EnforcedPeriod(ledger)
         /\ report.available <=> /\ Directory!HookIsRead(ledger) /\ ledger.group = "configured"
                                 /\ ledger.pair = "configured"

\* What an answer says.
AnswerHolds ==
  reported # None =>
    /\ reported.period \in Periods \cup {None}
    /\ reported.policy # None =>
         /\ reported.policy.cap \in Caps /\ reported.policy.period \in Periods
         /\ \E c \in held : c.policy[reported.policy.period] = reported.policy.cap
    /\ reported.marketReady => reported.policyReady
    /\ reported.policyReady => reported.registrationReady

StatusInv ==
  /\ StatusTyped /\ WhatStays /\ ReadWasSo /\ ReadIsSo /\ AnswerHolds
  /\ Directory!RightWhenUndisturbed /\ Directory!MarketReadyWasSo

\* What is assumed, fact by fact.
LEMMA ReadersFacts ==
  /\ Envs \subseteq Directory!Environment /\ InitialPeriod \in Periods
  /\ Caps \subseteq Nat /\ 0 \notin Caps
  /\ None \notin Nat /\ None \notin Periods /\ None \notin [cap : Caps, period : Periods]
  /\ None # "configured" /\ None # "other" /\ MaxAdministered \in Nat /\ MaxReports \in Nat
  /\ Lifetime \in Nat /\ Lifetime # 0 /\ LastTime \in Nat
BY HandlersAssumption DEF Directory!StatusAssumption, Directory!DirectoryAssumption

\* Nothing was asked at first.
LEMMA StatusStarts ==
  ASSUME Directory!Init
  PROVE  StatusInv
<1> USE ReadersFacts
<1>1. /\ env \in Envs /\ ledger \in Directory!Chain /\ administered = 0 /\ report = Directory!Idle
      /\ asked = 0 /\ reported = None /\ held = {}
  BY DEF Directory!Init
<1>2. report \in Reports /\ report.at = "idle"
  BY <1>1 DEF Directory!Idle, Reports, Directory!Sides
<1>3. 0 \in 0..MaxAdministered /\ 0 \in 0..MaxReports
  OBVIOUS
<1>4. StatusTyped
  BY <1>1, <1>2, <1>3 DEF StatusTyped
<1>5. WhatStays /\ ReadWasSo /\ ReadIsSo /\ AnswerHolds
  BY <1>1, <1>2 DEF WhatStays, ReadWasSo, ReadIsSo, AnswerHolds
<1>6. Directory!RightWhenUndisturbed /\ Directory!MarketReadyWasSo
  BY <1>1 DEF Directory!RightWhenUndisturbed, Directory!MarketReadyWasSo, Directory!Done
<1> QED BY <1>4, <1>5, <1>6 DEF StatusInv

\* A transaction changes one thing of the contracts, never what stays.
LEMMA AdministeredAs ==
  ASSUME ledger \in Directory!Chain, Directory!Administer
  PROVE  /\ ledger' \in Directory!Chain /\ ledger' # ledger
         /\ ledger'.pair = ledger.pair /\ ledger.code \subseteq ledger'.code
<1> USE ReadersFacts
<1>1. CASE ledger' = [ledger EXCEPT !.code = Directory!Contracts]
  BY <1>1 DEF Directory!Chain, Directory!Administer
<1>2. ASSUME NEW s \in Directory!Sides, ledger' = [ledger EXCEPT !.signer = s]
      PROVE  /\ ledger' \in Directory!Chain
             /\ ledger'.pair = ledger.pair /\ ledger.code \subseteq ledger'.code
  BY <1>2 DEF Directory!Chain
<1>3. ASSUME NEW p \in Periods, NEW cap \in Caps, ledger' = [ledger EXCEPT !.policy[p] = cap]
      PROVE  /\ ledger' \in Directory!Chain
             /\ ledger'.pair = ledger.pair /\ ledger.code \subseteq ledger'.code
  <2>1. ledger' = [ledger EXCEPT !.policy = [ledger.policy EXCEPT ![p] = cap]]
    BY <1>3
  <2>2. [ledger.policy EXCEPT ![p] = cap] \in [Periods -> Caps \cup {0}]
    BY DEF Directory!Chain
  <2> QED BY <2>1, <2>2 DEF Directory!Chain
<1>4. ASSUME NEW g \in Directory!Sides, NEW p \in Periods,
             ledger' = [ledger EXCEPT !.group = g, !.period = p]
      PROVE  /\ ledger' \in Directory!Chain
             /\ ledger'.pair = ledger.pair /\ ledger.code \subseteq ledger'.code
  BY <1>4 DEF Directory!Chain
<1>5. \/ ledger' = [ledger EXCEPT !.code = Directory!Contracts]
      \/ \E s \in Directory!Sides : ledger' = [ledger EXCEPT !.signer = s]
      \/ \E p \in Periods, cap \in Caps : ledger' = [ledger EXCEPT !.policy[p] = cap]
      \/ \E g \in Directory!Sides, p \in Periods :
           ledger' = [ledger EXCEPT !.group = g, !.period = p]
  BY DEF Directory!Administer
<1>6. ledger' # ledger
  BY DEF Directory!Administer
<1> QED BY <1>1, <1>2, <1>3, <1>4, <1>5, <1>6

\* What is administered is read by a report under way, or was not read yet.
LEMMA AdministerKeeps ==
  ASSUME StatusInv, Directory!Administer
  PROVE  StatusInv'
<1> USE ReadersFacts
<1>1. /\ ledger' \in Directory!Chain /\ ledger' # ledger
      /\ ledger'.pair = ledger.pair /\ ledger.code \subseteq ledger'.code
  BY AdministeredAs DEF StatusInv, StatusTyped
<1>2. /\ administered < MaxAdministered /\ administered' = administered + 1
      /\ UNCHANGED <<env, report, asked, reported>>
      /\ held' = IF report.at = "idle" THEN held ELSE held \cup {ledger'}
  BY DEF Directory!Administer
<1>3. held \subseteq held' /\ held' \subseteq held \cup {ledger'}
  BY <1>2
<1>4. StatusTyped'
  BY <1>1, <1>2, <1>3 DEF StatusInv, StatusTyped
<1>5. WhatStays'
  <2>1. \A c \in held' : c.pair = ledger'.pair
    BY <1>1, <1>3 DEF StatusInv, WhatStays
  <2> QED BY <1>1, <1>2, <2>1 DEF StatusInv, WhatStays
<1>6. ReadWasSo'
  <2>1. \A c : Directory!Registers(c)' <=> Directory!Registers(c)
    BY DEF Directory!Registers
  <2> QED BY <1>1, <1>2, <1>3, <2>1 DEF StatusInv, ReadWasSo
<1>7. ReadIsSo'
  <2>1. report.at # "idle" => held' # {ledger'}
    BY <1>1, <1>2 DEF StatusInv, StatusTyped
  <2> QED BY <1>2, <2>1 DEF ReadIsSo
<1>8. AnswerHolds'
  BY <1>2, <1>3 DEF StatusInv, AnswerHolds
<1>9. Directory!RightWhenUndisturbed' /\ Directory!MarketReadyWasSo'
  <2>1. Directory!Done' => Directory!Done /\ held' = held
    BY <1>2 DEF Directory!Done
  <2> QED
    BY <1>2, <2>1
    DEF StatusInv, Directory!RightWhenUndisturbed, Directory!MarketReadyWasSo, Directory!Registers,
        Directory!HasPolicy, Directory!Sells, Directory!HookIsRead, Directory!EnforcedPeriod
<1> QED BY <1>4, <1>5, <1>6, <1>7, <1>8, <1>9 DEF StatusInv

\* A report is asked for: nothing of it is read yet.
LEMMA AskKeeps ==
  ASSUME StatusInv, Directory!Ask
  PROVE  StatusInv'
<1> USE ReadersFacts
<1>1. /\ asked < MaxReports /\ asked' = asked + 1 /\ held' = {ledger}
      /\ UNCHANGED <<env, ledger, administered>>
  BY DEF Directory!Ask
<1>2. \/ /\ report' = [Directory!Idle EXCEPT !.at = "chainId"] /\ reported' = None
      \/ /\ report' = Directory!Idle /\ reported' = Directory!Problem(env.config)
         /\ env.config # "valid"
  BY DEF Directory!Ask
<1>2a. Directory!Idle \in Reports
  BY DEF Directory!Idle, Reports, Directory!Sides
<1>3. /\ report' \in Reports /\ report'.at \in {"idle", "chainId"} /\ ~report'.hasCode
      /\ ~report'.available /\ report'.period = None /\ report'.group = "other"
      /\ report'.signer = "other" /\ report'.bare = {} /\ ~report'.failed
  <2>1. CASE report' = Directory!Idle
    BY <1>2a, <2>1 DEF Directory!Idle
  <2>2. CASE report' = [Directory!Idle EXCEPT !.at = "chainId"]
    BY <1>2a, <2>2 DEF Directory!Idle, Reports
  <2> QED BY <1>2, <2>1, <2>2
<1>3a. report'.at # "idle" => reported' = None
  BY <1>2 DEF Directory!Idle
<1>4. StatusTyped'
  BY <1>1, <1>3, <1>3a DEF StatusInv, StatusTyped
<1>5. WhatStays' /\ ReadWasSo' /\ ReadIsSo'
  BY <1>1, <1>3 DEF WhatStays, ReadWasSo, ReadIsSo
<1>6. reported' # None =>
        /\ reported'.policy = None /\ reported'.period = None
        /\ ~reported'.marketReady /\ ~reported'.policyReady /\ ~reported'.rpcReady
  BY <1>2 DEF Directory!Problem, Directory!Unread
<1>7. AnswerHolds' /\ Directory!RightWhenUndisturbed' /\ Directory!MarketReadyWasSo'
  BY <1>6
  DEF AnswerHolds, Directory!RightWhenUndisturbed, Directory!MarketReadyWasSo, Directory!Done
<1> QED BY <1>4, <1>5, <1>7 DEF StatusInv

-----------------------------------------------------------------------------

\* What a read leaves alone.
Aside == UNCHANGED <<env, ledger, administered, asked, held>>

\* What a page may call ready, and the period, are the same after a read.
LEMMA SameChain ==
  ASSUME Aside
  PROVE  /\ Directory!HookIsRead(ledger)' <=> Directory!HookIsRead(ledger)
         /\ Directory!EnforcedPeriod(ledger)' = Directory!EnforcedPeriod(ledger)
         /\ \A c : Directory!Registers(c)' <=> Directory!Registers(c)
<1>1. Directory!HookIsRead(ledger)' <=> Directory!HookIsRead(ledger)
  BY DEF Aside, Directory!HookIsRead
<1>2. Directory!EnforcedPeriod(ledger)' = Directory!EnforcedPeriod(ledger)
  BY <1>1 DEF Aside, Directory!EnforcedPeriod
<1>3. \A c : Directory!Registers(c)' <=> Directory!Registers(c)
  BY DEF Directory!Registers
<1> QED BY <1>1, <1>2, <1>3

\* A read that goes on.
LEMMA GoesOn ==
  ASSUME StatusInv, Aside, report.at # "idle", report' \in Reports,
         report'.at # "idle", UNCHANGED reported, WhatStays', ReadWasSo', ReadIsSo'
  PROVE  StatusInv'
<1>1. reported' = None
  BY DEF StatusInv, StatusTyped
<1>2. StatusTyped'
  BY <1>1 DEF StatusInv, StatusTyped, Aside
<1>3. AnswerHolds' /\ Directory!RightWhenUndisturbed' /\ Directory!MarketReadyWasSo'
  BY <1>1
  DEF AnswerHolds, Directory!RightWhenUndisturbed, Directory!MarketReadyWasSo, Directory!Done
<1> QED BY <1>2, <1>3 DEF StatusInv

\* A read that ends the report.
LEMMA EndsReport ==
  ASSUME StatusInv, Aside, report.at # "idle", report' \in Reports,
         report'.at = "idle", AnswerHolds', Directory!RightWhenUndisturbed',
         Directory!MarketReadyWasSo'
  PROVE  StatusInv'
<1>1. StatusTyped'
  BY DEF StatusInv, StatusTyped, Aside
<1>2. WhatStays' /\ ReadWasSo' /\ ReadIsSo'
  BY DEF StatusInv, WhatStays, ReadWasSo, ReadIsSo, Aside
<1> QED BY <1>1, <1>2 DEF StatusInv

\* A report that says nothing is ready.
LEMMA EndsEmpty ==
  ASSUME StatusInv, Aside, report.at # "idle", report' \in Reports,
         report'.at = "idle", reported'.policy = None, reported'.period = None,
         ~reported'.marketReady,
         ~reported'.policyReady,
         ~reported'.rpcReady \/ reported'.problem # "none" \/ report'.failed
  PROVE  StatusInv'
<1>1. AnswerHolds' /\ Directory!RightWhenUndisturbed' /\ Directory!MarketReadyWasSo'
  BY DEF AnswerHolds, Directory!RightWhenUndisturbed, Directory!MarketReadyWasSo
<1> QED BY <1>1, EndsReport

\* The reads of the market come next, or the policy without one.
LEMMA ToMarket ==
  ASSUME StatusInv, Aside, report.at \in {"ledger", "owner"}, NEW r \in Reports,
         r.signer = report.signer, r.group = report.group, r.period = report.period,
         r.available = report.available, r.bare = report.bare,
         held = {ledger} => /\ r.hasCode <=> "ledger" \in ledger.code
                            /\ r.hasCode => r.signer = ledger.signer,
         r.hasCode => "ledger" \in ledger.code,
         report' = Directory!MarketReads(r), UNCHANGED reported,
         r.hasCode => report.hasCode
  PROVE  StatusInv'
<1> USE ReadersFacts
<1>1. /\ report.bare = {} /\ report.period = None /\ report.group = "other"
      /\ ~report.failed /\ ~report.available
      /\ report \in Reports /\ ledger \in held
  BY DEF StatusInv, ReadWasSo, StatusTyped
<1>2. /\ report' \in Reports /\ report'.hasCode = r.hasCode /\ report'.signer = r.signer
      /\ report'.group = "other" /\ report'.period = None /\ ~report'.available
      /\ report'.bare = {} /\ report'.at \in {"market", "policy"}
      /\ env.market => report'.at = "market" /\ report'.unread = Directory!Market
      /\ ~env.market => report'.at = "policy"
  BY <1>1 DEF Directory!MarketReads, Reports
<1>3. WhatStays'
  BY <1>2 DEF StatusInv, WhatStays, Aside
<1>4. ReadWasSo'
  <2>1. report'.hasCode /\ report'.signer = "configured" => \E c \in held : Directory!Registers(c)
    BY <1>2 DEF StatusInv, ReadWasSo
  <2>2. \A c : Directory!Registers(c)' <=> Directory!Registers(c)
    BY DEF Directory!Registers
  <2>3. Directory!Market # {}
    BY DEF Directory!Market
  <2> QED BY <1>2, <2>1, <2>2, <2>3 DEF ReadWasSo, Aside
<1>5. ReadIsSo'
  <2>1. ~env.market => ~Directory!HookIsRead(ledger) /\ Directory!EnforcedPeriod(ledger) = InitialPeriod
    BY DEF Directory!HookIsRead, Directory!EnforcedPeriod
  <2>2. Directory!PeriodToRead(report)' = InitialPeriod
    BY <1>2 DEF Directory!PeriodToRead
  <2>3. /\ Directory!HookIsRead(ledger)' <=> Directory!HookIsRead(ledger)
        /\ Directory!EnforcedPeriod(ledger)' = Directory!EnforcedPeriod(ledger)
    BY SameChain
  <2> QED BY <1>2, <2>1, <2>2, <2>3 DEF ReadIsSo, Aside
<1> QED BY <1>1, <1>2, <1>3, <1>4, <1>5, GoesOn

\* The chain and the ledger.
LEMMA FirstReadsKeep ==
  ASSUME StatusInv, Directory!ReadChainId \/ Directory!ReadLedgerCode
  PROVE  StatusInv'
<1> USE ReadersFacts
<1>1. /\ Aside /\ report \in Reports /\ report.at \in {"chainId", "ledger"} /\ ~report.hasCode
      /\ ledger \in held /\ env \in Directory!Environment
  BY DEF Directory!ReadChainId, Directory!ReadLedgerCode, Directory!Reading, Aside, StatusInv,
     StatusTyped, ReadWasSo
<1>2. ASSUME NEW a, Directory!Answer(a), a.policy = None, a.period = None, ~a.marketReady, ~a.policyReady,
             ~a.rpcReady \/ a.problem # "none"
      PROVE  StatusInv'
  <2>1. report' \in Reports /\ report'.at = "idle" /\ reported' = a
    BY <1>1, <1>2 DEF Directory!Answer, Reports
  <2> QED BY <1>1, <1>2, <2>1, EndsEmpty
<1>3. ASSUME Directory!LedgerReadFails
      PROVE  StatusInv'
  <2>1. /\ report' \in Reports /\ report'.at = "idle" /\ report'.failed
        /\ reported'.policy = None /\ reported'.period = None
        /\ ~reported'.marketReady /\ ~reported'.policyReady
    BY <1>1, <1>3 DEF Directory!LedgerReadFails, Directory!Failed, Directory!Unread, Reports
  <2> QED BY <1>1, <2>1, EndsEmpty
<1>4. ASSUME report.at = "chainId", Directory!GoTo([report EXCEPT !.at = "ledger"])
      PROVE  StatusInv'
  <2>1. /\ report' = [report EXCEPT !.at = "ledger"] /\ UNCHANGED reported
    BY <1>4 DEF Directory!GoTo
  <2>2. /\ report' \in Reports /\ report'.at = "ledger" /\ report'.hasCode = report.hasCode
        /\ report'.signer = report.signer /\ report'.group = report.group
        /\ report'.period = report.period /\ report'.available = report.available
        /\ report'.failed = report.failed /\ report'.bare = report.bare
    BY <1>1, <2>1 DEF Reports
  <2>3. WhatStays'
    BY <1>1, <1>4, <2>2 DEF StatusInv, WhatStays, Aside
  <2>4. ReadWasSo'
    BY <1>1, <1>4, <2>2 DEF StatusInv, ReadWasSo, Aside
  <2>5. ReadIsSo'
    BY <1>1, <1>4, <2>2 DEF StatusInv, ReadIsSo, Aside
  <2> QED BY <1>1, <2>1, <2>2, <2>3, <2>4, <2>5, GoesOn
<1>5. CASE Directory!ReadChainId
  <2>1. /\ Directory!Unread.policy = None /\ Directory!Unread.period = None
        /\ ~Directory!Unread.marketReady
        /\ ~Directory!Unread.policyReady /\ ~Directory!Unread.rpcReady
    BY DEF Directory!Unread
  <2>2. LET a == [Directory!Problem("other RPC") EXCEPT !.rpcReady = TRUE]
        IN  a.policy = None /\ a.period = None /\ ~a.marketReady /\ ~a.policyReady /\ a.problem # "none"
    BY DEF Directory!Unread, Directory!Problem
  <2> QED BY <1>2, <1>4, <1>5, <2>1, <2>2 DEF Directory!ReadChainId, Directory!Reading
<1>6. ASSUME report.at = "ledger", "ledger" \in ledger.code,
             Directory!GoTo([report EXCEPT !.at = "signer", !.hasCode = TRUE])
      PROVE  StatusInv'
  <2>1. /\ report' = [report EXCEPT !.at = "signer", !.hasCode = TRUE] /\ UNCHANGED reported
    BY <1>6 DEF Directory!GoTo
  <2>2. /\ report' \in Reports /\ report'.at = "signer" /\ report'.hasCode
        /\ report'.signer = report.signer /\ report'.group = report.group
        /\ report'.period = report.period /\ report'.available = report.available
        /\ report'.failed = report.failed /\ report'.bare = report.bare
    BY <1>1, <2>1 DEF Reports
  <2>3. WhatStays'
    BY <1>1, <1>6, <2>2 DEF StatusInv, WhatStays, Aside
  <2>4. ReadWasSo'
    BY <1>1, <1>6, <2>2 DEF StatusInv, ReadWasSo, Aside
  <2>5. ReadIsSo'
    BY <1>1, <1>6, <2>2 DEF StatusInv, ReadIsSo, Aside
  <2> QED BY <1>1, <2>1, <2>2, <2>3, <2>4, <2>5, GoesOn
<1>7. ASSUME report.at = "ledger", "ledger" \notin ledger.code,
             Directory!GoTo(Directory!MarketReads(report))
      PROVE  StatusInv'
  BY <1>1, <1>7, ToMarket DEF Directory!GoTo
<1> QED BY <1>3, <1>5, <1>6, <1>7 DEF Directory!ReadLedgerCode, Directory!Reading

\* The signer and the owner.
LEMMA SignerReadsKeep ==
  ASSUME StatusInv, Directory!ReadSigner \/ Directory!ReadOwner
  PROVE  StatusInv'
<1> USE ReadersFacts
<1>1. /\ Aside /\ report \in Reports /\ report.at \in {"signer", "owner"} /\ report.hasCode
      /\ ledger \in held /\ env \in Directory!Environment /\ ledger \in Directory!Chain
      /\ "ledger" \in ledger.code
  BY DEF Directory!ReadSigner, Directory!ReadOwner, Directory!Reading, Aside, StatusInv,
     StatusTyped, ReadWasSo, WhatStays
<1>2. ASSUME Directory!LedgerReadFails
      PROVE  StatusInv'
  <2>1. /\ report' \in Reports /\ report'.at = "idle" /\ report'.failed
        /\ reported'.policy = None /\ reported'.period = None
        /\ ~reported'.marketReady /\ ~reported'.policyReady
    BY <1>1, <1>2 DEF Directory!LedgerReadFails, Directory!Failed, Directory!Unread, Reports
  <2> QED BY <1>1, <2>1, EndsEmpty
<1>3. ASSUME report.at = "signer",
             Directory!GoTo([report EXCEPT !.at = "owner", !.signer = ledger.signer])
      PROVE  StatusInv'
  <2>1. /\ report' = [report EXCEPT !.at = "owner", !.signer = ledger.signer] /\ UNCHANGED reported
    BY <1>3 DEF Directory!GoTo
  <2>2. ledger.signer \in Directory!Sides
    BY <1>1 DEF Directory!Chain
  <2>3. /\ report' \in Reports /\ report'.at = "owner" /\ report'.hasCode
        /\ report'.signer = ledger.signer /\ report'.group = report.group
        /\ report'.period = report.period /\ report'.available = report.available
        /\ report'.failed = report.failed /\ report'.bare = report.bare
    BY <1>1, <2>1, <2>2 DEF Reports
  <2>4. WhatStays'
    BY <1>1, <1>3, <2>3 DEF StatusInv, WhatStays, Aside
  <2>5. ReadWasSo'
    <3>1. ledger.signer = "configured" => Directory!Registers(ledger)'
      BY <1>1 DEF Directory!Registers, Aside
    <3> QED BY <1>1, <1>3, <2>3, <3>1 DEF StatusInv, ReadWasSo, Aside
  <2>6. ReadIsSo'
    BY <1>1, <1>3, <2>3 DEF StatusInv, ReadIsSo, Aside
  <2> QED BY <1>1, <2>1, <2>3, <2>4, <2>5, <2>6, GoesOn
<1>4. ASSUME report.at = "owner", NEW known \in BOOLEAN,
             Directory!GoTo(Directory!MarketReads([report EXCEPT !.owner = known, !.failed = ~known]))
      PROVE  StatusInv'
  <2> DEFINE r == [report EXCEPT !.owner = known, !.failed = ~known]
  <2>1. /\ r \in Reports /\ r.signer = report.signer /\ r.group = report.group
        /\ r.period = report.period /\ r.available = report.available /\ r.bare = report.bare
        /\ r.hasCode = report.hasCode
    BY <1>1 DEF Reports
  <2>2. held = {ledger} => report.signer = ledger.signer
    BY <1>1, <1>4 DEF StatusInv, ReadIsSo, ReadWasSo
  <2>3. report' = Directory!MarketReads(r) /\ UNCHANGED reported
    BY <1>4 DEF Directory!GoTo
  <2> HIDE DEF r
  <2> QED BY <1>1, <1>4, <2>1, <2>2, <2>3, ToMarket
<1> QED BY <1>2, <1>3, <1>4 DEF Directory!ReadSigner, Directory!ReadOwner, Directory!Reading

\* The catch of the market's reads: the policy is next, of the initial period.
LEMMA MarketFails ==
  ASSUME StatusInv, Aside, report.at \in {"market", "hook", "tokens"},
         Directory!MarketReadFails
  PROVE  StatusInv'
<1> USE ReadersFacts
<1>1. report \in Reports
  BY DEF StatusInv, StatusTyped
<1>2. /\ report' = [Directory!Failed(report) EXCEPT !.at = "policy", !.period = None, !.available = FALSE]
      /\ UNCHANGED reported
  BY DEF Directory!MarketReadFails, Directory!GoTo
<1>3. /\ report' \in Reports /\ report'.at = "policy" /\ report'.failed /\ ~report'.available
      /\ report'.hasCode = report.hasCode /\ report'.signer = report.signer
      /\ report'.group = report.group /\ report'.period = None
  BY <1>1, <1>2 DEF Directory!Failed, Reports
<1>4. WhatStays'
  BY <1>3 DEF StatusInv, WhatStays, Aside
<1>5. ReadWasSo'
  <2>1. \A c : Directory!Registers(c)' <=> Directory!Registers(c)
    BY DEF Directory!Registers
  <2> QED BY <1>3, <2>1 DEF StatusInv, ReadWasSo, Aside
<1>6. ReadIsSo'
  BY <1>3 DEF ReadIsSo
<1> QED BY <1>2, <1>3, <1>4, <1>5, <1>6, GoesOn

\* The code of one of the four contracts.
LEMMA MarketCodeKeeps ==
  ASSUME StatusInv, Directory!ReadMarketCode
  PROVE  StatusInv'
<1> USE ReadersFacts
<1>1. /\ Aside /\ report \in Reports /\ report.at = "market" /\ env.market
      /\ ledger \in held /\ ledger \in Directory!Chain
      /\ report.unread \subseteq Directory!Market /\ report.bare \subseteq Directory!Market
  BY DEF Directory!ReadMarketCode, Directory!Reading, Aside, StatusInv, StatusTyped, ReadWasSo, Reports
<1>2. ASSUME NEW c \in report.unread,
             LET left == report.unread \ {c}
                 bare == report.bare \cup ({c} \ ledger.code)
             IN Directory!GoTo([report EXCEPT
                  !.unread = IF left # {} THEN left ELSE {"group", "period"},
                  !.bare = bare,
                  !.at = IF left # {} THEN "market" ELSE IF bare # {} THEN "policy" ELSE "hook"])
      PROVE  StatusInv'
  <2> DEFINE left == report.unread \ {c}
             bare == report.bare \cup ({c} \ ledger.code)
  <2>1. /\ report' = [report EXCEPT
                        !.unread = IF left # {} THEN left ELSE {"group", "period"},
                        !.bare = bare,
                        !.at = IF left # {} THEN "market" ELSE IF bare # {} THEN "policy" ELSE "hook"]
        /\ UNCHANGED reported
    BY <1>2 DEF Directory!GoTo
  <2>2. left \subseteq Directory!Market /\ bare \subseteq Directory!Market
    BY <1>1
  <2>3. /\ (Directory!Market \ left) \ bare \subseteq ledger.code
        /\ left = {} /\ bare = {} => Directory!Market \subseteq ledger.code
        /\ ~report.failed /\ held = {ledger} => bare = (Directory!Market \ left) \ ledger.code
    <3>1. (Directory!Market \ report.unread) \ report.bare \subseteq ledger.code
      BY <1>1 DEF StatusInv, WhatStays
    <3>2. ~report.failed /\ held = {ledger} =>
            report.bare = (Directory!Market \ report.unread) \ ledger.code
      BY <1>1 DEF StatusInv, ReadIsSo
    <3> QED BY <1>1, <3>1, <3>2
  <2> HIDE DEF left, bare
  <2>4. /\ report' \in Reports
        /\ report'.hasCode = report.hasCode /\ report'.signer = report.signer
        /\ report'.group = report.group /\ report'.period = report.period
        /\ report'.available = report.available /\ report'.failed = report.failed
        /\ report'.bare = bare
    BY <1>1, <2>1, <2>2 DEF Reports
  <2>5. /\ left # {} => report'.at = "market" /\ report'.unread = left
        /\ left = {} => report'.unread = {"group", "period"}
        /\ left = {} /\ bare # {} => report'.at = "policy"
        /\ left = {} /\ bare = {} => report'.at = "hook"
    BY <1>1, <2>1 DEF Reports
  <2>6. ~report.available
    BY <1>1 DEF StatusInv, ReadWasSo
  <2>7. WhatStays'
    BY <1>1, <2>3, <2>4, <2>5, <2>6 DEF StatusInv, WhatStays, Aside
  <2>8. ReadWasSo'
    <3>1. \A d : Directory!Registers(d)' <=> Directory!Registers(d)
      BY DEF Directory!Registers
    <3> QED BY <1>1, <2>2, <2>4, <2>5, <2>6, <3>1 DEF StatusInv, ReadWasSo, Aside
  <2>9. ReadIsSo'
    <3>1. /\ report.failed \/ held # {ledger} \/ report.period = None
          /\ report.failed \/ held # {ledger} \/ (report.hasCode <=> "ledger" \in ledger.code)
          /\ report.failed \/ held # {ledger} \/ (report.hasCode => report.signer = ledger.signer)
      BY <1>1 DEF StatusInv, ReadIsSo
    <3>2. /\ ~report.failed /\ held = {ledger} /\ left = {} /\ bare # {} => ~Directory!HookIsRead(ledger)
      BY <2>3 DEF Directory!HookIsRead
    <3>3. /\ Directory!HookIsRead(ledger)' <=> Directory!HookIsRead(ledger)
          /\ Directory!EnforcedPeriod(ledger)' = Directory!EnforcedPeriod(ledger)
      BY <1>1, SameChain
    <3>4. ~Directory!HookIsRead(ledger) => Directory!EnforcedPeriod(ledger) = InitialPeriod
      BY DEF Directory!EnforcedPeriod
    <3>5. report.period = None => Directory!PeriodToRead(report)' = InitialPeriod
      BY <2>4 DEF Directory!PeriodToRead
    <3> QED BY <1>1, <2>3, <2>4, <2>5, <2>6, <3>1, <3>2, <3>3, <3>4, <3>5 DEF ReadIsSo, Aside
  <2> QED BY <1>1, <2>1, <2>4, <2>5, <2>7, <2>8, <2>9, GoesOn
<1> QED BY <1>1, <1>2, MarketFails DEF Directory!ReadMarketCode

\* The group and the period of the hook, in either order.
LEMMA HookKeeps ==
  ASSUME StatusInv, Directory!ReadHook
  PROVE  StatusInv'
<1> USE ReadersFacts
<1>1. /\ Aside /\ report \in Reports /\ report.at = "hook" /\ env.market
      /\ ledger \in held /\ ledger \in Directory!Chain /\ ~report.available
      /\ report.unread \subseteq {"group", "period"} /\ Directory!Market \subseteq ledger.code
  BY DEF Directory!ReadHook, Directory!Reading, Aside, StatusInv, StatusTyped, ReadWasSo, WhatStays
<1>2. ledger.group \in Directory!Sides /\ ledger.period \in Periods
  BY <1>1 DEF Directory!Chain
<1>3. /\ "period" \notin report.unread => report.period # None
      /\ report.group = "configured" => \E c \in held : c.group = "configured"
      /\ report.period # None => \E c \in held : c.period = report.period
      /\ report.hasCode /\ report.signer = "configured" => \E c \in held : Directory!Registers(c)
      /\ report.hasCode => "ledger" \in ledger.code
  BY <1>1 DEF StatusInv, ReadWasSo, WhatStays
<1>4. ~report.failed /\ held = {ledger} =>
        /\ report.hasCode <=> "ledger" \in ledger.code
        /\ report.hasCode => report.signer = ledger.signer
        /\ "group" \notin report.unread => report.group = ledger.group
        /\ "period" \notin report.unread => report.period = ledger.period
  BY <1>1 DEF StatusInv, ReadIsSo
<1>5. ASSUME NEW half \in report.unread,
             NEW r, r = IF half = "group" THEN [report EXCEPT !.group = ledger.group]
                                          ELSE [report EXCEPT !.period = ledger.period],
             NEW left, left = report.unread \ {half},
             Directory!GoTo([r EXCEPT !.unread = left,
                                      !.at = IF left # {} THEN "hook"
                                             ELSE IF Directory!SameGroup(r) THEN "tokens"
                                             ELSE "policy"])
      PROVE  StatusInv'
  <2>1. /\ r \in Reports /\ r.hasCode = report.hasCode /\ r.signer = report.signer
        /\ r.available = report.available /\ r.failed = report.failed
        /\ r.group = IF half = "group" THEN ledger.group ELSE report.group
        /\ r.period = IF half = "group" THEN report.period ELSE ledger.period
    BY <1>1, <1>2, <1>5 DEF Reports
  <2>2. half = "group" \/ half = "period"
    BY <1>1
  <2>3. UNCHANGED reported /\ left \subseteq {"group", "period"}
    BY <1>1, <1>5 DEF Directory!GoTo
  <2>4. report' = [r EXCEPT !.unread = left,
                            !.at = IF left # {} THEN "hook"
                                   ELSE IF Directory!SameGroup(r) THEN "tokens" ELSE "policy"]
    BY <1>5 DEF Directory!GoTo
  <2>5. /\ report' \in Reports /\ report'.hasCode = report.hasCode /\ report'.signer = report.signer
        /\ report'.group = r.group /\ report'.period = r.period /\ ~report'.available
        /\ report'.failed = report.failed /\ report'.unread = left
        /\ report'.at = IF left # {} THEN "hook"
                        ELSE IF r.group = "configured" THEN "tokens" ELSE "policy"
    BY <1>1, <2>1, <2>3, <2>4 DEF Reports, Directory!SameGroup
  <2>6. /\ "period" \notin left => r.period # None
        /\ r.group = "configured" => \E c \in held : c.group = "configured"
        /\ r.period # None => \E c \in held : c.period = r.period
    BY <1>1, <1>2, <1>3, <1>5, <2>1, <2>2
  <2>7. ~report.failed /\ held = {ledger} =>
          /\ "group" \notin left => r.group = ledger.group
          /\ "period" \notin left => r.period = ledger.period
    BY <1>4, <1>5, <2>1, <2>2
  <2>8. WhatStays'
    BY <1>1, <1>3, <2>5 DEF StatusInv, WhatStays, Aside
  <2>9. ReadWasSo'
    BY <1>1, <1>3, <2>3, <2>5, <2>6, SameChain DEF ReadWasSo, Aside
  <2>10. ReadIsSo'
    <3>1. Directory!HookIsRead(ledger)
      BY <1>1 DEF Directory!HookIsRead
    <3>2. Directory!EnforcedPeriod(ledger) = ledger.period
      BY <3>1 DEF Directory!EnforcedPeriod
    <3>3. r.period # None => Directory!PeriodToRead(report)' = r.period
      BY <2>5 DEF Directory!PeriodToRead
    <3> QED BY <1>1, <1>2, <1>4, <2>5, <2>7, <3>1, <3>2, <3>3, SameChain DEF ReadIsSo, Aside
  <2> QED BY <1>1, <2>3, <2>5, <2>8, <2>9, <2>10, GoesOn
<1> QED BY <1>1, <1>5, MarketFails DEF Directory!ReadHook

\* The tokens of the executor.
LEMMA TokensKeep ==
  ASSUME StatusInv, Directory!ReadTokens
  PROVE  StatusInv'
<1> USE ReadersFacts
<1>1. /\ Aside /\ report \in Reports /\ report.at = "tokens" /\ env.market
      /\ ledger \in held /\ ledger \in Directory!Chain /\ ~report.available
      /\ report.period # None /\ report.group = "configured"
      /\ Directory!Market \subseteq ledger.code
  BY DEF Directory!ReadTokens, Directory!Reading, Aside, StatusInv, StatusTyped, ReadWasSo, WhatStays
<1>2. ASSUME Directory!GoTo([report EXCEPT !.at = "policy", !.available = (ledger.pair = "configured")])
      PROVE  StatusInv'
  <2>1. /\ report' = [report EXCEPT !.at = "policy", !.available = (ledger.pair = "configured")]
        /\ UNCHANGED reported
    BY <1>2 DEF Directory!GoTo
  <2>2. report'.available = (ledger.pair = "configured")
    BY <1>1, <2>1 DEF Reports
  <2>3. /\ report' \in Reports /\ report'.at = "policy" /\ report'.hasCode = report.hasCode
        /\ report'.signer = report.signer /\ report'.group = "configured"
        /\ report'.period = report.period /\ report'.failed = report.failed
    BY <1>1, <2>1 DEF Reports
  <2>4. WhatStays'
    BY <1>1, <2>3 DEF StatusInv, WhatStays, Aside
  <2>5. ReadWasSo'
    BY <1>1, <2>2, <2>3, SameChain DEF StatusInv, ReadWasSo, Aside
  <2>6. ReadIsSo'
    <3>1. Directory!HookIsRead(ledger)
      BY <1>1 DEF Directory!HookIsRead
    <3>2. Directory!EnforcedPeriod(ledger) = ledger.period
      BY <3>1 DEF Directory!EnforcedPeriod
    <3>3. Directory!PeriodToRead(report)' = report.period
      BY <1>1, <2>3 DEF Directory!PeriodToRead
    <3>4. ~report.failed /\ held = {ledger} =>
            /\ report.hasCode <=> "ledger" \in ledger.code
            /\ report.hasCode => report.signer = ledger.signer
            /\ report.period = ledger.period /\ report.group = ledger.group
      BY <1>1 DEF StatusInv, ReadIsSo
    <3> QED BY <1>1, <2>2, <2>3, <3>1, <3>2, <3>3, <3>4, SameChain DEF ReadIsSo, Aside
  <2> QED BY <1>1, <2>1, <2>3, <2>4, <2>5, <2>6, GoesOn
<1> QED BY <1>1, <1>2, MarketFails DEF Directory!ReadTokens

\* What a report says of what was read.
LEMMA ReportSays ==
  ASSUME NEW r, NEW policy
  PROVE  LET a == Directory!Report(r, policy)
         IN /\ a.policy = policy /\ a.problem = "none" /\ a.period = Directory!PeriodToRead(r)
            /\ a.registrationReady <=> r.hasCode /\ r.signer = "configured"
            /\ a.policyReady <=> a.registrationReady /\ policy # None
            /\ a.marketReady <=> a.policyReady /\ r.available
            /\ {a.registrationReady, a.policyReady, a.marketReady} \subseteq BOOLEAN
<1> DEFINE a == Directory!Report(r, policy)
           registration == r.hasCode /\ Directory!SignerMatches(r)
           purchases == registration /\ policy # None
<1>1. a.policy = policy /\ a.problem = "none" /\ a.period = Directory!PeriodToRead(r)
  BY DEF Directory!Report, Directory!Unread
<1>2. a.registrationReady = registration
  BY DEF Directory!Report, Directory!Unread
<1>3. a.policyReady = purchases
  BY DEF Directory!Report, Directory!Unread
<1>4. a.marketReady = (purchases /\ r.available)
  BY DEF Directory!Report, Directory!Unread
<1>5. registration <=> r.hasCode /\ r.signer = "configured"
  BY DEF Directory!SignerMatches
<1>5a. /\ registration \in BOOLEAN /\ purchases \in BOOLEAN
       /\ (purchases /\ r.available) \in BOOLEAN
  OBVIOUS
<1> HIDE DEF a, registration
<1>6. /\ a.policy = policy /\ a.problem = "none" /\ a.period = Directory!PeriodToRead(r)
      /\ a.registrationReady <=> r.hasCode /\ r.signer = "configured"
      /\ a.policyReady <=> a.registrationReady /\ policy # None
      /\ a.marketReady <=> a.policyReady /\ r.available
  BY <1>1, <1>2, <1>3, <1>4, <1>5
<1>7. {a.registrationReady, a.policyReady, a.marketReady} \subseteq BOOLEAN
  BY <1>2, <1>3, <1>4, <1>5a
<1> QED BY <1>6, <1>7 DEF a

\* The policy is read last, and the answer is put together.
LEMMA PolicyKeeps ==
  ASSUME StatusInv, Directory!ReadPolicy
  PROVE  StatusInv'
<1> USE ReadersFacts
<1>1. /\ Aside /\ report \in Reports /\ report.at = "policy"
      /\ ledger \in held /\ ledger \in Directory!Chain /\ held \subseteq Directory!Chain
  BY DEF Directory!ReadPolicy, Directory!Reading, Aside, StatusInv, StatusTyped
<1>2. Directory!PeriodToRead(report) \in Periods
  BY <1>1 DEF Directory!PeriodToRead, Reports
<1>3. /\ report.hasCode => "ledger" \in ledger.code
      /\ report.available => Directory!Market \subseteq ledger.code
      /\ \A c \in held : c.pair = ledger.pair
  BY <1>1 DEF StatusInv, WhatStays
<1>4. /\ report.hasCode /\ report.signer = "configured" => \E c \in held : Directory!Registers(c)
      /\ report.group = "configured" => \E c \in held : c.group = "configured"
      /\ report.period # None => \E c \in held : c.period = report.period
      /\ report.available => /\ report.period # None /\ report.group = "configured"
                             /\ ledger.pair = "configured"
  BY <1>1 DEF StatusInv, ReadWasSo
<1>5. ~report.failed /\ held = {ledger} =>
        /\ report.hasCode <=> "ledger" \in ledger.code
        /\ report.hasCode => report.signer = ledger.signer
        /\ Directory!PeriodToRead(report) = Directory!EnforcedPeriod(ledger)
        /\ report.available <=> /\ Directory!HookIsRead(ledger) /\ ledger.group = "configured"
                                /\ ledger.pair = "configured"
  BY <1>1 DEF StatusInv, ReadIsSo
<1>6. ASSUME NEW policy, reported' = Directory!Report(report, policy),
             policy = None \/ /\ policy.cap \in Caps /\ policy.period = Directory!PeriodToRead(report)
                              /\ policy.cap = ledger.policy[policy.period],
             report' \in Reports, report'.at = "idle", report.failed => report'.failed,
             ~report'.failed => \/ ~report.hasCode /\ policy = None
                                \/ /\ report.hasCode
                                   /\ policy = None <=>
                                        ledger.policy[Directory!PeriodToRead(report)] = 0
      PROVE  StatusInv'
  <2>1. /\ reported'.policy = policy /\ reported'.period = Directory!PeriodToRead(report)
        /\ reported'.registrationReady <=> report.hasCode /\ report.signer = "configured"
        /\ reported'.policyReady <=> reported'.registrationReady /\ policy # None
        /\ reported'.marketReady <=> reported'.policyReady /\ report.available
        /\ {reported'.registrationReady, reported'.policyReady, reported'.marketReady} \subseteq BOOLEAN
    BY <1>6, ReportSays
  <2>2. policy # None => /\ policy.cap \in Caps /\ policy.period \in Periods
                         /\ \E c \in held : c.policy[policy.period] = policy.cap
    BY <1>1, <1>2, <1>6
  <2>3. AnswerHolds'
    BY <1>1, <1>2, <2>1, <2>2 DEF AnswerHolds, Aside
  <2>4. Directory!MarketReadyWasSo'
    <3> SUFFICES ASSUME reported'.marketReady
                 PROVE  /\ \E c \in held : Directory!Registers(c)
                        /\ \E c \in held : Directory!Market \subseteq c.code
                        /\ \E c \in held : c.group = "configured"
                        /\ \A c \in held : c.pair = "configured"
                        /\ \E c \in held : c.period = policy.period
                        /\ \E c \in held : c.policy[policy.period] = policy.cap
      BY <1>1, <2>1, SameChain DEF Directory!MarketReadyWasSo, Aside
    <3>1. /\ report.hasCode /\ report.signer = "configured" /\ policy # None /\ report.available
      BY <2>1
    <3>2. policy.period = report.period
      BY <1>4, <1>6, <3>1 DEF Directory!PeriodToRead
    <3> QED BY <1>1, <1>3, <1>4, <2>2, <3>1, <3>2
  <2>5. Directory!RightWhenUndisturbed'
    <3> SUFFICES ASSUME ~report'.failed, NEW c \in held, held = {c}
                 PROVE  /\ reported'.registrationReady = Directory!Registers(c)'
                        /\ reported'.policyReady = Directory!HasPolicy(c)'
                        /\ reported'.marketReady = Directory!Sells(c)'
      BY <1>1 DEF Directory!RightWhenUndisturbed, Aside
    <3>1. c = ledger /\ held = {ledger} /\ ~report.failed
      BY <1>1, <1>6
    <3>2. reported'.registrationReady <=> Directory!Registers(c)
      BY <1>5, <2>1, <3>1 DEF Directory!Registers
    <3>3. reported'.policyReady <=> Directory!HasPolicy(c)
      BY <1>5, <1>6, <2>1, <3>1, <3>2 DEF Directory!HasPolicy, Directory!Registers
    <3>4. reported'.marketReady <=> Directory!Sells(c)
      BY <1>5, <2>1, <3>1, <3>3 DEF Directory!Sells
    <3>5. /\ Directory!Registers(c)' <=> Directory!Registers(c)
          /\ Directory!HasPolicy(c)' <=> Directory!HasPolicy(c)
          /\ Directory!Sells(c)' <=> Directory!Sells(c)
      BY <1>1 DEF Aside, Directory!Registers, Directory!HasPolicy, Directory!Sells,
         Directory!HookIsRead, Directory!EnforcedPeriod
    <3>6. /\ reported'.registrationReady \in BOOLEAN /\ reported'.policyReady \in BOOLEAN
          /\ reported'.marketReady \in BOOLEAN
      BY <2>1
    <3>7. reported'.registrationReady = Directory!Registers(c)'
      BY <3>2, <3>5, <3>6 DEF Directory!Registers
    <3>8. reported'.policyReady = Directory!HasPolicy(c)'
      BY <3>3, <3>5, <3>6 DEF Directory!HasPolicy
    <3>9. reported'.marketReady = Directory!Sells(c)'
      BY <3>4, <3>5, <3>6 DEF Directory!Sells
    <3> QED BY <3>7, <3>8, <3>9
  <2> QED BY <1>1, <1>6, <2>3, <2>4, <2>5, EndsReport
<1>7. ASSUME ~report.hasCode, Directory!Answer(Directory!Report(report, None))
      PROVE  StatusInv'
  <2>1. /\ report' = [report EXCEPT !.at = "idle"] /\ reported' = Directory!Report(report, None)
    BY <1>7 DEF Directory!Answer
  <2>2. report' \in Reports /\ report'.at = "idle" /\ report'.failed = report.failed
    BY <1>1, <2>1 DEF Reports
  <2> QED BY <1>6, <1>7, <2>1, <2>2
<1>8. ASSUME report.hasCode, NEW p, p = Directory!PeriodToRead(report),
             Directory!Answer(Directory!Report(report, Directory!Policy(ledger.policy[p], p)))
      PROVE  StatusInv'
  <2> DEFINE policy == Directory!Policy(ledger.policy[p], p)
  <2>1. /\ report' = [report EXCEPT !.at = "idle"] /\ reported' = Directory!Report(report, policy)
    BY <1>8 DEF Directory!Answer
  <2>2. report' \in Reports /\ report'.at = "idle" /\ report'.failed = report.failed
    BY <1>1, <2>1 DEF Reports
  <2>3. ledger.policy[p] \in Caps \cup {0} /\ p \in Periods
    BY <1>1, <1>2, <1>8 DEF Directory!Chain
  <2>4. CASE ledger.policy[p] = 0
    <3>1. policy = None
      BY <2>4 DEF Directory!Policy
    <3> QED BY <1>6, <1>8, <2>1, <2>2, <2>4, <3>1
  <2>5. CASE ledger.policy[p] # 0
    <3>1. policy = [cap |-> ledger.policy[p], period |-> p]
      BY <2>5 DEF Directory!Policy
    <3>2. policy \in [cap : Caps, period : Periods]
      BY <2>3, <2>5, <3>1
    <3>3. policy # None /\ policy.cap = ledger.policy[p] /\ policy.period = p /\ policy.cap \in Caps
      BY <2>3, <2>5, <3>1, <3>2
    <3> HIDE DEF policy
    <3> QED BY <1>6, <1>8, <2>1, <2>2, <2>5, <3>3
  <2> QED BY <2>4, <2>5
<1>9. ASSUME report.hasCode, reported' = Directory!Report(report, None),
             report' = [Directory!Failed(report) EXCEPT !.at = "idle"]
      PROVE  StatusInv'
  <2>1. report' \in Reports /\ report'.at = "idle" /\ report'.failed
    BY <1>1, <1>9 DEF Reports, Directory!Failed
  <2> QED BY <1>6, <1>9, <2>1
<1> QED BY <1>7, <1>8, <1>9 DEF Directory!ReadPolicy

\* Every step of the report keeps its invariant.
LEMMA StatusStepKeeps ==
  ASSUME StatusInv, [Directory!Next]_(Directory!vars)
  PROVE  StatusInv'
<1>1. CASE UNCHANGED Directory!vars
  <2>1. UNCHANGED <<env, ledger, administered, report, asked, reported, held>>
    BY <1>1 DEF Directory!vars
  <2>2. StatusTyped' /\ WhatStays' /\ AnswerHolds'
    BY <2>1 DEF StatusInv, StatusTyped, WhatStays, AnswerHolds
  <2>3. ReadWasSo'
    BY <2>1, SameChain DEF StatusInv, ReadWasSo, Aside
  <2>4. ReadIsSo'
    BY <2>1, SameChain DEF StatusInv, ReadIsSo, Aside, Directory!PeriodToRead
  <2>5. Directory!RightWhenUndisturbed' /\ Directory!MarketReadyWasSo'
    BY <2>1
    DEF StatusInv, Directory!RightWhenUndisturbed, Directory!MarketReadyWasSo, Directory!Done,
        Directory!Registers, Directory!HasPolicy, Directory!Sells, Directory!HookIsRead,
        Directory!EnforcedPeriod
  <2> QED BY <2>2, <2>3, <2>4, <2>5 DEF StatusInv
<1> QED
  BY <1>1, AdministerKeeps, AskKeeps, FirstReadsKeep, SignerReadsKeep, MarketCodeKeeps, HookKeeps,
     TokensKeep, PolicyKeeps
  DEF Directory!Next, Directory!Read

-----------------------------------------------------------------------------

Taken ==
  [cap : Caps \cup {None}, period : Periods \cup {None}, remaining : Caps \cup {0, None},
   pair : {"configured", None}]

\* A policy taken from a report was held while it was made.
WasHeld(c) == c.cap # None => \E b \in held : b.policy[c.period] = c.cap

RecordsTyped ==
  /\ clock \in 0..LastTime
  /\ records \subseteq Directory!Record /\ \A r \in records : r.expires <= r.drops
  /\ script \in [Scripts -> [at : Directory!Places \cup Directory!Ends, clock : 0..LastTime \cup {None}]]
  /\ pending \subseteq Scripts /\ beside \subseteq Scripts
  /\ \A s \in pending : script[s].at \in {"receipt", "failed"}
  /\ \A s \in Scripts : Directory!Creates(s) =>
                          script[s].clock \in 0..LastTime /\ script[s].clock <= clock

\* Of two scripts about to create, and of one and a record that is there, each has
\* been so together with another; so have the scripts of two records.
CreatedBeside ==
  /\ \A s, t \in Scripts : Directory!Creates(s) /\ Directory!Creates(t) /\ s # t => s \in beside
  /\ \A s \in Scripts, r \in records : Directory!Creates(s) => s \in beside /\ r.by \in beside
  /\ Directory!SeveralOnlyBeside

ViewHolds ==
  /\ view \in [at : {"idle", "report", "remaining", "arkiv"}, wallet : BOOLEAN, chain : Taken]
  /\ view.at = "remaining" => view.chain.period # None
  /\ view.at \in {"remaining", "arkiv"} => WasHeld(view.chain)

ShownHolds ==
  directory # None =>
    /\ directory.status \in {"ready", "missing", "expired", "mismatch", "unavailable"}
    /\ view.at = "idle" /\ WasHeld(directory.chain)
    /\ directory.status = "ready" =>
         \E r \in directory.found :
           /\ directory.found = {r} /\ r.pair = "configured"
           /\ directory.time < r.expires /\ r.expires <= r.drops

DirectoryInv == RecordsTyped /\ CreatedBeside /\ ViewHolds /\ ShownHolds

\* At first there may be one record, and nobody asked.
LEMMA DirectoryStarts ==
  ASSUME Directory!DirInit
  PROVE  DirectoryInv
<1> USE ReadersFacts
<1>1. /\ clock = 0 /\ directory = None
      /\ script = [s \in Scripts |-> [at |-> "unused", clock |-> None]]
      /\ pending = {} /\ beside = {}
      /\ view = [at |-> "idle", wallet |-> FALSE, chain |-> Directory!NoChain]
      /\ \A r \in records : \E p \in Directory!Sides, d \in {1, 2} \cap Directory!Times :
           r = [by |-> None, pair |-> p, expires |-> 1, drops |-> d]
  BY DEF Directory!DirInit
<1>2. RecordsTyped
  <2>1. 1 \in Directory!Times /\ 0 \in 0..LastTime
    BY DEF Directory!Times
  <2>2. records \subseteq Directory!Record /\ \A r \in records : r.expires <= r.drops
    BY <1>1, <2>1 DEF Directory!Record
  <2> QED BY <1>1, <2>1, <2>2 DEF RecordsTyped, Directory!Places, Directory!Creates
<1>2a. CreatedBeside
  <2>1. \A q, r \in records : q = r
    BY DEF Directory!DirInit
  <2> QED BY <1>1, <2>1 DEF CreatedBeside, Directory!Creates, Directory!SeveralOnlyBeside
<1>3. Directory!NoChain \in Taken
  BY DEF Directory!NoChain, Taken
<1>4. ViewHolds /\ ShownHolds
  BY <1>1, <1>3 DEF ViewHolds, ShownHolds
<1> QED BY <1>2, <1>2a, <1>4 DEF DirectoryInv

\* The clock moves, and Arkiv drops what has reached its end.
LEMMA DirectoryTickKeeps ==
  ASSUME DirectoryInv, Directory!Tick
  PROVE  DirectoryInv'
<1> USE ReadersFacts
<1>1. /\ clock < LastTime /\ clock' = clock + 1 /\ records' \subseteq records
      /\ UNCHANGED <<script, pending, beside, view, directory, held>>
  BY DEF Directory!Tick, Directory!vars
<1>2. RecordsTyped'
  BY <1>1 DEF DirectoryInv, RecordsTyped, Directory!Creates
<1>2a. CreatedBeside'
  BY <1>1 DEF DirectoryInv, CreatedBeside, Directory!Creates, Directory!SeveralOnlyBeside
<1>3. ViewHolds' /\ ShownHolds'
  BY <1>1 DEF DirectoryInv, ViewHolds, ShownHolds, WasHeld
<1> QED BY <1>2, <1>2a, <1>3 DEF DirectoryInv

\* What a script does leaves the reports and the directory alone.
LEMMA PublishingKeeps ==
  ASSUME DirectoryInv, NEW s \in Scripts,
         \/ Directory!StartScript(s) \/ Directory!StopScript(s) \/ Directory!ReadExecutor(s)
         \/ Directory!QueryRecords(s) \/ Directory!ReadBalance(s) \/ Directory!SendCreation(s)
         \/ Directory!MineCreation(s) \/ Directory!Created(s)
  PROVE  DirectoryInv'
<1> USE ReadersFacts
<1>1. UNCHANGED <<clock, view, directory, held>>
  BY DEF Directory!StartScript, Directory!StopScript, Directory!ReadExecutor,
     Directory!QueryRecords, Directory!ReadBalance, Directory!SendCreation,
     Directory!MineCreation, Directory!Created, Directory!At, Directory!vars
<1>2. ViewHolds' /\ ShownHolds'
  BY <1>1 DEF DirectoryInv, ViewHolds, ShownHolds, WasHeld
<1>3. /\ script \in [Scripts -> [at : Directory!Places \cup Directory!Ends, clock : 0..LastTime \cup {None}]]
      /\ RecordsTyped /\ CreatedBeside
  BY DEF DirectoryInv, RecordsTyped
<1>4. ASSUME NEW to \in Directory!Places \cup Directory!Ends, Directory!Step(s, to),
             to # "balance", to = "create" => script[s].at = "balance",
             UNCHANGED <<records, beside>>,
             \/ UNCHANGED pending
             \/ script[s].at = "create" /\ pending' = pending \cup {s},
             s \in pending' => to \in {"receipt", "failed"}
      PROVE  RecordsTyped' /\ CreatedBeside'
  <2>1. script' = [script EXCEPT ![s] = [script[s] EXCEPT !.at = to]]
    BY <1>4 DEF Directory!Step
  <2>2. LET x == [script[s] EXCEPT !.at = to]
        IN  /\ x \in [at : Directory!Places \cup Directory!Ends, clock : 0..LastTime \cup {None}]
            /\ x.at = to /\ x.clock = script[s].clock
    BY <1>3, <1>4
  <2>3. /\ script' \in [Scripts -> [at : Directory!Places \cup Directory!Ends,
                                    clock : 0..LastTime \cup {None}]]
        /\ \A t \in Scripts : script'[t].clock = script[t].clock
        /\ \A t \in Scripts : script'[t].at = IF t = s THEN to ELSE script[t].at
    BY <1>3, <2>1, <2>2
  <2>4. \A t \in Scripts : Directory!Creates(t)' => Directory!Creates(t)
    BY <1>4, <2>3 DEF Directory!Creates
  <2>5. pending' \subseteq Scripts
    BY <1>3, <1>4 DEF RecordsTyped
  <2>6. RecordsTyped'
    BY <1>1, <1>3, <1>4, <2>3, <2>4, <2>5 DEF RecordsTyped
  <2>7. CreatedBeside'
    BY <1>3, <1>4, <2>4 DEF CreatedBeside, Directory!SeveralOnlyBeside
  <2> QED BY <2>6, <2>7
<1>5. CASE \/ Directory!StartScript(s) \/ Directory!StopScript(s) \/ Directory!ReadExecutor(s)
           \/ Directory!ReadBalance(s) \/ Directory!SendCreation(s) \/ Directory!Created(s)
  <2>1. /\ UNCHANGED <<records, beside>>
        /\ \/ UNCHANGED pending
           \/ script[s].at = "create" /\ pending' = pending \cup {s}
        /\ \E to \in {"tokens", "failed", "query", "create", "receipt", "created"} :
             /\ Directory!Step(s, to) /\ (to = "create" => script[s].at = "balance")
             /\ s \in pending' => to \in {"receipt", "failed"}
    BY <1>3, <1>5
    DEF RecordsTyped, Directory!StartScript, Directory!StopScript, Directory!ReadExecutor, Directory!ReadBalance,
        Directory!SendCreation, Directory!Created, Directory!At
  <2>2. {"tokens", "failed", "query", "create", "receipt", "created"}
          \subseteq (Directory!Places \cup Directory!Ends) \ {"balance"}
    BY DEF Directory!Places, Directory!Ends
  <2>3. RecordsTyped' /\ CreatedBeside'
    BY <1>4, <2>1, <2>2
  <2> QED BY <1>2, <2>3 DEF DirectoryInv
<1>6. CASE Directory!QueryRecords(s)
  <2> DEFINE end    == Directory!Decision(records, clock)
             x      == [at |-> IF end = "create" THEN "balance" ELSE end, clock |-> clock]
             others == {y \in Scripts : Directory!Creates(y)}
  <2>1. /\ script' = [script EXCEPT ![s] = x] /\ UNCHANGED <<records, pending>>
        /\ beside' = beside \cup IF end = "create" /\ others # {} THEN others \cup {s} ELSE {}
    BY <1>6 DEF Directory!QueryRecords
  <2>2. /\ end \in {"conflict", "create", "reused", "stale"}
        /\ end = "create" => records = {}
    BY DEF Directory!Decision
  <2>3. /\ x.at \in Directory!Places \cup Directory!Ends /\ x.clock = clock
        /\ x.at \in {"balance", "create"} => end = "create"
        /\ clock \in 0..LastTime
    BY <1>3, <2>2 DEF Directory!Places, Directory!Ends, RecordsTyped
  <2>4. x \in [at : Directory!Places \cup Directory!Ends, clock : 0..LastTime \cup {None}]
    BY <2>3
  <2> HIDE DEF x
  <2>5. \A t \in Scripts : script'[t] = IF t = s THEN x ELSE script[t]
    BY <1>3, <2>1
  <2>5a. s \notin pending
    BY <1>3, <1>6 DEF RecordsTyped, Directory!QueryRecords, Directory!At
  <2>6. /\ \A t \in Scripts : t # s => (Directory!Creates(t)' <=> Directory!Creates(t))
        /\ Directory!Creates(s)' => end = "create"
    BY <2>1, <2>3, <2>5, <2>5a DEF Directory!Creates
  <2>7. RecordsTyped'
    <3>1. script' \in [Scripts -> [at : Directory!Places \cup Directory!Ends,
                                   clock : 0..LastTime \cup {None}]]
      BY <1>3, <2>1, <2>4
    <3>2. beside' \subseteq Scripts
      BY <1>3, <2>1 DEF RecordsTyped
    <3>3. ASSUME NEW t \in Scripts, Directory!Creates(t)'
          PROVE  script'[t].clock \in 0..LastTime /\ script'[t].clock <= clock
      BY <1>3, <2>3, <2>5, <2>6, <3>3 DEF RecordsTyped
    <3>4. \A t \in pending : script'[t].at \in {"receipt", "failed"}
      BY <1>3, <2>5, <2>5a DEF RecordsTyped
    <3> QED BY <1>1, <1>3, <2>1, <3>1, <3>2, <3>3, <3>4 DEF RecordsTyped
  <2>8. CreatedBeside'
    <3>1. beside \subseteq beside' /\ (end = "create" /\ others # {} => others \cup {s} \subseteq beside')
      BY <2>1
    <3>3. ASSUME NEW t \in Scripts, NEW u \in Scripts, Directory!Creates(t)', Directory!Creates(u)', t # u
          PROVE  t \in beside'
      <4>1. CASE t # s /\ u # s
        BY <1>3, <2>6, <3>1, <3>3, <4>1 DEF CreatedBeside
      <4>2. CASE t = s \/ u = s
        BY <2>6, <3>1, <3>3, <4>2
      <4> QED BY <4>1, <4>2
    <3>4. ASSUME NEW t \in Scripts, NEW r \in records', Directory!Creates(t)'
          PROVE  t \in beside' /\ r.by \in beside'
      <4>1. end # "create"
        BY <2>1, <2>2, <3>4
      <4>2. Directory!Creates(t)
        BY <2>6, <3>4, <4>1
      <4> QED BY <1>3, <2>1, <3>1, <3>4, <4>2 DEF CreatedBeside
    <3>5. Directory!SeveralOnlyBeside'
      BY <1>3, <2>1, <3>1 DEF CreatedBeside, Directory!SeveralOnlyBeside
    <3> QED BY <3>3, <3>4, <3>5 DEF CreatedBeside
  <2> QED BY <1>2, <2>7, <2>8 DEF DirectoryInv
<1>7. CASE Directory!MineCreation(s)
  <2> DEFINE new == [by |-> s, pair |-> "configured", expires |-> script[s].clock + Lifetime,
                     drops |-> clock + Lifetime]
  <2>1. /\ records' = records \cup {new} /\ s \in pending /\ pending' = pending \ {s}
        /\ UNCHANGED <<script, beside>>
    BY <1>7 DEF Directory!MineCreation
  <2>1a. Directory!Creates(s)
    BY <2>1 DEF Directory!Creates
  <2>2. script[s].clock \in 0..LastTime /\ script[s].clock <= clock /\ clock \in 0..LastTime
    BY <1>3, <2>1a DEF RecordsTyped
  <2>3. new \in Directory!Record /\ new.expires <= new.drops /\ new.by = s
    BY <2>2 DEF Directory!Record, Directory!Sides, Directory!Times
  <2> HIDE DEF new
  <2>4. \A t \in Scripts : Directory!Creates(t)' => Directory!Creates(t)
    BY <2>1 DEF Directory!Creates
  <2>5. RecordsTyped'
    BY <1>1, <1>3, <2>1, <2>3, <2>4 DEF RecordsTyped
  <2>6. CreatedBeside'
    <3>1. ~Directory!Creates(s)'
      BY <1>3, <2>1 DEF RecordsTyped, Directory!Creates
    <3>2. \A t, u \in Scripts : Directory!Creates(t)' /\ Directory!Creates(u)' /\ t # u => t \in beside'
      BY <1>3, <2>1, <2>4 DEF CreatedBeside
    <3>3. ASSUME NEW t \in Scripts, NEW r \in records', Directory!Creates(t)'
          PROVE  t \in beside' /\ r.by \in beside'
      <4>1. Directory!Creates(t) /\ t # s
        BY <2>4, <3>1, <3>3
      <4>2. CASE r \in records
        BY <1>3, <2>1, <4>1, <4>2 DEF CreatedBeside
      <4>3. CASE r = new
        BY <1>3, <2>1, <2>1a, <2>3, <4>1, <4>3 DEF CreatedBeside
      <4> QED BY <2>1, <3>3, <4>2, <4>3
    <3>4. ASSUME NEW r \in records', NEW q \in records', r # q
          PROVE  r.by \in beside' /\ q.by \in beside'
      <4>1. \A x \in records : x.by \in beside /\ s \in beside
        BY <1>3, <2>1a DEF CreatedBeside
      <4>2. CASE r \in records /\ q \in records
        BY <1>3, <2>1, <3>4, <4>2 DEF CreatedBeside, Directory!SeveralOnlyBeside
      <4>3. CASE r = new \/ q = new
        BY <2>1, <2>3, <3>4, <4>1, <4>3
      <4> QED BY <2>1, <3>4, <4>2, <4>3
    <3> QED BY <3>2, <3>3, <3>4 DEF CreatedBeside, Directory!SeveralOnlyBeside
  <2> QED BY <1>2, <2>5, <2>6 DEF DirectoryInv
<1> QED BY <1>5, <1>6, <1>7

\* The directory asks for a report, and takes from it what it holds.
LEMMA DirectoryReadsKeep ==
  ASSUME StatusInv, DirectoryInv,
         \/ Directory!Reporting \/ Directory!TakeReport
         \/ \E own \in BOOLEAN : Directory!AskDirectory(own)
  PROVE  DirectoryInv'
<1> USE ReadersFacts
<1>1. UNCHANGED <<clock, records, script, pending, beside>>
  BY DEF Directory!Reporting, Directory!AskDirectory, Directory!TakeReport, Directory!InDirectory,
     Directory!arkivVars
<1>2. RecordsTyped'
  BY <1>1 DEF DirectoryInv, RecordsTyped, Directory!Creates
<1>2a. CreatedBeside'
  BY <1>1 DEF DirectoryInv, CreatedBeside, Directory!Creates, Directory!SeveralOnlyBeside
<1>3. CASE Directory!Reporting
  <2>1. held \subseteq held' /\ UNCHANGED <<view, directory>>
    BY <1>3
    DEF Directory!Reporting, Directory!Administer, Directory!Read, Directory!ReadChainId,
        Directory!ReadLedgerCode, Directory!ReadSigner, Directory!ReadOwner,
        Directory!ReadMarketCode, Directory!ReadHook, Directory!ReadTokens, Directory!ReadPolicy,
        Directory!Reading
  <2>2. \A c : WasHeld(c) => WasHeld(c)'
    BY <2>1 DEF WasHeld
  <2>3. ViewHolds' /\ ShownHolds'
    BY <2>1, <2>2 DEF DirectoryInv, ViewHolds, ShownHolds
  <2> QED BY <1>2, <1>2a, <2>3 DEF DirectoryInv
<1>4. ASSUME NEW own \in BOOLEAN, Directory!AskDirectory(own)
      PROVE  DirectoryInv'
  <2>1. /\ view' = [at |-> "report", wallet |-> own, chain |-> Directory!NoChain]
        /\ directory' = None
    BY <1>4 DEF Directory!AskDirectory
  <2>2. Directory!NoChain \in Taken
    BY DEF Directory!NoChain, Taken
  <2>3. ViewHolds' /\ ShownHolds'
    BY <2>1, <2>2 DEF ViewHolds, ShownHolds
  <2> QED BY <1>2, <1>2a, <2>3 DEF DirectoryInv
<1>5. CASE Directory!TakeReport
  <2> DEFINE c == [cap       |-> IF reported.policy = None THEN None ELSE reported.policy.cap,
                   period    |-> IF reported.policy = None THEN reported.period
                                                           ELSE reported.policy.period,
                   remaining |-> None,
                   pair      |-> Directory!ConfiguredPair(reported)]
             to == IF view.wallet /\ c.period # None THEN "remaining" ELSE "arkiv"
  <2>1. /\ view' = [view EXCEPT !.chain = c, !.at = to] /\ view.at = "report" /\ reported # None
        /\ UNCHANGED <<directory, held>>
    BY <1>5 DEF Directory!TakeReport, Directory!InDirectory, Directory!Done, Directory!vars
  <2>2. /\ reported.period \in Periods \cup {None}
        /\ reported.policy # None =>
             /\ reported.policy.cap \in Caps /\ reported.policy.period \in Periods
             /\ \E b \in held : b.policy[reported.policy.period] = reported.policy.cap
    BY <2>1 DEF StatusInv, AnswerHolds
  <2>3. c \in Taken
    BY <2>2 DEF Taken, Directory!ConfiguredPair
  <2>4. WasHeld(c)
    BY <2>2 DEF WasHeld
  <2>5. to \in {"remaining", "arkiv"} /\ (to = "remaining" => c.period # None)
    OBVIOUS
  <2> HIDE DEF c, to
  <2>6. /\ view' \in [at : {"idle", "report", "remaining", "arkiv"}, wallet : BOOLEAN, chain : Taken]
        /\ view'.at = to /\ view'.chain = c
    BY <2>1, <2>3, <2>5 DEF DirectoryInv, ViewHolds
  <2>7. WasHeld(view.chain)' <=> WasHeld(c)
    BY <2>1, <2>6 DEF WasHeld
  <2>8. ViewHolds'
    BY <2>4, <2>5, <2>6, <2>7 DEF ViewHolds
  <2>9. ShownHolds'
    BY <2>1 DEF DirectoryInv, ShownHolds
  <2> QED BY <1>2, <1>2a, <2>8, <2>9 DEF DirectoryInv
<1> QED BY <1>3, <1>4, <1>5

\* The budget that is left is read beside the policy, and Arkiv last.
LEMMA DirectoryAnswersKeep ==
  ASSUME StatusInv, DirectoryInv,
         Directory!ReadRemaining \/ Directory!QueryArkiv
  PROVE  DirectoryInv'
<1> USE ReadersFacts
<1>1. UNCHANGED <<clock, records, script, pending, beside, held>>
  BY DEF Directory!ReadRemaining, Directory!QueryArkiv, Directory!InDirectory, Directory!arkivVars,
     Directory!vars
<1>2. RecordsTyped'
  BY <1>1 DEF DirectoryInv, RecordsTyped, Directory!Creates
<1>2a. CreatedBeside'
  BY <1>1 DEF DirectoryInv, CreatedBeside, Directory!Creates, Directory!SeveralOnlyBeside
<1>3. /\ view \in [at : {"idle", "report", "remaining", "arkiv"}, wallet : BOOLEAN, chain : Taken]
      /\ view.chain \in Taken
  BY DEF DirectoryInv, ViewHolds
<1>4. CASE Directory!ReadRemaining
  <2>1. PICK left \in {None, ledger.policy[view.chain.period]} :
          view' = [view EXCEPT !.at = "arkiv", !.chain.remaining = left]
    BY <1>4 DEF Directory!ReadRemaining
  <2>2. UNCHANGED directory /\ view.at = "remaining"
    BY <1>4 DEF Directory!ReadRemaining, Directory!InDirectory
  <2>3. left \in Caps \cup {0, None}
    <3>1. view.chain.period \in Periods
      BY <1>3, <2>2 DEF DirectoryInv, ViewHolds, Taken
    <3>2. ledger.policy[view.chain.period] \in Caps \cup {0}
      BY <3>1 DEF StatusInv, StatusTyped, Directory!Chain
    <3> QED BY <3>2
  <2> DEFINE c == [view.chain EXCEPT !.remaining = left]
  <2>4. view' = [view EXCEPT !.at = "arkiv", !.chain = c]
    BY <1>3, <2>1
  <2>5. c \in Taken /\ c.cap = view.chain.cap /\ c.period = view.chain.period
    BY <1>3, <2>3 DEF Taken
  <2> HIDE DEF c
  <2>6. /\ view' \in [at : {"idle", "report", "remaining", "arkiv"}, wallet : BOOLEAN, chain : Taken]
        /\ view'.at = "arkiv" /\ view'.chain = c
    BY <1>3, <2>4, <2>5
  <2>7. WasHeld(view.chain)'
    <3>1. WasHeld(view.chain)
      BY <2>2 DEF DirectoryInv, ViewHolds
    <3> QED BY <1>1, <2>5, <2>6, <3>1 DEF WasHeld
  <2>8. ViewHolds'
    BY <2>6, <2>7 DEF ViewHolds
  <2>9. ShownHolds'
    BY <2>2 DEF DirectoryInv, ShownHolds
  <2> QED BY <1>2, <1>2a, <2>8, <2>9 DEF DirectoryInv
<1>5. CASE Directory!QueryArkiv
  <2>1. /\ view.at = "arkiv" /\ view' = [view EXCEPT !.at = "idle"]
        /\ WasHeld(view.chain) /\ view.chain.pair \in {"configured", None}
    BY <1>3, <1>5 DEF Directory!QueryArkiv, Directory!InDirectory, DirectoryInv, ViewHolds, Taken
  <2>2. /\ view' \in [at : {"idle", "report", "remaining", "arkiv"}, wallet : BOOLEAN, chain : Taken]
        /\ view'.at = "idle"
    BY <1>3, <2>1
  <2>3. PICK says \in {"unavailable", Directory!Describe(records, view.chain, clock)},
             found \in {{}, records} :
          /\ directory' = [status |-> says, chain |-> view.chain, found |-> found, time |-> clock]
          /\ says = "unavailable" \/ found = records
    BY <1>5 DEF Directory!QueryArkiv
  <2>4. Directory!Describe(records, view.chain, clock)
          \in {"ready", "missing", "expired", "mismatch", "unavailable"}
    BY DEF Directory!Describe
  <2>5. says = "ready" =>
          \E r \in records :
            records = {r} /\ r.pair = "configured" /\ clock < r.expires /\ r.expires <= r.drops
    <3> SUFFICES ASSUME says = "ready"
                 PROVE  \E r \in records : /\ records = {r} /\ r.pair = "configured"
                                           /\ clock < r.expires /\ r.expires <= r.drops
      OBVIOUS
    <3>1. /\ ~Directory!Several(records) /\ records # {} /\ view.chain.pair # None
          /\ \A r \in records : ~(r.expires <= clock) /\ r.pair = view.chain.pair
      BY <2>3 DEF Directory!Describe
    <3>2. PICK r \in records : TRUE
      BY <3>1
    <3>3. records = {r}
      BY <3>1, <3>2 DEF Directory!Several
    <3>4. r.expires \in Int /\ clock \in Int /\ r.expires <= r.drops
      BY <3>2 DEF DirectoryInv, RecordsTyped, Directory!Record, Directory!Times
    <3> QED BY <2>1, <3>1, <3>2, <3>3, <3>4
  <2>6. /\ directory'.status = says /\ directory'.chain = view.chain
        /\ directory'.found = found /\ directory'.time = clock
    BY <2>3
  <2>7. ViewHolds'
    BY <2>2 DEF ViewHolds
  <2>8. WasHeld(directory.chain)'
    BY <1>1, <2>1, <2>6 DEF WasHeld
  <2>9. ShownHolds'
    BY <2>2, <2>3, <2>4, <2>5, <2>6, <2>8 DEF ShownHolds
  <2> QED BY <1>2, <1>2a, <2>7, <2>9 DEF DirectoryInv
<1> QED BY <1>4, <1>5

\* The directory's steps are steps of the report, or leave it alone.
LEMMA DirectoryStepsReport ==
  ASSUME Directory!DirNext
  PROVE  [Directory!Next]_(Directory!vars)
<1>1. CASE Directory!Tick
  BY <1>1 DEF Directory!Tick
<1>2. CASE Directory!Publishing
  BY <1>2
  DEF Directory!Publishing, Directory!StartScript, Directory!StopScript, Directory!ReadExecutor,
      Directory!QueryRecords, Directory!ReadBalance, Directory!SendCreation,
      Directory!MineCreation, Directory!Created, Directory!At
<1>3. CASE Directory!Reporting
  BY <1>3 DEF Directory!Reporting, Directory!Next
<1>4. CASE \E own \in BOOLEAN : Directory!AskDirectory(own)
  BY <1>4 DEF Directory!AskDirectory, Directory!Next
<1>5. CASE Directory!TakeReport \/ Directory!ReadRemaining \/ Directory!QueryArkiv
  BY <1>5 DEF Directory!TakeReport, Directory!ReadRemaining, Directory!QueryArkiv
<1> QED BY <1>1, <1>2, <1>3, <1>4, <1>5 DEF Directory!DirNext

\* Every step keeps what the report, the scripts and the directory rest on.
LEMMA DirectoryStepKeeps ==
  ASSUME StatusInv, DirectoryInv, [Directory!DirNext]_(Directory!dirVars)
  PROVE  StatusInv' /\ DirectoryInv'
<1>1. CASE UNCHANGED Directory!dirVars
  <2>1. UNCHANGED <<clock, records, script, pending, beside, view, directory, held, Directory!vars>>
    BY <1>1 DEF Directory!dirVars, Directory!arkivVars, Directory!vars
  <2>2. RecordsTyped'
    BY <2>1 DEF DirectoryInv, RecordsTyped, Directory!Creates
  <2>2a. CreatedBeside'
    BY <2>1 DEF DirectoryInv, CreatedBeside, Directory!Creates, Directory!SeveralOnlyBeside
  <2>3. ViewHolds' /\ ShownHolds'
    BY <2>1 DEF DirectoryInv, ViewHolds, ShownHolds, WasHeld
  <2> QED BY <2>1, <2>2, <2>2a, <2>3, StatusStepKeeps DEF DirectoryInv
<1>2. CASE Directory!DirNext
  <2>1. StatusInv'
    BY <1>2, DirectoryStepsReport, StatusStepKeeps
  <2>2. DirectoryInv'
    BY <1>2, DirectoryTickKeeps, PublishingKeeps, DirectoryReadsKeep, DirectoryAnswersKeep
    DEF Directory!DirNext, Directory!Publishing
  <2> QED BY <2>1, <2>2
<1> QED BY <1>1, <1>2

-----------------------------------------------------------------------------
\* What the parts of the invariant say of the directory.
LEMMA DirectoryTells ==
  ASSUME StatusInv, DirectoryInv
  PROVE  DirectoryIsTrue
<1>1. Directory!TypeOK
  BY DEF StatusInv, StatusTyped, AnswerHolds, Reports, Directory!TypeOK
<1>2. Directory!DirTypeOK
  BY <1>1 DEF DirectoryInv, RecordsTyped, ViewHolds, ShownHolds, Directory!DirTypeOK
<1>3. Directory!ReadyIsCurrent
  BY DEF DirectoryInv, ShownHolds, Directory!ReadyIsCurrent, Directory!Shown
<1>4. Directory!ShownPolicyWasHeld
  BY DEF DirectoryInv, ShownHolds, WasHeld, Directory!ShownPolicyWasHeld, Directory!Shown
<1>5. Directory!SeveralOnlyBeside
  BY DEF DirectoryInv, CreatedBeside
<1> QED BY <1>2, <1>3, <1>4, <1>5 DEF DirectoryIsTrue, Directory!DirectoryIsTrue

-----------------------------------------------------------------------------
(* The parts together *)

HandlersInv == IInv /\ BindingInv /\ PresentationInv /\ BoxInv /\ ConsoleInv
                 /\ StatusInv /\ DirectoryInv

handlersState ==
  <<part, limitState, bindingState, demoState, boxState, consoleState, directoryState>>

\* A part that does not move stays as it is; one that moves does so by itself.
LEMMA EachHandlerMoves ==
  ASSUME [HandlersNext]_handlersState
  PROVE  /\ [Next]_vars /\ [Binding!Next]_(Binding!vars) /\ [Demo!Next]_(Demo!vars)
         /\ [Box!Next]_(Box!vars) /\ [Console!Next]_(Console!vars)
         /\ [Directory!DirNext]_(Directory!dirVars)
<1>1. UNCHANGED limitState => UNCHANGED vars
  BY DEF limitState
<1>2. UNCHANGED bindingState => UNCHANGED Binding!vars
  BY DEF bindingState, Binding!vars
<1>3. UNCHANGED demoState => UNCHANGED Demo!vars
  BY DEF demoState, Demo!vars, Demo!chainVars, Demo!requestVars
<1>4. UNCHANGED boxState => UNCHANGED Box!vars
  BY DEF boxState, Box!vars, Box!requestVars, Box!histories
<1>5. UNCHANGED consoleState => UNCHANGED Console!vars
  BY DEF consoleState, Console!vars, Console!chainVars, Console!pageVars, Console!logVars
<1>6. UNCHANGED directoryState => UNCHANGED Directory!dirVars
  BY DEF directoryState, Directory!dirVars, Directory!arkivVars, Directory!vars
<1>7. \/ UNCHANGED limitState \/ Next
  BY DEF HandlersNext, handlersState
<1>8. \/ UNCHANGED bindingState \/ Binding!Next
  BY DEF HandlersNext, handlersState
<1>9. \/ UNCHANGED demoState \/ Demo!Next
  BY DEF HandlersNext, handlersState
<1>10. \/ UNCHANGED boxState \/ Box!Next
  BY DEF HandlersNext, handlersState
<1>11. \/ UNCHANGED consoleState \/ Console!Next
  BY DEF HandlersNext, handlersState
<1>12. \/ UNCHANGED directoryState \/ Directory!DirNext
  BY DEF HandlersNext, handlersState
<1> QED BY <1>1, <1>2, <1>3, <1>4, <1>5, <1>6, <1>7, <1>8, <1>9, <1>10, <1>11, <1>12

\* The handlers begin in the invariant.
LEMMA HandlersStart ==
  HandlersInit => HandlersInv
<1> SUFFICES ASSUME HandlersInit PROVE HandlersInv
  OBVIOUS
<1>1. /\ Init /\ Binding!Init /\ Demo!Init /\ Box!Init /\ Console!Init /\ Directory!DirInit
  BY DEF HandlersInit
<1>2. StatusInv /\ DirectoryInv
  BY <1>1, StatusStarts, DirectoryStarts DEF Directory!DirInit
<1> QED
  BY <1>1, <1>2, InvInit, BindingStarts, DemoStarts, BoxStarts, ConsoleStarts DEF HandlersInv

\* Every step keeps it.
LEMMA HandlersKeep ==
  HandlersInv /\ [HandlersNext]_handlersState => HandlersInv'
<1> SUFFICES ASSUME HandlersInv, [HandlersNext]_handlersState PROVE HandlersInv'
  OBVIOUS
<1>1. /\ [Next]_vars /\ [Binding!Next]_(Binding!vars) /\ [Demo!Next]_(Demo!vars)
      /\ [Box!Next]_(Box!vars) /\ [Console!Next]_(Console!vars)
      /\ [Directory!DirNext]_(Directory!dirVars)
  BY EachHandlerMoves
<1>2. IInv'
  BY <1>1, InvStep DEF HandlersInv
<1>3. BindingInv'
  BY <1>1, BindingStepKeeps DEF HandlersInv
<1>4. PresentationInv'
  BY <1>1, DemoStepKeeps DEF HandlersInv
<1>5. BoxInv'
  BY <1>1, BoxStepKeeps DEF HandlersInv
<1>6. ConsoleInv'
  BY <1>1, ConsoleStepKeeps DEF HandlersInv
<1>7. StatusInv' /\ DirectoryInv'
  BY <1>1, DirectoryStepKeeps DEF HandlersInv
<1> QED BY <1>2, <1>3, <1>4, <1>5, <1>6, <1>7 DEF HandlersInv

\* The invariant of the handlers holds throughout.
THEOREM HandlersInvariant ==
  HandlersSpec => []HandlersInv
BY HandlersStart, HandlersKeep, PTL DEF HandlersSpec, handlersState

\* Wherever a window begins, an address is let through at most Limit times in
\* it (requestLimit.ts tooManyRequests).
THEOREM LimitIsKept ==
  HandlersSpec => []NeverOverLimit
<1>1. HandlersInv => NeverOverLimit
  BY DEF HandlersInv, IInv
<1> QED BY <1>1, HandlersInvariant, PTL

\* A refused address has had Limit calls in the window that ends now
\* (requestLimit.ts tooManyRequests).
THEOREM RefusalIsDeserved ==
  HandlersSpec => RefusedOnlyWhenFull
<1>1. HandlersInv /\ [HandlersNext]_handlersState =>
        [\A k \in Keys : Refuse(k) => Cardinality(From(admitted[k], now - Window + 1)) >= Limit]_vars
  <2> SUFFICES ASSUME HandlersInv, NEW k \in Keys, Refuse(k)
               PROVE  Cardinality(From(admitted[k], now - Window + 1)) >= Limit
    OBVIOUS
  <2> QED BY CountsTheWindow DEF Refuse, HandlersInv
<1> QED BY <1>1, HandlersInvariant, PTL DEF HandlersSpec, handlersState, RefusedOnlyWhenFull

\* Over any number of signups, restarts, expired proofs and spellings of its nullifier,
\* a human has one row in an environment.  Whoever was told "enrolled" has the row of
\* that request, whoever was told of an existing enrollment has another's; and a row
\* is of a signup that World verified, whether it was answered with success, with a
\* 500 or not at all (enroll.ts, enrollmentProof.ts, enrollmentStore.ts).
THEOREM OneEnrollmentPerHuman ==
  HandlersSpec => []BindingHolds
<1>1. HandlersInv => BindingHolds
  BY BindingInvHolds DEF HandlersInv
<1> QED BY <1>1, HandlersInvariant, PTL

\* Whatever the wallets sign and keep, and however the clock, the chain and the
\* list change under the requests: a wallet is bound only within one lifetime of
\* the end of a request that began no later than it was last on the list, a reserved
\* one never, and a request that met no change was authorized on what the ledger
\* has (app/api/invest/demo/route.ts).
THEOREM RemovedWalletsAreHeldBack ==
  HandlersSpec => WalletsAreHeldBack
<1>1. HandlersInv /\ [HandlersNext]_handlersState
        => [\A w \in Wallets :
              bound[w] = None /\ bound'[w] = "demo" =>
                /\ w \notin Reserved /\ lastAllowed[w] # None
                /\ \E r \in Demo!Requests :
                     /\ wallet[r] = w /\ demoOutcome[r] = "authorized"
                     /\ span[r].began <= lastAllowed[w]
                     /\ demoTime <= span[r].ended + AuthorizationTTL]_(Demo!vars)
  BY EachHandlerMoves, BoundWhileListed DEF HandlersInv
<1>2. HandlersInv /\ [HandlersNext]_handlersState
        => [\A r \in Demo!Requests :
              demoOutcome[r] = None /\ demoOutcome'[r] = "authorized" /\ Demo!MetNoChange(r)
                => /\ signerMatches /\ policyMatches /\ owner # wallet[r] /\ bound[wallet[r]] = None
                   /\ challenge[r].nonce \notin usedNonce]_(Demo!vars)
  BY EachHandlerMoves, AuthorizedAsRead DEF HandlersInv
<1>3. HandlersInv => Demo!TypeOK /\ Demo!UsedIsLinked
  BY DemoTells DEF HandlersInv
<1> QED
  BY <1>1, <1>2, <1>3, HandlersInvariant, PTL
  DEF HandlersSpec, handlersState, WalletsAreHeldBack, Demo!RemovalTakesEffect,
      Demo!AuthorizedOnFacts

\* The guided demo, over tabs, resets, runs of the journey and stopped processes: a
\* purchase that met no other request ends as the journey computes it, and a confirmed
\* one that met no reset is in the figures read after it.  With no reset under way the
\* file names a snapshot Anvil has, unless a reset was stopped with the file unwritten
\* or the journey met a reset, and the journey has not run since.  What a reset loads
\* is from before the purchases, but for those that met a reset and those the journey
\* found when it could not restore (sandboxChain.ts, runGuidedDemo.mts).
THEOREM DemoTellsTheTruth ==
  HandlersSpec => []DemoIsTrue
<1>1. HandlersInv => DemoIsTrue
  BY BoxInvHolds DEF HandlersInv
<1> QED BY <1>1, HandlersInvariant, PTL

\* However many clicks are under way and however the accounts are switched, an entry
\* of the console's log is of its own transaction: "success" says that it was mined,
\* and applied unless the hook was handed to another owner or the zero oracle was
\* asked for; "failed" that nothing was sent or the wait was given up.  A fee computed
\* from current readings is the hook's (AdminObservatory.tsx, hookFee.ts).
THEOREM ConsoleTellsTheTruth ==
  HandlersSpec => []ConsoleIsTrue
<1>1. HandlersInv => ConsoleIsTrue
  BY ConsoleInvHolds DEF HandlersInv
<1> QED BY <1>1, HandlersInvariant, PTL

\* Whatever the owner administers between two reads of the report and whichever
\* of them fail, an undisturbed report is exact and a market is called ready only
\* if each thing that makes it so was so while the report was made
\* (status.ts readProductStatus).
THEOREM StatusReportIsTrue ==
  HandlersSpec => []StatusIsTrue
<1>1. HandlersInv => StatusIsTrue
  BY DEF HandlersInv, StatusInv, StatusIsTrue, Directory!StatusIsTrue
<1> QED BY <1>1, HandlersInvariant, PTL

\* However many scripts publish, wherever they are stopped and whenever their
\* creations are mined: a record the directory calls ready is the only one of its
\* query, current and of the configured pair, and the cap it shows was the policy of
\* the period it shows.  Two records are of scripts each of which queried before the
\* creation of another was mined (offering.ts describeOfferingDirectory,
\* publish-offering.mts).
THEOREM DirectoryTellsTheTruth ==
  HandlersSpec => []DirectoryIsTrue
<1>1. HandlersInv => DirectoryIsTrue
  BY DirectoryTells DEF HandlersInv
<1> QED BY <1>1, HandlersInvariant, PTL
=============================================================================
