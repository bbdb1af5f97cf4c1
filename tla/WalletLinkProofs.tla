-------------------------- MODULE WalletLinkProofs --------------------------
(***************************************************************************)
(* Proofs about enrollment, for any number of humans, sessions, grants and *)
(* requests in flight, and whatever is lost on the way; and about wallet   *)
(* linking, which extends it, for any number of wallets, requests between  *)
(* their checks and the store, transactions and receipts.                  *)
(***************************************************************************)
EXTENDS WalletLink, TLAPS

USE EnrollmentAssumption, LinkAssumption

-----------------------------------------------------------------------------
(* Enrollment: the parts of the invariant *)

Rows     == [human : Humans, session : Sessions, allocation : Allocations]
Statuses == {"open", "consumed"}

\* A human, a session and an allocation are each in one row.
RowsUnique ==
  \A i, j \in DOMAIN enrollments :
    \/ enrollments[i].human = enrollments[j].human
    \/ enrollments[i].session = enrollments[j].session
    \/ enrollments[i].allocation = enrollments[j].allocation
    => i = j

HasRow(h, s) ==
  \E i \in DOMAIN enrollments : enrollments[i].human = h /\ enrollments[i].session = s

\* The session of a signup in flight is of that signup alone.
SignupsAreNew ==
  \A r \in requests : r.kind = "enroll" =>
    /\ r.session \notin EnrolledSessions
    /\ \A q \in requests : q.session = r.session => q = r

\* A session a human continues, or is about to, is that human's.
ContinuesItsOwn ==
  /\ \A r \in requests : r.kind = "continue" => HasRow(r.human, r.session)
  /\ \A h \in Humans : resumed[h] # None => HasRow(h, resumed[h])

EnrollInv == TypeOK /\ RowsUnique /\ SignupsAreNew /\ ContinuesItsOwn /\ BrowserLeadsHome

-----------------------------------------------------------------------------
(* Rows and sessions *)

\* findBySessionHash finds the row, because there is one.
LEMMA RowFound ==
  ASSUME NEW rows, NEW k \in DOMAIN rows,
         \A i \in DOMAIN rows : rows[i].session = rows[k].session => i = k
  PROVE  RowOfSession(rows, rows[k].session) = k
BY DEF RowOfSession

\* A row more at the end.
LEMMA Appended ==
  ASSUME NEW S, NEW s \in Seq(S), NEW e \in S
  PROVE  /\ Append(s, e) \in Seq(S)
         /\ Len(s) \in Nat /\ Len(Append(s, e)) = Len(s) + 1
         /\ DOMAIN s = 1..Len(s)
         /\ DOMAIN Append(s, e) = 1..(Len(s) + 1)
         /\ Append(s, e)[Len(s) + 1] = e
         /\ \A i \in DOMAIN s : Append(s, e)[i] = s[i]
OBVIOUS

\* A row has the type of the rows.
LEMMA Element ==
  ASSUME NEW S, NEW s \in Seq(S), NEW i \in DOMAIN s
  PROVE  s[i] \in S /\ i \in Nat
OBVIOUS

\* Rows of a type are rows of a wider one.
LEMMA WiderSeq ==
  ASSUME NEW S, NEW T, S \subseteq T, NEW s \in Seq(S)
  PROVE  s \in Seq(T)
OBVIOUS

\* What is stored has its type, and a human's token is a grant of a stored row.
LEMMA Stored ==
  ASSUME EnrollInv
  PROVE  /\ \A i \in DOMAIN enrollments : enrollments[i] \in Rows
         /\ \A h \in Humans : \A t \in tokens[h] :
              t \in DOMAIN grants /\ grants[t].enrollment \in DOMAIN enrollments
<1>1. \A i \in DOMAIN enrollments : enrollments[i] \in Rows
  <2>1. enrollments \in Seq(Rows)
    BY DEF EnrollInv, TypeOK, Rows
  <2> QED BY <2>1, Element
<1>2. ASSUME NEW h \in Humans, NEW t \in tokens[h]
      PROVE  t \in DOMAIN grants /\ grants[t].enrollment \in DOMAIN enrollments
  <2> DEFINE G == [enrollment : DOMAIN enrollments, expires : 0..MaxTime + GRANT_TTL,
                   status : Statuses]
  <2>1. grants \in Seq(G)
    BY DEF EnrollInv, TypeOK, Statuses
  <2>2. tokens[h] \subseteq DOMAIN grants
    BY DEF EnrollInv, TypeOK
  <2> HIDE DEF G
  <2>3. t \in DOMAIN grants /\ grants[t] \in G
    BY <1>2, <2>1, <2>2, Element
  <2> QED BY <2>3 DEF G
<1> QED BY <1>1, <1>2

\* The empty store satisfies the invariant.
LEMMA EnrollmentInit == Init => EnrollInv
<1> SUFFICES ASSUME Init PROVE EnrollInv
  OBVIOUS
<1>1. TypeOK
  BY DEF Init, TypeOK
<1>2. RowsUnique /\ SignupsAreNew /\ ContinuesItsOwn /\ BrowserLeadsHome
  BY DEF Init, RowsUnique, SignupsAreNew, ContinuesItsOwn, BrowserLeadsHome
<1> QED BY <1>1, <1>2 DEF EnrollInv

-----------------------------------------------------------------------------
(* The client *)

\* A signup with a session of its own is under way.
LEMMA AskEnrollKeeps ==
  ASSUME EnrollInv, NEW h \in Humans, NEW s \in Sessions, AskEnroll(h, s)
  PROVE  EnrollInv'
<1> DEFINE q == [kind |-> "enroll", human |-> h, session |-> s]
<1>1. /\ s \notin EnrolledSessions
      /\ \A r \in requests : r.session # s
      /\ requests' = requests \cup {q}
      /\ UNCHANGED <<enrollments, grants, resumes, resumed, cookie, tokens, now>>
  BY DEF AskEnroll, storeVars, clientVars
<1>2. q.session = s /\ q.kind = "enroll"
  OBVIOUS
<1>3. q \in [kind : {"enroll"}, human : Humans, session : Sessions]
  OBVIOUS
<1>4. TypeOK'
  BY <1>1, <1>3 DEF EnrollInv, TypeOK
<1>5. SignupsAreNew'
  <2> HIDE DEF q
  <2> QED BY <1>1, <1>2 DEF EnrollInv, SignupsAreNew, EnrolledSessions
<1>6. ContinuesItsOwn'
  <2> HIDE DEF q
  <2> QED BY <1>1, <1>2 DEF EnrollInv, ContinuesItsOwn, HasRow
<1>7. RowsUnique' /\ BrowserLeadsHome'
  BY <1>1 DEF EnrollInv, RowsUnique, BrowserLeadsHome
<1> QED BY <1>4, <1>5, <1>6, <1>7 DEF EnrollInv

\* The browser resumes the session of its cookie.
LEMMA ResumeKeeps ==
  ASSUME EnrollInv, NEW h \in Humans, Resume(h)
  PROVE  EnrollInv'
<1>1. /\ resumed' = [resumed EXCEPT ![h] = enrollments[cookie[h]].session]
      /\ UNCHANGED <<enrollments, grants, resumes, requests, cookie, tokens, now>>
  BY DEF Resume, storeVars
<1>2. cookie[h] \in DOMAIN enrollments /\ cookie[h] # 0
  BY DEF Resume, Verified, EnrollInv, TypeOK
<1>3. enrollments[cookie[h]] \in Rows
  BY <1>2, Stored
<1>4. enrollments[cookie[h]].human = h
  BY <1>2 DEF EnrollInv, BrowserLeadsHome
<1>5. TypeOK'
  BY <1>1, <1>3 DEF EnrollInv, TypeOK, Rows
<1>6. ContinuesItsOwn'
  BY <1>1, <1>2, <1>4 DEF EnrollInv, TypeOK, ContinuesItsOwn, HasRow
<1>7. RowsUnique' /\ SignupsAreNew' /\ BrowserLeadsHome'
  BY <1>1 DEF EnrollInv, RowsUnique, SignupsAreNew, EnrolledSessions, BrowserLeadsHome
<1> QED BY <1>5, <1>6, <1>7 DEF EnrollInv

\* A continuation with the resumed session is under way.
LEMMA AskContinueKeeps ==
  ASSUME EnrollInv, NEW h \in Humans, AskContinue(h)
  PROVE  EnrollInv'
<1> DEFINE q == [kind |-> "continue", human |-> h, session |-> resumed[h], at |-> now]
<1>1. /\ resumed[h] \in EnrolledSessions
      /\ requests' = requests \cup {q}
      /\ resumed' = [resumed EXCEPT ![h] = None]
      /\ UNCHANGED <<enrollments, grants, resumes, cookie, tokens, now>>
  BY DEF AskContinue, storeVars
<1>2. q.session = resumed[h] /\ q.kind = "continue" /\ q.human = h
  OBVIOUS
<1>3. resumed[h] \in Sessions
  <2>1. PICK i \in DOMAIN enrollments : resumed[h] = enrollments[i].session
    BY <1>1 DEF EnrolledSessions
  <2> QED BY <2>1, Stored DEF Rows
<1>4. q \in [kind : {"continue"}, human : Humans, session : Sessions, at : 0..MaxTime]
  BY <1>3 DEF EnrollInv, TypeOK
<1> HIDE DEF q
<1>5. TypeOK'
  BY <1>1, <1>4 DEF EnrollInv, TypeOK
<1>6. SignupsAreNew'
  BY <1>1, <1>2 DEF EnrollInv, SignupsAreNew, EnrolledSessions
<1>7. ContinuesItsOwn'
  <2>1. HasRow(h, resumed[h])
    BY <1>3 DEF EnrollInv, ContinuesItsOwn
  <2> QED BY <1>1, <1>2, <2>1 DEF EnrollInv, TypeOK, ContinuesItsOwn, HasRow
<1>8. RowsUnique' /\ BrowserLeadsHome'
  BY <1>1 DEF EnrollInv, RowsUnique, BrowserLeadsHome
<1> QED BY <1>5, <1>6, <1>7, <1>8 DEF EnrollInv

\* A cookie is lost or expires.
LEMMA LoseCookieKeeps ==
  ASSUME EnrollInv, NEW h \in Humans, LoseCookie(h)
  PROVE  EnrollInv'
<1>1. /\ cookie' = [cookie EXCEPT ![h] = 0]
      /\ UNCHANGED <<enrollments, grants, resumes, resumed, tokens, requests, now>>
  BY DEF LoseCookie, storeVars
<1>2. TypeOK'
  BY <1>1 DEF EnrollInv, TypeOK
<1>3. RowsUnique' /\ SignupsAreNew' /\ ContinuesItsOwn'
  BY <1>1 DEF EnrollInv, RowsUnique, SignupsAreNew, EnrolledSessions, ContinuesItsOwn, HasRow
<1>4. BrowserLeadsHome'
  BY <1>1 DEF EnrollInv, TypeOK, BrowserLeadsHome
<1> QED BY <1>2, <1>3, <1>4 DEF EnrollInv

-----------------------------------------------------------------------------
(* The backend *)

\* A request that ends without a trace.
LEMMA DropKeeps ==
  ASSUME EnrollInv, NEW r \in requests, requests' = requests \ {r},
         UNCHANGED <<storeVars, clientVars, now>>
  PROVE  EnrollInv'
<1>1. /\ requests' \subseteq requests
      /\ UNCHANGED <<enrollments, grants, resumes, resumed, cookie, tokens, now>>
  BY DEF storeVars, clientVars
<1>2. TypeOK'
  BY <1>1 DEF EnrollInv, TypeOK
<1>3. RowsUnique' /\ BrowserLeadsHome'
  BY <1>1 DEF EnrollInv, RowsUnique, BrowserLeadsHome
<1>4. SignupsAreNew' /\ ContinuesItsOwn'
  BY <1>1 DEF EnrollInv, SignupsAreNew, EnrolledSessions, ContinuesItsOwn, HasRow
<1> QED BY <1>2, <1>3, <1>4 DEF EnrollInv

\* Whatever part of an enrollment is written, the new row is the human's only
\* one and what is written leads to it.
LEMMA EnrollKeeps ==
  ASSUME EnrollInv, NEW r \in requests, NEW a \in Allocations, NEW done \in 1..3,
         NEW arrives \in BOOLEAN, Enroll(r, a, done, arrives)
  PROVE  EnrollInv'
<1> DEFINE row  == [human |-> r.human, session |-> r.session, allocation |-> a]
           id   == Len(enrollments) + 1
           rows == Append(enrollments, row)
           g    == Grant(id, now)
<1>1. /\ r.kind = "enroll" /\ r.human \in Humans /\ r.session \in Sessions
      /\ enrollments \in Seq(Rows)
  BY DEF EnrollInv, TypeOK, Enroll, Rows
<1>2. row \in Rows
  BY <1>1 DEF Rows
<1>3. row.human = r.human /\ row.session = r.session /\ row.allocation = a
  OBVIOUS
<1>4. /\ rows \in Seq(Rows)
      /\ DOMAIN enrollments = 1..Len(enrollments)
      /\ DOMAIN rows = 1..id
      /\ rows[id] = row
      /\ \A i \in DOMAIN enrollments : rows[i] = enrollments[i]
  <2> HIDE DEF row
  <2> QED BY <1>1, <1>2, Appended
<1>5. /\ Len(enrollments) \in Nat
      /\ DOMAIN enrollments \subseteq DOMAIN rows
      /\ \A i \in DOMAIN rows : i \in DOMAIN enrollments \/ i = id
      /\ id \in DOMAIN rows /\ id \notin DOMAIN enrollments
  BY <1>1, <1>4
<1>6. r.session \notin EnrolledSessions
  BY <1>1 DEF EnrollInv, SignupsAreNew
<1>7. RowOfSession(rows, r.session) = id
  <2> HIDE DEF row, rows, id
  <2>1. \A i \in DOMAIN rows : rows[i].session = rows[id].session => i = id
    BY <1>3, <1>4, <1>5, <1>6 DEF EnrolledSessions
  <2> QED BY <1>3, <1>4, <1>5, <2>1, RowFound
<1>8. /\ FreshNullifier(r.human) /\ FreshAllocation(a)
      /\ arrives => done = 3
      /\ enrollments' = rows
      /\ grants' = IF done >= 2 THEN Append(grants, g) ELSE grants
      /\ resumes' = IF done = 3 THEN WithResume(resumes, id, now) ELSE resumes
      /\ cookie' = IF arrives THEN [cookie EXCEPT ![r.human] = id] ELSE cookie
      /\ tokens' = IF arrives THEN [tokens EXCEPT ![r.human] = @ \cup {Len(grants')}]
                              ELSE tokens
      /\ requests' = requests \ {r}
      /\ UNCHANGED <<resumed, now>>
  BY <1>7 DEF Enroll
<1>9. /\ g.enrollment = id
      /\ g \in [enrollment : DOMAIN rows, expires : 0..MaxTime + GRANT_TTL, status : Statuses]
  BY <1>5 DEF Grant, Statuses, EnrollInv, TypeOK
<1> HIDE DEF row, id, rows, g
<1>10. /\ grants' \in Seq([enrollment : DOMAIN rows, expires : 0..MaxTime + GRANT_TTL,
                           status : Statuses])
       /\ DOMAIN grants \subseteq DOMAIN grants'
       /\ \A t \in DOMAIN grants : grants'[t] = grants[t]
       /\ done = 3 => Len(grants') \in DOMAIN grants' /\ grants'[Len(grants')] = g
  <2> DEFINE G == [enrollment : DOMAIN rows, expires : 0..MaxTime + GRANT_TTL,
                   status : Statuses]
  <2>1. grants \in Seq(G)
    <3> DEFINE H == [enrollment : DOMAIN enrollments, expires : 0..MaxTime + GRANT_TTL,
                     status : Statuses]
    <3>1. grants \in Seq(H)
      BY DEF EnrollInv, TypeOK, Statuses
    <3>2. H \subseteq G
      BY <1>5
    <3> HIDE DEF G, H
    <3> QED BY <3>1, <3>2, WiderSeq
  <2>2. g \in G
    BY <1>9
  <2> HIDE DEF G
  <2>3. CASE done >= 2
    <3>1. grants' = Append(grants, g)
      BY <1>8, <2>3
    <3>2. /\ grants' \in Seq(G) /\ Len(grants') = Len(grants) + 1
          /\ DOMAIN grants = 1..Len(grants) /\ DOMAIN grants' = 1..(Len(grants) + 1)
          /\ grants'[Len(grants) + 1] = g
          /\ \A t \in DOMAIN grants : grants'[t] = grants[t]
      BY <2>1, <2>2, <3>1, Appended
    <3>3. Len(grants) \in Nat
      BY <2>1
    <3> QED BY <3>2, <3>3 DEF G
  <2>4. CASE ~(done >= 2)
    BY <1>8, <2>1, <2>4 DEF G
  <2> QED BY <2>3, <2>4
<1>11. /\ resumes' \subseteq [enrollment : DOMAIN rows, expires : 0..MaxTime + RESUME_TTL]
       /\ {q.enrollment : q \in resumes} \subseteq {q.enrollment : q \in resumes'}
       /\ done = 3 => id \in {q.enrollment : q \in resumes'}
  <2>1. resumes \subseteq [enrollment : DOMAIN rows, expires : 0..MaxTime + RESUME_TTL]
    BY <1>5 DEF EnrollInv, TypeOK
  <2>2. CASE done = 3
    <3> DEFINE n == [enrollment |-> id, expires |-> now + RESUME_TTL]
    <3>1. resumes' = {q \in resumes : q.enrollment # id} \cup {n}
      BY <1>8, <2>2 DEF WithResume
    <3>2. n \in [enrollment : DOMAIN rows, expires : 0..MaxTime + RESUME_TTL]
      BY <1>5 DEF EnrollInv, TypeOK
    <3>3. n.enrollment = id
      OBVIOUS
    <3>4. \A q \in resumes : q.enrollment # id
      BY <1>5 DEF EnrollInv, TypeOK
    <3> HIDE DEF n
    <3> QED BY <2>1, <3>1, <3>2, <3>3, <3>4
  <2>3. CASE done # 3
    BY <1>8, <2>1, <2>3
  <2> QED BY <2>2, <2>3
<1>12. TypeOK'
  <2>1. enrollments' \in Seq([human : Humans, session : Sessions, allocation : Allocations])
    BY <1>4, <1>8 DEF Rows
  <2>2. cookie' \in [Humans -> {0} \cup {q.enrollment : q \in resumes'}]
    <3>1. cookie \in [Humans -> {0} \cup {q.enrollment : q \in resumes'}]
      <4>1. cookie \in [Humans -> {0} \cup {q.enrollment : q \in resumes}]
        BY DEF EnrollInv, TypeOK
      <4> QED BY <1>11, <4>1
    <3>2. CASE arrives
      BY <1>1, <1>8, <1>11, <3>1, <3>2
    <3>3. CASE ~arrives
      BY <1>8, <3>1, <3>3
    <3> QED BY <3>2, <3>3
  <2>3. tokens' \in [Humans -> SUBSET DOMAIN grants']
    <3>1. tokens \in [Humans -> SUBSET DOMAIN grants']
      BY <1>10 DEF EnrollInv, TypeOK
    <3> QED BY <1>1, <1>8, <1>10, <3>1
  <2>4. requests' \subseteq requests
    BY <1>8
  <2> QED BY <1>8, <1>10, <1>11, <2>1, <2>2, <2>3, <2>4 DEF EnrollInv, TypeOK, Statuses
<1>13. RowsUnique'
  <2>1. \A i \in DOMAIN enrollments :
          /\ enrollments[i].human # row.human
          /\ enrollments[i].session # row.session
          /\ enrollments[i].allocation # row.allocation
    BY <1>3, <1>6, <1>8 DEF FreshNullifier, FreshAllocation, EnrolledSessions
  <2>2. SUFFICES ASSUME NEW i \in DOMAIN rows, NEW j \in DOMAIN rows,
                        \/ rows[i].human = rows[j].human
                        \/ rows[i].session = rows[j].session
                        \/ rows[i].allocation = rows[j].allocation
                 PROVE  i = j
    BY <1>8 DEF RowsUnique
  <2>3. CASE i = id \/ j = id
    BY <1>4, <1>5, <2>1, <2>2, <2>3
  <2>4. CASE i \in DOMAIN enrollments /\ j \in DOMAIN enrollments
    BY <1>4, <2>2, <2>4 DEF EnrollInv, RowsUnique
  <2> QED BY <1>5, <2>3, <2>4
<1>14. \A h, s : HasRow(h, s) => HasRow(h, s)'
  BY <1>4, <1>5, <1>8 DEF HasRow
<1>15. ContinuesItsOwn'
  BY <1>8, <1>14 DEF EnrollInv, ContinuesItsOwn
<1>16. SignupsAreNew'
  <2>1. \A s \in EnrolledSessions' : s \in EnrolledSessions \/ s = r.session
    BY <1>3, <1>4, <1>5, <1>8 DEF EnrolledSessions
  <2>2. \A q \in requests' : q \in requests /\ q # r
    BY <1>8
  <2>3. \A q \in requests' : q.kind = "enroll" => q.session # r.session
    BY <2>2 DEF EnrollInv, SignupsAreNew
  <2> QED BY <2>1, <2>2, <2>3 DEF EnrollInv, SignupsAreNew
<1>17. BrowserLeadsHome'
  <2>1. rows[id].human = r.human
    BY <1>3, <1>4
  <2> SUFFICES ASSUME NEW h \in Humans
               PROVE  /\ \A t \in tokens'[h] : enrollments'[grants'[t].enrollment].human = h
                      /\ cookie'[h] # 0 => enrollments'[cookie'[h]].human = h
    BY DEF BrowserLeadsHome
  <2>2. ASSUME NEW t \in tokens'[h]
        PROVE  enrollments'[grants'[t].enrollment].human = h
    <3>1. CASE t \in tokens[h]
      <4>1. t \in DOMAIN grants /\ grants[t].enrollment \in DOMAIN enrollments
        BY <3>1, Stored
      <4>2. enrollments[grants[t].enrollment].human = h
        BY <3>1 DEF EnrollInv, BrowserLeadsHome
      <4> QED BY <1>4, <1>8, <1>10, <4>1, <4>2
    <3>2. CASE t \notin tokens[h]
      <4>1. arrives /\ h = r.human /\ t = Len(grants')
        BY <1>1, <1>8, <2>2, <3>2 DEF EnrollInv, TypeOK
      <4> QED BY <1>8, <1>9, <1>10, <2>1, <4>1
    <3> QED BY <3>1, <3>2
  <2>3. ASSUME cookie'[h] # 0
        PROVE  enrollments'[cookie'[h]].human = h
    <3>1. CASE cookie'[h] = cookie[h]
      <4>1. cookie[h] \in DOMAIN enrollments
        BY <2>3, <3>1 DEF EnrollInv, TypeOK
      <4> QED BY <1>4, <1>8, <2>3, <3>1, <4>1 DEF EnrollInv, BrowserLeadsHome
    <3>2. CASE cookie'[h] # cookie[h]
      <4>1. h = r.human /\ cookie'[h] = id
        BY <1>1, <1>8, <3>2 DEF EnrollInv, TypeOK
      <4> QED BY <1>8, <2>1, <4>1
    <3> QED BY <3>1, <3>2
  <2> QED BY <2>2, <2>3
<1> QED BY <1>12, <1>13, <1>15, <1>16, <1>17 DEF EnrollInv

\* A continuation adds a grant to the row of the session it proved.
LEMMA ContinueKeeps ==
  ASSUME EnrollInv, NEW r \in requests, NEW arrives \in BOOLEAN, Continue(r, arrives)
  PROVE  EnrollInv'
<1> DEFINE id == RowOfSession(enrollments, r.session)
           g  == Grant(id, r.at)
           G  == [enrollment : DOMAIN enrollments, expires : 0..MaxTime + GRANT_TTL,
                  status : Statuses]
<1>1. /\ r.kind = "continue"
      /\ grants' = Append(grants, g)
      /\ tokens' = IF arrives THEN [tokens EXCEPT ![r.human] = @ \cup {Len(grants')}]
                              ELSE tokens
      /\ requests' = requests \ {r}
      /\ UNCHANGED <<enrollments, resumes, resumed, cookie, now>>
  BY DEF Continue
<1>2. r.human \in Humans /\ r.at \in 0..MaxTime
  BY <1>1 DEF EnrollInv, TypeOK
<1>3. PICK k \in DOMAIN enrollments :
        enrollments[k].human = r.human /\ enrollments[k].session = r.session
  BY <1>1 DEF EnrollInv, ContinuesItsOwn, HasRow
<1>4. id = k
  <2>1. \A i \in DOMAIN enrollments :
          enrollments[i].session = enrollments[k].session => i = k
    BY DEF EnrollInv, RowsUnique
  <2> QED BY <1>3, <2>1, RowFound
<1>5. g \in G /\ g.enrollment = k
  BY <1>2, <1>4 DEF Grant, Statuses
<1> HIDE DEF id, g
<1>6. grants \in Seq(G)
  BY DEF EnrollInv, TypeOK, Statuses
<1> HIDE DEF G
<1>7. /\ grants' \in Seq(G) /\ Len(grants') = Len(grants) + 1
      /\ DOMAIN grants = 1..Len(grants) /\ DOMAIN grants' = 1..(Len(grants) + 1)
      /\ grants'[Len(grants) + 1] = g
      /\ \A t \in DOMAIN grants : grants'[t] = grants[t]
  BY <1>1, <1>5, <1>6, Appended
<1>8. Len(grants') \in DOMAIN grants' /\ DOMAIN grants \subseteq DOMAIN grants'
  <2>1. Len(grants) \in Nat
    BY <1>6
  <2> QED BY <1>7, <2>1
<1>9. TypeOK'
  <2>1. tokens' \in [Humans -> SUBSET DOMAIN grants']
    <3>1. tokens \in [Humans -> SUBSET DOMAIN grants']
      BY <1>8 DEF EnrollInv, TypeOK
    <3> QED BY <1>1, <1>2, <1>8, <3>1
  <2> QED BY <1>1, <1>7, <2>1 DEF EnrollInv, TypeOK, G, Statuses
<1>10. RowsUnique' /\ SignupsAreNew' /\ ContinuesItsOwn'
  BY <1>1 DEF EnrollInv, RowsUnique, SignupsAreNew, EnrolledSessions, ContinuesItsOwn, HasRow
<1>11. BrowserLeadsHome'
  <2>1. ASSUME NEW h \in Humans, NEW t \in tokens'[h]
        PROVE  enrollments[grants'[t].enrollment].human = h
    <3>1. CASE t \in tokens[h]
      <4>1. t \in DOMAIN grants
        BY <3>1 DEF EnrollInv, TypeOK
      <4> QED BY <1>7, <3>1, <4>1 DEF EnrollInv, BrowserLeadsHome
    <3>2. CASE t \notin tokens[h]
      <4>1. h = r.human /\ t = Len(grants')
        BY <1>1, <1>2, <2>1, <3>2 DEF EnrollInv, TypeOK
      <4> QED BY <1>3, <1>5, <1>7, <4>1
    <3> QED BY <3>1, <3>2
  <2> QED BY <1>1, <2>1 DEF EnrollInv, BrowserLeadsHome
<1> QED BY <1>9, <1>10, <1>11 DEF EnrollInv

-----------------------------------------------------------------------------
(* Enrollment: the invariant *)

\* Every step keeps the invariant.
LEMMA EnrollStep == EnrollInv /\ [Next]_vars => EnrollInv'
<1> SUFFICES ASSUME EnrollInv, [Next]_vars PROVE EnrollInv'
  OBVIOUS
<1>1. CASE \E h \in Humans : Client(h)
  BY <1>1, AskEnrollKeeps, ResumeKeeps, AskContinueKeeps, LoseCookieKeeps DEF Client
<1>2. CASE Backend
  <2>1. PICK r \in requests : Answer(r) \/ Refused(r)
    BY <1>2 DEF Backend
  <2>2. CASE AlreadyEnrolled(r) \/ Refused(r)
    BY <2>2, DropKeeps DEF AlreadyEnrolled, Refused
  <2>3. CASE \E a \in Allocations, done \in 1..3, arrives \in BOOLEAN :
               Enroll(r, a, done, arrives)
    BY <2>3, EnrollKeeps
  <2>4. CASE \E arrives \in BOOLEAN : Continue(r, arrives)
    BY <2>4, ContinueKeeps
  <2> QED BY <2>1, <2>2, <2>3, <2>4 DEF Answer
<1>3. CASE Tick
  <2>1. /\ now' = now + 1 /\ now < MaxTime
        /\ UNCHANGED <<enrollments, grants, resumes, resumed, cookie, tokens, requests>>
    BY <1>3 DEF Tick, storeVars, clientVars
  <2>2. TypeOK'
    BY <2>1 DEF EnrollInv, TypeOK
  <2> QED BY <2>1, <2>2 DEF EnrollInv, RowsUnique, SignupsAreNew, EnrolledSessions,
                            ContinuesItsOwn, HasRow, BrowserLeadsHome
<1>4. CASE UNCHANGED vars
  <2>1. UNCHANGED <<enrollments, grants, resumes, resumed, cookie, tokens, requests, now>>
    BY <1>4 DEF vars, storeVars, clientVars
  <2> QED BY <2>1 DEF EnrollInv, TypeOK, RowsUnique, SignupsAreNew, EnrolledSessions,
                      ContinuesItsOwn, HasRow, BrowserLeadsHome
<1> QED BY <1>1, <1>2, <1>3, <1>4 DEF Next

\* The invariant holds throughout.
LEMMA EnrollmentAlways == Spec => []EnrollInv
BY EnrollmentInit, EnrollStep, PTL DEF Spec

\* Every row, grant, resume, request, cookie and token stays in its type, and
\* refers to what is stored.
THEOREM EnrollmentTypes == Spec => []TypeOK
<1>1. EnrollInv => TypeOK
  BY DEF EnrollInv
<1> QED BY <1>1, EnrollmentAlways, PTL

\* The grants and the resume a browser holds lead to the enrollment of its human.
THEOREM BrowserAlwaysHome == Spec => []BrowserLeadsHome
<1>1. EnrollInv => BrowserLeadsHome
  BY DEF EnrollInv
<1> QED BY <1>1, EnrollmentAlways, PTL

\* All the grants a human ever receives lead to one allocation, and nobody else's
\* do: the unique nullifier and the unique allocation of a row are enough.
THEOREM OneAllocationEach == Spec => []OneAllocationPerHuman
<1>1. EnrollInv => OneAllocationPerHuman
  <2> SUFFICES ASSUME EnrollInv, NEW g \in Humans, NEW h \in Humans,
                      NEW t \in tokens[g], NEW u \in tokens[h]
               PROVE  AllocationOf(t) = AllocationOf(u) <=> g = h
    BY DEF OneAllocationPerHuman
  <2> DEFINE i == grants[t].enrollment
             j == grants[u].enrollment
  <2>1. i \in DOMAIN enrollments /\ j \in DOMAIN enrollments
    BY Stored
  <2>2. enrollments[i].human = g /\ enrollments[j].human = h
    BY DEF EnrollInv, BrowserLeadsHome
  <2> HIDE DEF i, j
  <2>3. enrollments[i].allocation = enrollments[j].allocation <=> g = h
    BY <2>1, <2>2 DEF EnrollInv, RowsUnique
  <2> QED BY <2>3 DEF AllocationOf, i, j
<1> QED BY <1>1, EnrollmentAlways, PTL

-----------------------------------------------------------------------------
(* Linking: the parts of the invariant *)

RegistrationRows ==
  [wallet : Wallets, allocation : Allocations, expiry : Nat,
   status : {"issued", "submitted", "confirmed", "failed", "verification_failed"},
   tx : Nat, issuer : {"world", "demo"}, source : Nat]

WorldRequests == [issuer : {"world"}, grant : Nat, wallet : Wallets,
                  allocation : Allocations, at : Nat]
DemoRequests  == [issuer : {"demo"}, identity : Nat, wallet : Wallets,
                  allocation : Allocations, at : Nat]

Identities == [human : Humans, allocation : Allocations, expires : Nat]
TxRows     == [nonce : Nat, status : {"pending", "success", "reverted"}]

RowsOK ==
  /\ registrations \in Seq(RegistrationRows)
  /\ association \in [Wallets -> Allocations \cup {None}]
  /\ demoWallet \in [Wallets -> Allocations \cup {None}]
  /\ demoIdentities \in Seq(Identities)

\* A request of World carries a stored grant.
RequestsOK ==
  /\ authorizing \subseteq WorldRequests \cup DemoRequests
  /\ \A p \in authorizing : p.issuer = "world" => p.grant \in DOMAIN grants

\* An authorization of World used its grant up.
Paid ==
  /\ \A n \in WorldIssued :
       /\ registrations[n].source \in DOMAIN grants
       /\ grants[registrations[n].source].status = "consumed"
  /\ OneAuthorizationPerGrant
  /\ AuthorizationEndsWithGrant

\* Each issuer stored the allocation it authorized.
Kept ==
  /\ \A n \in DOMAIN registrations :
       LET r == registrations[n] IN
       r.allocation = IF r.issuer = "world" THEN association[r.wallet] ELSE demoWallet[r.wallet]
  /\ DemoKeepsAllocation

\* A receipt read is of a stored transaction, which stays what it was.
OnChain ==
  /\ txs \in Seq(TxRows)
  /\ \A t \in DOMAIN txs : txs[t].nonce \in DOMAIN registrations
  /\ allocationIdByWallet \in [Wallets -> Allocations \cup {None}]
  /\ \A o \in observing :
       /\ o.nonce \in DOMAIN registrations /\ o.tx \in DOMAIN txs
       /\ o.status \in {"pending", "success", "reverted"}
       /\ o.status = "success" => txs[o.tx].status = "success"
  /\ \A n \in DOMAIN registrations :
       registrations[n].status = "confirmed" => registrations[n].tx \in DOMAIN txs
  /\ ConfirmedIsOnChain

LinkInv == RowsOK /\ RequestsOK /\ Paid /\ Kept /\ OnChain

Inv == EnrollInv /\ LinkInv

-----------------------------------------------------------------------------
(* Sequences *)

\* Whatever is appended, what was there stays.
LEMMA AppendKeeps ==
  ASSUME NEW S, NEW s \in Seq(S), NEW e
  PROVE  DOMAIN s \subseteq DOMAIN Append(s, e) /\ \A i \in DOMAIN s : Append(s, e)[i] = s[i]
<1>1. s \in Seq(S \cup {e}) /\ e \in S \cup {e}
  OBVIOUS
<1> QED BY <1>1, Appended

\* A row replaced by one of its type.
LEMMA Replaced ==
  ASSUME NEW S, NEW s \in Seq(S), NEW k \in DOMAIN s, NEW e \in S
  PROVE  /\ [s EXCEPT ![k] = e] \in Seq(S)
         /\ DOMAIN [s EXCEPT ![k] = e] = DOMAIN s
         /\ [s EXCEPT ![k] = e][k] = e
         /\ \A i \in DOMAIN s : i # k => [s EXCEPT ![k] = e][i] = s[i]
OBVIOUS

-----------------------------------------------------------------------------
(* Enrollment under linking *)

\* A step of enrollment keeps the invariant of enrollment.
LEMMA EnrollingStep ==
  ASSUME EnrollInv, Next
  PROVE  EnrollInv'
BY EnrollStep

\* Other steps leave enrollment alone.
LEMMA EnrollingAside ==
  ASSUME EnrollInv, UNCHANGED <<enrollVars, grants, now>>
  PROVE  EnrollInv'
<1>1. UNCHANGED vars
  BY DEF enrollVars, vars, storeVars, clientVars
<1> QED BY <1>1, EnrollStep

\* What the rows of enrollment are.
LEMMA EnrollingTypes ==
  ASSUME EnrollInv
  PROVE  /\ now \in Nat
         /\ \A h \in Humans : tokens[h] \subseteq DOMAIN grants
         /\ \A g \in DOMAIN grants :
              /\ grants[g].enrollment \in DOMAIN enrollments
              /\ grants[g].expires \in Nat
              /\ AllocationOf(g) \in Allocations
<1>1. TypeOK
  BY DEF EnrollInv
<1>2. now \in Nat /\ \A h \in Humans : tokens[h] \subseteq DOMAIN grants
  BY <1>1 DEF TypeOK
<1>3. ASSUME NEW g \in DOMAIN grants
      PROVE  /\ grants[g].enrollment \in DOMAIN enrollments
             /\ grants[g].expires \in Nat
             /\ AllocationOf(g) \in Allocations
  <2> DEFINE G == [enrollment : DOMAIN enrollments, expires : 0..MaxTime + GRANT_TTL,
                   status : {"open", "consumed"}]
             R == [human : Humans, session : Sessions, allocation : Allocations]
  <2>1. grants \in Seq(G) /\ enrollments \in Seq(R)
    BY <1>1 DEF TypeOK
  <2> HIDE DEF G, R
  <2>2. grants[g] \in G
    BY <2>1, Element
  <2>3. grants[g].enrollment \in DOMAIN enrollments /\ grants[g].expires \in Nat
    BY <2>2 DEF G
  <2>4. enrollments[grants[g].enrollment] \in R
    BY <2>1, <2>3, Element
  <2> QED BY <2>3, <2>4 DEF R, AllocationOf
<1> QED BY <1>2, <1>3

\* Grants are only added and used up.
GrantsGrow ==
  /\ DOMAIN grants \subseteq DOMAIN grants'
  /\ \A g \in DOMAIN grants :
       /\ grants'[g].expires = grants[g].expires
       /\ grants[g].status = "consumed" => grants'[g].status = "consumed"

\* Enrollment adds grants and uses none up.
LEMMA EnrollingGrows ==
  ASSUME EnrollInv, Next
  PROVE  GrantsGrow
<1>1. grants' = grants \/ \E g : grants' = Append(grants, g)
  <2>1. ASSUME NEW h \in Humans, Client(h)
        PROVE  grants' = grants
    BY <2>1 DEF Client, AskEnroll, Resume, AskContinue, LoseCookie, storeVars
  <2>2. ASSUME NEW r \in requests, Answer(r) \/ Refused(r)
        PROVE  grants' = grants \/ \E g : grants' = Append(grants, g)
    BY <2>2 DEF Answer, AlreadyEnrolled, Enroll, Continue, Refused, storeVars
  <2>3. Tick => grants' = grants
    BY DEF Tick, storeVars
  <2> QED BY <2>1, <2>2, <2>3 DEF Next, Backend
<1>2. grants \in Seq([enrollment : DOMAIN enrollments, expires : 0..MaxTime + GRANT_TTL,
                      status : {"open", "consumed"}])
  BY DEF EnrollInv, TypeOK
<1>3. CASE \E g : grants' = Append(grants, g)
  <2>1. PICK g : grants' = Append(grants, g)
    BY <1>3
  <2>2. DOMAIN grants \subseteq DOMAIN grants' /\ \A i \in DOMAIN grants : grants'[i] = grants[i]
    BY <1>2, <2>1, AppendKeeps
  <2> QED BY <2>2 DEF GrantsGrow
<1> QED BY <1>1, <1>3 DEF GrantsGrow

-----------------------------------------------------------------------------
(* What leaves a part of the invariant alone *)

\* Rows keep all but their status and transaction.
SameRows ==
  /\ registrations' \in Seq(RegistrationRows)
  /\ DOMAIN registrations' = DOMAIN registrations
  /\ \A n \in DOMAIN registrations :
       LET r == registrations[n]
           q == registrations'[n]
       IN  <<q.wallet, q.allocation, q.expiry, q.issuer, q.source>>
             = <<r.wallet, r.allocation, r.expiry, r.issuer, r.source>>

\* What the rows say of grants and wallets survives steps that only settle rows.
LEMMA RowsAside ==
  ASSUME LinkInv, SameRows, GrantsGrow, UNCHANGED <<association, demoWallet>>
  PROVE  Paid' /\ Kept'
<1>1. WorldIssued' = WorldIssued
  BY DEF SameRows, WorldIssued
<1>2. Paid'
  BY <1>1 DEF LinkInv, SameRows, GrantsGrow, Paid, WorldIssued, OneAuthorizationPerGrant,
              AuthorizationEndsWithGrant
<1>3. Kept'
  BY DEF LinkInv, SameRows, Kept, DemoKeepsAllocation
<1> QED BY <1>2, <1>3

\* What the rows say of the chain survives steps away from it.
LEMMA ChainAside ==
  ASSUME LinkInv,
         UNCHANGED <<registrations, txs, allocationIdByWallet, usedNonce, observing>>
  PROVE  OnChain'
BY DEF LinkInv, OnChain, ConfirmedIsOnChain

\* Rows and grants that stay, grow.
LEMMA NothingChanges ==
  ASSUME LinkInv, UNCHANGED <<registrations, grants>>
  PROVE  SameRows /\ GrantsGrow
BY DEF LinkInv, RowsOK, SameRows, GrantsGrow

\* A step that leaves the rows and the chain alone, whatever it asks for.
LEMMA QuietKeeps ==
  ASSUME Inv, UNCHANGED <<enrollVars, grants, now>>,
         UNCHANGED <<registrations, association, demoWallet>>,
         UNCHANGED <<txs, allocationIdByWallet, usedNonce, observing>>,
         demoIdentities' \in Seq(Identities), RequestsOK'
  PROVE  Inv'
<1>1. LinkInv /\ EnrollInv
  BY DEF Inv
<1>2. EnrollInv'
  BY <1>1, EnrollingAside
<1>3. Paid' /\ Kept'
  BY <1>1, NothingChanges, RowsAside
<1>4. OnChain'
  BY <1>1, ChainAside
<1>5. RowsOK'
  BY <1>1 DEF LinkInv, RowsOK
<1> QED BY <1>2, <1>3, <1>4, <1>5 DEF Inv, LinkInv

\* Steps of enrollment.
LEMMA EnrollmentKeeps ==
  ASSUME Inv, EnrollmentStep
  PROVE  Inv'
<1>1. LinkInv /\ EnrollInv
  BY DEF Inv
<1>2. Next /\ UNCHANGED <<registrations, association, demoWallet, demoIdentities, authorizing>>
             /\ UNCHANGED <<txs, allocationIdByWallet, usedNonce, observing>>
  BY DEF EnrollmentStep, linkVars, worldVars, demoVars, chainVars, ledgerVars
<1>3. EnrollInv' /\ GrantsGrow
  BY <1>1, <1>2, EnrollingStep, EnrollingGrows
<1>4. SameRows
  BY <1>1, <1>2 DEF LinkInv, RowsOK, SameRows
<1>5. Paid' /\ Kept'
  BY <1>1, <1>2, <1>3, <1>4, RowsAside
<1>6. RowsOK' /\ RequestsOK'
  BY <1>1, <1>2, <1>3 DEF LinkInv, RowsOK, RequestsOK, GrantsGrow
<1>7. OnChain'
  BY <1>1, <1>2, ChainAside
<1> QED BY <1>3, <1>5, <1>6, <1>7 DEF Inv, LinkInv

-----------------------------------------------------------------------------
(* Requests *)

\* A request to World passes its checks.
LEMMA AskKeeps ==
  ASSUME Inv, NEW h \in Humans, NEW g \in tokens[h], NEW w \in Wallets, AskAuthorization(g, w)
  PROVE  Inv'
<1> DEFINE p == [issuer |-> "world", grant |-> g, wallet |-> w,
                 allocation |-> AllocationOf(g), at |-> now]
<1>1. now \in Nat /\ g \in DOMAIN grants /\ AllocationOf(g) \in Allocations
  BY EnrollingTypes DEF Inv
<1>2. g \in Nat
  <2>1. grants \in Seq([enrollment : DOMAIN enrollments, expires : 0..MaxTime + GRANT_TTL,
                        status : {"open", "consumed"}])
    BY DEF Inv, EnrollInv, TypeOK
  <2>2. DOMAIN grants = 1..Len(grants) /\ Len(grants) \in Nat
    BY <2>1
  <2> QED BY <1>1, <2>2
<1>3. p \in WorldRequests /\ p.grant \in DOMAIN grants
  BY <1>1, <1>2 DEF WorldRequests
<1>4. authorizing' = authorizing \cup {p}
      /\ UNCHANGED <<enrollVars, grants, now>>
      /\ UNCHANGED <<registrations, association, demoWallet, demoIdentities>>
      /\ UNCHANGED <<txs, allocationIdByWallet, usedNonce, observing>>
  BY DEF AskAuthorization, worldVars, demoVars, chainVars, ledgerVars
<1> HIDE DEF p
<1>5. RequestsOK'
  BY <1>3, <1>4 DEF Inv, LinkInv, RequestsOK
<1> QED BY <1>4, <1>5, QuietKeeps DEF Inv, LinkInv, RowsOK

\* A request to the demo identity passes its checks.
LEMMA AskDemoKeeps ==
  ASSUME Inv, NEW h \in Humans, NEW w \in Wallets, AskDemoAuthorization(h, w)
  PROVE  Inv'
<1>1. PICK i \in ActiveIdentities(h) :
        authorizing' = authorizing \cup
          {[issuer |-> "demo", identity |-> i, wallet |-> w,
            allocation |-> demoIdentities[i].allocation, at |-> now]}
  BY DEF AskDemoAuthorization
<1> DEFINE p == [issuer |-> "demo", identity |-> i, wallet |-> w,
                 allocation |-> demoIdentities[i].allocation, at |-> now]
<1>2. i \in DOMAIN demoIdentities /\ demoIdentities \in Seq(Identities)
  BY DEF ActiveIdentities, Inv, LinkInv, RowsOK
<1>3. i \in Nat /\ demoIdentities[i].allocation \in Allocations
  <2>1. i \in Nat /\ demoIdentities[i] \in Identities
    BY <1>2, Element
  <2> QED BY <2>1 DEF Identities
<1>4. p \in DemoRequests /\ p.issuer = "demo"
  BY <1>3, EnrollingTypes DEF DemoRequests, Inv
<1>5. /\ UNCHANGED <<enrollVars, grants, now>>
      /\ UNCHANGED <<registrations, association, demoWallet, demoIdentities>>
      /\ UNCHANGED <<txs, allocationIdByWallet, usedNonce, observing>>
  BY DEF AskDemoAuthorization, worldVars, demoVars, chainVars, ledgerVars
<1>6. RequestsOK'
  <2> HIDE DEF p
  <2>1. authorizing' = authorizing \cup {p}
    BY <1>1 DEF p
  <2> QED BY <1>4, <1>5, <2>1 DEF Inv, LinkInv, RequestsOK
<1> QED BY <1>2, <1>5, <1>6, QuietKeeps

\* A request ends without being stored.
LEMMA GiveUpKeeps ==
  ASSUME Inv, NEW p \in authorizing, GiveUp(p)
  PROVE  Inv'
<1>1. /\ authorizing' = authorizing \ {p}
      /\ UNCHANGED <<enrollVars, grants, now>>
      /\ UNCHANGED <<registrations, association, demoWallet, demoIdentities>>
      /\ UNCHANGED <<txs, allocationIdByWallet, usedNonce, observing>>
  BY DEF GiveUp, worldVars, demoVars, chainVars, ledgerVars
<1>2. RequestsOK'
  BY <1>1 DEF Inv, LinkInv, RequestsOK
<1> QED BY <1>1, <1>2, QuietKeeps DEF Inv, LinkInv, RowsOK

\* A demo identity is started, for an allocation nobody has.
LEMMA StartDemoKeeps ==
  ASSUME Inv, NEW h \in Humans, NEW a \in Allocations, StartDemo(h, a)
  PROVE  Inv'
<1>1. /\ demoIdentities' = Append(demoIdentities,
            [human |-> h, allocation |-> a, expires |-> now + DEMO_TTL])
      /\ UNCHANGED <<enrollVars, grants, now>>
      /\ UNCHANGED <<registrations, association, demoWallet, authorizing>>
      /\ UNCHANGED <<txs, allocationIdByWallet, usedNonce, observing>>
  BY DEF StartDemo, worldVars, demoVars, chainVars, ledgerVars
<1>2. [human |-> h, allocation |-> a, expires |-> now + DEMO_TTL] \in Identities
  BY EnrollingTypes DEF Inv, Identities
<1>3. demoIdentities' \in Seq(Identities)
  BY <1>1, <1>2, Appended DEF Inv, LinkInv, RowsOK
<1>4. RequestsOK'
  BY <1>1 DEF Inv, LinkInv, RequestsOK
<1> QED BY <1>1, <1>3, <1>4, QuietKeeps

\* Challenges, signatures and rotations are no part of the invariant.
LEMMA UntouchedKeeps ==
  ASSUME Inv,
         \/ \E g \in Nat, w \in Wallets : OpenChallenge(g, w)
         \/ \E h \in Humans, w \in Wallets : DemoChallenge(h, w)
         \/ \E c \in {"world", "demo"} \X (1..MaxChallenges) : Sign(c)
         \/ \E a \in Signers : RotateSigner(a)
  PROVE  Inv'
<1>1. /\ UNCHANGED <<enrollVars, grants, now>>
      /\ UNCHANGED <<registrations, association, demoWallet, demoIdentities, authorizing>>
      /\ UNCHANGED <<txs, allocationIdByWallet, usedNonce, observing>>
  <2>1. ASSUME NEW g, NEW w, OpenChallenge(g, w) PROVE <1>1!:
    BY <2>1 DEF OpenChallenge, demoVars, chainVars, ledgerVars
  <2>2. ASSUME NEW h, NEW w, DemoChallenge(h, w) PROVE <1>1!:
    BY <2>2 DEF DemoChallenge, worldVars, chainVars, ledgerVars
  <2>3. ASSUME NEW c, Sign(c) PROVE <1>1!:
    BY <2>3 DEF Sign, worldVars, demoVars, chainVars, ledgerVars
  <2>4. ASSUME NEW a, RotateSigner(a) PROVE <1>1!:
    BY <2>4 DEF RotateSigner, worldVars, demoVars, Ledger!SetBackendSigner, Ledger!memberVars
  <2> QED BY <2>1, <2>2, <2>3, <2>4
<1>2. RequestsOK'
  BY <1>1 DEF Inv, LinkInv, RequestsOK
<1> QED BY <1>1, <1>2, QuietKeeps DEF Inv, LinkInv, RowsOK

-----------------------------------------------------------------------------
(* The two stores *)

\* The row a request is stored as.
LEMMA IssuedRow ==
  ASSUME NEW p \in WorldRequests \cup DemoRequests
  PROVE  /\ Issued(p) \in RegistrationRows
         /\ Issued(p).wallet = p.wallet /\ Issued(p).allocation = p.allocation
         /\ Issued(p).issuer = p.issuer /\ Issued(p).status = "issued"
         /\ Issued(p).expiry = p.at + AUTHORIZATION_TTL
         /\ p.issuer = "world" => Issued(p).source = p.grant
         /\ p.wallet \in Wallets /\ p.allocation \in Allocations /\ p.at \in Nat
<1>1. CASE p \in WorldRequests
  <2>1. p.issuer = "world" /\ p.grant \in Nat /\ p.wallet \in Wallets
          /\ p.allocation \in Allocations /\ p.at \in Nat
    BY <1>1 DEF WorldRequests
  <2>2. Issued(p) = [wallet |-> p.wallet, allocation |-> p.allocation,
                     expiry |-> p.at + AUTHORIZATION_TTL, status |-> "issued", tx |-> 0,
                     issuer |-> "world", source |-> p.grant]
    BY <2>1 DEF Issued, ExpiryOf
  <2> QED BY <2>1, <2>2 DEF RegistrationRows
<1>2. CASE p \in DemoRequests
  <2>1. p.issuer = "demo" /\ p.identity \in Nat /\ p.wallet \in Wallets
          /\ p.allocation \in Allocations /\ p.at \in Nat
    BY <1>2 DEF DemoRequests
  <2>2. Issued(p) = [wallet |-> p.wallet, allocation |-> p.allocation,
                     expiry |-> p.at + AUTHORIZATION_TTL, status |-> "issued", tx |-> 0,
                     issuer |-> "demo", source |-> p.identity]
    BY <2>1 DEF Issued, ExpiryOf
  <2> QED BY <2>1, <2>2 DEF RegistrationRows
<1> QED BY <1>1, <1>2

\* Using a grant up keeps everything else of enrollment.
LEMMA GrantConsumed ==
  ASSUME EnrollInv, NEW g \in DOMAIN grants, UNCHANGED <<enrollVars, now>>,
         grants' = [grants EXCEPT ![g].status = "consumed"]
  PROVE  EnrollInv' /\ GrantsGrow /\ grants'[g].status = "consumed"
<1> DEFINE G == [enrollment : DOMAIN enrollments, expires : 0..MaxTime + GRANT_TTL,
                 status : {"open", "consumed"}]
           e == [grants[g] EXCEPT !.status = "consumed"]
<1>1. grants \in Seq(G)
  BY DEF EnrollInv, TypeOK
<1>2. grants[g] \in G
  <2> HIDE DEF G
  <2> QED BY <1>1, Element
<1>3. /\ e \in G
      /\ e.enrollment = grants[g].enrollment /\ e.expires = grants[g].expires
      /\ e.status = "consumed"
  BY <1>2
<1>4. grants' = [grants EXCEPT ![g] = e]
  BY <1>1
<1> HIDE DEF G, e
<1>5. /\ grants' \in Seq(G) /\ DOMAIN grants' = DOMAIN grants
      /\ grants'[g] = e /\ \A i \in DOMAIN grants : i # g => grants'[i] = grants[i]
  <2>1. g \in DOMAIN grants /\ grants \in Seq(G) /\ e \in G
    BY <1>1, <1>3
  <2> DEFINE t == [grants EXCEPT ![g] = e]
  <2>2. /\ t \in Seq(G) /\ DOMAIN t = DOMAIN grants
        /\ t[g] = e /\ \A i \in DOMAIN grants : i # g => t[i] = grants[i]
    BY <2>1, Replaced
  <2>3. grants' = t
    BY <1>4
  <2> HIDE DEF t
  <2> QED BY <2>2, <2>3
<1>6. UNCHANGED <<enrollments, resumes, requests, resumed, cookie, tokens, now>>
  BY DEF enrollVars
<1>7. TypeOK'
  BY <1>5, <1>6 DEF EnrollInv, TypeOK, G
<1>8. RowsUnique' /\ SignupsAreNew' /\ ContinuesItsOwn'
  BY <1>6 DEF EnrollInv, RowsUnique, SignupsAreNew,
              EnrolledSessions, ContinuesItsOwn, HasRow
<1>9. BrowserLeadsHome'
  <2>1. \A h \in Humans : tokens[h] \subseteq DOMAIN grants
    BY EnrollingTypes
  <2>2. \A i \in DOMAIN grants : grants'[i].enrollment = grants[i].enrollment
    BY <1>3, <1>5
  <2> QED BY <1>6, <2>1, <2>2 DEF EnrollInv, BrowserLeadsHome
<1>10. GrantsGrow
  BY <1>3, <1>5 DEF GrantsGrow
<1> QED BY <1>3, <1>5, <1>7, <1>8, <1>9, <1>10 DEF EnrollInv

\* A new row says issued, so the chain's part is not concerned.
LEMMA NewRow ==
  ASSUME LinkInv, NEW row \in RegistrationRows, row.status = "issued",
         registrations' = Append(registrations, row)
  PROVE  LET n == Len(registrations) + 1 IN
         /\ registrations' \in Seq(RegistrationRows)
         /\ n \notin DOMAIN registrations
         /\ \A i \in DOMAIN registrations : i < n
         /\ DOMAIN registrations' = DOMAIN registrations \cup {n}
         /\ registrations'[n] = row
         /\ \A i \in DOMAIN registrations : registrations'[i] = registrations[i]
         /\ UNCHANGED <<txs, allocationIdByWallet, usedNonce, observing>> => OnChain'
<1> DEFINE n == Len(registrations) + 1
<1>1. registrations \in Seq(RegistrationRows)
  BY DEF LinkInv, RowsOK
<1>2. /\ registrations' \in Seq(RegistrationRows)
      /\ Len(registrations) \in Nat
      /\ DOMAIN registrations = 1..Len(registrations)
      /\ DOMAIN registrations' = 1..n
      /\ registrations'[n] = row
      /\ \A i \in DOMAIN registrations : registrations'[i] = registrations[i]
  BY <1>1, Appended
<1>3. /\ n \notin DOMAIN registrations
      /\ \A i \in DOMAIN registrations : i < n
      /\ DOMAIN registrations' = DOMAIN registrations \cup {n}
  BY <1>2
<1>4. ASSUME UNCHANGED <<txs, allocationIdByWallet, usedNonce, observing>>
      PROVE  OnChain'
  <2> HIDE DEF n
  <2>1. ASSUME NEW i \in DOMAIN registrations', registrations'[i].status = "confirmed"
        PROVE  i \in DOMAIN registrations /\ registrations'[i] = registrations[i]
    BY <1>2, <1>3, <2>1
  <2>2. \A t \in DOMAIN txs : txs[t].nonce \in DOMAIN registrations'
    BY <1>3 DEF LinkInv, OnChain
  <2>3. \A o \in observing : o.nonce \in DOMAIN registrations'
    BY <1>3 DEF LinkInv, OnChain
  <2>4. \A i \in DOMAIN registrations' :
          registrations'[i].status = "confirmed" => registrations'[i].tx \in DOMAIN txs
    BY <2>1 DEF LinkInv, OnChain
  <2>5. ConfirmedIsOnChain'
    <3> SUFFICES ASSUME NEW i \in DOMAIN registrations', registrations'[i].status = "confirmed"
                 PROVE  LET r == registrations[i] IN
                        /\ registrations'[i] = r
                        /\ txs[r.tx] = [nonce |-> i, status |-> "success"]
                        /\ allocationIdByWallet[r.wallet] = r.allocation
                        /\ i \in usedNonce
      BY <1>4 DEF ConfirmedIsOnChain
    <3>1. i \in DOMAIN registrations /\ registrations'[i] = registrations[i]
      BY <2>1
    <3> QED BY <3>1 DEF LinkInv, OnChain, ConfirmedIsOnChain
  <2> QED BY <1>4, <2>2, <2>3, <2>4, <2>5 DEF LinkInv, OnChain
<1> QED BY <1>2, <1>3, <1>4

\* World stores an authorization: its grant is used up, its wallet associated.
LEMMA ConsumeLinkKeeps ==
  ASSUME Inv, NEW p \in authorizing, ConsumeLink(p)
  PROVE  Inv'
<1>1. LinkInv /\ EnrollInv
  BY DEF Inv
<1>2. /\ p.issuer = "world" /\ GrantOpen(p.grant, p.at)
      /\ authorizing' = authorizing \ {p}
      /\ UNCHANGED <<enrollVars, now, demoWallet, demoIdentities>>
      /\ UNCHANGED <<txs, allocationIdByWallet, usedNonce, observing>>
  BY DEF ConsumeLink, demoVars, chainVars, ledgerVars
<1>3. CASE ~KeepsAssociation(p.wallet, p.allocation)
  <2>1. UNCHANGED <<registrations, association, grants>>
    BY <1>3 DEF ConsumeLink
  <2>2. RequestsOK'
    BY <1>1, <1>2, <2>1 DEF LinkInv, RequestsOK
  <2> QED BY <1>1, <1>2, <2>1, <2>2, QuietKeeps DEF LinkInv, RowsOK
<1>4. CASE KeepsAssociation(p.wallet, p.allocation)
  <2> DEFINE n == Len(registrations) + 1
             row == Issued(p)
             w == p.wallet
             a == p.allocation
             g == p.grant
  <2>1. /\ registrations' = Append(registrations, row)
        /\ association' = [association EXCEPT ![w] = a]
        /\ grants' = [grants EXCEPT ![g].status = "consumed"]
        /\ association[w] \in {None, a}
    BY <1>4 DEF ConsumeLink, KeepsAssociation
  <2>2. /\ row \in RegistrationRows
        /\ row.wallet = w /\ row.allocation = a /\ row.issuer = "world"
        /\ row.status = "issued" /\ row.source = g
        /\ row.expiry = p.at + AUTHORIZATION_TTL /\ p.at \in Nat
        /\ w \in Wallets /\ a \in Allocations
    BY <1>1, <1>2, IssuedRow DEF LinkInv, RequestsOK
  <2>3. g \in DOMAIN grants
    BY <1>1, <1>2 DEF LinkInv, RequestsOK
  <2>4. EnrollInv' /\ GrantsGrow /\ grants'[g].status = "consumed"
    BY <1>1, <1>2, <2>1, <2>3, GrantConsumed
  <2>5. /\ registrations' \in Seq(RegistrationRows)
        /\ n \notin DOMAIN registrations
        /\ \A i \in DOMAIN registrations : i < n
        /\ DOMAIN registrations' = DOMAIN registrations \cup {n}
        /\ registrations'[n] = row
        /\ \A i \in DOMAIN registrations : registrations'[i] = registrations[i]
        /\ OnChain'
    BY <1>1, <1>2, <2>1, <2>2, NewRow
  <2> HIDE DEF n, row, w, a, g
  <2>6. RowsOK' /\ RequestsOK'
    <3>1. association' \in [Wallets -> Allocations \cup {None}]
      BY <1>1, <2>1, <2>2 DEF LinkInv, RowsOK
    <3> QED BY <1>1, <1>2, <2>4, <2>5, <3>1 DEF LinkInv, RowsOK, RequestsOK, GrantsGrow
  <2>7. WorldIssued' = WorldIssued \cup {n}
    BY <2>2, <2>5 DEF WorldIssued
  <2>8. /\ grants[g].status = "open" /\ grants[g].expires > p.at
        /\ grants[g].expires \in Nat /\ grants'[g].expires = grants[g].expires
    BY <1>1, <1>2, <2>3, <2>4, EnrollingTypes DEF GrantOpen, GrantsGrow, g
  <2>9. Paid'
    <3>1. ASSUME NEW m \in WorldIssued
          PROVE  /\ registrations'[m] = registrations[m] /\ m # n
                 /\ registrations[m].source \in DOMAIN grants
                 /\ grants[registrations[m].source].status = "consumed"
                 /\ registrations[m].source # g
      BY <1>1, <2>5, <2>8, <3>1 DEF LinkInv, Paid, WorldIssued
    <3>2. \A m \in WorldIssued' :
            /\ registrations'[m].source \in DOMAIN grants'
            /\ grants'[registrations'[m].source].status = "consumed"
      BY <2>2, <2>3, <2>4, <2>5, <2>7, <3>1 DEF GrantsGrow
    <3>3. OneAuthorizationPerGrant'
      BY <1>1, <2>2, <2>5, <2>7, <3>1 DEF LinkInv, Paid, OneAuthorizationPerGrant
    <3>4. AuthorizationEndsWithGrant'
      <4>1. registrations'[n].expiry < grants'[registrations'[n].source].expires + AUTHORIZATION_TTL
        <5>1. \A x, y, z \in Nat : x < y => x + z < y + z
          OBVIOUS
        <5>2. AUTHORIZATION_TTL \in Nat
          OBVIOUS
        <5>3. p.at + AUTHORIZATION_TTL < grants[g].expires + AUTHORIZATION_TTL
          BY <2>2, <2>8, <5>1, <5>2
        <5> QED BY <2>2, <2>5, <2>8, <5>3
      <4>2. ASSUME NEW m \in WorldIssued
            PROVE  registrations'[m].expiry
                     < grants'[registrations'[m].source].expires + AUTHORIZATION_TTL
        BY <1>1, <2>4, <3>1 DEF LinkInv, Paid, AuthorizationEndsWithGrant, GrantsGrow
      <4> QED BY <2>7, <4>1, <4>2 DEF AuthorizationEndsWithGrant
    <3> QED BY <3>2, <3>3, <3>4 DEF Paid
  <2>10. Kept'
    <3>1. ASSUME NEW m \in DOMAIN registrations'
          PROVE  LET r == registrations'[m] IN
                 r.allocation = IF r.issuer = "world" THEN association'[r.wallet]
                                                     ELSE demoWallet'[r.wallet]
      <4>1. CASE m = n
        BY <1>1, <2>1, <2>2, <2>5, <4>1 DEF LinkInv, RowsOK
      <4>2. CASE m # n
        <5>1. m \in DOMAIN registrations /\ registrations'[m] = registrations[m]
          BY <2>5, <3>1, <4>2
        <5>2. registrations[m] \in RegistrationRows
          BY <1>1, <5>1, Element DEF LinkInv, RowsOK
        <5>3. registrations[m].allocation # None /\ registrations[m].wallet \in Wallets
          BY <5>2 DEF RegistrationRows
        <5>4. registrations[m].issuer = "world" => registrations[m].allocation
                = association[registrations[m].wallet]
          BY <1>1, <5>1 DEF LinkInv, Kept
        <5>5. association'[registrations[m].wallet] =
                IF registrations[m].wallet = w THEN a ELSE association[registrations[m].wallet]
          BY <1>1, <2>1, <5>3 DEF LinkInv, RowsOK
        <5> QED BY <1>1, <1>2, <2>1, <5>1, <5>3, <5>4, <5>5 DEF LinkInv, Kept
      <4> QED BY <4>1, <4>2
    <3>2. DemoKeepsAllocation'
      <4> SUFFICES ASSUME NEW m \in DOMAIN registrations', NEW k \in DOMAIN registrations',
                          m < k, registrations'[k].issuer = "demo",
                          registrations'[m].wallet = registrations'[k].wallet
                   PROVE  registrations'[m].allocation = registrations'[k].allocation
        BY DEF DemoKeepsAllocation
      <4>1. k # n
        BY <2>2, <2>5
      <4>2. k \in DOMAIN registrations /\ k < n
        BY <2>5, <4>1
      <4>3. m # n
        <5>1. k \in Nat
          BY <1>1, <4>2, Element DEF LinkInv, RowsOK
        <5>2. n \in Nat
          BY <1>1 DEF LinkInv, RowsOK, n
        <5> QED BY <4>2, <5>1, <5>2
      <4> QED BY <1>1, <2>5, <4>2, <4>3 DEF LinkInv, Kept, DemoKeepsAllocation
    <3> QED BY <3>1, <3>2 DEF Kept
  <2> QED BY <2>4, <2>5, <2>6, <2>9, <2>10 DEF Inv, LinkInv
<1> QED BY <1>3, <1>4

\* The demo identity stores an authorization, looking at both tables.
LEMMA ConsumeDemoKeeps ==
  ASSUME Inv, NEW p \in authorizing, ConsumeDemoChallenge(p)
  PROVE  Inv'
<1> DEFINE n == Len(registrations) + 1
           row == Issued(p)
           w == p.wallet
           a == p.allocation
<1>1. LinkInv /\ EnrollInv
  BY DEF Inv
<1>2. /\ p.issuer = "demo"
      /\ authorizing' = authorizing \ {p}
      /\ registrations' = Append(registrations, row)
      /\ demoWallet' = [demoWallet EXCEPT ![w] = a]
      /\ demoWallet[w] \in {None, a} /\ association[w] \in {None, a}
      /\ UNCHANGED <<enrollVars, grants, now, association, demoIdentities>>
      /\ UNCHANGED <<txs, allocationIdByWallet, usedNonce, observing>>
  BY DEF ConsumeDemoChallenge, KeepsAssociation, worldVars, chainVars, ledgerVars
<1>3. /\ row \in RegistrationRows
      /\ row.wallet = w /\ row.allocation = a /\ row.issuer = "demo"
      /\ row.status = "issued"
      /\ w \in Wallets /\ a \in Allocations
  BY <1>1, <1>2, IssuedRow DEF LinkInv, RequestsOK
<1>4. EnrollInv' /\ GrantsGrow
  BY <1>1, <1>2, EnrollingAside DEF GrantsGrow
<1>5. /\ registrations' \in Seq(RegistrationRows)
      /\ n \notin DOMAIN registrations
      /\ \A i \in DOMAIN registrations : i < n
      /\ DOMAIN registrations' = DOMAIN registrations \cup {n}
      /\ registrations'[n] = row
      /\ \A i \in DOMAIN registrations : registrations'[i] = registrations[i]
      /\ OnChain'
  BY <1>1, <1>2, <1>3, NewRow
<1> HIDE DEF n, row, w, a
<1>6. RowsOK' /\ RequestsOK'
  <2>1. demoWallet' \in [Wallets -> Allocations \cup {None}]
    BY <1>1, <1>2, <1>3 DEF LinkInv, RowsOK
  <2> QED BY <1>1, <1>2, <1>5, <2>1 DEF LinkInv, RowsOK, RequestsOK
<1>7. WorldIssued' = WorldIssued
  BY <1>3, <1>5 DEF WorldIssued
<1>8. Paid'
  <2>1. \A m \in WorldIssued : registrations'[m] = registrations[m]
    BY <1>5 DEF WorldIssued
  <2>2. \A m \in WorldIssued' :
          /\ registrations'[m].source \in DOMAIN grants'
          /\ grants'[registrations'[m].source].status = "consumed"
    BY <1>1, <1>2, <1>7, <2>1 DEF LinkInv, Paid
  <2>3. OneAuthorizationPerGrant'
    BY <1>1, <1>7, <2>1 DEF LinkInv, Paid, OneAuthorizationPerGrant
  <2>4. AuthorizationEndsWithGrant'
    BY <1>1, <1>2, <1>7, <2>1 DEF LinkInv, Paid, AuthorizationEndsWithGrant
  <2> QED BY <2>2, <2>3, <2>4 DEF Paid
<1>9. ASSUME NEW m \in DOMAIN registrations
      PROVE  /\ registrations[m].allocation # None /\ registrations[m].wallet \in Wallets
             /\ registrations[m].issuer \in {"world", "demo"}
             /\ registrations[m].allocation =
                  IF registrations[m].issuer = "world" THEN association[registrations[m].wallet]
                                                       ELSE demoWallet[registrations[m].wallet]
             /\ demoWallet'[registrations[m].wallet] =
                  IF registrations[m].wallet = w THEN a ELSE demoWallet[registrations[m].wallet]
  <2>1. registrations[m] \in RegistrationRows
    BY <1>1, <1>9, Element DEF LinkInv, RowsOK
  <2>2. registrations[m].allocation # None /\ registrations[m].wallet \in Wallets
          /\ registrations[m].issuer \in {"world", "demo"}
    BY <2>1 DEF RegistrationRows
  <2>3. registrations[m].allocation =
          IF registrations[m].issuer = "world" THEN association[registrations[m].wallet]
                                               ELSE demoWallet[registrations[m].wallet]
    BY <1>1, <1>9 DEF LinkInv, Kept
  <2>4. demoWallet'[registrations[m].wallet] =
          IF registrations[m].wallet = w THEN a ELSE demoWallet[registrations[m].wallet]
    BY <1>1, <1>2, <2>2 DEF LinkInv, RowsOK
  <2> QED BY <2>2, <2>3, <2>4
<1>10. Kept'
  <2>1. ASSUME NEW m \in DOMAIN registrations'
        PROVE  LET r == registrations'[m] IN
               r.allocation = IF r.issuer = "world" THEN association'[r.wallet]
                                                   ELSE demoWallet'[r.wallet]
    <3>1. CASE m = n
      BY <1>1, <1>2, <1>3, <1>5, <3>1 DEF LinkInv, RowsOK
    <3>2. CASE m # n
      <4>1. m \in DOMAIN registrations /\ registrations'[m] = registrations[m]
        BY <1>5, <2>1, <3>2
      <4> QED BY <1>2, <1>9, <4>1
    <3> QED BY <3>1, <3>2
  <2>2. DemoKeepsAllocation'
    <3> SUFFICES ASSUME NEW m \in DOMAIN registrations', NEW k \in DOMAIN registrations',
                        m < k, registrations'[k].issuer = "demo",
                        registrations'[m].wallet = registrations'[k].wallet
                 PROVE  registrations'[m].allocation = registrations'[k].allocation
      BY DEF DemoKeepsAllocation
    <3>1. m \in DOMAIN registrations
      <4>1. n \in Nat /\ \A i \in DOMAIN registrations : i \in Nat
        BY <1>1, Element DEF LinkInv, RowsOK, n
      <4> QED BY <1>5, <4>1
    <3>2. CASE k = n
      BY <1>2, <1>3, <1>5, <1>9, <3>1, <3>2
    <3>3. CASE k # n
      BY <1>1, <1>5, <3>1, <3>3 DEF LinkInv, Kept, DemoKeepsAllocation
    <3> QED BY <3>2, <3>3
  <2> QED BY <2>1, <2>2 DEF Kept
<1> QED BY <1>4, <1>5, <1>6, <1>8, <1>10 DEF Inv, LinkInv

-----------------------------------------------------------------------------
(* The chain and its receipts *)

\* A step of the chain or of a receipt: the stores of the issuers stay.
LEMMA ChainKeeps ==
  ASSUME Inv, UNCHANGED <<enrollVars, grants, now>>,
         UNCHANGED <<association, demoWallet, demoIdentities, authorizing>>,
         SameRows, OnChain'
  PROVE  Inv'
<1>1. LinkInv /\ EnrollInv
  BY DEF Inv
<1>2. EnrollInv' /\ GrantsGrow
  BY <1>1, EnrollingAside DEF GrantsGrow
<1>3. Paid' /\ Kept'
  BY <1>1, <1>2, RowsAside
<1>4. RowsOK' /\ RequestsOK'
  BY <1>1 DEF LinkInv, RowsOK, RequestsOK, SameRows
<1> QED BY <1>2, <1>3, <1>4 DEF Inv, LinkInv

\* A registration is sent to the chain.
LEMMA SendKeeps ==
  ASSUME Inv, NEW n \in DOMAIN registrations, SendRegister(n)
  PROVE  Inv'
<1> DEFINE e == [nonce |-> n, status |-> "pending"]
<1>1. /\ txs' = Append(txs, e)
      /\ UNCHANGED <<enrollVars, grants, now>>
      /\ UNCHANGED <<association, demoWallet, demoIdentities, authorizing>>
      /\ UNCHANGED <<registrations, allocationIdByWallet, usedNonce, observing>>
  BY DEF SendRegister, worldVars, demoVars, ledgerVars
<1>2. n \in Nat /\ SameRows
  BY <1>1, Element DEF Inv, LinkInv, RowsOK, SameRows
<1>3. e \in TxRows /\ e.nonce = n
  BY <1>2 DEF TxRows
<1> HIDE DEF e
<1>4. /\ txs' \in Seq(TxRows)
      /\ DOMAIN txs \subseteq DOMAIN txs'
      /\ \A t \in DOMAIN txs : txs'[t] = txs[t]
      /\ \A t \in DOMAIN txs' : t \in DOMAIN txs \/ txs'[t] = e
  <2>1. txs \in Seq(TxRows)
    BY DEF Inv, LinkInv, OnChain
  <2>2. /\ Append(txs, e) \in Seq(TxRows) /\ Len(txs) \in Nat
        /\ DOMAIN txs = 1..Len(txs) /\ DOMAIN Append(txs, e) = 1..(Len(txs) + 1)
        /\ Append(txs, e)[Len(txs) + 1] = e
        /\ \A t \in DOMAIN txs : Append(txs, e)[t] = txs[t]
    BY <1>3, <2>1, Appended
  <2> QED BY <1>1, <2>2
<1>5. OnChain'
  <2>1. \A t \in DOMAIN txs' : txs'[t].nonce \in DOMAIN registrations
    BY <1>3, <1>4 DEF Inv, LinkInv, OnChain
  <2>2. ConfirmedIsOnChain'
    BY <1>1, <1>4 DEF Inv, LinkInv, OnChain, ConfirmedIsOnChain
  <2> QED BY <1>1, <1>4, <2>1, <2>2 DEF Inv, LinkInv, OnChain
<1> QED BY <1>1, <1>2, <1>5, ChainKeeps

\* A registration is mined or reverts: bindings and nonces only grow.
LEMMA MineKeeps ==
  ASSUME Inv, NEW t \in DOMAIN txs, Mine(t)
  PROVE  Inv'
<1>1. /\ txs[t].status = "pending"
      /\ UNCHANGED <<enrollVars, grants, now>>
      /\ UNCHANGED <<association, demoWallet, demoIdentities, authorizing>>
      /\ UNCHANGED <<registrations, observing>>
  BY DEF Mine, worldVars, demoVars, Ledger!RegisterWallet
<1>2. SameRows
  BY <1>1 DEF Inv, LinkInv, RowsOK, SameRows
<1>3. txs \in Seq(TxRows) /\ txs[t] \in TxRows
  BY Element DEF Inv, LinkInv, OnChain
<1>4. PICK s \in {"success", "reverted"} : txs' = [txs EXCEPT ![t].status = s]
  BY DEF Mine
<1> DEFINE e == [txs[t] EXCEPT !.status = s]
<1>5. e \in TxRows /\ e.nonce = txs[t].nonce /\ txs' = [txs EXCEPT ![t] = e]
  BY <1>3, <1>4 DEF TxRows
<1> HIDE DEF e
<1>6. /\ txs' \in Seq(TxRows) /\ DOMAIN txs' = DOMAIN txs /\ txs'[t] = e
      /\ \A u \in DOMAIN txs : u # t => txs'[u] = txs[u]
  BY <1>3, <1>5, Replaced
<1>7. /\ allocationIdByWallet' \in [Wallets -> Allocations \cup {None}]
      /\ usedNonce \subseteq usedNonce'
      /\ \A w \in Wallets : allocationIdByWallet[w] # None =>
            allocationIdByWallet'[w] = allocationIdByWallet[w]
  <2>1. allocationIdByWallet \in [Wallets -> Allocations \cup {None}]
    BY DEF Inv, LinkInv, OnChain
  <2>2. CASE UNCHANGED ledgerVars
    BY <2>1, <2>2 DEF ledgerVars
  <2>3. CASE Ledger!RegisterWallet(Authorization(txs[t].nonce))
    <3> DEFINE r == registrations[txs[t].nonce]
    <3>1. r \in RegistrationRows
      <4>1. txs[t].nonce \in DOMAIN registrations
        BY DEF Inv, LinkInv, OnChain
      <4> QED BY <4>1, Element DEF Inv, LinkInv, RowsOK
    <3>2. r.wallet \in Wallets /\ r.allocation \in Allocations
      BY <3>1 DEF RegistrationRows
    <3>3. /\ allocationIdByWallet' = [allocationIdByWallet EXCEPT ![r.wallet] = r.allocation]
          /\ allocationIdByWallet[r.wallet] \in {None, r.allocation}
          /\ usedNonce \subseteq usedNonce'
      BY <2>3 DEF Ledger!RegisterWallet, Ledger!KeepsAllocation, Authorization
    <3> HIDE DEF r
    <3> QED BY <2>1, <3>2, <3>3
  <2> QED BY <2>2, <2>3 DEF Mine
<1>8. OnChain'
  <2>1. \A u \in DOMAIN txs : txs[u].status = "success" => txs'[u] = txs[u]
    BY <1>1, <1>6
  <2>2. \A u \in DOMAIN txs' : txs'[u].nonce \in DOMAIN registrations
    BY <1>5, <1>6 DEF Inv, LinkInv, OnChain
  <2>3. \A o \in observing : o.status = "success" => txs'[o.tx].status = "success"
    BY <2>1 DEF Inv, LinkInv, OnChain
  <2>4. ConfirmedIsOnChain'
    <3> SUFFICES ASSUME NEW n \in DOMAIN registrations, registrations[n].status = "confirmed"
                 PROVE  /\ txs'[registrations[n].tx] = [nonce |-> n, status |-> "success"]
                        /\ allocationIdByWallet'[registrations[n].wallet]
                              = registrations[n].allocation
                        /\ n \in usedNonce'
      BY <1>1 DEF ConfirmedIsOnChain
    <3>1. /\ registrations[n].tx \in DOMAIN txs
          /\ txs[registrations[n].tx] = [nonce |-> n, status |-> "success"]
          /\ allocationIdByWallet[registrations[n].wallet] = registrations[n].allocation
          /\ n \in usedNonce
      BY DEF Inv, LinkInv, OnChain, ConfirmedIsOnChain
    <3>2. registrations[n] \in RegistrationRows
      BY Element DEF Inv, LinkInv, RowsOK
    <3>3. registrations[n].wallet \in Wallets /\ registrations[n].allocation # None
      BY <3>2 DEF RegistrationRows
    <3> QED BY <1>7, <2>1, <3>1, <3>3
  <2> QED BY <1>1, <1>6, <1>7, <2>2, <2>3, <2>4 DEF Inv, LinkInv, OnChain
<1> QED BY <1>1, <1>2, <1>8, ChainKeeps

\* A receipt is read with the binding and the nonce.
LEMMA ReadReceiptKeeps ==
  ASSUME Inv, NEW n \in DOMAIN registrations, NEW t \in DOMAIN txs, ReadReceipt(n, t)
  PROVE  Inv'
<1>1. /\ observing' = observing \cup {[nonce |-> n, tx |-> t, status |-> txs[t].status]}
      /\ UNCHANGED <<enrollVars, grants, now>>
      /\ UNCHANGED <<association, demoWallet, demoIdentities, authorizing>>
      /\ UNCHANGED <<registrations, txs, allocationIdByWallet, usedNonce>>
  BY DEF ReadReceipt, Observed, worldVars, demoVars, chainVars, ledgerVars
<1>2. SameRows
  BY <1>1 DEF Inv, LinkInv, RowsOK, SameRows
<1>3. txs[t].status \in {"pending", "success", "reverted"}
  <2>1. txs[t] \in TxRows
    BY Element DEF Inv, LinkInv, OnChain
  <2> QED BY <2>1 DEF TxRows
<1>4. OnChain'
  BY <1>1, <1>3 DEF Inv, LinkInv, OnChain, ConfirmedIsOnChain
<1> QED BY <1>1, <1>2, <1>4, ChainKeeps

\* What a receipt writes of a registration.
LEMMA ReceiptRow ==
  ASSUME LinkInv, NEW o \in observing
  PROVE  LET e == [registrations[o.nonce] EXCEPT !.status = Verdict(o), !.tx = o.tx] IN
         /\ o.nonce \in DOMAIN registrations
         /\ e \in RegistrationRows
         /\ e.status = Verdict(o) /\ e.tx = o.tx
         /\ LET r == registrations[o.nonce] IN
            <<e.wallet, e.allocation, e.expiry, e.issuer, e.source>>
              = <<r.wallet, r.allocation, r.expiry, r.issuer, r.source>>
<1>1. /\ o.nonce \in DOMAIN registrations /\ o.tx \in DOMAIN txs
      /\ o.status \in {"pending", "success", "reverted"}
  BY DEF LinkInv, OnChain
<1>2. registrations[o.nonce] \in RegistrationRows
  BY <1>1, Element DEF LinkInv, RowsOK
<1>3. o.tx \in Nat
  BY <1>1, Element DEF LinkInv, OnChain
<1>4. Verdict(o) \in {"issued", "submitted", "confirmed", "failed", "verification_failed"}
  BY <1>1 DEF Verdict
<1> QED BY <1>1, <1>2, <1>3, <1>4 DEF RegistrationRows

\* A receipt read earlier is recorded; the chain still has what it saw.
LEMMA RecordReceiptKeeps ==
  ASSUME Inv, NEW o \in observing, RecordReceipt(o)
  PROVE  Inv'
<1> DEFINE k == o.nonce
           e == [registrations[k] EXCEPT !.status = Verdict(o), !.tx = o.tx]
<1>1. /\ observing' = observing \ {o}
      /\ UNCHANGED <<enrollVars, grants, now>>
      /\ UNCHANGED <<association, demoWallet, demoIdentities, authorizing>>
      /\ UNCHANGED <<txs, allocationIdByWallet, usedNonce>>
  BY DEF RecordReceipt, worldVars, demoVars, chainVars, ledgerVars
<1>2. registrations \in Seq(RegistrationRows) /\ LinkInv
  BY DEF Inv, LinkInv, RowsOK
<1>3. CASE ~Unsettled(registrations[k].status)
  <2>1. registrations' = registrations
    BY <1>3 DEF RecordReceipt
  <2>2. SameRows /\ OnChain'
    BY <1>1, <1>2, <2>1 DEF LinkInv, OnChain, ConfirmedIsOnChain, SameRows
  <2> QED BY <1>1, <2>2, ChainKeeps
<1>4. CASE Unsettled(registrations[k].status)
  <2>1. /\ k \in DOMAIN registrations /\ e \in RegistrationRows
        /\ e.status = Verdict(o) /\ e.tx = o.tx
        /\ LET r == registrations[k] IN
           <<e.wallet, e.allocation, e.expiry, e.issuer, e.source>>
             = <<r.wallet, r.allocation, r.expiry, r.issuer, r.source>>
    BY <1>2, ReceiptRow
  <2>2. registrations' = [registrations EXCEPT ![k] = e]
    BY <1>2, <1>4, <2>1 DEF RecordReceipt
  <2> HIDE DEF e
  <2>3. /\ registrations' \in Seq(RegistrationRows)
        /\ DOMAIN registrations' = DOMAIN registrations
        /\ registrations'[k] = e
        /\ \A n \in DOMAIN registrations : n # k => registrations'[n] = registrations[n]
    BY <1>2, <2>1, <2>2, Replaced
  <2>4. SameRows
    BY <2>1, <2>3 DEF SameRows
  <2>5. o.tx \in DOMAIN txs /\ o.status \in {"pending", "success", "reverted"}
    BY <1>2 DEF LinkInv, OnChain
  <2>6. ConfirmedIsOnChain'
    <3>1. ASSUME e.status = "confirmed"
          PROVE  /\ txs[e.tx] = [nonce |-> k, status |-> "success"]
                 /\ allocationIdByWallet[e.wallet] = e.allocation
                 /\ k \in usedNonce
      <4>1. /\ o.status = "success" /\ EventMatches(o) /\ k \in usedNonce
            /\ allocationIdByWallet[registrations[k].wallet] = registrations[k].allocation
        BY <2>1, <2>5, <3>1 DEF Verdict
      <4>2. txs[o.tx] \in TxRows /\ txs[o.tx].status = "success" /\ txs[o.tx].nonce = k
        BY <1>2, <2>5, <4>1, Element DEF LinkInv, OnChain, EventMatches
      <4>3. txs[o.tx] = [nonce |-> k, status |-> "success"]
        BY <4>2 DEF TxRows
      <4> QED BY <2>1, <4>1, <4>3
    <3>2. ASSUME NEW n \in DOMAIN registrations, n # k, registrations'[n].status = "confirmed"
          PROVE  /\ txs[registrations'[n].tx] = [nonce |-> n, status |-> "success"]
                 /\ allocationIdByWallet[registrations'[n].wallet] = registrations'[n].allocation
                 /\ n \in usedNonce
      BY <1>2, <2>3, <3>2 DEF LinkInv, OnChain, ConfirmedIsOnChain
    <3> QED BY <1>1, <2>3, <3>1, <3>2 DEF ConfirmedIsOnChain
  <2>7. \A n \in DOMAIN registrations' :
          registrations'[n].status = "confirmed" => registrations'[n].tx \in DOMAIN txs
    <3>1. \A n \in DOMAIN registrations : n # k =>
            (registrations'[n].status = "confirmed" => registrations'[n].tx \in DOMAIN txs)
      BY <1>2, <2>3 DEF LinkInv, OnChain
    <3>2. registrations'[k].tx \in DOMAIN txs
      BY <2>1, <2>3, <2>5
    <3> QED BY <2>3, <3>1, <3>2
  <2>8. OnChain'
    BY <1>1, <1>2, <2>3, <2>6, <2>7 DEF LinkInv, OnChain
  <2> QED BY <1>1, <2>4, <2>8, ChainKeeps
<1> QED BY <1>3, <1>4

-----------------------------------------------------------------------------
(* Linking: the invariant *)

\* The empty stores satisfy the invariant.
LEMMA LinkInit == LinkedInit => Inv
<1> SUFFICES ASSUME LinkedInit PROVE Inv
  OBVIOUS
<1>1. Init /\ NothingLinked
  BY DEF LinkedInit
<1>2. EnrollInv
  <2>1. Init
    BY <1>1 DEF Init, Init
  <2> QED BY <2>1, EnrollmentInit
<1>3. RowsOK /\ RequestsOK
  BY <1>1 DEF NothingLinked, RowsOK, RequestsOK
<1>4. Paid /\ Kept
  BY <1>1 DEF NothingLinked, Paid, Kept, WorldIssued, OneAuthorizationPerGrant,
              AuthorizationEndsWithGrant, DemoKeepsAllocation
<1>5. OnChain
  BY <1>1 DEF NothingLinked, OnChain, ConfirmedIsOnChain
<1> QED BY <1>2, <1>3, <1>4, <1>5 DEF Inv, LinkInv

\* A stutter.
LEMMA StutterKeeps ==
  ASSUME Inv, UNCHANGED linkedVars
  PROVE  Inv'
<1>1. /\ UNCHANGED <<enrollVars, grants, now>>
      /\ UNCHANGED <<registrations, association, demoWallet, demoIdentities, authorizing>>
      /\ UNCHANGED <<txs, allocationIdByWallet, usedNonce, observing>>
  BY DEF linkedVars, linkVars, worldVars, demoVars, chainVars, ledgerVars
<1>2. RequestsOK'
  BY <1>1 DEF Inv, LinkInv, RequestsOK
<1> QED BY <1>1, <1>2, QuietKeeps DEF Inv, LinkInv, RowsOK

\* Every step keeps it.
LEMMA LinkStep == Inv /\ [LinkedNext]_linkedVars => Inv'
<1> SUFFICES ASSUME Inv, [LinkedNext]_linkedVars PROVE Inv'
  OBVIOUS
<1>1. CASE EnrollmentStep
  BY <1>1, EnrollmentKeeps
<1>2. CASE World
  <2>1. ASSUME NEW h \in Humans, NEW g \in tokens[h], NEW w \in Wallets, OpenChallenge(g, w)
        PROVE  Inv'
    <3>1. g \in Nat
      <4>1. g \in DOMAIN grants
        BY <2>1, EnrollingTypes DEF Inv
      <4>2. grants \in Seq([enrollment : DOMAIN enrollments, expires : 0..MaxTime + GRANT_TTL,
                            status : {"open", "consumed"}])
        BY DEF Inv, EnrollInv, TypeOK
      <4> QED BY <4>1, <4>2, Element
    <3> QED BY <2>1, <3>1, UntouchedKeeps
  <2>2. ASSUME NEW h \in Humans, NEW g \in tokens[h], NEW w \in Wallets, AskAuthorization(g, w)
        PROVE  Inv'
    BY <2>2, AskKeeps
  <2>3. ASSUME NEW p \in authorizing, ConsumeLink(p) \/ GiveUp(p)
        PROVE  Inv'
    BY <2>3, ConsumeLinkKeeps, GiveUpKeeps
  <2> QED BY <1>2, <2>1, <2>2, <2>3 DEF World
<1>3. CASE Demo
  <2>1. ASSUME NEW h \in Humans, NEW a \in Allocations, StartDemo(h, a)
        PROVE  Inv'
    BY <2>1, StartDemoKeeps
  <2>2. ASSUME NEW h \in Humans, NEW w \in Wallets,
               DemoChallenge(h, w) \/ AskDemoAuthorization(h, w)
        PROVE  Inv'
    BY <2>2, UntouchedKeeps, AskDemoKeeps
  <2>3. ASSUME NEW p \in authorizing, ConsumeDemoChallenge(p)
        PROVE  Inv'
    BY <2>3, ConsumeDemoKeeps
  <2> QED BY <1>3, <2>1, <2>2, <2>3 DEF Demo
<1>4. CASE Holder
  BY <1>4, UntouchedKeeps, SendKeeps DEF Holder
<1>5. CASE Chain
  BY <1>5, UntouchedKeeps, MineKeeps DEF Chain
<1>6. CASE Receipts
  BY <1>6, ReadReceiptKeeps, RecordReceiptKeeps DEF Receipts
<1>7. CASE UNCHANGED linkedVars
  BY <1>7, StutterKeeps
<1> QED BY <1>1, <1>2, <1>3, <1>4, <1>5, <1>6, <1>7 DEF LinkedNext

\* The invariant holds throughout.
LEMMA LinkAlways == LinkedSpec => []Inv
BY LinkInit, LinkStep, PTL DEF LinkedSpec

-----------------------------------------------------------------------------
(* Theorems *)

\* The rows of both issuers and the transactions stay in their types, for any
\* number of requests and receipts in flight.
THEOREM LinkTypes == LinkedSpec => []LinkedTypeOK
<1>1. Inv => LinkedTypeOK
  BY DEF Inv, LinkInv, RowsOK, OnChain, LinkedTypeOK, RegistrationRows, Identities, TxRows
<1> QED BY <1>1, LinkAlways, PTL

\* A grant pays for one authorization, however many requests carry it between
\* their checks and the store.
THEOREM GrantPaysOnce == LinkedSpec => []OneAuthorizationPerGrant
<1>1. Inv => OneAuthorizationPerGrant
  BY DEF Inv, LinkInv, Paid
<1> QED BY <1>1, LinkAlways, PTL

\* An authorization ends within its lifetime after its grant, however long its
\* request was delayed.
THEOREM AuthorizationsEnd == LinkedSpec => []AuthorizationEndsWithGrant
<1>1. Inv => AuthorizationEndsWithGrant
  BY DEF Inv, LinkInv, Paid
<1> QED BY <1>1, LinkAlways, PTL

\* World authorizes a wallet for one allocation only, and the demo identity for
\* none but the one the wallet was authorized for before.
THEOREM WalletsKeepAllocation == LinkedSpec => []WalletKeepsAllocation
<1>1. Inv => WalletKeepsAllocation
  <2> SUFFICES ASSUME Inv PROVE WorldKeepsAllocation /\ DemoKeepsAllocation
    BY DEF WalletKeepsAllocation
  <2>1. Kept
    BY DEF Inv, LinkInv
  <2>2. \A n \in WorldIssued :
          registrations[n].allocation = association[registrations[n].wallet]
    BY <2>1 DEF Kept, WorldIssued
  <2>3. WorldKeepsAllocation
    BY <2>2 DEF WorldKeepsAllocation
  <2> QED BY <2>1, <2>3 DEF Kept
<1> QED BY <1>1, LinkAlways, PTL

\* What a row calls confirmed is on the chain: its transaction succeeded, its
\* wallet is bound to its allocation and its nonce is used.
THEOREM ConfirmedOnChain == LinkedSpec => []ConfirmedIsOnChain
<1>1. Inv => ConfirmedIsOnChain
  BY DEF Inv, LinkInv, OnChain
<1> QED BY <1>1, LinkAlways, PTL

\* A confirmed registration never changes again: new rows come after it, and
\* receipts leave the settled ones.
THEOREM ConfirmedForever == LinkedSpec => ConfirmedIsFinal
<1>1. ASSUME Inv, [LinkedNext]_linkedVars, NEW n \in DOMAIN registrations,
             registrations[n].status = "confirmed"
      PROVE  registrations'[n] = registrations[n]
  <2>1. registrations \in Seq(RegistrationRows)
    BY <1>1 DEF Inv, LinkInv, RowsOK
  <2>2. CASE registrations' = registrations
    BY <2>2
  <2>3. ASSUME NEW row, registrations' = Append(registrations, row)
        PROVE  registrations'[n] = registrations[n]
    BY <1>1, <2>1, <2>3, AppendKeeps
  <2>4. ASSUME NEW o \in observing, RecordReceipt(o)
        PROVE  registrations'[n] = registrations[n]
    <3>1. CASE Unsettled(registrations[o.nonce].status)
      <4>1. registrations' = [registrations EXCEPT ![o.nonce].status = Verdict(o),
                                                   ![o.nonce].tx = o.tx]
        BY <2>4, <3>1 DEF RecordReceipt
      <4>2. o.nonce # n
        BY <1>1, <3>1 DEF Unsettled
      <4> QED BY <1>1, <2>1, <4>1, <4>2
    <3>2. CASE ~Unsettled(registrations[o.nonce].status)
      BY <2>4, <3>2 DEF RecordReceipt
    <3> QED BY <3>1, <3>2
  <2>5. \/ registrations' = registrations
        \/ \E row : registrations' = Append(registrations, row)
        \/ \E o \in observing : RecordReceipt(o)
    <3>1. CASE EnrollmentStep \/ UNCHANGED linkedVars
      BY <3>1 DEF EnrollmentStep, linkedVars, linkVars
    <3>2. CASE World
      BY <3>2 DEF World, OpenChallenge, AskAuthorization, ConsumeLink, GiveUp
    <3>3. CASE Demo
      BY <3>3 DEF Demo, StartDemo, DemoChallenge, AskDemoAuthorization, ConsumeDemoChallenge
    <3>4. CASE Holder \/ Chain
      BY <3>4 DEF Holder, Sign, SendRegister, Chain, Mine, RotateSigner
    <3>5. CASE Receipts
      BY <3>5 DEF Receipts, ReadReceipt
    <3> QED BY <1>1, <3>1, <3>2, <3>3, <3>4, <3>5 DEF LinkedNext
  <2> QED BY <2>2, <2>3, <2>4, <2>5
<1>2. Inv /\ [LinkedNext]_linkedVars =>
        \A n \in DOMAIN registrations :
          registrations[n].status = "confirmed" => registrations'[n] = registrations[n]
  BY <1>1
<1> QED BY <1>2, LinkAlways, PTL DEF LinkedSpec, ConfirmedIsFinal
=============================================================================
