--------------------------- MODULE OfferingDirectory ---------------------------
(***************************************************************************)
(* The offering's public record on Arkiv: the script that publishes it,    *)
(* and GET /api/offerings, which shows the record next to what Ethereum    *)
(* says of the same offering.                                              *)
(*                                                                         *)
(* The script reads the records that match its query and creates one if    *)
(* there is none; nothing keeps a second script out in between.  A         *)
(* creation is a transaction of another chain: it is mined some time after *)
(* it was sent, whether or not its script still waits for it.  A record    *)
(* carries the unix time it is current until, which the script computes    *)
(* at the query, and Arkiv drops the record a lifetime after the creation  *)
(* was mined.                                                              *)
(*                                                                         *)
(* The directory runs the report of ProductStatus, reads the remaining     *)
(* budget, and queries Arkiv last.                                         *)
(***************************************************************************)
EXTENDS ProductStatus

CONSTANTS
  Scripts,      \* runs of publish:offering
  Lifetime,     \* OFFERING_LIFETIME_SECONDS and ExpirationTime.fromDays
  MaxTime       \* bound: the clock

DirectoryAssumption ==
  Lifetime \in Nat \ {0} /\ MaxTime \in Nat

VARIABLES
  now,
  records,      \* on Arkiv, of the project and the offering of the query
  script,       \* [at, clock]: the script's place, and the time it read
  pending,      \* the scripts whose creation is sent and not mined
  beside,       \* history: the scripts that were about to create together with another
  view,         \* the directory request: its place, and what it took from Ethereum
  directory     \* its last answer, or None

arkivVars == <<now, records, script, pending, beside>>
dirVars   == <<arkivVars, view, directory, vars>>

Times  == 0..MaxTime + Lifetime
Record == [by : Scripts \cup {None}, pair : Sides, expires : Times, drops : Times]
Places == {"unused", "tokens", "query", "balance", "create", "receipt"}
Ends   == {"created", "reused", "stale", "conflict", "failed"}

NoChain == [cap |-> None, period |-> None, remaining |-> None, pair |-> None]

\* The record of an earlier deployment or of an earlier run may be there.
DirInit ==
  /\ Init
  /\ now = 0
  /\ records \in {{}} \cup {{[by |-> None, pair |-> p, expires |-> 1, drops |-> d]} : p \in Sides, d \in {1, 2} \cap Times}
  /\ script = [s \in Scripts |-> [at |-> "unused", clock |-> None]]
  /\ pending = {} /\ beside = {}
  /\ view = [at |-> "idle", wallet |-> FALSE, chain |-> NoChain] /\ directory = None

\* Arkiv drops what has reached its end.
Tick ==
  /\ now < MaxTime /\ now' = now + 1
  /\ records' = {r \in records : r.drops > now'}
  /\ UNCHANGED <<script, pending, beside, view, directory, vars>>

-----------------------------------------------------------------------------
\* publish-offering.mts
Runs(s)     == script[s].at \in Places \ {"unused"}
Step(s, at) == script' = [script EXCEPT ![s].at = at]
At(s, at)   == script[s].at = at /\ UNCHANGED <<now, view, directory, vars>>

StartScript(s) ==
  /\ At(s, "unused") /\ Step(s, "tokens") /\ UNCHANGED <<records, pending, beside>>

\* Every step may throw or be killed.  A creation that was sent is not taken back.
StopScript(s) ==
  /\ Runs(s) /\ Step(s, "failed")
  /\ UNCHANGED <<now, records, pending, beside, view, directory, vars>>

\* The record is of the configured pair, so the executor has to trade it.
ReadExecutor(s) ==
  /\ At(s, "tokens") /\ UNCHANGED <<records, pending, beside>>
  /\ Step(s, IF chain.pair = "configured" THEN "query" ELSE "failed")

\* currentOffering
Current(r, at) == r.pair = "configured" /\ r.expires > at

Several(found) == \E r, q \in found : r # q

\* offeringDecision
Decision(found, at) ==
  IF Several(found) THEN "conflict"
  ELSE IF found = {} THEN "create"
  ELSE IF \E r \in found : Current(r, at) THEN "reused" ELSE "stale"

\* From the query that found nothing to the creation that is on Arkiv.
Creates(s) == script[s].at \in {"balance", "create"} \/ s \in pending

\* The query, the clock, and the decision upon them.
QueryRecords(s) ==
  /\ At(s, "query") /\ UNCHANGED <<records, pending>>
  /\ LET end    == Decision(records, now)
         others == {x \in Scripts : Creates(x)}
     IN /\ script' = [script EXCEPT ![s] = [at |-> IF end = "create" THEN "balance" ELSE end, clock |-> now]]
        /\ beside' = beside \cup IF end = "create" /\ others # {} THEN others \cup {s} ELSE {}

ReadBalance(s) ==
  /\ At(s, "balance") /\ Step(s, "create") /\ UNCHANGED <<records, pending, beside>>

\* createEntity sends the creation and waits for it.
SendCreation(s) ==
  /\ At(s, "create") /\ Step(s, "receipt")
  /\ pending' = pending \cup {s} /\ UNCHANGED <<records, beside>>

MineCreation(s) ==
  /\ s \in pending /\ pending' = pending \ {s}
  /\ records' = records \cup
       {[by |-> s, pair |-> "configured", expires |-> script[s].clock + Lifetime, drops |-> now + Lifetime]}
  /\ UNCHANGED <<now, script, beside, view, directory, vars>>

Created(s) ==
  /\ At(s, "receipt") /\ s \notin pending
  /\ Step(s, "created") /\ UNCHANGED <<records, pending, beside>>

Publishing == \E s \in Scripts : \/ StartScript(s) \/ StopScript(s) \/ ReadExecutor(s)
                                 \/ QueryRecords(s) \/ ReadBalance(s) \/ SendCreation(s)
                                 \/ MineCreation(s) \/ Created(s)

-----------------------------------------------------------------------------
\* GET /api/offerings
InDirectory(at) == view.at = at /\ UNCHANGED <<arkivVars>>

AskDirectory(wallet) ==
  /\ InDirectory("idle") /\ Ask
  /\ view' = [at |-> "report", wallet |-> wallet, chain |-> NoChain] /\ directory' = None

\* The pair is the one of the environment: the report never returns the executor's.
ConfiguredPair(a) == IF a.market THEN "configured" ELSE None

TakeReport ==
  /\ InDirectory("report") /\ Done
  /\ LET c == [cap       |-> IF answer.policy = None THEN None ELSE answer.policy.cap,
               period    |-> IF answer.policy = None THEN answer.period ELSE answer.policy.period,
               remaining |-> None,
               pair      |-> ConfiguredPair(answer)]
     IN view' = [view EXCEPT !.chain = c,
                             !.at = IF view.wallet /\ c.period # None THEN "remaining" ELSE "arkiv"]
  /\ UNCHANGED <<directory, vars>>

\* Nobody of this model has spent: the budget is the cap of the moment.  The
\* call reverts for an unregistered wallet and may fail.
ReadRemaining ==
  /\ InDirectory("remaining")
  /\ \E left \in {None, chain.policy[view.chain.period]} :
       view' = [view EXCEPT !.at = "arkiv", !.chain.remaining = left]
  /\ UNCHANGED <<directory, vars>>

\* A faulty variant of the next definition: the record's expiry is not looked at.
NeverExpires(found, c, at) ==
  IF Several(found) THEN "unavailable" ELSE IF found = {} THEN "missing"
  ELSE IF c.pair = None THEN "unavailable"
  ELSE IF \E r \in found : r.pair # c.pair THEN "mismatch" ELSE "ready"

\* describeOfferingDirectory, after the route's own check for two records.
Describe(found, c, at) ==
  IF Several(found) THEN "unavailable"
  ELSE IF found = {} THEN "missing"
  ELSE IF \E r \in found : r.expires <= at THEN "expired"
  ELSE IF c.pair = None THEN "unavailable"
  ELSE IF \E r \in found : r.pair # c.pair THEN "mismatch"
  ELSE "ready"

\* The client is stopped or not configured, the query fails, or it answers.
QueryArkiv ==
  /\ InDirectory("arkiv")
  /\ view' = [view EXCEPT !.at = "idle"]
  /\ \/ directory' = [status |-> "unavailable", chain |-> view.chain, found |-> {}, time |-> now]
     \/ directory' = [status |-> Describe(records, view.chain, now), chain |-> view.chain,
                      found |-> records, time |-> now]
  /\ UNCHANGED vars

Reporting == (Administer \/ Read) /\ UNCHANGED <<arkivVars, view, directory>>

DirNext ==
  \/ Tick \/ Publishing \/ Reporting
  \/ \E wallet \in BOOLEAN : AskDirectory(wallet)
  \/ TakeReport \/ ReadRemaining \/ QueryArkiv

\* Any of the reads of the report, of Arkiv and of the script ends: calls have timeouts.
DirSpec == DirInit /\ [][DirNext]_dirVars

-----------------------------------------------------------------------------
\* Every variable stays in its type.
DirTypeOK ==
  /\ TypeOK
  /\ now \in 0..MaxTime /\ records \subseteq Record
  /\ script \in [Scripts -> [at : Places \cup Ends, clock : 0..MaxTime \cup {None}]]
  /\ pending \subseteq Scripts /\ beside \subseteq Scripts
  /\ view.at \in {"idle", "report", "remaining", "arkiv"}
  /\ directory # None =>
       directory.status \in {"ready", "missing", "expired", "mismatch", "unavailable"}

Shown == directory # None /\ view.at = "idle"

\* "A current matching record is ready" (development.md:247): the one record of
\* the query, within its own time and of the configured pair, however the report
\* before it went and whatever was published or dropped meanwhile.
ReadyIsCurrent ==
  Shown /\ directory.status = "ready" =>
    \E r \in directory.found :
      /\ directory.found = {r} /\ r.pair = "configured"
      /\ directory.time < r.expires /\ r.expires <= r.drops

\* The cap and the period shown together are a policy that the ledger held
\* during the request: the cap of one period is never shown under another.
ShownPolicyWasHeld ==
  Shown /\ directory.chain.cap # None =>
    \E c \in seen : c.policy[directory.chain.period] = directory.chain.cap

\* Two records match the query only if their scripts were about to create together:
\* each queried before the other's creation was mined.  A script stopped in its wait
\* has its creation under way still, so this is not the same as running together.
SeveralOnlyBeside ==
  \A r, q \in records : r # q => r.by \in beside /\ q.by \in beside

\* What the directory shows is so, and scripts whose creations are mined before the
\* next one queries leave it one record to show.
DirectoryIsTrue == DirTypeOK /\ ReadyIsCurrent /\ ShownPolicyWasHeld /\ SeveralOnlyBeside

\* "If that one current offering already exists, the script prints it and does not
\* create another" (development.md:243).  The script looks before it reads the
\* balance, and not again before it sends.
CreatesNoOther ==
  [][\A s \in Scripts : SendCreation(s) => ~\E r \in records : Current(r, now)]_dirVars
=============================================================================
