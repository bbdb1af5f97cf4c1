---------------------------- MODULE RequestLimit ----------------------------
(***************************************************************************)
(* The limiter in front of the routes: the times of the calls a bucket let *)
(* through for one address, pruned whenever that address calls again.  A   *)
(* call is told from another of the same millisecond by its number.        *)
(***************************************************************************)
EXTENDS Integers, FiniteSets

CONSTANTS
  Keys,          \* "bucket:ip"
  Limit, Window, \* limit and windowMs
  MaxCalls,      \* bound: calls considered
  MaxTime        \* bound: the last time considered

ASSUME LimitAssumption ==
  /\ Limit \in Nat /\ Window \in Nat
  /\ MaxCalls \in Nat /\ MaxTime \in Nat

VARIABLES
  hits,          \* the map of the module
  now,           \* Date.now
  calls,         \* calls so far
  admitted       \* the calls that were let through, never pruned

vars == <<hits, now, calls, admitted>>

Call == [id : 1..MaxCalls, time : 0..MaxTime]

Init ==
  /\ hits = [k \in Keys |-> {}]
  /\ now = 0 /\ calls = 0
  /\ admitted = [k \in Keys |-> {}]

\* The calls of the window that ends now.
OnlyThisMoment(cs) == {c \in cs : c.time = now}        \* faulty variant: prunes too much
AlsoTheOldest(cs) == {c \in cs : now - c.time <= Window}  \* faulty variant: one too many
Recent(cs) == {c \in cs : now - c.time < Window}

Admit(k) ==
  /\ calls < MaxCalls
  /\ Cardinality(Recent(hits[k])) < Limit
  /\ hits' = [hits EXCEPT ![k] = Recent(@) \cup {[id |-> calls + 1, time |-> now]}]
  /\ admitted' = [admitted EXCEPT ![k] = @ \cup {[id |-> calls + 1, time |-> now]}]
  /\ calls' = calls + 1
  /\ UNCHANGED now

\* A refused call is not recorded: it does not prolong the refusal.
AfterRefusal(cs) == Recent(cs)

Refuse(k) ==
  /\ calls < MaxCalls
  /\ Cardinality(Recent(hits[k])) >= Limit
  /\ hits' = [hits EXCEPT ![k] = AfterRefusal(@)]
  /\ calls' = calls + 1
  /\ UNCHANGED <<now, admitted>>

Tick ==
  /\ now < MaxTime
  /\ now' = now + 1
  /\ UNCHANGED <<hits, calls, admitted>>

Next == (\E k \in Keys : Admit(k) \/ Refuse(k)) \/ Tick

Spec == Init /\ [][Next]_vars

-----------------------------------------------------------------------------
(* Properties *)

\* Every variable stays in its type; what the map keeps was let through.
TypeOK ==
  /\ hits \in [Keys -> SUBSET Call]
  /\ admitted \in [Keys -> SUBSET Call]
  /\ \A k \in Keys : hits[k] \subseteq admitted[k]
  /\ now \in 0..MaxTime /\ calls \in 0..MaxCalls

From(cs, t) == {c \in cs : t <= c.time /\ c.time < t + Window}

\* Wherever a window begins, an address is let through at most Limit times in
\* it, although the map forgets calls (requestLimit.ts: recent.length >= limit).
NeverOverLimit ==
  \A k \in Keys, t \in 0..MaxTime : Cardinality(From(admitted[k], t)) <= Limit

\* Nobody is refused by calls that are older than the window, or by those of
\* another address: a refused call finds Limit calls let through for its own
\* address within the window (requestLimit.ts: now - time < windowMs).
RefusedOnlyWhenFull ==
  [][\A k \in Keys : Refuse(k) => Cardinality(From(admitted[k], now - Window + 1)) >= Limit]_vars
=============================================================================
