---------------------------- MODULE ProofRequest ----------------------------
(***************************************************************************)
(* What the page may rely on when it asks World App for a proof: a new     *)
(* request withdraws every earlier one, the proof of a withdrawn request   *)
(* is never sent to the backend, and every request ends.                   *)
(***************************************************************************)
CONSTANT Runs                \* the requests the page makes, in order

VARIABLES
  phase,                     \* of each request: "new", "open", "sent", "ended"
  withdrawn                  \* the requests cancelled or followed by another

requestVars == <<phase, withdrawn>>

Started == {r \in Runs : phase[r] # "new"}

Init ==
  /\ phase = [r \in Runs |-> "new"]
  /\ withdrawn = {}

Open(r) ==
  /\ phase[r] = "new"
  /\ phase' = [phase EXCEPT ![r] = "open"]
  /\ withdrawn' = Started

Withdraw(r) ==
  /\ r \in Started
  /\ withdrawn' = withdrawn \cup {r}
  /\ UNCHANGED phase

\* The proof goes to the backend.
Send(r) ==
  /\ phase[r] = "open" /\ r \notin withdrawn
  /\ phase' = [phase EXCEPT ![r] = "sent"]
  /\ UNCHANGED withdrawn

End(r) ==
  /\ phase[r] \in {"open", "sent"}
  /\ phase' = [phase EXCEPT ![r] = "ended"]
  /\ UNCHANGED withdrawn

Next == \E r \in Runs : Open(r) \/ Withdraw(r) \/ Send(r) \/ End(r)

Spec ==
  /\ Init /\ [][Next]_requestVars
  /\ \A r \in Runs : WF_requestVars(End(r))
=============================================================================
