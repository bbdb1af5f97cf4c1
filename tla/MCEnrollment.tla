---------------------------- MODULE MCEnrollment ----------------------------
(* Finite instances of enrollment. *)
EXTENDS Enrollment, TLC

Identifiers == Permutations(Humans) \cup Permutations(Sessions)
                 \cup Permutations(Allocations)
=============================================================================
