--------------------------- MODULE MCInvestorPage ---------------------------
(* A finite instance of the page: one presentation check at a time, and the   *)
(* session of the browser does not expire once it is verified.                *)
EXTENDS InvestorPage

Focus == Cardinality(preflights) <= 1 /\ identity # "expired"
=============================================================================
