------------------------------ MODULE MCClients ------------------------------
(* A finite instance of the clients.                                          *)
EXTENDS Clients

\* A clock behind the server's, and one ahead of it.
SkewsBothWays == {-1, 1}
=============================================================================
