---------------------------- MODULE MCConnections ----------------------------
(* Connections with two users.                                             *)
EXTENDS Connections
=============================================================================
