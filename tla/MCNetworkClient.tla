-------------------------- MODULE MCNetworkClient --------------------------
(* The session client on a small instance. *)
EXTENDS NetworkClient

=============================================================================
