--------------------------- MODULE MCNetworkHost ---------------------------
(* The session host on a small instance. *)
EXTENDS NetworkHost

=============================================================================
