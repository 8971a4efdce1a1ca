--------------------------- MODULE MCLiveSession ---------------------------
(* The live-session channel on a small instance. *)
EXTENDS LiveSession

=============================================================================
