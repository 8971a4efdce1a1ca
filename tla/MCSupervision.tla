--------------------------- MODULE MCSupervision ---------------------------
(* Supervision with two requests of three ids, in both modes. *)
EXTENDS Supervision

BothModes == {"packaged", "live"}
=============================================================================
