--------------------------- MODULE MCCircularQueue ---------------------------
(* Small instances of CircularQueue for TLC. *)
EXTENDS CircularQueue
=============================================================================
