----------------------------- MODULE MCNetWatch -----------------------------
(* Instances of NetWatch for TLC. *)
EXTENDS NetWatch
=============================================================================
