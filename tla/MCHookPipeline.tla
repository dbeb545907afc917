--------------------------- MODULE MCHookPipeline ---------------------------
(* Instances of HookPipeline for TLC. *)
EXTENDS HookPipeline
=============================================================================
