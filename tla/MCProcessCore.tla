---------------------------- MODULE MCProcessCore ----------------------------
(* Instances of ProcessCore for TLC. *)
EXTENDS ProcessCore, TLC

\* Processes differ by name only.  Used by the runs without liveness.
ProcSymmetry == Permutations(Procs)

=============================================================================
