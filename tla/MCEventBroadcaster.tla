------------------------- MODULE MCEventBroadcaster -------------------------
(* Instances of EventBroadcaster for TLC. *)
EXTENDS EventBroadcaster, TLC

\* Publishers and clients differ by name only.  Used without liveness.
ThreadSymmetry == Permutations(Publishers) \cup Permutations(Clients)

=============================================================================
