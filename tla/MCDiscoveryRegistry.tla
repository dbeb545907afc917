------------------------- MODULE MCDiscoveryRegistry -------------------------
(* Instances of DiscoveryRegistry for TLC. *)
EXTENDS DiscoveryRegistry
=============================================================================
