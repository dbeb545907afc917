---------------------------- MODULE MCSlotChain ----------------------------
(* Instances of SlotChain for TLC. *)
EXTENDS DomainSlot
=============================================================================
