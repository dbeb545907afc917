------------------------------ MODULE VpnCore ------------------------------
(***************************************************************************)
(* What an embedder of the VpnCore trait may rely on: the lifecycle that   *)
(* domain/src/types.rs documents for ConnectionState, related to whether   *)
(* an engine is under the core's control.  "Disconnected" means that there *)
(* is none, a "Connecting" or "Disconnecting" core is on its way           *)
(* somewhere, and an engine that dies while "Connected" is noticed.        *)
(* ProcessCore is shown to implement it.                                   *)
(***************************************************************************)

VARIABLES
  state,    \* what status() returns
  engine    \* TRUE while the core has an engine

vars == <<state, engine>>

States == {"Disconnected", "Connecting", "Connected", "Disconnecting"}

\* The types of the variables (ConnectionState).
TypeOK == state \in States /\ engine \in BOOLEAN

Init == state = "Disconnected" /\ engine = FALSE

BeginStart ==
  /\ state = "Disconnected" /\ ~engine
  /\ state' = "Connecting"
  /\ UNCHANGED engine

\* The engine exists but the core has not yet said so.
Launch ==
  /\ state = "Connecting" /\ ~engine
  /\ engine' = TRUE
  /\ UNCHANGED state

FinishStart ==
  /\ state = "Connecting"
  /\ state' = "Connected" /\ engine' = TRUE

FailStart ==
  /\ state = "Connecting" /\ ~engine
  /\ state' = "Disconnected"
  /\ UNCHANGED engine

BeginStop ==
  /\ state = "Connected" /\ engine
  /\ state' = "Disconnecting"
  /\ UNCHANGED engine

\* The engine ends, on its own or because it was told to; the core may take
\* another step to say so.
End ==
  /\ state \in {"Connected", "Disconnecting"} /\ engine
  /\ engine' = FALSE
  /\ state' \in {state, "Disconnected"}

NoteEnd ==
  /\ state \in {"Connected", "Disconnecting"} /\ ~engine
  /\ state' = "Disconnected"
  /\ UNCHANGED engine

Next ==
  BeginStart \/ Launch \/ FinishStart \/ FailStart \/ BeginStop \/ End \/ NoteEnd

SafetySpec == Init /\ [][Next]_vars

\* A start or stop under way is not abandoned, and an engine's end is noticed.
Spec ==
  /\ SafetySpec
  /\ WF_vars(Launch \/ FinishStart \/ FailStart)
  /\ WF_vars(state = "Disconnecting" /\ (End \/ NoteEnd))
  /\ WF_vars(NoteEnd)

=============================================================================
