------------------------------ MODULE CoreHost ------------------------------
(***************************************************************************)
(* A host with a registry of cores, of which two are modelled with what    *)
(* they do: the mock core, step by step, and the sing-box core             *)
(* (cores/core-singbox/src/lib.rs), which hands every call to a            *)
(* ProcessCore of its own and so is taken at that core's contract.         *)
(*                                                                         *)
(* Calls go to active_core() or, by name, to any core get_core() gives.    *)
(* Both borrow the registry: while a call is under way nothing else is     *)
(* done with it or with another core.  The sing-box core's process and     *)
(* reaper go on whichever core is active.                                  *)
(***************************************************************************)
EXTENDS CoreRegistry, Sequences

CONSTANTS
  MockType, SingboxType,    \* their core types
  MaxEvents                 \* bound on the events of the mock core

ASSUME HostAssumption ==
  MockType \in CoreTypes /\ SingboxType \in CoreTypes /\ MaxEvents \in Nat

VARIABLES
  replaced,                                             \* types registered again
  state, events, rxHeld, todo, sending, next, ret,      \* the mock core
  inner, engine                                         \* the sing-box core

mockVars == <<state, events, rxHeld, todo, sending, next, ret>>
innerVars == <<inner, engine>>
hostVars == <<vars, replaced, mockVars, innerVars>>

Mock == INSTANCE MockCore
Singbox == INSTANCE VpnCore WITH state <- inner

HostInit == Init /\ replaced = {} /\ Mock!Init /\ Singbox!Init

\* get_core(t), or active_core() if t is the active type, is the first instance of
\* type t that was registered.
Reached(t) == t \in DOMAIN cores /\ t \notin replaced

\* A call on a core is under way.
Borrowed == ~Mock!Idle \/ inner \in {"Connecting", "Disconnecting"}

\* Registering a type again drops the core that was there, running or not.
RegistryCall ==
  /\ ~Borrowed
  /\ Next
  /\ replaced' = replaced \cup { t \in DOMAIN cores : cores'[t] # cores[t] }
  /\ UNCHANGED <<mockVars, innerVars>>

MockCall ==
  /\ Reached(MockType) /\ ~Borrowed
  /\ Mock!Start \/ Mock!Stop \/ Mock!Kill \/ Mock!Restart \/ Mock!Subscribe
  /\ UNCHANGED <<vars, replaced, innerVars>>

MockWorks == Mock!Working /\ UNCHANGED <<vars, replaced, innerVars>>

SingboxCall ==
  /\ Reached(SingboxType) /\ ~Borrowed
  /\ Singbox!BeginStart \/ Singbox!BeginStop
  /\ UNCHANGED <<vars, replaced, mockVars>>

SingboxWorks ==
  /\ SingboxType \notin replaced
  /\ Singbox!Launch \/ Singbox!FinishStart \/ Singbox!FailStart \/ Singbox!End \/ Singbox!NoteEnd
  /\ UNCHANGED <<vars, replaced, mockVars>>

HostNext == RegistryCall \/ MockCall \/ MockWorks \/ SingboxCall \/ SingboxWorks

\* A call under way goes on.
HostSpec == HostInit /\ [][HostNext]_hostVars /\ WF_hostVars(MockWorks)

-----------------------------------------------------------------------------
(* Properties *)

\* core-mock/src/lib.rs: whatever the host does with the registry in between, it
\* knows the mock core from its events.
MockTellsItsState == Mock!EventsFollowTheCore

\* core-mock/src/lib.rs: the mock core, too, keeps the contract of the VpnCore
\* trait, also when it is passed over for another core while it is running.
MockKeepsTheContract == Mock!ImplementsContract

-----------------------------------------------------------------------------
(* What one might expect and the code does not do *)

\* A core that is running can be stopped: get_core still finds it, ...
RunningIsReachable == state = "Connected" => Reached(MockType)

\* ... and it is the active one or can be made so, for a host that only knows the
\* active core.
RunningIsActivable == state = "Connected" => active = MockType \/ Switchable(MockType)

=============================================================================
