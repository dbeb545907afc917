----------------------------- MODULE DomainSlot -----------------------------
(***************************************************************************)
(* The slot chain as the domain and the IPC server use it                  *)
(* (domain/src/traits/plugin_slot.rs, extension_slots/ipc/src/             *)
(* slot_observer.rs): one plugin of the domain behind an adapter, whose    *)
(* errors cross the boundary to the runtime and back, and an observer that *)
(* publishes a notification for each observation unless broadcasting is    *)
(* switched off, which another thread may do at any time.                  *)
(*                                                                         *)
(* The chain itself is SlotChain's.  A chain that the registry of the      *)
(* runtime runs has none of this.                                          *)
(***************************************************************************)
EXTENDS SlotChain

CONSTANTS
  Callers,    \* who may run the chain: "registry", "domain"
  Raised      \* the variants of VpnError a plugin of the domain may fail with

VARIABLES
  caller,     \* who runs this chain
  enabled,    \* BroadcastingSlotObserver.broadcast_enabled
  watched,    \* whether it has been enabled from the chain's beginning on
  notes,      \* what was published to the broadcaster
  raised,     \* the errors the plugin has failed with
  failure     \* the VpnError the domain's caller gets, once it does

bridge == <<caller, enabled, watched, notes, raised, failure>>

----------------------------------------------------------------------------
(* VpnError and its classifications.                                       *)

VpnErrors == {"InvalidConfiguration", "ProcessStartFailed", "ProcessStopFailed",
              "ProcessKillFailed", "AlreadyConnected", "NotConnected", "PrerequisiteMissing",
              "StorageError", "ValidationError", "CoreNotFound", "PermissionDenied",
              "OutboundNotFound", "Cancelled", "Unknown"}

ASSUME RaisedAssumption == Raised \subseteq VpnErrors

Recoverable(error) ==
  error \notin {"InvalidConfiguration", "AlreadyConnected", "NotConnected",
                "PrerequisiteMissing", "ValidationError", "CoreNotFound"}

\* host_failure_from_vpn_error: the code of a failure is that of the error, here
\* named like its variant; "invalid_input" is the runtime's own.
HostCode(error) == error

\* vpn_error_from_host_failure.
FromHost(code) == IF code = "invalid_input" THEN "InvalidConfiguration" ELSE "Unknown"

----------------------------------------------------------------------------

\* The plans of a domain chain: a chain calls the plugin in every phase, and
\* run_slot_phase in one.
SinglePlans ==
  {[p \in 1..3 |-> IF p \in ps THEN <<"Pipeline">> ELSE <<>>] : ps \in {1..3, {1}, {2}, {3}}}

DomainInit ==
  /\ Init
  /\ caller \in Callers
  /\ caller = "domain" => bindings \in SinglePlans
  /\ enabled \in IF caller = "domain" THEN BOOLEAN ELSE {TRUE}
  /\ watched = enabled
  /\ notes = <<>> /\ raised = <<>> /\ failure = "none"

\* What the listeners are sent: the method's name, and the parameters that tell
\* one transition from another.
Note(seen) ==
  [method |-> seen.event, phase |-> seen.phase, error |-> seen.event \in {"Error", "SuppressedError"}]

\* A slip: a plugin that changed nothing is not worth a notification.
PublishChanges ==
  notes' = IF enabled /\ observed' # observed
              /\ observed'[Len(observed')].event \notin {"Unchanged", "Unhandled"}
           THEN Append(notes, Note(observed'[Len(observed')])) ELSE notes

\* BroadcastingSlotObserver::observe, called with what the chain observes.
Publish ==
  notes' = IF enabled /\ observed' # observed
           THEN Append(notes, Note(observed'[Len(observed')])) ELSE notes

\* The runtime refuses a malformed slot, before there is a chain, or cannot
\* encode the payload.
Refuse ==
  /\ caller = "domain" /\ result = "running" /\ answers = <<>> /\ ~entered /\ phase = 1
  /\ result' = "Err" /\ failure' = FromHost("invalid_input")
  /\ UNCHANGED <<bindings, phase, index, entered, payload, handled, anyHandled, answers,
                 observed, caller, enabled, watched, notes, raised>>

CannotEncode ==
  /\ caller = "domain" /\ CannotCall
  /\ failure' = FromHost("invalid_input")
  /\ UNCHANGED <<caller, enabled, watched, notes, raised>>

DomainCall ==
  /\ caller = "domain" /\ Call /\ Publish
  /\ UNCHANGED <<caller, enabled, watched, raised, failure>>

\* The plugin of the domain fails: its error goes through both conversions.
DomainError(error) ==
  /\ caller = "domain" /\ Answer("Err") /\ Publish
  /\ raised' = Append(raised, error)
  /\ failure' = FromHost(HostCode(error))
  /\ UNCHANGED <<caller, enabled, watched>>

DomainAnswer(answer) ==
  /\ caller = "domain" /\ answer # "Err" /\ Answer(answer) /\ Publish
  /\ failure' = IF result' = "Err" THEN FromHost("plugin_error") ELSE failure
  /\ UNCHANGED <<caller, enabled, watched, raised>>

DomainEnd ==
  /\ caller = "domain" /\ (NextPhase \/ Finish)
  /\ UNCHANGED bridge

\* set_broadcast_enabled, from any thread.
SetBroadcastEnabled ==
  /\ caller = "domain" /\ result = "running"
  /\ enabled' = ~enabled /\ watched' = FALSE
  /\ UNCHANGED vars /\ UNCHANGED <<caller, notes, raised, failure>>

RegistryStep == caller = "registry" /\ Next /\ UNCHANGED bridge

DomainNext ==
  \/ RegistryStep
  \/ Refuse \/ CannotEncode \/ DomainCall \/ DomainEnd
  \/ \E error \in Raised : DomainError(error)
  \/ \E answer \in Answers : DomainAnswer(answer)
  \/ SetBroadcastEnabled

DomainSpec == DomainInit /\ [][DomainNext]_<<vars, bridge>>

----------------------------------------------------------------------------
(* Properties *)

Took(note) == note.method \in {"Unchanged", "Continue", "Halt"}

\* What a listener concludes from the notifications of a chain.
Replayed ==
  IF notes # <<>> /\ notes[Len(notes)].method \in {"Error", "Enter"} THEN "Err"
  ELSE IF \E i \in DOMAIN notes : Took(notes[i]) THEN "Some" ELSE "None"

\* slot_observer.rs: "a listener can replay phase transitions without needing a
\* side channel".  With broadcasting on throughout, the notifications of a chain
\* tell how it ended; the only failures they do not show are those in which the
\* plugin was not called.  They are published in order, and never for a plugin
\* that was not called.
NotesReplayTheChain ==
  /\ result # "running" /\ caller = "domain" /\ watched =>
       \/ result = Replayed
       \/ failure = "InvalidConfiguration" /\ Len(answers) * 2 = Len(notes)
  /\ Len(notes) <= Len(observed)
  /\ \A i, j \in DOMAIN notes : i < j => notes[i].phase <= notes[j].phase

----------------------------------------------------------------------------
(* What the code does not do *)

\* VpnError::recoverable tells the client whether to offer a retry; what a plugin
\* says in that respect does not reach the client.
RecoverabilitySurvives ==
  raised # <<>> /\ failure # "none" => Recoverable(failure) = Recoverable(raised[Len(raised)])

=============================================================================
