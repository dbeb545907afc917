------------------------------ MODULE MockCore ------------------------------
(***************************************************************************)
(* MockCore (mocks/core-mock/src/lib.rs): the VpnCore without a process.   *)
(* The state has one writer, the caller; what makes it more than a flag is *)
(* that emit_state stores the state and then sends it, under two locks,    *)
(* and that a host follows the core by these events.  Log lines are left   *)
(* out.                                                                    *)
(***************************************************************************)
EXTENDS Naturals, Sequences

CONSTANT MaxEvents    \* no call is made once this many events were sent

VARIABLES
  state,    \* Arc<Mutex<ConnectionState>>
  events,   \* the StateChanged events sent, by their state
  rxHeld,   \* event_rx still holds the receiver
  todo,     \* the states the call under way still has to emit
  sending,  \* the head of todo is stored and not yet sent
  next,     \* "start" or "bad start" when a restart has its start to come
  ret       \* what the last call returned; "busy" during a call

vars == <<state, events, rxHeld, todo, sending, next, ret>>

States == {"Disconnected", "Connecting", "Connected", "Disconnecting"}
IsActive(s) == s \in {"Connecting", "Connected", "Disconnecting"}
Idle == todo = <<>> /\ next = "none"

TypeOK ==
  /\ state \in States /\ events \in Seq(States) /\ todo \in Seq(States)
  /\ sending \in BOOLEAN /\ rxHeld \in BOOLEAN
  /\ sending => todo # <<>> /\ state = Head(todo)
  /\ next \in {"none", "start", "bad start"}
  /\ ret \in {"none", "busy", "Some", "Ok", "InvalidConfiguration", "AlreadyConnected",
              "NotConnected"}

Init ==
  /\ state = "Disconnected" /\ events = <<>> /\ rxHeld = TRUE
  /\ todo = <<>> /\ sending = FALSE /\ next = "none" /\ ret = "none"

\* Either the call returns at once or it has these states to emit.
Run(guard, error, states) ==
  IF guard THEN todo' = states /\ ret' = "busy" ELSE todo' = <<>> /\ ret' = error

CanCall == Idle /\ Len(events) < MaxEvents

StartWith(emptyPath) ==
  /\ IF emptyPath
       THEN Run(FALSE, "InvalidConfiguration", <<>>)
       ELSE Run(~IsActive(state), "AlreadyConnected", <<"Connecting", "Connected">>)
  /\ UNCHANGED <<state, events, rxHeld, sending>>

Start == \E emptyPath \in BOOLEAN : CanCall /\ StartWith(emptyPath) /\ UNCHANGED next

StopBody == Run(IsActive(state), "NotConnected", <<"Disconnecting", "Disconnected">>)

Stop == CanCall /\ StopBody /\ UNCHANGED <<state, events, rxHeld, sending, next>>

\* Unlike stop, kill does not pass through Disconnecting.
Kill ==
  /\ CanCall /\ Run(IsActive(state), "NotConnected", <<"Disconnected">>)
  /\ UNCHANGED <<state, events, rxHeld, sending, next>>

\* The default VpnCore::restart: stop if active, then start.
Restart ==
  /\ CanCall
  /\ next' \in {"start", "bad start"}
  /\ IF IsActive(state) THEN StopBody ELSE UNCHANGED <<todo, ret>>
  /\ UNCHANGED <<state, events, rxHeld, sending>>

RestartStart ==
  /\ todo = <<>> /\ next # "none"
  /\ StartWith(next = "bad start") /\ next' = "none"

Subscribe ==
  /\ CanCall
  /\ ret' = IF rxHeld THEN "Some" ELSE "none"
  /\ rxHeld' = FALSE
  /\ UNCHANGED <<state, events, todo, sending, next>>

\* A slip: storing the final state of a call and telling no one.
EmitSilently ==
  /\ todo # <<>> /\ ~sending
  /\ state' = Head(todo)
  /\ IF Len(todo) = 1 THEN todo' = <<>> /\ ret' = "Ok" /\ UNCHANGED sending
                      ELSE sending' = TRUE /\ UNCHANGED <<todo, ret>>
  /\ UNCHANGED <<events, rxHeld, next>>

\* A slip: skipping the state that announces the transition.
EmitLast ==
  /\ todo # <<>> /\ ~sending
  /\ state' = todo[Len(todo)] /\ sending' = TRUE
  /\ todo' = <<todo[Len(todo)]>>
  /\ UNCHANGED <<events, rxHeld, next, ret>>

EmitStore ==
  /\ todo # <<>> /\ ~sending
  /\ state' = Head(todo) /\ sending' = TRUE
  /\ UNCHANGED <<events, rxHeld, todo, next, ret>>

EmitSend ==
  /\ sending
  /\ events' = Append(events, Head(todo))
  /\ sending' = FALSE /\ todo' = Tail(todo)
  /\ ret' = IF Tail(todo) = <<>> /\ next = "none" THEN "Ok" ELSE ret
  /\ UNCHANGED <<state, rxHeld, next>>

Working == RestartStart \/ EmitStore \/ EmitSend
Next == Start \/ Stop \/ Kill \/ Restart \/ Subscribe \/ Working

\* A call under way goes on.
Spec == Init /\ [][Next]_vars /\ WF_vars(Working)

-----------------------------------------------------------------------------

\* core-mock/src/lib.rs:11: hosts receive the state and event shapes of a real
\* core.  A host that follows the events knows the state, except between the
\* store and the send of one, and never sees a jump: successive events are
\* successive states of the lifecycle.
EventsFollowTheCore ==
  LET seen == <<"Disconnected">> \o events
  IN  /\ ~sending => seen[Len(seen)] = state
      /\ \A i \in DOMAIN events :
           <<seen[i], seen[i + 1]>> \in
             { <<"Disconnected", "Connecting">>, <<"Connecting", "Connected">>,
               <<"Connected", "Disconnecting">>, <<"Disconnecting", "Disconnected">>,
               <<"Connected", "Disconnected">> }

\* The mock keeps the contract of the VpnCore trait; its engine is the state
\* itself.
Contract == INSTANCE VpnCore WITH engine <- state \in {"Connected", "Disconnecting"}
ImplementsContract == Contract!Spec

=============================================================================
