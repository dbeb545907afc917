---------------------------- MODULE HookPipeline ----------------------------
(***************************************************************************)
(* The operation pipeline of the domain crate (domain/src/pipeline.rs):    *)
(* wrap hooks around a hook runner around one handler.  execute() hands    *)
(* the input to the first wrap; a wrap calls the rest of the chain as      *)
(* often as it likes, with the input it likes, and returns what it likes;  *)
(* below the last wrap the hook runner calls the before hooks, the         *)
(* handler, and the after hooks or the on_error hooks.  What hooks, wraps  *)
(* and the handler do is theirs: every choice the signatures leave them    *)
(* is taken.                                                               *)
(***************************************************************************)
EXTENDS Naturals, Sequences

CONSTANTS
  Hooks,      \* number of hooks pushed
  Wraps,      \* number of wraps pushed
  Inputs,     \* values of the input
  MaxCalls    \* bound on the calls a wrap makes of the rest of the chain

NoInput == "none"

ASSUME ConstantsAssumption ==
  Hooks \in Nat /\ Wraps \in Nat /\ MaxCalls \in Nat /\ NoInput \notin Inputs

\* Errors, by who made them: the wraps, a hook by its number, the handler.
ByWrap == 0
ByHandler == Hooks + 1
Ok == Hooks + 2
Pending == Hooks + 3          \* no outcome yet
Outcomes == ByWrap..Ok

VARIABLES
  stack,     \* the wraps being executed, outermost first: [input, calls, got]
  phase,     \* what the top of the stack does
  next,      \* the hook whose turn it is
  input,     \* HookRunner::handle: `input`, which hooks rewrite
  snap,      \* HookRunner::handle: `snap`
  error,     \* HookRunner::handle: the error being reported
  calls,     \* ghost: the calls this execution of the hook runner has made
  result     \* what execute() returned

runner == <<next, input, snap, error, calls>>
vars == <<stack, phase, runner, result>>

Call == [what : {"before", "handle", "after", "on_error"}, hook : 1..Hooks + 1, with : Inputs]
Frame == [input : Inputs, calls : 0..MaxCalls, got : Outcomes \cup {Pending}]

\* The types of the variables; the hook runner runs under all the wraps.
TypeOK ==
  /\ stack \in Seq(Frame) /\ Len(stack) <= Wraps
  /\ phase \in {"ready", "wrap", "before", "handle", "after", "on_error", "done"}
  /\ phase \in {"before", "handle", "after", "on_error"} => Len(stack) = Wraps
  /\ next \in 0..Hooks + 1
  /\ input \in Inputs /\ snap \in Inputs \cup {NoInput}
  /\ error \in Outcomes
  /\ calls \in Seq(Call)
  /\ result \in Outcomes \cup {Pending}

Init ==
  /\ stack = <<>> /\ phase = "ready"
  /\ next = 0 /\ input \in Inputs /\ snap = NoInput /\ error = Ok
  /\ calls = <<>> /\ result = Pending

Called(what, hook, with) == Append(calls, [what |-> what, hook |-> hook, with |-> with])
Top == stack[Len(stack)]
OnTop(frame) == [stack EXCEPT ![Len(stack)] = frame]

\* The hook runner starts with an input of its own.
RunHooks(i) ==
  /\ phase' = "before" /\ next' = 1
  /\ input' = i /\ snap' = NoInput /\ error' = Ok /\ calls' = <<>>

\* WrapCursor::handle: the head of the remaining wraps, or the hook runner.
Descend(frames, i) ==
  IF Len(frames) < Wraps
    THEN /\ stack' = Append(frames, [input |-> i, calls |-> 0, got |-> Pending])
         /\ phase' = "wrap" /\ UNCHANGED runner
    ELSE stack' = frames /\ RunHooks(i)

\* What was called returns to the wrap around it, or to execute()'s caller.
Return(frames, outcome) ==
  IF frames = <<>>
    THEN stack' = frames /\ phase' = "done" /\ result' = outcome
    ELSE /\ stack' = [frames EXCEPT ![Len(frames)].got = outcome]
         /\ phase' = "wrap" /\ UNCHANGED result

-----------------------------------------------------------------------------
(* execute and the wraps *)

Execute ==
  /\ phase = "ready"
  /\ Descend(stack, input)
  /\ UNCHANGED result

\* A wrap calls next.handle, the first time or again.
WrapCalls(i) ==
  /\ phase = "wrap" /\ Top.calls < MaxCalls
  /\ Descend(OnTop([Top EXCEPT !.calls = @ + 1, !.got = Pending]), i)
  /\ UNCHANGED result

\* A wrap returns: what it got, or something of its own.
WrapReturns(outcome) ==
  /\ phase = "wrap" /\ outcome \in {Ok, ByWrap, Top.got} \ {Pending}
  /\ Return(SubSeq(stack, 1, Len(stack) - 1), outcome)
  /\ UNCHANGED runner

-----------------------------------------------------------------------------
(* HookRunner::handle *)

\* A before hook accepts, and may have rewritten the input.
Before(rewritten) ==
  /\ phase = "before" /\ next <= Hooks
  /\ calls' = Called("before", next, input)
  /\ input' = rewritten /\ next' = next + 1
  /\ UNCHANGED <<stack, phase, snap, error, result>>

\* A slip: a rejection is reported from the hook that made it.
BeforeRejectsMidway(rewritten) ==
  /\ phase = "before" /\ next <= Hooks
  /\ calls' = Called("before", next, input)
  /\ input' = rewritten /\ error' = next /\ phase' = "on_error"
  /\ UNCHANGED <<stack, next, snap, result>>

\* A before hook rejects: the on_error hooks get the input as it left it.
BeforeRejects(rewritten) ==
  /\ phase = "before" /\ next <= Hooks
  /\ calls' = Called("before", next, input)
  /\ input' = rewritten /\ error' = next
  /\ phase' = "on_error" /\ next' = 1
  /\ UNCHANGED <<stack, snap, result>>

\* A slip: a snapshot of the input as the caller passed it.
SnapshotOfCaller ==
  /\ phase = "before" /\ next = Hooks + 1
  /\ snap' = IF calls = <<>> THEN input ELSE calls[1].with
  /\ phase' = "handle"
  /\ UNCHANGED <<stack, next, input, error, calls, result>>

Snapshot ==
  /\ phase = "before" /\ next = Hooks + 1
  /\ snap' = input
  /\ phase' = "handle"
  /\ UNCHANGED <<stack, next, input, error, calls, result>>

HandlerOk ==
  /\ phase = "handle"
  /\ calls' = Called("handle", Hooks + 1, input)
  /\ phase' = "after" /\ next' = Hooks
  /\ UNCHANGED <<stack, input, snap, error, result>>

HandlerFails ==
  /\ phase = "handle"
  /\ calls' = Called("handle", Hooks + 1, input)
  /\ error' = ByHandler /\ phase' = "on_error" /\ next' = 1
  /\ UNCHANGED <<stack, input, snap, result>>

After ==
  /\ phase = "after" /\ next > 0
  /\ calls' = Called("after", next, snap)
  /\ next' = next - 1
  /\ UNCHANGED <<stack, phase, input, snap, error, result>>

AfterRejects ==
  /\ phase = "after" /\ next > 0
  /\ calls' = Called("after", next, snap)
  /\ error' = next /\ phase' = "on_error" /\ next' = 1
  /\ UNCHANGED <<stack, input, snap, result>>

AfterDone ==
  /\ phase = "after" /\ next = 0
  /\ Return(stack, Ok)
  /\ UNCHANGED runner

OnError ==
  /\ phase = "on_error" /\ next <= Hooks
  /\ calls' = Called("on_error", next, IF snap = NoInput THEN input ELSE snap)
  /\ next' = next + 1
  /\ UNCHANGED <<stack, phase, input, snap, error, result>>

OnErrorDone ==
  /\ phase = "on_error" /\ next = Hooks + 1
  /\ Return(stack, error)
  /\ UNCHANGED runner

Next ==
  \/ Execute \/ Snapshot \/ HandlerOk \/ HandlerFails \/ After \/ AfterRejects
  \/ AfterDone \/ OnError \/ OnErrorDone
  \/ \E i \in Inputs : WrapCalls(i) \/ Before(i) \/ BeforeRejects(i)
  \/ \E o \in Outcomes : WrapReturns(o)

Spec == Init /\ [][Next]_vars

-----------------------------------------------------------------------------
(* Properties *)

Made(call, what, hook) == call.what = what /\ call.hook = hook

\* The calls in s, in their order: b before hooks from the first on, h of the
\* handler, a after hooks from the last back, and e on_error hooks from the first on.
Ran(s, b, h, a, e) ==
  /\ Len(s) = b + h + a + e
  /\ \A k \in 1..b : Made(s[k], "before", k)
  /\ \A k \in 1..h : Made(s[b + k], "handle", Hooks + 1)
  /\ \A k \in 1..a : Made(s[b + h + k], "after", Hooks + 1 - k)
  /\ \A k \in 1..e : Made(s[b + h + a + k], "on_error", k)

Finishes == (phase = "after" /\ next = 0) \/ (phase = "on_error" /\ next = Hooks + 1)

\* The phase contract of Hook: when the hook runner is about to return, the
\* calls it has made are those the contract allows and in its order: the before
\* hooks up to the one that rejected, the handler only if none did, the after
\* hooks from the last back to the one that rejected, and on failure every
\* on_error hook, once, whichever hook or handler failed.
PhaseContract ==
  Finishes =>
    \/ error = Ok /\ Ran(calls, Hooks, 1, Hooks, 0)
    \/ error = ByHandler /\ Ran(calls, Hooks, 1, 0, Hooks)
    \/ /\ error \in 1..Hooks
       /\ \/ Ran(calls, error, 0, 0, Hooks)
          \/ Ran(calls, Hooks, 1, Hooks + 1 - error, Hooks)

\* What after and on_error hooks are shown is what the handler was given: no
\* earlier state of the input reaches them, and no other run's.
HooksSeeTheHandlersInput ==
  \A h, n \in 1..Len(calls) :
    calls[h].what = "handle" /\ calls[n].what \in {"after", "on_error"} =>
      calls[n].with = calls[h].with

=============================================================================
