------------------------- MODULE HookPipelineProofs -------------------------
(***************************************************************************)
(* Proofs about HookPipeline: the phase contract, for any number of hooks  *)
(* and wraps.                                                              *)
(*                                                                         *)
(* The contract is about the end of a run of the hooks; Script says how    *)
(* far its calls have come in every phase, and Shown what the handler was  *)
(* given when it is no longer in `input'.                                  *)
(***************************************************************************)
EXTENDS HookPipeline, SequenceTheorems, TLAPS

\* The calls made so far, by the phase.
Script ==
  /\ phase = "before" => error = Ok /\ next \in 1..Hooks + 1 /\ Ran(calls, next - 1, 0, 0, 0)
  /\ phase = "handle" => error = Ok /\ Ran(calls, Hooks, 0, 0, 0)
  /\ phase = "after" => error = Ok /\ next \in 0..Hooks /\ Ran(calls, Hooks, 1, Hooks - next, 0)
  /\ phase = "on_error" =>
       /\ next \in 1..Hooks + 1
       /\ \/ error = ByHandler /\ snap # NoInput /\ Ran(calls, Hooks, 1, 0, next - 1)
          \/ /\ error \in 1..Hooks
             /\ \/ snap = NoInput /\ Ran(calls, error, 0, 0, next - 1)
                \/ snap # NoInput /\ Ran(calls, Hooks, 1, Hooks + 1 - error, next - 1)

\* The snapshot is taken of what the handler is given, and kept.
Shown ==
  /\ phase = "before" => snap = NoInput
  /\ phase = "handle" => snap = input
  /\ phase = "after" => snap # NoInput
  /\ phase \in {"after", "on_error"} =>
       \A h \in 1..Len(calls) : calls[h].what = "handle" => snap # NoInput /\ calls[h].with = snap

\* A wrap that runs is on the stack.
OnStack == phase = "wrap" => stack # <<>>

Inv == TypeOK /\ OnStack /\ Script /\ Shown /\ HooksSeeTheHandlersInput

-----------------------------------------------------------------------------
(* What one more call adds to the calls made *)

\* A call appended is the last of the calls, and the others stay.
LEMMA Appended ==
  ASSUME NEW s \in Seq(Call), NEW c \in Call
  PROVE  /\ Append(s, c) \in Seq(Call) /\ Len(Append(s, c)) = Len(s) + 1
         /\ \A k \in 1..Len(s) : Append(s, c)[k] = s[k]
         /\ Append(s, c)[Len(s) + 1] = c
OBVIOUS

\* No call, and nothing of any kind.
LEMMA RanNothing == Ran(<<>>, 0, 0, 0, 0)
BY DEF Ran

\* One more before hook.
LEMMA RanBefore ==
  ASSUME NEW s \in Seq(Call), NEW c \in Call, NEW b \in Nat,
         Ran(s, b, 0, 0, 0), Made(c, "before", b + 1)
  PROVE  Ran(Append(s, c), b + 1, 0, 0, 0)
BY Appended DEF Ran

\* The handler, behind all before hooks.
LEMMA RanHandler ==
  ASSUME NEW s \in Seq(Call), NEW c \in Call, NEW b \in Nat,
         Ran(s, b, 0, 0, 0), Made(c, "handle", Hooks + 1)
  PROVE  Ran(Append(s, c), b, 1, 0, 0)
BY Appended DEF Ran

\* One more after hook.
LEMMA RanAfter ==
  ASSUME NEW s \in Seq(Call), NEW c \in Call, NEW b \in Nat, NEW h \in Nat, NEW a \in Nat,
         Ran(s, b, h, a, 0), Made(c, "after", Hooks - a)
  PROVE  Ran(Append(s, c), b, h, a + 1, 0)
<1> DEFINE t == Append(s, c)
<1>1. Len(s) = b + h + a /\ Len(t) = b + h + (a + 1) + 0 /\ t[b + h + (a + 1)] = c
      /\ \A k \in 1..Len(s) : t[k] = s[k]
  BY Appended DEF Ran
<1> HIDE DEF t
<1>2. /\ \A k \in 1..b : t[k] = s[k]
      /\ \A k \in 1..h : t[b + k] = s[b + k]
      /\ \A k \in 1..a : t[b + h + k] = s[b + h + k]
  BY <1>1
<1>3. \A k \in 1..a + 1 : k \in 1..a \/ k = a + 1
  OBVIOUS
<1>4. Hooks - a = Hooks + 1 - (a + 1)
  BY ConstantsAssumption
<1>5. /\ \A k \in 1..b : Made(t[k], "before", k)
      /\ \A k \in 1..h : Made(t[b + k], "handle", Hooks + 1)
      /\ \A k \in 1..a : Made(t[b + h + k], "after", Hooks + 1 - k)
  BY <1>2 DEF Ran
<1>6. \A k \in 1..a + 1 : Made(t[b + h + k], "after", Hooks + 1 - k)
  BY <1>1, <1>3, <1>4, <1>5
<1>7. Ran(t, b, h, a + 1, 0)
  BY <1>1, <1>5, <1>6 DEF Ran
<1> QED  BY <1>7 DEF t

\* One more on_error hook.
LEMMA RanOnError ==
  ASSUME NEW s \in Seq(Call), NEW c \in Call, NEW b \in Nat, NEW h \in Nat, NEW a \in Nat,
         NEW e \in Nat, Ran(s, b, h, a, e), Made(c, "on_error", e + 1)
  PROVE  Ran(Append(s, c), b, h, a, e + 1)
<1> DEFINE t == Append(s, c)
<1>1. Len(s) = b + h + a + e /\ Len(t) = b + h + a + (e + 1) /\ t[b + h + a + (e + 1)] = c
      /\ \A k \in 1..Len(s) : t[k] = s[k]
  BY Appended DEF Ran
<1> HIDE DEF t
<1>2. /\ \A k \in 1..b : t[k] = s[k]
      /\ \A k \in 1..h : t[b + k] = s[b + k]
      /\ \A k \in 1..a : t[b + h + k] = s[b + h + k]
      /\ \A k \in 1..e : t[b + h + a + k] = s[b + h + a + k]
  BY <1>1
<1>3. \A k \in 1..e + 1 : k \in 1..e \/ k = e + 1
  OBVIOUS
<1>4. /\ \A k \in 1..b : Made(t[k], "before", k)
      /\ \A k \in 1..h : Made(t[b + k], "handle", Hooks + 1)
      /\ \A k \in 1..a : Made(t[b + h + k], "after", Hooks + 1 - k)
      /\ \A k \in 1..e : Made(t[b + h + a + k], "on_error", k)
  BY <1>2 DEF Ran
<1>5. \A k \in 1..e + 1 : Made(t[b + h + a + k], "on_error", k)
  BY <1>1, <1>3, <1>4
<1>6. Ran(t, b, h, a, e + 1)
  BY <1>1, <1>4, <1>5 DEF Ran
<1> QED  BY <1>6 DEF t

\* Before hooks alone: nothing was shown to anybody.
LEMMA OnlyBefores ==
  ASSUME NEW s \in Seq(Call), NEW b \in Nat, Ran(s, b, 0, 0, 0)
  PROVE  \A k \in 1..Len(s) : s[k].what = "before"
BY DEF Ran, Made

-----------------------------------------------------------------------------
(* The initial state, and steps outside the hook runner *)

\* Init establishes the invariant.
LEMMA InitEstablishes == Init => Inv
<1> SUFFICES ASSUME Init  PROVE Inv
  OBVIOUS
<1>1. TypeOK
  BY ConstantsAssumption DEF Init, TypeOK, Outcomes, Ok, ByWrap, Pending
<1> QED
  BY <1>1 DEF Init, Inv, OnStack, Script, Shown, HooksSeeTheHandlersInput

\* A descent ends in the next wrap or in a fresh run of the hooks.
LEMMA DescendKeeps ==
  ASSUME Inv, NEW frames \in Seq(Frame), Len(frames) <= Wraps, NEW i \in Inputs,
         Descend(frames, i), result' = result
  PROVE  Inv'
<1> USE ConstantsAssumption
<1>1. CASE Len(frames) < Wraps
  <2>1. /\ stack' = Append(frames, [input |-> i, calls |-> 0, got |-> Pending])
        /\ phase' = "wrap" /\ UNCHANGED <<next, input, snap, error, calls>>
    BY <1>1 DEF Descend, runner
  <2>2. [input |-> i, calls |-> 0, got |-> Pending] \in Frame
    BY DEF Frame
  <2>3. stack' \in Seq(Frame) /\ Len(stack') = Len(frames) + 1 /\ stack' # <<>>
    BY <2>1, <2>2
  <2>4. TypeOK'
    BY <1>1, <2>1, <2>3 DEF Inv, TypeOK
  <2> QED
    BY <2>1, <2>3, <2>4 DEF Inv, OnStack, Script, Shown, HooksSeeTheHandlersInput
<1>2. CASE ~(Len(frames) < Wraps)
  <2>1. /\ stack' = frames /\ phase' = "before" /\ next' = 1
        /\ input' = i /\ snap' = NoInput /\ error' = Ok /\ calls' = <<>>
    BY <1>2 DEF Descend, RunHooks
  <2>2. TypeOK'
    BY <1>2, <2>1 DEF Inv, TypeOK, Outcomes, Ok, ByWrap
  <2>3. Script'
    BY <2>1, RanNothing DEF Script
  <2> QED
    BY <2>1, <2>2, <2>3 DEF Inv, OnStack, Shown, HooksSeeTheHandlersInput
<1> QED  BY <1>1, <1>2

\* A return ends in the wrap around, or in execute()'s caller.
LEMMA ReturnKeeps ==
  ASSUME Inv, NEW frames \in Seq(Frame), Len(frames) <= Wraps, NEW o \in Outcomes,
         Return(frames, o), UNCHANGED runner
  PROVE  Inv'
<1>1. UNCHANGED <<next, input, snap, error, calls>>
  BY DEF runner
<1>2. CASE frames = <<>>
  <2>1. stack' = <<>> /\ phase' = "done" /\ result' = o
    BY <1>2 DEF Return
  <2>2. TypeOK'
    BY <1>1, <1>2, <2>1 DEF Inv, TypeOK
  <2> QED
    BY <1>1, <2>1, <2>2 DEF Inv, OnStack, Script, Shown, HooksSeeTheHandlersInput
<1>3. CASE frames # <<>>
  <2>1. stack' = [frames EXCEPT ![Len(frames)].got = o] /\ phase' = "wrap" /\ result' = result
    BY <1>3 DEF Return
  <2>2. Len(frames) \in 1..Len(frames) /\ frames[Len(frames)] \in Frame
    BY <1>3
  <2>3. [frames[Len(frames)] EXCEPT !.got = o] \in Frame
    BY <2>2 DEF Frame
  <2>4. stack' \in Seq(Frame) /\ Len(stack') = Len(frames) /\ stack' # <<>>
    BY <1>3, <2>1, <2>2, <2>3
  <2>5. TypeOK'
    BY <1>1, <2>1, <2>4 DEF Inv, TypeOK
  <2> QED
    BY <1>1, <2>1, <2>4, <2>5 DEF Inv, OnStack, Script, Shown, HooksSeeTheHandlersInput
<1> QED  BY <1>2, <1>3

\* execute and the wraps: a wrap that calls, and a wrap that returns.
LEMMA WrapsKeep ==
  ASSUME Inv, \/ Execute
              \/ \E i \in Inputs : WrapCalls(i)
              \/ \E o \in Outcomes : WrapReturns(o)
  PROVE  Inv'
<1> USE ConstantsAssumption
<1>1. stack \in Seq(Frame) /\ Len(stack) <= Wraps /\ Len(stack) \in Nat
  BY DEF Inv, TypeOK
<1>2. CASE Execute
  <2>1. input \in Inputs /\ Descend(stack, input) /\ result' = result
    BY <1>2 DEF Execute, Inv, TypeOK
  <2> QED  BY <1>1, <2>1, DescendKeeps
<1>3. ASSUME NEW i \in Inputs, WrapCalls(i)  PROVE Inv'
  <2> DEFINE frame == [Top EXCEPT !.calls = @ + 1, !.got = Pending]
  <2>1. stack # <<>> /\ Top.calls < MaxCalls /\ Descend(OnTop(frame), i) /\ result' = result
    BY <1>3 DEF WrapCalls, Inv, OnStack
  <2>2. Len(stack) \in 1..Len(stack) /\ Top \in Frame
    BY <1>1, <2>1 DEF Top
  <2>3. frame \in Frame
    <3>1. Top.calls + 1 \in 0..MaxCalls
      BY <2>1, <2>2 DEF Frame
    <3> QED  BY <2>2, <3>1 DEF Frame
  <2>4. OnTop(frame) \in Seq(Frame) /\ Len(OnTop(frame)) = Len(stack)
    BY <1>1, <2>2, <2>3 DEF OnTop
  <2> QED  BY <1>1, <2>1, <2>4, DescendKeeps
<1>4. ASSUME NEW o \in Outcomes, WrapReturns(o)  PROVE Inv'
  <2> DEFINE below == SubSeq(stack, 1, Len(stack) - 1)
  <2>1. stack # <<>> /\ Return(below, o) /\ UNCHANGED runner
    BY <1>4 DEF WrapReturns, Inv, OnStack
  <2>2. below \in Seq(Frame) /\ Len(below) <= Wraps
    BY <1>1, <2>1
  <2> QED  BY <2>1, <2>2, ReturnKeeps
<1> QED  BY <1>2, <1>3, <1>4

-----------------------------------------------------------------------------
(* The hook runner *)

\* A before hook, whether it accepts or rejects.
LEMMA BeforeKeeps ==
  ASSUME Inv, NEW i \in Inputs, Before(i) \/ BeforeRejects(i)
  PROVE  Inv'
<1> USE ConstantsAssumption DEF Inv
<1> DEFINE c == [what |-> "before", hook |-> next, with |-> input]
<1>1. /\ phase = "before" /\ next <= Hooks /\ calls' = Append(calls, c) /\ input' = i
      /\ UNCHANGED <<stack, snap, result>>
  BY DEF Before, BeforeRejects, Called
<1>2. error = Ok /\ next \in 1..Hooks /\ Ran(calls, next - 1, 0, 0, 0) /\ snap = NoInput
  BY <1>1 DEF Script, Shown
<1>3. c \in Call /\ calls \in Seq(Call) /\ Made(c, "before", (next - 1) + 1) /\ next - 1 \in Nat
  BY <1>2 DEF Call, TypeOK, Made
<1>4. Ran(calls', next, 0, 0, 0) /\ calls' \in Seq(Call)
  <2>1. Ran(calls', (next - 1) + 1, 0, 0, 0)
    BY <1>1, <1>2, <1>3, RanBefore
  <2> QED  BY <1>1, <1>2, <1>3, <2>1
<1>5. \A k \in 1..Len(calls') : calls'[k].what = "before"
  BY <1>2, <1>4, OnlyBefores
<1>6. HooksSeeTheHandlersInput'
  BY <1>5 DEF HooksSeeTheHandlersInput
<1>7. CASE Before(i)
  <2>1. phase' = phase /\ error' = error /\ next' = next + 1
    BY <1>7 DEF Before
  <2>2. TypeOK'
    BY <1>1, <1>2, <1>4, <2>1 DEF TypeOK
  <2>3. Script'
    <3>1. Ran(calls', next' - 1, 0, 0, 0)
      BY <1>2, <1>4, <2>1
    <3> QED  BY <1>1, <1>2, <2>1, <3>1 DEF Script
  <2> QED  BY <1>1, <1>2, <1>6, <2>1, <2>2, <2>3 DEF OnStack, Shown
<1>8. CASE BeforeRejects(i)
  <2>1. phase' = "on_error" /\ error' = next /\ next' = 1
    BY <1>8 DEF BeforeRejects
  <2>2. TypeOK'
    BY <1>1, <1>2, <1>4, <2>1 DEF TypeOK, Outcomes, Ok, ByWrap
  <2>3. Script'
    <3>1. Ran(calls', error', 0, 0, next' - 1)
      BY <1>4, <2>1
    <3> QED  BY <1>1, <1>2, <2>1, <3>1 DEF Script
  <2>4. Shown'
    BY <1>5, <2>1 DEF Shown
  <2> QED  BY <1>6, <2>1, <2>2, <2>3, <2>4 DEF OnStack
<1> QED  BY <1>7, <1>8

\* The snapshot.
LEMMA SnapshotKeeps ==
  ASSUME Inv, Snapshot
  PROVE  Inv'
<1> USE ConstantsAssumption DEF Inv
<1>1. /\ phase = "before" /\ next = Hooks + 1 /\ snap' = input /\ phase' = "handle"
      /\ UNCHANGED <<stack, next, input, error, calls, result>>
  BY DEF Snapshot
<1>2. Ran(calls, Hooks, 0, 0, 0) /\ error = Ok
  <2>1. Ran(calls, next - 1, 0, 0, 0) /\ error = Ok
    BY <1>1 DEF Script
  <2>2. next - 1 = Hooks
    BY <1>1
  <2> QED  BY <2>1, <2>2
<1>3. TypeOK'
  BY <1>1 DEF TypeOK
<1> QED
  BY <1>1, <1>2, <1>3 DEF OnStack, Script, Shown, HooksSeeTheHandlersInput

\* The handler, whether it fails or not.
LEMMA HandlerKeeps ==
  ASSUME Inv, HandlerOk \/ HandlerFails
  PROVE  Inv'
<1> USE ConstantsAssumption DEF Inv
<1> DEFINE c == [what |-> "handle", hook |-> Hooks + 1, with |-> input]
<1>1. phase = "handle" /\ calls' = Append(calls, c) /\ UNCHANGED <<stack, input, snap, result>>
  BY DEF HandlerOk, HandlerFails, Called
<1>2. error = Ok /\ Ran(calls, Hooks, 0, 0, 0) /\ snap = input /\ input \in Inputs
  BY <1>1 DEF Script, Shown, TypeOK
<1>3. c \in Call /\ calls \in Seq(Call) /\ Made(c, "handle", Hooks + 1)
  BY <1>2 DEF Call, TypeOK, Made
<1>4. Ran(calls', Hooks, 1, 0, 0) /\ calls' \in Seq(Call)
  BY <1>1, <1>2, <1>3, RanHandler
<1>5. \A k \in 1..Len(calls) : calls[k].what = "before"
  BY <1>2, <1>3, OnlyBefores
<1>6. \A k \in 1..Len(calls') : IF k <= Len(calls) THEN calls'[k].what = "before" ELSE calls'[k] = c
  BY <1>1, <1>3, <1>5, Appended
<1>7. HooksSeeTheHandlersInput'
  BY <1>6 DEF HooksSeeTheHandlersInput
<1>8. \A k \in 1..Len(calls') : calls'[k].what = "handle" => snap' # NoInput /\ calls'[k].with = snap'
  BY <1>1, <1>2, <1>6
<1>9. CASE HandlerOk
  <2>1. phase' = "after" /\ next' = Hooks /\ error' = error
    BY <1>9 DEF HandlerOk
  <2>2. TypeOK'
    BY <1>1, <1>4, <2>1 DEF TypeOK
  <2>3. Script'
    <3>1. Ran(calls', Hooks, 1, Hooks - next', 0)
      BY <1>4, <2>1
    <3> QED  BY <1>2, <2>1, <3>1 DEF Script
  <2> QED  BY <1>1, <1>2, <1>7, <1>8, <2>1, <2>2, <2>3 DEF OnStack, Shown
<1>10. CASE HandlerFails
  <2>1. phase' = "on_error" /\ next' = 1 /\ error' = ByHandler
    BY <1>10 DEF HandlerFails
  <2>2. TypeOK'
    BY <1>1, <1>4, <2>1 DEF TypeOK, Outcomes, ByHandler, Ok, ByWrap
  <2>3. Script'
    <3>1. Ran(calls', Hooks, 1, 0, next' - 1)
      BY <1>4, <2>1
    <3> QED  BY <1>1, <1>2, <2>1, <3>1 DEF Script
  <2> QED  BY <1>1, <1>2, <1>7, <1>8, <2>1, <2>2, <2>3 DEF OnStack, Shown
<1> QED  BY <1>9, <1>10

\* A call that shows the snapshot keeps what was shown.
LEMMA ShowsSnapshot ==
  ASSUME NEW s \in Seq(Call), NEW c \in Call, c.what # "handle",
         \A h \in 1..Len(s) : s[h].what = "handle" => s[h].with = c.with,
         \A h, n \in 1..Len(s) :
           s[h].what = "handle" /\ s[n].what \in {"after", "on_error"} => s[n].with = s[h].with
  PROVE  \A h, n \in 1..Len(Append(s, c)) :
           Append(s, c)[h].what = "handle" /\ Append(s, c)[n].what \in {"after", "on_error"} =>
             Append(s, c)[n].with = Append(s, c)[h].with
<1> DEFINE t == Append(s, c)
<1>1. Len(s) \in Nat /\ \A k \in 1..Len(t) : (k \in 1..Len(s) /\ t[k] = s[k]) \/ t[k] = c
  BY Appended
<1> QED  BY <1>1

\* An after hook, whether it accepts or rejects.
LEMMA AfterKeeps ==
  ASSUME Inv, After \/ AfterRejects
  PROVE  Inv'
<1> USE ConstantsAssumption DEF Inv
<1> DEFINE c == [what |-> "after", hook |-> next, with |-> snap]
<1>1. /\ phase = "after" /\ next > 0 /\ calls' = Append(calls, c)
      /\ UNCHANGED <<stack, input, snap, result>>
  BY DEF After, AfterRejects, Called
<1>2. error = Ok /\ next \in 1..Hooks /\ Ran(calls, Hooks, 1, Hooks - next, 0)
      /\ snap \in Inputs /\ snap # NoInput
  BY <1>1 DEF Script, Shown, TypeOK
<1>3. c \in Call /\ calls \in Seq(Call) /\ Hooks - next \in Nat /\ Hooks - (Hooks - next) = next
  BY <1>2 DEF Call, TypeOK
<1>4. Ran(calls', Hooks, 1, Hooks + 1 - next, 0) /\ calls' \in Seq(Call)
  <2>1. Made(c, "after", Hooks - (Hooks - next))
    BY <1>3 DEF Made
  <2>2. Ran(calls', Hooks, 1, (Hooks - next) + 1, 0)
    BY <1>1, <1>2, <1>3, <2>1, RanAfter
  <2>3. (Hooks - next) + 1 = Hooks + 1 - next
    BY <1>2
  <2> QED  BY <1>1, <1>3, <2>2, <2>3
<1>5. \A h \in 1..Len(calls) : calls[h].what = "handle" => calls[h].with = snap
  BY <1>1 DEF Shown
<1>6. HooksSeeTheHandlersInput'
  BY <1>1, <1>3, <1>5, ShowsSnapshot DEF HooksSeeTheHandlersInput
<1>7. \A h \in 1..Len(calls') : calls'[h].what = "handle" => snap' # NoInput /\ calls'[h].with = snap'
  BY <1>1, <1>2, <1>3, <1>5, Appended
<1>8. CASE After
  <2>1. phase' = phase /\ next' = next - 1 /\ error' = error
    BY <1>8 DEF After
  <2>2. TypeOK'
    BY <1>1, <1>2, <1>4, <2>1 DEF TypeOK
  <2>3. Script'
    <3>1. Ran(calls', Hooks, 1, Hooks - next', 0)
      <4>1. Hooks - next' = Hooks + 1 - next
        BY <1>2, <2>1
      <4> QED  BY <1>4, <4>1
    <3> QED  BY <1>1, <1>2, <2>1, <3>1 DEF Script
  <2> QED  BY <1>1, <1>2, <1>6, <1>7, <2>1, <2>2, <2>3 DEF OnStack, Shown
<1>9. CASE AfterRejects
  <2>1. phase' = "on_error" /\ next' = 1 /\ error' = next
    BY <1>9 DEF AfterRejects
  <2>2. TypeOK'
    BY <1>1, <1>2, <1>4, <2>1 DEF TypeOK, Outcomes, Ok, ByWrap
  <2>3. Script'
    <3>1. Ran(calls', Hooks, 1, Hooks + 1 - error', next' - 1)
      BY <1>4, <2>1
    <3> QED  BY <1>1, <1>2, <2>1, <3>1 DEF Script
  <2> QED  BY <1>1, <1>2, <1>6, <1>7, <2>1, <2>2, <2>3 DEF OnStack, Shown
<1> QED  BY <1>8, <1>9

\* An on_error hook: the snapshot, if the handler was called, or the input.
LEMMA OnErrorKeeps ==
  ASSUME Inv, OnError
  PROVE  Inv'
<1> USE ConstantsAssumption DEF Inv
<1> DEFINE shown == IF snap = NoInput THEN input ELSE snap
           c == [what |-> "on_error", hook |-> next, with |-> shown]
<1>1. /\ phase = "on_error" /\ next <= Hooks /\ calls' = Append(calls, c) /\ next' = next + 1
      /\ UNCHANGED <<stack, phase, input, snap, error, result>>
  BY DEF OnError, Called
<1>2. next \in 1..Hooks
  BY <1>1 DEF Script
<1>3. c \in Call /\ calls \in Seq(Call) /\ Made(c, "on_error", (next - 1) + 1) /\ next - 1 \in Nat
  BY <1>2 DEF Call, TypeOK, Made
<1>4. \A h \in 1..Len(calls) : calls[h].what = "handle" => snap # NoInput /\ calls[h].with = snap
  BY <1>1 DEF Shown
<1>5. HooksSeeTheHandlersInput'
  BY <1>1, <1>3, <1>4, ShowsSnapshot DEF HooksSeeTheHandlersInput
<1>6. Shown'
  BY <1>1, <1>3, <1>4, Appended DEF Shown
<1>7. TypeOK'
  BY <1>1, <1>2, <1>3 DEF TypeOK
<1>8. \A b, h, a \in Nat : Ran(calls, b, h, a, next - 1) => Ran(calls', b, h, a, next' - 1)
  <2> SUFFICES ASSUME NEW b \in Nat, NEW h \in Nat, NEW a \in Nat, Ran(calls, b, h, a, next - 1)
               PROVE  Ran(calls', b, h, a, next' - 1)
    OBVIOUS
  <2>1. Ran(calls', b, h, a, (next - 1) + 1)
    BY <1>1, <1>3, RanOnError
  <2>2. (next - 1) + 1 = next' - 1
    BY <1>1, <1>2
  <2> QED  BY <2>1, <2>2
<1>9. Script'
  <2>1. next' \in 1..Hooks + 1
    BY <1>1, <1>2
  <2>2. CASE error = ByHandler /\ snap # NoInput /\ Ran(calls, Hooks, 1, 0, next - 1)
    <3>1. Ran(calls', Hooks, 1, 0, next' - 1)
      BY <1>8, <2>2
    <3> QED  BY <1>1, <2>1, <2>2, <3>1 DEF Script
  <2>3. CASE error \in 1..Hooks /\ snap = NoInput /\ Ran(calls, error, 0, 0, next - 1)
    <3>1. Ran(calls', error, 0, 0, next' - 1)
      BY <1>8, <2>3
    <3> QED  BY <1>1, <2>1, <2>3, <3>1 DEF Script
  <2>4. CASE error \in 1..Hooks /\ snap # NoInput /\ Ran(calls, Hooks, 1, Hooks + 1 - error, next - 1)
    <3>1. Hooks + 1 - error \in Nat
      BY <2>4
    <3>2. Ran(calls', Hooks, 1, Hooks + 1 - error, next' - 1)
      BY <1>8, <2>4, <3>1
    <3> QED  BY <1>1, <2>1, <2>4, <3>2 DEF Script
  <2> QED  BY <1>1, <2>2, <2>3, <2>4 DEF Script
<1> QED  BY <1>1, <1>5, <1>6, <1>7, <1>9 DEF OnStack

\* Every step keeps the invariant.
LEMMA NextKeeps == Inv /\ [Next]_vars => Inv'
<1> SUFFICES ASSUME Inv, [Next]_vars  PROVE Inv'
  OBVIOUS
<1>1. ASSUME AfterDone \/ OnErrorDone  PROVE Inv'
  <2>1. stack \in Seq(Frame) /\ Len(stack) <= Wraps /\ error \in Outcomes /\ Ok \in Outcomes
    BY ConstantsAssumption DEF Inv, TypeOK, Outcomes, Ok, ByWrap
  <2>2. (Return(stack, Ok) \/ Return(stack, error)) /\ UNCHANGED runner
    BY <1>1 DEF AfterDone, OnErrorDone
  <2> QED  BY <2>1, <2>2, ReturnKeeps
<1>2. CASE UNCHANGED vars
  <2>1. UNCHANGED <<stack, phase, next, input, snap, error, calls, result>>
    BY <1>2 DEF vars, runner
  <2> QED
    BY <2>1 DEF Inv, TypeOK, OnStack, Script, Shown, HooksSeeTheHandlersInput
<1> QED
  BY <1>1, <1>2, WrapsKeep, BeforeKeeps, SnapshotKeeps, HandlerKeeps, AfterKeeps, OnErrorKeeps DEF Next

\* How far the calls have come, in every state of every execution.
THEOREM Invariance == Spec => []Inv
  BY InitEstablishes, NextKeeps, PTL DEF Spec

-----------------------------------------------------------------------------
(* What follows *)

\* The types of the variables; the hook runner runs under all the wraps.
THEOREM TypeCorrect == Spec => []TypeOK
<1>1. Inv => TypeOK
  BY DEF Inv
<1> QED  BY <1>1, Invariance, PTL

\* However often the wraps call the hook runner, each of its runs ends with the
\* calls that the phase contract of Hook allows.
THEOREM ContractKept == Spec => []PhaseContract
<1>1. Inv => PhaseContract
  <2> SUFFICES ASSUME Inv, Finishes  PROVE
        \/ error = Ok /\ Ran(calls, Hooks, 1, Hooks, 0)
        \/ error = ByHandler /\ Ran(calls, Hooks, 1, 0, Hooks)
        \/ /\ error \in 1..Hooks
           /\ \/ Ran(calls, error, 0, 0, Hooks)
              \/ Ran(calls, Hooks, 1, Hooks + 1 - error, Hooks)
    BY DEF PhaseContract
  <2>1. CASE phase = "after" /\ next = 0
    <3>1. error = Ok /\ Ran(calls, Hooks, 1, Hooks - next, 0)
      BY <2>1 DEF Inv, Script
    <3>2. Hooks - next = Hooks
      BY <2>1, ConstantsAssumption
    <3> QED  BY <3>1, <3>2
  <2>2. CASE phase = "on_error" /\ next = Hooks + 1
    <3>1. next - 1 = Hooks
      BY <2>2, ConstantsAssumption
    <3> QED  BY <2>2, <3>1 DEF Inv, Script
  <2> QED  BY <2>1, <2>2 DEF Finishes
<1> QED  BY <1>1, Invariance, PTL

\* What after and on_error hooks are shown is what the handler was given.
THEOREM HandlersInputShown == Spec => []HooksSeeTheHandlersInput
<1>1. Inv => HooksSeeTheHandlersInput
  BY DEF Inv
<1> QED  BY <1>1, Invariance, PTL
=============================================================================
