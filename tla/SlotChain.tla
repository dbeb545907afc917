----------------------------- MODULE SlotChain -----------------------------
(***************************************************************************)
(* One run of a slot chain (plugin_runtime/host-runtime/src/lib.rs): the   *)
(* three phases in order, in each phase the bindings that the registry     *)
(* planned, for each binding one call of the plugin, whose answer the      *)
(* binding's policy turns into a payload, the end of the phase, the end of *)
(* the chain or an error.  What plugins answer is up to them.  An observer *)
(* is told of each call's beginning and of how it ended.                   *)
(*                                                                         *)
(* A payload is a number: 0 is the caller's, and the payload an answer     *)
(* brings is the number of the call, so that payloads tell who made them.  *)
(***************************************************************************)
EXTENDS Naturals, Sequences, FiniteSets

CONSTANTS
  Policies,     \* the policies of the bindings to consider
  MaxBindings   \* bound on the bindings of the three phases together

ASSUME ConstantsAssumption ==
  /\ Policies \subseteq {"Pipeline", "FirstSuccess", "SingleOwner", "Broadcast", "BestEffort"}
  /\ MaxBindings \in Nat

Order == <<"Before", "Exec", "After">>
Answers == {"None", "Err", "Unparsable", "Unhandled", "Unchanged", "Continue", "Halt", "Error"}

VARIABLES
  bindings,    \* bindings_for: the policies of each phase's bindings
  phase,       \* the phase under way, 4 after the last
  index,       \* the binding of the phase whose turn it is
  entered,     \* its plugin has been called and has not answered
  payload,     \* the payload the next plugin gets
  handled,     \* any_handled of the phase
  anyHandled,  \* any_handled of the chain
  result,      \* "running", then "Some", "None" or "Err"
  answers,     \* what each call was answered, with its phase and binding
  observed     \* what the observer was told

vars == <<bindings, phase, index, entered, payload, handled, anyHandled, result,
          answers, observed>>

\* Several bindings of one phase may be one plugin's own, so a single owner is
\* not always alone.
Plans == UNION { [1..n -> Policies] : n \in 0..MaxBindings }

Init ==
  /\ bindings \in { bs \in [1..3 -> Plans] : Len(bs[1]) + Len(bs[2]) + Len(bs[3]) <= MaxBindings }
  /\ phase = 1 /\ index = 1 /\ entered = FALSE
  /\ payload = 0 /\ handled = FALSE /\ anyHandled = FALSE
  /\ result = "running" /\ answers = <<>> /\ observed = <<>>

-----------------------------------------------------------------------------

Plan == bindings[phase]
Policy == Plan[index]
Mine(event) == [event |-> event, phase |-> phase, index |-> index]
Observe(event) == observed' = Append(observed, Mine(event))
Answered(answer) ==
  answers' = Append(answers, [answer |-> answer, phase |-> phase, index |-> index,
                              policy |-> Policy])
NewPayload == Len(answers) + 1

\* run_plugin_phase: tell the observer, call the plugin.
Call ==
  /\ result = "running" /\ phase <= 3 /\ index <= Len(Plan) /\ ~entered
  /\ entered' = TRUE /\ Observe("Enter")
  /\ UNCHANGED <<bindings, phase, index, payload, handled, anyHandled, result, answers>>

\* run_plugin_phase cannot serialise the payload: nobody is called or told.
CannotCall ==
  /\ result = "running" /\ phase <= 3 /\ index <= Len(Plan) /\ ~entered
  /\ result' = "Err"
  /\ UNCHANGED <<bindings, phase, index, entered, payload, handled, anyHandled, answers, observed>>

\* The results of run_plugin_phase, as the loop over the bindings takes them.
Pass ==
  /\ index' = index + 1
  /\ UNCHANGED <<phase, payload, handled, anyHandled, result>>

Observed ==
  /\ index' = index + 1 /\ handled' = TRUE
  /\ UNCHANGED <<phase, payload, anyHandled, result>>

\* A slip: a first success that does not end its phase.
HandledOn ==
  /\ payload' = NewPayload /\ handled' = TRUE /\ index' = index + 1
  /\ UNCHANGED <<phase, anyHandled, result>>

Handled ==
  /\ payload' = NewPayload /\ handled' = TRUE
  /\ index' = IF Policy = "FirstSuccess" THEN Len(Plan) + 1 ELSE index + 1
  /\ UNCHANGED <<phase, anyHandled, result>>

Halted ==
  /\ payload' = NewPayload /\ result' = "Some"
  /\ UNCHANGED <<phase, index, handled, anyHandled>>

Fail ==
  /\ result' = "Err"
  /\ UNCHANGED <<phase, index, payload, handled, anyHandled>>

\* A slip: policies that all transform the payload.
IgnoresNothing == FALSE

IgnoresOutput == Policy \in {"Broadcast", "BestEffort"}
Suppresses == Policy = "BestEffort"

\* A slip: suppressing an error from the observer too.
SuppressedSilently == UNCHANGED observed /\ Pass

Suppressed == Observe("SuppressedError") /\ Pass

\* Unless it is suppressed, the observer is not told.
Unparsable == IF Suppresses THEN Suppressed ELSE UNCHANGED observed /\ Fail

Failed == IF Suppresses THEN Suppressed ELSE Observe("Error") /\ Fail

Continued ==
  /\ Observe("Continue")
  /\ IF IgnoresOutput THEN Observed ELSE Handled

HaltAsked ==
  /\ Observe("Halt")
  /\ IF IgnoresOutput THEN Observed ELSE Halted

\* The plugin answers, and apply_outcome deals with its answer.
Answer(answer) ==
  /\ entered /\ entered' = FALSE /\ Answered(answer)
  /\ \/ answer = "None" /\ Observe("Skipped") /\ Pass
     \/ answer = "Unhandled" /\ Observe("Unhandled") /\ Pass
     \/ answer = "Unchanged" /\ Observe("Unchanged") /\ Observed
     \/ answer \in {"Err", "Error"} /\ Failed
     \/ answer = "Unparsable" /\ Unparsable
     \/ answer = "Continue" /\ Continued
     \/ answer = "Halt" /\ HaltAsked
  /\ UNCHANGED bindings

\* A slip: the chain's result forgets that an earlier phase handled.
NextPhaseForgetful ==
  /\ result = "running" /\ phase <= 3 /\ index > Len(Plan)
  /\ phase' = phase + 1 /\ index' = 1 /\ handled' = FALSE
  /\ anyHandled' = handled
  /\ UNCHANGED <<bindings, entered, payload, result, answers, observed>>

NextPhase ==
  /\ result = "running" /\ phase <= 3 /\ index > Len(Plan)
  /\ phase' = phase + 1 /\ index' = 1 /\ handled' = FALSE
  /\ anyHandled' = (anyHandled \/ handled)
  /\ UNCHANGED <<bindings, entered, payload, result, answers, observed>>

Finish ==
  /\ result = "running" /\ phase = 4
  /\ result' = IF anyHandled THEN "Some" ELSE "None"
  /\ UNCHANGED <<bindings, phase, index, entered, payload, handled, anyHandled,
                 answers, observed>>

Next == Call \/ CannotCall \/ (\E answer \in Answers : Answer(answer)) \/ NextPhase \/ Finish

Spec == Init /\ [][Next]_vars

-----------------------------------------------------------------------------
(* Properties *)

\* The types of the variables of run_slot_chain_observed.
TypeOK ==
  /\ bindings \in [1..3 -> Seq(Policies)]
  /\ phase \in 1..4 /\ index \in 1..MaxBindings + 1
  /\ entered \in BOOLEAN /\ handled \in BOOLEAN /\ anyHandled \in BOOLEAN
  /\ payload \in Nat
  /\ result \in {"running", "Some", "None", "Err"}
  /\ answers \in Seq([answer : Answers, phase : 1..3, index : Nat, policy : Policies])

Counts(a) == a.policy \notin {"Broadcast", "BestEffort"}
Ignored(a) ==
  \/ a.answer \in {"None", "Unhandled"}
  \/ a.policy = "BestEffort" /\ a.answer \in {"Err", "Error", "Unparsable"}
Precedes(i, j) ==
  \/ answers[i].phase < answers[j].phase
  \/ answers[i].phase = answers[j].phase /\ answers[i].index < answers[j].index

\* The payload is always the latest one that a binding whose output counts
\* brought, across phases, and the caller's if there is none.
PayloadIsLatest ==
  LET brought == { i \in DOMAIN answers :
                     Counts(answers[i]) /\ answers[i].answer \in {"Continue", "Halt"} }
  IN  /\ payload \in brought \cup {0}
      /\ \A i \in brought : i <= payload

\* A chain says None exactly when every plugin stayed out of it: one answer
\* that took part, in any phase, makes it Some.
NoneMeansNobody ==
  /\ result = "None" => \A i \in DOMAIN answers : Ignored(answers[i])
  /\ result = "Some" => \E i \in DOMAIN answers : ~Ignored(answers[i])

\* In a phase of first-success bindings at most one payload is accepted, and
\* nobody is asked after it.
FirstSuccessWins ==
  \A i, j \in DOMAIN answers :
    /\ answers[i].phase = answers[j].phase
    /\ answers[i].policy = "FirstSuccess" /\ answers[i].answer \in {"Continue", "Halt"}
    => j <= i

\* Bindings are called in the order of their phases and of the plan, a call is
\* missed only after a first success in its phase or at the chain's end, and a
\* first success does end its phase.
CalledInOrder ==
  /\ FirstSuccessWins
  /\ \A i, j \in DOMAIN answers : i < j => Precedes(i, j)
  /\ \A p \in 1..3 : phase > p =>
       \A k \in DOMAIN bindings[p] :
         \/ \E i \in DOMAIN answers : answers[i].phase = p /\ answers[i].index = k
         \/ \E i \in DOMAIN answers :
              /\ answers[i].phase = p /\ answers[i].index < k
              /\ answers[i].policy = "FirstSuccess" /\ answers[i].answer = "Continue"

\* The observer can pair its events: between two Enters there is one event
\* that closes the first, for the same binding.
EntersAreClosed ==
  \A i \in DOMAIN observed :
    IF i % 2 = 1
      THEN observed[i].event = "Enter"
      ELSE /\ observed[i].event # "Enter"
           /\ observed[i].phase = observed[i - 1].phase
           /\ observed[i].index = observed[i - 1].index

-----------------------------------------------------------------------------
(* What the documentation says and the code does not do *)

\* README.md: "broadcast: every extension observes".
EveryoneObserves ==
  result # "running" =>
    \A p \in 1..3 : \A k \in DOMAIN bindings[p] :
      bindings[p][k] = "Broadcast" =>
        \E i \in DOMAIN answers : answers[i].phase = p /\ answers[i].index = k

\* extension_slots/ipc/src/slot_observer.rs: a listener may "measure phase
\* latency by pairing enter/continue, or watch for plugin errors".
EveryEnterIsClosed == result # "running" => Len(observed) % 2 = 0
=============================================================================
