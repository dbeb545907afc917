--------------------------- MODULE SlotChainProofs ---------------------------
(***************************************************************************)
(* Proofs about SlotChain and its use in DomainSlot, for any plans of any  *)
(* length with any mix of policies, whoever runs the chain.                *)
(***************************************************************************)
EXTENDS DomainSlot, SequenceTheorems, TLAPS

-----------------------------------------------------------------------------
(* The inductive invariant *)

Events == {"Enter", "Skipped", "Unhandled", "Unchanged", "SuppressedError", "Error", "Continue", "Halt"}
Calls == [answer : Answers, phase : 1..3, index : Nat, policy : Policies]
Observations == [event : Events, phase : 1..3, index : Nat]

\* Where the chain is: a plugin is being called only at a binding of the plan.
Placed ==
  /\ bindings \in [1..3 -> Plans]
  /\ phase = 4 => index = 1
  /\ phase <= 3 => index <= Len(Plan) + 1
  /\ entered => result = "running" /\ phase <= 3 /\ index <= Len(Plan)
  /\ observed \in Seq(Observations)

\* While the chain runs, what was answered lies behind it, and after a first
\* success so does the rest of the phase.
Before(i) ==
  \/ answers[i].phase < phase
  \/ answers[i].phase = phase /\ answers[i].index < index
FirstSuccess(i) ==
  answers[i].policy = "FirstSuccess" /\ answers[i].answer \in {"Continue", "Halt"}
Behind ==
  result = "running" =>
    \A i \in DOMAIN answers :
      /\ Before(i)
      /\ answers[i].phase = phase /\ FirstSuccess(i) => index > Len(Plan)

\* A binding that the chain has passed was called, or a first success spared it.
Asked(p, k) == \E i \in DOMAIN answers : answers[i].phase = p /\ answers[i].index = k
Spared(p, k) ==
  \E i \in DOMAIN answers :
    /\ answers[i].phase = p /\ answers[i].index < k
    /\ answers[i].policy = "FirstSuccess" /\ answers[i].answer = "Continue"
Passed ==
  \A p \in 1..3 : \A k \in DOMAIN bindings[p] :
    p < phase \/ (p = phase /\ k < index) => Asked(p, k) \/ Spared(p, k)
InOrder == \A i, j \in DOMAIN answers : i < j => Precedes(i, j)

\* The flags tell whether somebody took part; those of the phase are merged into
\* those of the chain at its end.
Tallied ==
  /\ result = "running" => (handled \/ anyHandled <=> \E i \in DOMAIN answers : ~Ignored(answers[i]))
  /\ phase = 4 => ~handled

\* While the chain runs, each answer was observed, and a call under way is the
\* last thing that was.
Paired ==
  result = "running" =>
    IF entered
      THEN /\ Len(observed) = 2 * Len(answers) + 1
           /\ observed[Len(observed)] = Mine("Enter")
      ELSE Len(observed) = 2 * Len(answers)

Inv ==
  /\ TypeOK /\ Placed /\ Behind /\ Passed /\ InOrder /\ Tallied /\ Paired
  /\ PayloadIsLatest /\ NoneMeansNobody /\ FirstSuccessWins /\ EntersAreClosed

\* The notifications: in the order of the phases and, while broadcasting stays on,
\* one for each observation.  The flags of a chain of the domain and its end can
\* be read from them.
Noted ==
  /\ notes \in Seq([method : Events, phase : 1..3, error : BOOLEAN])
  /\ Len(notes) <= Len(observed)
  /\ \A i \in DOMAIN notes : notes[i].phase <= phase
  /\ \A i, j \in DOMAIN notes : i < j => notes[i].phase <= notes[j].phase
  /\ watched => enabled
Mirrored ==
  caller = "domain" /\ watched =>
    Len(notes) = Len(observed) /\ \A i \in DOMAIN notes : notes[i].method = observed[i].event
LastNote == notes[Len(notes)].method
Told ==
  caller = "domain" =>
    /\ bindings \in SinglePlans
    /\ watched /\ result = "running" =>
         /\ handled \/ anyHandled <=> \E i \in DOMAIN notes : Took(notes[i])
         /\ ~entered /\ notes # <<>> => LastNote \notin {"Error", "Enter"}
    /\ watched /\ result # "running" =>
         \/ result = Replayed
         \/ failure = "InvalidConfiguration" /\ Len(answers) * 2 = Len(notes)

DomainInv == Inv /\ Noted /\ Mirrored /\ Told
-----------------------------------------------------------------------------
(* What a step does *)

\* A plan of one phase is a sequence of policies within the bound.
LEMMA PlansAre ==
  ASSUME NEW s \in Plans
  PROVE  s \in Seq(Policies) /\ Len(s) \in 0..MaxBindings /\ DOMAIN s = 1..Len(s)
<1>1. PICK n \in 0..MaxBindings : s \in [1..n -> Policies]
  BY DEF Plans
<1>2. n \in Nat
  BY <1>1, ConstantsAssumption
<1>3. s \in Seq(Policies) /\ Len(s) = n
  BY <1>1, <1>2
<1> QED BY <1>1, <1>2, <1>3

\* The call that an answer ends.
Ended(answer) == [answer |-> answer, phase |-> phase, index |-> index, policy |-> Policy]

\* An answer is recorded behind those before it, at the chain's place.
LEMMA AnswerRecords ==
  ASSUME TypeOK, Placed, NEW answer \in Answers, Answer(answer)
  PROVE  /\ result = "running" /\ phase \in 1..3 /\ index \in 1..Len(Plan)
         /\ Len(Plan) \in 0..MaxBindings /\ Policy \in Policies /\ DOMAIN Plan = 1..Len(Plan)
         /\ Ended(answer) \in Calls
         /\ answers' \in Seq(Calls) /\ Len(answers') = Len(answers) + 1
         /\ \A i \in 1..Len(answers) : answers'[i] = answers[i]
         /\ answers'[Len(answers) + 1] = Ended(answer)
         /\ phase' = phase /\ bindings' = bindings /\ ~entered' /\ anyHandled' = anyHandled
<1>1. entered /\ result = "running" /\ phase \in 1..3 /\ index \in 1..Len(Plan)
  BY DEF TypeOK, Placed, Answer
<1>2. Plan \in Plans
  BY <1>1 DEF Placed, Plan
<1>3. Plan \in Seq(Policies) /\ Len(Plan) \in 0..MaxBindings /\ DOMAIN Plan = 1..Len(Plan)
  BY <1>2, PlansAre
<1>4. Policy \in Policies
  BY <1>1, <1>3 DEF Policy
<1>5. Ended(answer) \in Calls
  BY <1>1, <1>4, ConstantsAssumption DEF Ended, Calls
<1>6. answers \in Seq(Calls) /\ answers' = Append(answers, Ended(answer))
  BY DEF TypeOK, Calls, Answer, Answered, Ended
<1>7. /\ answers' \in Seq(Calls) /\ Len(answers') = Len(answers) + 1
      /\ \A i \in 1..Len(answers) : answers'[i] = answers[i]
      /\ answers'[Len(answers) + 1] = Ended(answer)
  BY <1>5, <1>6
<1>8. phase' = phase /\ bindings' = bindings /\ ~entered' /\ anyHandled' = anyHandled
  BY DEF Answer, Pass, Failed, Suppressed, Observed, Unparsable, Continued, Handled, HaltAsked, Halted, Fail
<1> QED BY <1>1, <1>3, <1>4, <1>5, <1>7, <1>8

\* What the chain makes of an answer: the place it goes on to, the payload, who
\* took part, and what the observer is told.
LEMMA AnswerDoes ==
  ASSUME TypeOK, Placed, NEW answer \in Answers, Answer(answer)
  PROVE  /\ result' \in {"running", "Some", "Err"}
         /\ IF result' = "running"
              THEN \/ index' = index + 1
                        /\ ~(Policy = "FirstSuccess" /\ answer \in {"Continue", "Halt"})
                   \/ index' = Len(Plan) + 1 /\ Policy = "FirstSuccess" /\ answer = "Continue"
              ELSE index' = index
         /\ payload' = IF Policy \notin {"Broadcast", "BestEffort"} /\ answer \in {"Continue", "Halt"}
                         THEN Len(answers) + 1 ELSE payload
         /\ result' = "running" => (handled' <=> handled \/ ~Ignored(Ended(answer)))
         /\ result' = "Some" => ~Ignored(Ended(answer))
         /\ handled' \in BOOLEAN
         /\ \/ observed' = observed /\ result' = "Err"
            \/ \E e \in Events \ {"Enter"} : observed' = Append(observed, Mine(e))
<1> DEFINE ignored == \/ answer \in {"None", "Unhandled"}
                      \/ Policy = "BestEffort" /\ answer \in {"Err", "Error", "Unparsable"}
<1>1. Ignored(Ended(answer)) <=> ignored
  BY DEF Ignored, Ended
<1>2. entered /\ result = "running" /\ handled \in BOOLEAN
  BY DEF TypeOK, Placed, Answer
<1>3. CASE answer \in {"None", "Unhandled"}
  BY <1>1, <1>2, <1>3 DEF Answer, Pass, Observe, Events
<1>4. CASE answer = "Unchanged"
  BY <1>1, <1>2, <1>4 DEF Answer, Observed, Observe, Events
<1>5. CASE answer \in {"Err", "Error"}
  BY <1>1, <1>2, <1>5 DEF Answer, Failed, Suppressed, Suppresses, Pass, Fail, Observe, Events
<1>6. CASE answer = "Unparsable"
  BY <1>1, <1>2, <1>6 DEF Answer, Unparsable, Suppressed, Suppresses, Pass, Fail, Observe, Events
<1>7. CASE answer = "Continue"
  BY <1>1, <1>2, <1>7
  DEF Answer, Continued, IgnoresOutput, Observed, Handled, NewPayload, Observe, Events
<1>8. CASE answer = "Halt"
  BY <1>1, <1>2, <1>8
  DEF Answer, HaltAsked, IgnoresOutput, Observed, Halted, NewPayload, Observe, Events
<1> QED BY <1>3, <1>4, <1>5, <1>6, <1>7, <1>8 DEF Answers
-----------------------------------------------------------------------------
(* The invariant under an answer *)

\* An answer ends the call under way and leaves the chain at a place of its plan.
LEMMA AnswerKeepsPlace ==
  ASSUME TypeOK, Placed, NEW answer \in Answers, Answer(answer)
  PROVE  TypeOK' /\ Placed'
<1>1. /\ result = "running" /\ phase \in 1..3 /\ index \in 1..Len(Plan)
      /\ Len(Plan) \in 0..MaxBindings
      /\ answers' \in Seq(Calls)
      /\ phase' = phase /\ bindings' = bindings /\ ~entered' /\ anyHandled' = anyHandled
  BY AnswerRecords
<1>2. Plan' = Plan
  BY <1>1 DEF Plan
<1>3. /\ result' \in {"running", "Some", "Err"}
      /\ index' \in {index, index + 1, Len(Plan) + 1}
      /\ payload' \in {payload, Len(answers) + 1}
      /\ handled' \in BOOLEAN
      /\ \/ observed' = observed
         \/ \E e \in Events : observed' = Append(observed, Mine(e))
  BY AnswerDoes
<1>4. entered' = FALSE
  BY DEF Answer
<1>5. \A e \in Events : Mine(e) \in Observations
  BY <1>1, ConstantsAssumption DEF Mine, Observations
<1>6. observed' \in Seq(Observations)
  BY <1>3, <1>5 DEF Placed
<1>7. index' \in 1..Len(Plan) + 1
  BY <1>1, <1>3, ConstantsAssumption
<1>8. payload' \in Nat
  BY <1>3 DEF TypeOK
<1>9. Placed'
  <2>1. bindings' \in [1..3 -> Plans]
    BY <1>1 DEF Placed
  <2>2. index' <= Len(Plan') + 1 /\ phase' # 4
    BY <1>1, <1>2, <1>7, ConstantsAssumption
  <2> QED BY <1>4, <1>6, <2>1, <2>2 DEF Placed
<1>10. TypeOK'
  <2>1. bindings' \in [1..3 -> Seq(Policies)] /\ phase' \in 1..4 /\ anyHandled' \in BOOLEAN
    BY <1>1 DEF TypeOK
  <2>2. index' \in 1..MaxBindings + 1
    BY <1>1, <1>7, ConstantsAssumption
  <2> QED BY <1>1, <1>3, <1>4, <1>8, <2>1, <2>2 DEF TypeOK, Calls
<1> QED BY <1>9, <1>10

\* A binding answered is behind the chain, and none before it was left out.
LEMMA AnswerKeepsOrder ==
  ASSUME TypeOK, Placed, Behind, Passed, InOrder, FirstSuccessWins,
         NEW answer \in Answers, Answer(answer)
  PROVE  Behind' /\ Passed' /\ InOrder' /\ FirstSuccessWins'
<1> DEFINE n == Len(answers)
           m == n + 1
<1>1. /\ result = "running" /\ phase \in 1..3 /\ index \in 1..Len(Plan)
      /\ Len(Plan) \in Nat /\ DOMAIN Plan = 1..Len(Plan)
      /\ Len(answers') = n + 1
      /\ \A i \in 1..n : answers'[i] = answers[i]
      /\ answers'[n + 1] = Ended(answer)
      /\ phase' = phase /\ bindings' = bindings
  BY AnswerRecords, ConstantsAssumption
<1>2. n \in Nat /\ m = n + 1 /\ DOMAIN answers = 1..n /\ answers \in Seq(Calls)
  BY DEF TypeOK, Calls
<1>3. DOMAIN answers' = 1..m
  BY <1>1, AnswerRecords
<1>4. \A i \in 1..n : answers[i] \in Calls
  BY <1>2
<1> HIDE DEF n, m
<1>5. answers'[m].phase = phase /\ answers'[m].index = index /\ answers'[m].answer = answer
      /\ answers'[m].policy = Policy
  BY <1>1, <1>2 DEF Ended
<1>6. Plan' = Plan /\ index \in Nat /\ phase \in Nat
  BY <1>1 DEF Plan
<1>7. IF result' = "running"
        THEN \/ index' = index + 1
                  /\ ~(Policy = "FirstSuccess" /\ answer \in {"Continue", "Halt"})
             \/ index' = Len(Plan) + 1 /\ Policy = "FirstSuccess" /\ answer = "Continue"
        ELSE index' = index
  BY AnswerDoes
<1>8. \A i \in 1..n : Before(i)
  BY <1>1, <1>2 DEF Behind
<1>9. \A i \in 1..n : ~(answers[i].phase = phase /\ FirstSuccess(i))
  BY <1>1, <1>2 DEF Behind
<1>10. Behind'
  <2> SUFFICES ASSUME result' = "running", NEW i \in 1..m
               PROVE  /\ Before(i)'
                      /\ answers'[i].phase = phase /\ FirstSuccess(i)' => index' > Len(Plan)
    BY <1>1, <1>3, <1>6 DEF Behind
  <2>1. index' > index
    BY <1>1, <1>6, <1>7
  <2>2. CASE i = m
    <3>1. Before(i)'
      BY <1>1, <1>5, <2>1, <2>2 DEF Before
    <3>2. FirstSuccess(i)' => index' > Len(Plan)
      BY <1>1, <1>5, <1>7, <2>2 DEF FirstSuccess
    <3> QED BY <3>1, <3>2
  <2>3. CASE i \in 1..n
    <3>1. answers'[i] = answers[i] /\ answers[i].index \in Nat
      BY <1>1, <1>4, <2>3 DEF Calls
    <3>2. Before(i)'
      BY <1>1, <1>6, <1>7, <1>8, <2>1, <2>3, <3>1 DEF Before
    <3>3. ~(answers'[i].phase = phase /\ FirstSuccess(i)')
      BY <1>9, <2>3, <3>1 DEF FirstSuccess
    <3> QED BY <3>2, <3>3
  <2> QED BY <1>2, <2>2, <2>3
<1>11. InOrder'
  <2> SUFFICES ASSUME NEW i \in 1..m, NEW j \in 1..m, i < j
               PROVE  Precedes(i, j)'
    BY <1>3 DEF InOrder
  <2>1. i \in 1..n /\ answers'[i] = answers[i]
    BY <1>1, <1>2
  <2>2. CASE j = m
    BY <1>5, <1>8, <2>1, <2>2 DEF Before, Precedes
  <2>3. CASE j \in 1..n
    BY <1>1, <1>2, <2>1, <2>3 DEF InOrder, Precedes
  <2> QED BY <1>2, <2>2, <2>3
<1>12. FirstSuccessWins'
  <2> SUFFICES ASSUME NEW i \in 1..m, NEW j \in 1..m,
                      answers'[i].phase = answers'[j].phase, FirstSuccess(i)'
               PROVE  j <= i
    BY <1>3 DEF FirstSuccessWins, FirstSuccess
  <2>1. CASE i = m
    BY <1>2, <2>1
  <2>2. CASE i \in 1..n
    <3>1. answers'[i] = answers[i] /\ FirstSuccess(i)
      BY <1>1, <2>2 DEF FirstSuccess
    <3>2. answers[i].phase # phase
      BY <1>9, <2>2, <3>1
    <3>3. j # m
      BY <1>5, <3>1, <3>2
    <3>4. j \in 1..n /\ answers'[j] = answers[j]
      BY <1>1, <1>2, <3>3
    <3> QED BY <1>2, <2>2, <3>1, <3>4 DEF FirstSuccessWins, FirstSuccess
  <2> QED BY <1>2, <2>1, <2>2
<1>13. Passed'
  <2> SUFFICES ASSUME NEW p \in 1..3, NEW k \in DOMAIN bindings[p],
                      p < phase \/ (p = phase /\ k < index')
               PROVE  Asked(p, k)' \/ Spared(p, k)'
    BY <1>1 DEF Passed
  <2>1. Asked(p, k) => Asked(p, k)'
    BY <1>1, <1>2, <1>3 DEF Asked
  <2>2. Spared(p, k) => Spared(p, k)'
    BY <1>1, <1>2, <1>3 DEF Spared
  <2>3. CASE p < phase \/ k < index
    BY <2>1, <2>2, <2>3 DEF Passed
  <2>4. CASE p = phase /\ k = index
    BY <1>2, <1>3, <1>5, <2>4 DEF Asked
  <2>5. CASE p = phase /\ k > index
    <3>1. k \in 1..Len(Plan)
      BY <1>1, <2>5 DEF Plan
    <3>2. Policy = "FirstSuccess" /\ answer = "Continue"
      BY <1>1, <1>6, <1>7, <2>5, <3>1
    <3> QED BY <1>2, <1>3, <1>5, <2>5, <3>2 DEF Spared
  <2>6. p = phase => k \in Nat
    BY <1>1 DEF Plan
  <2> QED BY <1>6, <2>3, <2>4, <2>5, <2>6
<1> QED BY <1>10, <1>11, <1>12, <1>13
\* An answer whose payload goes on to the next plugin.
Brings(a) == Counts(a) /\ a.answer \in {"Continue", "Halt"}

\* The flags count an answer unless it was ignored.
LEMMA AnswerKeepsTally ==
  ASSUME TypeOK, Placed, Tallied, PayloadIsLatest, NoneMeansNobody,
         NEW answer \in Answers, Answer(answer)
  PROVE  Tallied' /\ PayloadIsLatest' /\ NoneMeansNobody'
<1> DEFINE n == Len(answers)
           m == n + 1
<1>1. /\ result = "running" /\ phase \in 1..3
      /\ Len(answers') = n + 1
      /\ \A i \in 1..n : answers'[i] = answers[i]
      /\ answers'[n + 1] = Ended(answer)
      /\ phase' = phase /\ anyHandled' = anyHandled
  BY AnswerRecords
<1>2. n \in Nat /\ m = n + 1 /\ DOMAIN answers = 1..n /\ payload \in Nat
  BY DEF TypeOK
<1>3. DOMAIN answers' = 1..m
  BY <1>1, AnswerRecords
<1> HIDE DEF n, m
<1>4. answers'[m] = Ended(answer) /\ Ended(answer).answer = answer /\ Ended(answer).policy = Policy
  BY <1>1, <1>2 DEF Ended
<1>5. /\ result' \in {"running", "Some", "Err"}
      /\ payload' = IF Policy \notin {"Broadcast", "BestEffort"} /\ answer \in {"Continue", "Halt"}
                      THEN Len(answers) + 1 ELSE payload
      /\ result' = "running" => (handled' <=> handled \/ ~Ignored(Ended(answer)))
      /\ result' = "Some" => ~Ignored(Ended(answer))
  BY AnswerDoes
<1>6. (\E i \in DOMAIN answers' : ~Ignored(answers'[i]))
        <=> (\E i \in DOMAIN answers : ~Ignored(answers[i])) \/ ~Ignored(Ended(answer))
  BY <1>1, <1>2, <1>3, <1>4
<1>7. Tallied'
  BY <1>1, <1>5, <1>6 DEF Tallied
<1>8. NoneMeansNobody'
  BY <1>2, <1>3, <1>4, <1>5 DEF NoneMeansNobody
<1>9. payload' = IF Brings(answers'[m]) THEN m ELSE payload
  BY <1>2, <1>4, <1>5 DEF Brings, Counts, n
<1>10. \A i \in 1..n : Brings(answers'[i]) <=> Brings(answers[i])
  BY <1>1
<1>11. /\ payload = 0 \/ (payload \in 1..n /\ Brings(answers[payload]))
       /\ \A i \in 1..n : Brings(answers[i]) => i <= payload
  BY <1>2 DEF PayloadIsLatest, Brings
<1>12. /\ payload' = 0 \/ (payload' \in 1..m /\ Brings(answers'[payload']))
       /\ \A i \in 1..m : Brings(answers'[i]) => i <= payload'
  <2>1. CASE Brings(answers'[m])
    <3>1. payload' = m
      BY <1>9, <2>1
    <3> QED BY <1>2, <2>1, <3>1
  <2>2. CASE ~Brings(answers'[m])
    <3>1. payload' = payload
      BY <1>9, <2>2
    <3>2. payload = 0 \/ (payload \in 1..n /\ Brings(answers'[payload]))
      BY <1>10, <1>11
    <3>3. \A i \in 1..n : Brings(answers'[i]) => i <= payload
      BY <1>10, <1>11
    <3> QED BY <1>2, <2>2, <3>1, <3>2, <3>3
  <2> QED BY <2>1, <2>2
<1>13. PayloadIsLatest'
  BY <1>3, <1>12 DEF PayloadIsLatest, Brings
<1> QED BY <1>7, <1>8, <1>13

\* A sequence of observations with one more at its end.
LEMMA ObservedGrows ==
  ASSUME Placed, phase \in 1..3, index \in Nat, NEW e \in Events, observed' = Append(observed, Mine(e))
  PROVE  /\ Len(observed') = Len(observed) + 1 /\ Len(observed) \in Nat
         /\ DOMAIN observed = 1..Len(observed) /\ DOMAIN observed' = 1..Len(observed) + 1
         /\ \A i \in 1..Len(observed) : observed'[i] = observed[i]
         /\ observed'[Len(observed) + 1] = Mine(e)
<1>1. Mine(e) \in Observations
  BY DEF Mine, Observations
<1> QED BY <1>1 DEF Placed

\* The event of an answer follows its Enter.
LEMMA AnswerKeepsPairing ==
  ASSUME TypeOK, Placed, Paired, EntersAreClosed, NEW answer \in Answers, Answer(answer)
  PROVE  Paired' /\ EntersAreClosed'
<1> DEFINE n == Len(observed)
<1>1. /\ result = "running" /\ phase \in 1..3 /\ index \in Nat
      /\ Len(answers') = Len(answers) + 1 /\ ~entered' /\ Len(answers) \in Nat
  BY AnswerRecords DEF TypeOK
<1>2. entered
  BY DEF Answer
<1>3. n = 2 * Len(answers) + 1 /\ observed[n] = Mine("Enter")
  BY <1>1, <1>2 DEF Paired
<1>4. CASE observed' = observed /\ result' = "Err"
  BY <1>4 DEF Paired, EntersAreClosed
<1>5. ASSUME NEW e \in Events \ {"Enter"}, observed' = Append(observed, Mine(e))
      PROVE  Paired' /\ EntersAreClosed'
  <2>1. /\ Len(observed') = n + 1 /\ n \in Nat
        /\ DOMAIN observed = 1..n /\ DOMAIN observed' = 1..n + 1
        /\ \A i \in 1..n : observed'[i] = observed[i]
        /\ observed'[n + 1] = Mine(e)
    BY <1>1, <1>5, ObservedGrows
  <2> HIDE DEF n
  <2>2. Paired'
    BY <1>1, <1>3, <2>1 DEF Paired
  <2>3. ASSUME NEW i \in 1..n + 1
        PROVE  IF i % 2 = 1
                 THEN observed'[i].event = "Enter"
                 ELSE /\ observed'[i].event # "Enter"
                      /\ observed'[i].phase = observed'[i - 1].phase
                      /\ observed'[i].index = observed'[i - 1].index
    <3>1. CASE i \in 1..n
      <4>1. IF i % 2 = 1
              THEN observed[i].event = "Enter"
              ELSE /\ observed[i].event # "Enter"
                   /\ observed[i].phase = observed[i - 1].phase
                   /\ observed[i].index = observed[i - 1].index
        BY <2>1, <3>1 DEF EntersAreClosed
      <4>2. i % 2 # 1 => i - 1 \in 1..n
        BY <2>1, <3>1
      <4> QED BY <2>1, <3>1, <4>1, <4>2
    <3>2. CASE i = n + 1
      <4>1. i % 2 # 1
        BY <1>1, <1>3, <3>2
      <4>2. observed'[i] = Mine(e) /\ i - 1 = n /\ n \in 1..n
        BY <1>1, <1>3, <2>1, <3>2
      <4>3. observed'[i - 1] = Mine("Enter")
        BY <1>3, <2>1, <4>2
      <4>4. Mine("Enter").phase = Mine(e).phase /\ Mine("Enter").index = Mine(e).index
            /\ Mine(e).event # "Enter"
        BY DEF Mine
      <4> QED BY <4>1, <4>2, <4>3, <4>4
    <3> QED BY <2>1, <3>1, <3>2
  <2>4. EntersAreClosed'
    BY <2>1, <2>3 DEF EntersAreClosed
  <2> QED BY <2>2, <2>4
<1> QED BY <1>4, <1>5, AnswerDoes
\* All of it, under an answer.
LEMMA AnswerKeeps ==
  ASSUME Inv, NEW answer \in Answers, Answer(answer)
  PROVE  Inv'
BY AnswerKeepsPlace, AnswerKeepsOrder, AnswerKeepsTally, AnswerKeepsPairing DEF Inv

-----------------------------------------------------------------------------
(* The invariant under the other steps of the chain *)

\* Before the first phase nothing was called.
LEMMA InitHas == Init => Inv
<1> SUFFICES ASSUME Init PROVE Inv
  OBVIOUS
<1>1. bindings \in [1..3 -> Plans] /\ phase = 1 /\ index = 1 /\ answers = <<>> /\ observed = <<>>
  BY DEF Init
<1>2. Plan \in Plans
  BY <1>1 DEF Plan
<1>3. \A s \in Plans : s \in Seq(Policies)
  BY PlansAre
<1>4. Placed
  BY <1>1, <1>2, PlansAre, ConstantsAssumption DEF Init, Placed
<1>5. TypeOK
  <2>1. bindings \in [1..3 -> Seq(Policies)] /\ answers \in Seq(Calls) /\ index \in 1..MaxBindings + 1
    BY <1>1, <1>3, ConstantsAssumption
  <2>2. phase \in 1..4 /\ payload \in Nat /\ entered = FALSE /\ handled = FALSE /\ anyHandled = FALSE
        /\ result = "running"
    BY DEF Init
  <2> QED BY <2>1, <2>2 DEF TypeOK, Calls
<1>6. DOMAIN answers = {} /\ DOMAIN observed = {}
  BY <1>1
<1>7. Behind /\ InOrder /\ FirstSuccessWins /\ EntersAreClosed
  BY <1>6 DEF Behind, InOrder, FirstSuccessWins, EntersAreClosed
<1>8. Passed
  <2>1. \A k \in DOMAIN Plan : ~(k < index)
    BY <1>1, <1>2, PlansAre
  <2> QED BY <1>1, <2>1 DEF Passed, Plan
<1>9. Tallied /\ Paired
  BY <1>1, <1>6 DEF Init, Tallied, Paired
<1>10. PayloadIsLatest /\ NoneMeansNobody
  BY <1>6 DEF Init, PayloadIsLatest, NoneMeansNobody
<1> QED BY <1>4, <1>5, <1>7, <1>8, <1>9, <1>10 DEF Inv

\* A call is the next thing observed.
LEMMA CallKeeps ==
  ASSUME Inv, Call
  PROVE  Inv'
<1> DEFINE n == Len(observed)
<1>1. /\ phase \in 1..3 /\ index \in Nat /\ index <= Len(Plan)
      /\ entered' = TRUE /\ observed' = Append(observed, Mine("Enter"))
      /\ result = "running" /\ ~entered
  BY ConstantsAssumption DEF Inv, TypeOK, Call, Observe
<1>2. /\ Len(observed') = n + 1 /\ n \in Nat
      /\ DOMAIN observed = 1..n /\ DOMAIN observed' = 1..n + 1
      /\ \A i \in 1..n : observed'[i] = observed[i]
      /\ observed'[n + 1] = Mine("Enter")
  BY <1>1, ObservedGrows DEF Inv, Events
<1>3. n = 2 * Len(answers) /\ Len(answers) \in Nat
  BY <1>1 DEF Inv, TypeOK, Paired
<1> HIDE DEF n
<1>4. TypeOK'
  BY <1>1 DEF Inv, TypeOK, Call
<1>5. Placed'
  <2>1. Mine("Enter") \in Observations
    BY <1>1 DEF Mine, Observations, Events
  <2>2. observed' \in Seq(Observations)
    BY <1>1, <2>1 DEF Inv, Placed
  <2> QED BY <1>1, <2>2 DEF Inv, Placed, Call, Plan
<1>6. Paired'
  BY <1>1, <1>2, <1>3 DEF Paired, Call, Mine
<1>7. EntersAreClosed'
  <2>1. (n + 1) % 2 = 1
    BY <1>3
  <2>2. \A i \in 1..n : i % 2 # 1 => i - 1 \in 1..n
    BY <1>2
  <2> QED BY <1>2, <2>1, <2>2 DEF Inv, EntersAreClosed, Mine
<1>8. Behind' /\ Passed' /\ InOrder' /\ Tallied'
  BY DEF Inv, Behind, Before, FirstSuccess, Passed, Asked, Spared, InOrder, Precedes, Tallied, Call, Plan
<1>9. PayloadIsLatest' /\ NoneMeansNobody' /\ FirstSuccessWins'
  BY DEF Inv, PayloadIsLatest, NoneMeansNobody, FirstSuccessWins, Call
<1> QED BY <1>4, <1>5, <1>6, <1>7, <1>8, <1>9 DEF Inv

\* A chain may end with an error wherever it is.
LEMMA AbortKeeps ==
  ASSUME Inv, ~entered, result' = "Err",
         UNCHANGED <<bindings, phase, index, entered, payload, handled, anyHandled, answers, observed>>
  PROVE  Inv'
<1>1. TypeOK' /\ Placed'
  BY DEF Inv, TypeOK, Placed, Plan
<1>2. Behind' /\ Passed' /\ InOrder' /\ Tallied' /\ Paired'
  BY DEF Inv, Behind, Passed, Asked, Spared, InOrder, Precedes, Tallied, Paired
<1>3. PayloadIsLatest' /\ NoneMeansNobody' /\ FirstSuccessWins' /\ EntersAreClosed'
  BY DEF Inv, PayloadIsLatest, NoneMeansNobody, FirstSuccessWins, EntersAreClosed
<1> QED BY <1>1, <1>2, <1>3 DEF Inv

\* At the end of a phase all its bindings have been passed.
LEMMA NextPhaseKeeps ==
  ASSUME Inv, NextPhase
  PROVE  Inv'
<1>1. /\ result = "running" /\ phase \in 1..3 /\ index > Len(Plan) /\ index \in Nat
      /\ phase' = phase + 1 /\ index' = 1 /\ handled' = FALSE /\ anyHandled' = (anyHandled \/ handled)
      /\ UNCHANGED <<bindings, entered, payload, result, answers, observed>>
      /\ ~entered
  BY ConstantsAssumption DEF Inv, TypeOK, Placed, NextPhase
<1>2. TypeOK'
  <2>1. phase' \in 1..4 /\ index' \in 1..MaxBindings + 1
    BY <1>1, ConstantsAssumption
  <2>2. handled' \in BOOLEAN /\ anyHandled' \in BOOLEAN
    BY <1>1
  <2> QED BY <1>1, <2>1, <2>2 DEF Inv, TypeOK
<1>3. bindings \in [1..3 -> Plans] /\ \A s \in Plans : Len(s) \in Nat /\ DOMAIN s = 1..Len(s)
  BY PlansAre, ConstantsAssumption DEF Inv, Placed
<1>4. phase' <= 3 => Plan' \in Plans
  BY <1>1, <1>3 DEF Plan
<1>5. Placed'
  BY <1>1, <1>3, <1>4 DEF Inv, Placed
<1>6. Behind'
  <2>1. \A i \in DOMAIN answers : Before(i)
    BY <1>1 DEF Inv, Behind
  <2>2. \A i \in DOMAIN answers : answers[i].phase \in 1..3
    <3>1. answers \in Seq(Calls)
      BY DEF Inv, TypeOK, Calls
    <3>2. \A i \in DOMAIN answers : answers[i] \in Calls
      BY <3>1
    <3> QED BY <3>2 DEF Calls
  <2>3. \A i \in DOMAIN answers : answers[i].phase < phase'
    BY <1>1, <2>1, <2>2 DEF Before
  <2> QED BY <1>1, <2>2, <2>3 DEF Behind, Before
<1>7. Passed'
  <2> SUFFICES ASSUME NEW p \in 1..3, NEW k \in DOMAIN bindings[p],
                      p < phase + 1 \/ (p = phase + 1 /\ k < 1)
               PROVE  Asked(p, k) \/ Spared(p, k)
    BY <1>1 DEF Passed, Asked, Spared
  <2>1. k \in 1..Len(bindings[p]) /\ Len(bindings[p]) \in Nat
    BY <1>3
  <2>2. p < phase \/ (p = phase /\ k < index)
    BY <1>1, <2>1 DEF Plan
  <2> QED BY <2>2 DEF Inv, Passed
<1>8. Tallied'
  BY <1>1 DEF Inv, Tallied
<1>9. InOrder' /\ Paired'
  BY <1>1 DEF Inv, InOrder, Precedes, Paired
<1>10. PayloadIsLatest' /\ NoneMeansNobody' /\ FirstSuccessWins' /\ EntersAreClosed'
  BY <1>1 DEF Inv, PayloadIsLatest, NoneMeansNobody, FirstSuccessWins, EntersAreClosed
<1> QED BY <1>2, <1>5, <1>6, <1>7, <1>8, <1>9, <1>10 DEF Inv

\* What the chain says of itself at its end is what the flags have kept.
LEMMA FinishKeeps ==
  ASSUME Inv, Finish
  PROVE  Inv'
<1>1. TypeOK' /\ Placed'
  BY DEF Inv, TypeOK, Placed, Plan, Finish
<1>2. result' # "running"
  BY DEF Finish
<1>3. Behind' /\ Tallied' /\ Paired'
  BY <1>2 DEF Inv, Behind, Tallied, Paired, Finish
<1>4. Passed' /\ InOrder'
  BY DEF Inv, Passed, Asked, Spared, InOrder, Precedes, Finish
<1>5. NoneMeansNobody'
  BY DEF Inv, Tallied, NoneMeansNobody, Finish
<1>6. PayloadIsLatest' /\ FirstSuccessWins' /\ EntersAreClosed'
  BY DEF Inv, PayloadIsLatest, FirstSuccessWins, EntersAreClosed, Finish
<1> QED BY <1>1, <1>3, <1>4, <1>5, <1>6 DEF Inv

\* Every step of a chain keeps the invariant.
LEMMA NextKeeps == Inv /\ [Next]_vars => Inv'
<1> SUFFICES ASSUME Inv, [Next]_vars PROVE Inv'
  OBVIOUS
<1>1. CASE UNCHANGED vars
  <2>1. TypeOK' /\ Placed'
    BY <1>1 DEF Inv, TypeOK, Placed, Plan, vars
  <2>2. Behind' /\ Passed' /\ InOrder' /\ Tallied' /\ Paired'
    BY <1>1 DEF Inv, Behind, Before, FirstSuccess, Passed, Asked, Spared, InOrder, Precedes,
                Tallied, Paired, Mine, Plan, vars
  <2>3. PayloadIsLatest' /\ NoneMeansNobody' /\ FirstSuccessWins' /\ EntersAreClosed'
    BY <1>1 DEF Inv, PayloadIsLatest, NoneMeansNobody, FirstSuccessWins, EntersAreClosed, vars
  <2> QED BY <2>1, <2>2, <2>3 DEF Inv
<1>2. CASE CannotCall
  BY <1>2, AbortKeeps DEF CannotCall
<1> QED BY <1>1, <1>2, CallKeeps, AnswerKeeps, NextPhaseKeeps, FinishKeeps DEF Next
-----------------------------------------------------------------------------
(* The notifications of a chain *)

NoteRecords == [method : Events, phase : 1..3, error : BOOLEAN]

\* What is published of a new observation, when broadcasting is on.
LEMMA Publishes ==
  ASSUME Placed, notes \in Seq(NoteRecords), phase \in 1..3, index \in Nat, NEW e \in Events,
         observed' = Append(observed, Mine(e)), Publish
  PROVE  /\ Len(observed') = Len(observed) + 1 /\ Len(observed) \in Nat /\ Len(notes) \in Nat
         /\ \A i \in 1..Len(observed) : observed'[i] = observed[i]
         /\ observed'[Len(observed) + 1].event = e
         /\ IF enabled
              THEN /\ notes' \in Seq(NoteRecords) /\ Len(notes') = Len(notes) + 1
                   /\ DOMAIN notes = 1..Len(notes) /\ DOMAIN notes' = 1..Len(notes) + 1
                   /\ \A i \in 1..Len(notes) : notes'[i] = notes[i]
                   /\ notes'[Len(notes) + 1].method = e /\ notes'[Len(notes) + 1].phase = phase
              ELSE notes' = notes
<1>1. /\ Len(observed') = Len(observed) + 1 /\ Len(observed) \in Nat
      /\ \A i \in 1..Len(observed) : observed'[i] = observed[i]
      /\ observed'[Len(observed) + 1] = Mine(e)
  BY ObservedGrows
<1>2. observed' # observed
  BY <1>1
<1>3. notes' = IF enabled THEN Append(notes, Note(Mine(e))) ELSE notes
  BY <1>1, <1>2 DEF Publish
<1>4. Mine(e).event = e
  BY DEF Mine
<1>5. Note(Mine(e)) \in NoteRecords /\ Note(Mine(e)).method = e /\ Note(Mine(e)).phase = phase
  BY DEF Note, Mine, NoteRecords
<1>6. Len(notes) \in Nat
  OBVIOUS
<1>7. enabled =>
        /\ notes' \in Seq(NoteRecords) /\ Len(notes') = Len(notes) + 1
        /\ DOMAIN notes = 1..Len(notes) /\ DOMAIN notes' = 1..Len(notes) + 1
        /\ \A i \in 1..Len(notes) : notes'[i] = notes[i]
        /\ notes'[Len(notes) + 1] = Note(Mine(e))
  BY <1>3, <1>5
<1> QED BY <1>1, <1>3, <1>4, <1>5, <1>6, <1>7

\* Notifications stay in order when one of the phase under way is added.
LEMMA NotedGrows ==
  ASSUME Placed, Noted, phase \in 1..3, index \in Nat, NEW e \in Events,
         observed' = Append(observed, Mine(e)), Publish, UNCHANGED <<phase, enabled, watched>>
  PROVE  Noted'
<1>1. notes \in Seq(NoteRecords)
  BY DEF Noted, NoteRecords
<1>2. CASE ~enabled
  <2>1. notes' = notes /\ Len(observed') = Len(observed) + 1 /\ Len(observed) \in Nat /\ Len(notes) \in Nat
    BY <1>1, <1>2, Publishes
  <2>2. Len(notes') <= Len(observed')
    BY <2>1 DEF Noted
  <2> QED BY <2>1, <2>2 DEF Noted
<1>3. CASE enabled
  <2> DEFINE n == Len(notes)
  <2>1. /\ Len(observed') = Len(observed) + 1 /\ Len(observed) \in Nat /\ n \in Nat
        /\ notes' \in Seq(NoteRecords) /\ Len(notes') = n + 1
        /\ DOMAIN notes = 1..n /\ DOMAIN notes' = 1..n + 1
        /\ \A i \in 1..n : notes'[i] = notes[i]
        /\ notes'[n + 1].phase = phase
    BY <1>1, <1>3, Publishes
  <2>2. n <= Len(observed) /\ \A i \in 1..n : notes[i].phase <= phase
    BY <2>1 DEF Noted
  <2>3. \A i, j \in 1..n : i < j => notes[i].phase <= notes[j].phase
    BY <2>1 DEF Noted
  <2> HIDE DEF n
  <2>4. \A i \in 1..n + 1 : notes'[i].phase <= phase
    BY <2>1, <2>2
  <2>5. \A i, j \in 1..n + 1 : i < j => notes'[i].phase <= notes'[j].phase
    BY <2>1, <2>2, <2>3
  <2>6. Len(notes') <= Len(observed')
    BY <2>1, <2>2
  <2> QED BY <2>1, <2>4, <2>5, <2>6 DEF Noted, NoteRecords
<1> QED BY <1>2, <1>3

\* While broadcasting has been on, the notifications mirror the observations.
LEMMA MirroredGrows ==
  ASSUME Placed, Noted, Mirrored, phase \in 1..3, index \in Nat, NEW e \in Events,
         observed' = Append(observed, Mine(e)), Publish, UNCHANGED <<caller, enabled, watched>>
  PROVE  Mirrored'
<1> SUFFICES ASSUME caller = "domain", watched
             PROVE  Len(notes') = Len(observed') /\ \A i \in DOMAIN notes' : notes'[i].method = observed'[i].event
  BY DEF Mirrored
<1> DEFINE n == Len(notes)
<1>1. notes \in Seq(NoteRecords) /\ enabled
  BY DEF Noted, NoteRecords
<1>2. Len(observed) = n /\ \A i \in DOMAIN notes : notes[i].method = observed[i].event
  BY DEF Mirrored
<1>3. /\ Len(observed') = n + 1 /\ n \in Nat /\ Len(notes') = n + 1
      /\ \A i \in 1..n : observed'[i] = observed[i]
      /\ observed'[n + 1].event = e
      /\ DOMAIN notes = 1..n /\ DOMAIN notes' = 1..n + 1
      /\ \A i \in 1..n : notes'[i] = notes[i]
      /\ notes'[n + 1].method = e
  BY <1>1, <1>2, Publishes
<1> HIDE DEF n
<1> QED BY <1>2, <1>3

\* No step of the chain takes back an observation or a phase.
LEMMA StepsGoOn ==
  ASSUME Inv, Next
  PROVE  Len(observed) <= Len(observed') /\ phase <= phase'
<1>1. phase \in Nat /\ index \in Nat /\ observed \in Seq(Observations) /\ Len(observed) \in Nat
  BY ConstantsAssumption DEF Inv, TypeOK, Placed
<1>2. CASE Call
  <2>1. phase \in 1..3 /\ observed' = Append(observed, Mine("Enter")) /\ "Enter" \in Events
    BY <1>2 DEF Inv, TypeOK, Call, Observe, Events
  <2>2. Len(observed') = Len(observed) + 1 /\ phase' = phase
    BY <1>1, <1>2, <2>1, ObservedGrows DEF Inv, Call
  <2> QED BY <1>1, <2>2
<1>3. ASSUME NEW answer \in Answers, Answer(answer)
      PROVE  Len(observed) <= Len(observed') /\ phase <= phase'
  <2>1. phase \in 1..3 /\ phase' = phase
    BY <1>3, AnswerRecords DEF Inv
  <2>2. CASE observed' = observed
    BY <1>1, <2>1, <2>2
  <2>3. ASSUME NEW e \in Events, observed' = Append(observed, Mine(e))
        PROVE  Len(observed') = Len(observed) + 1
    BY <1>1, <2>1, <2>3, ObservedGrows DEF Inv
  <2> QED BY <1>1, <1>3, <2>1, <2>2, <2>3, AnswerDoes DEF Inv
<1>4. CASE CannotCall \/ NextPhase \/ Finish
  BY <1>1, <1>4 DEF CannotCall, NextPhase, Finish
<1> QED BY <1>2, <1>3, <1>4 DEF Next

\* With the policy of a domain's plugin, what each answer leads to.
LEMMA PipelineAnswer ==
  ASSUME Inv, Policy = "Pipeline", NEW answer \in Answers, Answer(answer)
  PROVE  \/ observed' = observed /\ result' = "Err"
         \/ observed' = Append(observed, Mine("Error")) /\ result' = "Err"
         \/ observed' = Append(observed, Mine("Halt")) /\ result' = "Some"
         \/ /\ result' = "running" /\ anyHandled' = anyHandled
            /\ \E e \in {"Skipped", "Unhandled", "Unchanged", "Continue"} :
                 /\ observed' = Append(observed, Mine(e))
                 /\ handled' <=> handled \/ e \in {"Unchanged", "Continue"}
<1>1. result = "running" /\ handled \in BOOLEAN
  BY DEF Inv, TypeOK, Placed, Answer
<1>2. CASE answer = "None"
  BY <1>1, <1>2 DEF Answer, Pass, Observe
<1>3. CASE answer = "Unhandled"
  BY <1>1, <1>3 DEF Answer, Pass, Observe
<1>4. CASE answer = "Unchanged"
  BY <1>1, <1>4 DEF Answer, Observed, Observe
<1>5. CASE answer \in {"Err", "Error"}
  BY <1>1, <1>5 DEF Answer, Failed, Suppresses, Fail, Observe
<1>6. CASE answer = "Unparsable"
  BY <1>1, <1>6 DEF Answer, Unparsable, Suppresses, Fail
<1>7. CASE answer = "Continue"
  BY <1>1, <1>7 DEF Answer, Continued, IgnoresOutput, Handled, Observe
<1>8. CASE answer = "Halt"
  BY <1>1, <1>8 DEF Answer, HaltAsked, IgnoresOutput, Halted, Observe
<1> QED BY <1>2, <1>3, <1>4, <1>5, <1>6, <1>7, <1>8 DEF Answers
\* The only binding of a phase of a domain chain has the pipeline policy.
LEMMA DomainPolicy ==
  ASSUME bindings \in SinglePlans, phase \in 1..3, index \in 1..Len(Plan)
  PROVE  Policy = "Pipeline"
<1>1. Plan = <<"Pipeline">> \/ Plan = <<>>
  BY DEF SinglePlans, Plan
<1>2. CASE Plan = <<>>
  <2>1. Len(Plan) = 0
    BY <1>2
  <2> QED BY <2>1
<1>3. CASE Plan = <<"Pipeline">>
  <2>1. Len(Plan) = 1 /\ Plan[1] = "Pipeline"
    BY <1>3
  <2> QED BY <2>1 DEF Policy
<1> QED BY <1>1, <1>2, <1>3

\* An answer of the domain's plugin, and what its listeners can tell from it.
LEMMA DomainAnswerKeeps ==
  ASSUME DomainInv, caller = "domain", NEW answer \in Answers, Answer(answer), Publish,
         UNCHANGED <<caller, enabled, watched>>
  PROVE  DomainInv'
<1>1. Inv'
  BY AnswerKeeps DEF DomainInv
<1>2. /\ result = "running" /\ phase \in 1..3 /\ index \in 1..Len(Plan) /\ index \in Nat
      /\ phase' = phase /\ bindings' = bindings
  BY AnswerRecords DEF DomainInv, Inv
<1>3. Policy = "Pipeline"
  BY <1>2, DomainPolicy DEF DomainInv, Told
<1>4. notes \in Seq(NoteRecords) /\ Placed
  BY DEF DomainInv, Inv, Noted, NoteRecords
<1>5. Noted' /\ Mirrored'
  <2>1. CASE observed' = observed
    <3>1. notes' = notes
      BY <2>1 DEF Publish
    <3> QED BY <1>2, <2>1, <3>1 DEF DomainInv, Noted, Mirrored
  <2>2. ASSUME NEW e \in Events, observed' = Append(observed, Mine(e))
        PROVE  Noted' /\ Mirrored'
    BY <1>2, <1>4, <2>2, NotedGrows, MirroredGrows DEF DomainInv
  <2> QED BY <2>1, <2>2, AnswerDoes DEF DomainInv, Inv
<1>6. CASE ~watched
  <2>1. ~watched' /\ caller' = caller /\ bindings' = bindings
    BY <1>2, <1>6
  <2> QED BY <1>1, <1>5, <2>1 DEF DomainInv, Told
<1>7. CASE watched
  <2> DEFINE n == Len(notes)
  <2>1. enabled /\ n = Len(observed) /\ n \in Nat /\ DOMAIN notes = 1..n
    BY <1>4, <1>7 DEF DomainInv, Noted, Mirrored
  <2>2. entered /\ n > 0 /\ observed[Len(observed)].event = "Enter"
    <3>1. entered /\ Len(answers) \in Nat
      BY DEF Answer, DomainInv, Inv, TypeOK
    <3>2. Len(observed) = 2 * Len(answers) + 1 /\ observed[Len(observed)] = Mine("Enter")
      BY <1>2, <3>1 DEF DomainInv, Inv, Paired
    <3> QED BY <2>1, <3>1, <3>2 DEF Mine
  <2>3. notes[n].method = "Enter"
    BY <1>7, <2>1, <2>2 DEF DomainInv, Mirrored
  <2>4. handled \/ anyHandled <=> \E i \in 1..n : Took(notes[i])
    BY <1>2, <1>7, <2>1 DEF DomainInv, Told
  <2>5. ASSUME NEW e \in Events, observed' = Append(observed, Mine(e))
        PROVE  /\ DOMAIN notes' = 1..n + 1 /\ Len(notes') = n + 1 /\ notes' # <<>>
               /\ \A i \in 1..n : notes'[i] = notes[i]
               /\ notes'[n + 1].method = e
    <3>1. /\ DOMAIN notes' = 1..n + 1 /\ Len(notes') = n + 1
          /\ \A i \in 1..n : notes'[i] = notes[i]
          /\ notes'[n + 1].method = e
      BY <1>2, <1>4, <2>1, <2>5, Publishes
    <3> QED BY <2>1, <3>1
  <2>6. \/ observed' = observed /\ result' = "Err"
        \/ observed' = Append(observed, Mine("Error")) /\ result' = "Err"
        \/ observed' = Append(observed, Mine("Halt")) /\ result' = "Some"
        \/ /\ result' = "running" /\ anyHandled' = anyHandled
           /\ \E e \in {"Skipped", "Unhandled", "Unchanged", "Continue"} :
                /\ observed' = Append(observed, Mine(e))
                /\ handled' <=> handled \/ e \in {"Unchanged", "Continue"}
    BY <1>3, PipelineAnswer DEF DomainInv
  <2>7. CASE observed' = observed /\ result' = "Err"
    <3>1. notes' = notes
      BY <2>7 DEF Publish
    <3>2. Replayed' = "Err"
      BY <2>1, <2>2, <2>3, <3>1 DEF Replayed
    <3> QED BY <1>1, <1>2, <1>5, <2>7, <3>2 DEF DomainInv, Told
  <2>8. CASE observed' = Append(observed, Mine("Error")) /\ result' = "Err"
    <3>1. notes' # <<>> /\ notes'[Len(notes')].method = "Error"
      BY <2>5, <2>8 DEF Events
    <3>2. Replayed' = "Err"
      BY <3>1 DEF Replayed
    <3> QED BY <1>1, <1>2, <1>5, <2>8, <3>2 DEF DomainInv, Told
  <2>9. CASE observed' = Append(observed, Mine("Halt")) /\ result' = "Some"
    <3>1. notes'[Len(notes')].method = "Halt" /\ Len(notes') \in DOMAIN notes'
      BY <2>1, <2>5, <2>9 DEF Events
    <3>2. Replayed' = "Some"
      BY <3>1 DEF Replayed, Took
    <3> QED BY <1>1, <1>2, <1>5, <2>9, <3>2 DEF DomainInv, Told
  <2>10. ASSUME result' = "running", anyHandled' = anyHandled,
                NEW e \in {"Skipped", "Unhandled", "Unchanged", "Continue"},
                observed' = Append(observed, Mine(e)),
                handled' <=> handled \/ e \in {"Unchanged", "Continue"}
         PROVE  DomainInv'
    <3>1. /\ DOMAIN notes' = 1..n + 1 /\ Len(notes') = n + 1
          /\ \A i \in 1..n : notes'[i] = notes[i]
          /\ notes'[n + 1].method = e
      BY <2>5, <2>10 DEF Events
    <3> HIDE DEF n
    <3>2. Took(notes'[n + 1]) <=> e \in {"Unchanged", "Continue"}
      BY <2>10, <3>1 DEF Took
    <3>3. (\E i \in 1..n + 1 : Took(notes'[i])) <=> (\E i \in 1..n : Took(notes[i])) \/ Took(notes'[n + 1])
      BY <2>1, <3>1
    <3>4. handled' \/ anyHandled' <=> \E i \in DOMAIN notes' : Took(notes'[i])
      BY <2>4, <2>10, <3>1, <3>2, <3>3
    <3>5. notes'[Len(notes')].method \notin {"Error", "Enter"}
      BY <2>10, <3>1
    <3>6. Told'
      BY <1>2, <2>10, <3>4, <3>5 DEF DomainInv, Told, LastNote
    <3> QED BY <1>1, <1>5, <3>6 DEF DomainInv
  <2> QED BY <2>6, <2>7, <2>8, <2>9, <2>10
<1> QED BY <1>1, <1>5, <1>6, <1>7 DEF DomainInv, Told
\* A call of the domain's plugin: the notification of it is the last one.
LEMMA DomainCallKeeps ==
  ASSUME DomainInv, DomainCall
  PROVE  DomainInv'
<1>1. Inv'
  BY CallKeeps DEF DomainInv, DomainCall
<1>2. /\ caller = "domain" /\ phase \in 1..3 /\ index \in Nat /\ ~entered /\ entered' = TRUE
      /\ result = "running" /\ observed' = Append(observed, Mine("Enter")) /\ "Enter" \in Events
      /\ Publish
      /\ UNCHANGED <<bindings, phase, handled, anyHandled, result, caller, enabled, watched>>
  BY ConstantsAssumption DEF DomainInv, Inv, TypeOK, DomainCall, Call, Observe, Events
<1>3. notes \in Seq(NoteRecords) /\ Placed
  BY DEF DomainInv, Inv, Noted, NoteRecords
<1>4. Noted' /\ Mirrored'
  BY <1>2, <1>3, NotedGrows, MirroredGrows DEF DomainInv
<1>5. Told'
  <2> SUFFICES ASSUME watched
               PROVE  handled \/ anyHandled <=> \E i \in DOMAIN notes' : Took(notes'[i])
    BY <1>2 DEF DomainInv, Told
  <2> DEFINE n == Len(notes)
  <2>1. /\ n \in Nat /\ DOMAIN notes = 1..n /\ DOMAIN notes' = 1..n + 1
        /\ \A i \in 1..n : notes'[i] = notes[i]
        /\ notes'[n + 1].method = "Enter"
    BY <1>2, <1>3, Publishes DEF DomainInv, Noted
  <2>2. handled \/ anyHandled <=> \E i \in 1..n : Took(notes[i])
    BY <1>2, <2>1 DEF DomainInv, Told
  <2> HIDE DEF n
  <2>3. ~Took(notes'[n + 1])
    BY <2>1 DEF Took
  <2> QED BY <2>1, <2>2, <2>3
<1> QED BY <1>1, <1>4, <1>5 DEF DomainInv

\* A chain that ends before a plugin is asked has nothing more to tell.
LEMMA DomainAbortKeeps ==
  ASSUME DomainInv, caller = "domain", result = "running", ~entered, result' = "Err",
         failure' = "InvalidConfiguration",
         UNCHANGED <<bindings, phase, index, entered, payload, handled, anyHandled, answers, observed>>,
         UNCHANGED <<caller, enabled, watched, notes>>
  PROVE  DomainInv'
<1>1. Inv'
  BY AbortKeeps DEF DomainInv
<1>2. Noted' /\ Mirrored'
  BY DEF DomainInv, Noted, Mirrored
<1>3. watched => Len(answers) * 2 = Len(notes)
  <2>1. Len(observed) = 2 * Len(answers) /\ Len(answers) \in Nat
    BY DEF DomainInv, Inv, TypeOK, Paired
  <2>2. watched => Len(notes) = Len(observed)
    BY DEF DomainInv, Mirrored
  <2> QED BY <2>1, <2>2
<1>4. Told'
  BY <1>3 DEF DomainInv, Told
<1> QED BY <1>1, <1>2, <1>4 DEF DomainInv

\* The end of a phase and of the chain.
LEMMA DomainEndKeeps ==
  ASSUME DomainInv, DomainEnd
  PROVE  DomainInv'
<1>1. Inv'
  BY NextPhaseKeeps, FinishKeeps DEF DomainInv, DomainEnd
<1>2. /\ caller = "domain" /\ result = "running" /\ handled \in BOOLEAN /\ anyHandled \in BOOLEAN
      /\ UNCHANGED <<bindings, entered, observed, answers>> /\ UNCHANGED bridge
  BY DEF DomainInv, Inv, TypeOK, DomainEnd, NextPhase, Finish
<1>3. phase \in Nat /\ phase' \in Nat /\ phase <= phase'
  BY <1>1, StepsGoOn DEF DomainInv, Inv, TypeOK, DomainEnd, Next
<1>4. Noted'
  <2>1. notes \in Seq(NoteRecords) /\ \A i \in DOMAIN notes : notes[i].phase <= phase
    BY DEF DomainInv, Noted, NoteRecords
  <2>2. \A i \in DOMAIN notes : notes[i].phase \in Nat
    <3>1. \A i \in DOMAIN notes : notes[i] \in NoteRecords
      BY <2>1
    <3> QED BY <3>1 DEF NoteRecords
  <2>3. \A i \in DOMAIN notes : notes[i].phase <= phase'
    BY <1>3, <2>1, <2>2
  <2> QED BY <1>2, <2>3 DEF DomainInv, Noted, bridge
<1>5. Mirrored'
  BY <1>2 DEF DomainInv, Mirrored, bridge
<1>6. CASE NextPhase
  <2>1. result' = result /\ (handled' \/ anyHandled' <=> handled \/ anyHandled)
    BY <1>6 DEF NextPhase
  <2>2. Told'
    BY <1>2, <2>1 DEF DomainInv, Told, LastNote, bridge
  <2> QED BY <1>1, <1>4, <1>5, <2>2 DEF DomainInv
<1>7. CASE Finish
  <2>1. /\ result' = (IF anyHandled THEN "Some" ELSE "None") /\ ~handled /\ ~entered
    BY <1>7 DEF DomainInv, Inv, Placed, Tallied, Finish
  <2>2. ASSUME watched
        PROVE  result' = Replayed'
    <3>1. anyHandled <=> \E i \in DOMAIN notes : Took(notes[i])
      BY <1>2, <2>1, <2>2 DEF DomainInv, Told
    <3>2. notes # <<>> => notes[Len(notes)].method \notin {"Error", "Enter"}
      BY <1>2, <2>1, <2>2 DEF DomainInv, Told, LastNote
    <3>3. Replayed = IF anyHandled THEN "Some" ELSE "None"
      BY <3>1, <3>2 DEF Replayed
    <3>4. Replayed' = Replayed
      BY <1>2 DEF Replayed, Took, bridge
    <3> QED BY <2>1, <3>3, <3>4
  <2>3. Told'
    BY <1>2, <2>1, <2>2 DEF DomainInv, Told, bridge
  <2> QED BY <1>1, <1>4, <1>5, <2>3 DEF DomainInv
<1> QED BY <1>6, <1>7 DEF DomainEnd
\* set_broadcast_enabled at any time: the chain goes on as if nothing had happened.
LEMMA SwitchingKeeps ==
  ASSUME DomainInv, SetBroadcastEnabled
  PROVE  DomainInv'
<1>1. Inv'
  BY NextKeeps DEF DomainInv, SetBroadcastEnabled
<1>2. Noted' /\ Mirrored' /\ Told'
  BY DEF DomainInv, Noted, Mirrored, Told, SetBroadcastEnabled, vars
<1> QED BY <1>1, <1>2 DEF DomainInv

\* A chain that the registry of the runtime runs notifies nobody.
LEMMA RegistryKeeps ==
  ASSUME DomainInv, RegistryStep
  PROVE  DomainInv'
<1>1. Inv'
  BY NextKeeps DEF DomainInv, RegistryStep
<1>2. Len(observed) <= Len(observed') /\ phase <= phase'
  BY StepsGoOn DEF DomainInv, RegistryStep
<1>3. phase \in Nat /\ phase' \in Nat /\ Len(observed) \in Nat /\ Len(observed') \in Nat
  BY <1>1 DEF DomainInv, Inv, TypeOK, Placed
<1>4. notes \in Seq(NoteRecords) /\ Len(notes) \in Nat /\ \A i \in DOMAIN notes : notes[i].phase \in Nat
  <2>1. notes \in Seq(NoteRecords)
    BY DEF DomainInv, Noted, NoteRecords
  <2>2. \A i \in DOMAIN notes : notes[i] \in NoteRecords
    BY <2>1
  <2> QED BY <2>1, <2>2 DEF NoteRecords
<1>5. notes' = notes /\ caller' = "registry" /\ UNCHANGED <<enabled, watched>>
  BY DEF RegistryStep, bridge
<1>6. Noted'
  <2>1. Len(notes) <= Len(observed) /\ \A i \in DOMAIN notes : notes[i].phase <= phase
    BY DEF DomainInv, Noted
  <2>2. Len(notes) <= Len(observed') /\ \A i \in DOMAIN notes : notes[i].phase <= phase'
    BY <1>2, <1>3, <1>4, <2>1
  <2> QED BY <1>5, <2>2 DEF DomainInv, Noted
<1> QED BY <1>1, <1>5, <1>6 DEF DomainInv, Mirrored, Told

-----------------------------------------------------------------------------
(* Theorems *)

\* The inductive invariant of a chain and of its notifications.
THEOREM Invariance == DomainSpec => []DomainInv
<1>1. DomainInit => DomainInv
  <2> SUFFICES ASSUME DomainInit PROVE DomainInv
    OBVIOUS
  <2>1. Inv
    BY InitHas DEF DomainInit
  <2>2. /\ notes = <<>> /\ observed = <<>> /\ watched = enabled /\ result = "running"
        /\ handled = FALSE /\ anyHandled = FALSE
    BY DEF DomainInit, Init
  <2>3. DOMAIN notes = {} /\ Len(notes) = 0 /\ Len(observed) = 0
        /\ notes \in Seq([method : Events, phase : 1..3, error : BOOLEAN])
    BY <2>2
  <2>4. caller = "domain" => bindings \in SinglePlans
    BY DEF DomainInit
  <2> QED BY <2>1, <2>2, <2>3, <2>4 DEF DomainInv, Noted, Mirrored, Told
<1>2. DomainInv /\ [DomainNext]_<<vars, bridge>> => DomainInv'
  <2> SUFFICES ASSUME DomainInv, [DomainNext]_<<vars, bridge>> PROVE DomainInv'
    OBVIOUS
  <2>1. CASE UNCHANGED <<vars, bridge>>
    <3>1. Inv'
      BY <2>1, NextKeeps DEF DomainInv
    <3>2. Noted' /\ Mirrored' /\ Told'
      BY <2>1 DEF DomainInv, Noted, Mirrored, Told, LastNote, Replayed, Took, vars, bridge
    <3> QED BY <3>1, <3>2 DEF DomainInv
  <2>2. CASE Refuse
    BY <2>2, DomainAbortKeeps DEF Refuse, FromHost
  <2>3. CASE CannotEncode
    BY <2>3, DomainAbortKeeps DEF CannotEncode, CannotCall, FromHost
  <2>4. ASSUME NEW error \in Raised, DomainError(error) PROVE DomainInv'
    BY <2>4, DomainAnswerKeeps DEF DomainError, Answers
  <2>5. ASSUME NEW answer \in Answers, DomainAnswer(answer) PROVE DomainInv'
    BY <2>5, DomainAnswerKeeps DEF DomainAnswer
  <2> QED
    BY <2>1, <2>2, <2>3, <2>4, <2>5, RegistryKeeps, DomainCallKeeps, DomainEndKeeps, SwitchingKeeps
    DEF DomainNext
<1> QED BY <1>1, <1>2, PTL DEF DomainSpec

\* The variables of run_slot_chain_observed have their types.
THEOREM TypeCorrect == DomainSpec => []TypeOK
<1>1. DomainInv => TypeOK
  BY DEF DomainInv, Inv
<1> QED BY <1>1, Invariance, PTL

\* A plugin gets the latest payload that counts: apply_outcome drops those of
\* observing policies, and keeps the last of the others across phases.
THEOREM LatestPayload == DomainSpec => []PayloadIsLatest
<1>1. DomainInv => PayloadIsLatest
  BY DEF DomainInv, Inv
<1> QED BY <1>1, Invariance, PTL

\* run_slot_chain returns None exactly when nobody took part in any phase.
THEOREM NoneIsNobody == DomainSpec => []NoneMeansNobody
<1>1. DomainInv => NoneMeansNobody
  BY DEF DomainInv, Inv
<1> QED BY <1>1, Invariance, PTL

\* Bindings are called in order, none is left out but after a first success, and
\* nobody is asked after one.
THEOREM CallsInOrder == DomainSpec => []CalledInOrder
<1>1. DomainInv => CalledInOrder
  <2> SUFFICES ASSUME DomainInv PROVE CalledInOrder
    OBVIOUS
  <2>1. FirstSuccessWins /\ \A i, j \in DOMAIN answers : i < j => Precedes(i, j)
    BY DEF DomainInv, Inv, InOrder
  <2>2. \A p \in 1..3 : phase > p =>
          \A k \in DOMAIN bindings[p] : Asked(p, k) \/ Spared(p, k)
    <3>1. phase \in Nat
      BY DEF DomainInv, Inv, TypeOK
    <3> QED BY <3>1 DEF DomainInv, Inv, Passed
  <2> QED BY <2>1, <2>2 DEF CalledInOrder, Asked, Spared
<1> QED BY <1>1, Invariance, PTL

\* An observer can pair what it is told: each Enter with the one event after it.
THEOREM EntersPair == DomainSpec => []EntersAreClosed
<1>1. DomainInv => EntersAreClosed
  BY DEF DomainInv, Inv
<1> QED BY <1>1, Invariance, PTL

\* slot_observer.rs: a listener can tell from the notifications how the chain of a
\* domain ended, unless the plugin was never asked.
THEOREM NotesTellTheEnd == DomainSpec => []NotesReplayTheChain
<1>1. DomainInv => NotesReplayTheChain
  <2> SUFFICES ASSUME DomainInv PROVE NotesReplayTheChain
    OBVIOUS
  <2>1. result # "running" /\ caller = "domain" /\ watched =>
          \/ result = Replayed
          \/ failure = "InvalidConfiguration" /\ Len(answers) * 2 = Len(notes)
    BY DEF DomainInv, Told
  <2>2. Len(notes) <= Len(observed) /\ \A i, j \in DOMAIN notes : i < j => notes[i].phase <= notes[j].phase
    BY DEF DomainInv, Noted
  <2> QED BY <2>1, <2>2 DEF NotesReplayTheChain
<1> QED BY <1>1, Invariance, PTL
=============================================================================
