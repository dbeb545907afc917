------------------------- MODULE ProcessCoreProofs -------------------------
(***************************************************************************)
(* Proofs about ProcessCore, for any number of processes, of output lines  *)
(* and whatever may fail.                                                  *)
(***************************************************************************)
EXTENDS ProcessCore, TLAPS

-----------------------------------------------------------------------------
(* Type correctness *)

\* Every reachable state of ProcessCore has the types its fields declare.
THEOREM TypeCorrect == SafetySpec => []TypeOK
<1>1. ASSUME Init PROVE TypeOK
  <2> USE <1>1 DEF Init
  <2>1. written \in [Procs -> [Streams -> 0..MaxLines]] /\ read = written
    BY ConstantsAssumption
  <2>2. reaper \in [Procs -> ReaperStates] /\ proc \in [Procs -> ProcStates]
        /\ saw \in [Procs -> Procs \cup {NoChild}]
    BY DEF ReaperStates, ProcStates
  <2>3. \A r \in Procs : reaper[r] \in {"noticed", "reporting"} => saw[r] \in Procs
    OBVIOUS
  <2>4. state \in ConnectionStates /\ pc \in CallerPcs /\ path \in Paths /\ ret \in Results
    BY DEF ConnectionStates, CallerPcs, Paths, Results
  <2>5. rxHeld \in BOOLEAN /\ events \in Seq(Event)
    OBVIOUS
  <2> QED BY <2>1, <2>2, <2>3, <2>4, <2>5 DEF TypeOK
<1>2. ASSUME TypeOK, [Next]_vars PROVE TypeOK'
  <2> USE <1>2 DEF TypeOK, shared, locals, threads, os, pipes
  <2>1. CASE Calls
    BY <2>1 DEF Calls, StartCall, RestartCall, StopCall, KillCall, Subscribe, Enter, Paths,
                CallerPcs, Results
  <2>2. CASE RestartStatus
    BY <2>2 DEF RestartStatus, Goto, CallerPcs
  <2>3. CASE StartSteps
    <3> USE DEF Goto, CallerPcs
    <3>1. CASE StartCheck
      BY <3>1 DEF StartCheck, Return, Results
    <3>2. CASE StartConnecting \/ StartSpawnFails \/ StartStore \/ StartConnected
      BY <3>2 DEF StartConnecting, StartSpawnFails, StartStore, StartConnected, ConnectionStates
    <3>3. CASE StartFailed
      BY <3>3 DEF StartFailed, SpawnErrors, Return, Results, ConnectionStates
    <3>4. ASSUME NEW p \in Procs, StartSpawn(p) PROVE TypeOK'
      BY <3>4 DEF StartSpawn, ProcStates
    <3>5. ASSUME NEW p \in Procs, StartWatch(p) PROVE TypeOK'
      BY <3>5 DEF StartWatch, Return, Results, ReaperStates
    <3> QED BY <2>3, <3>1, <3>2, <3>3, <3>4, <3>5 DEF StartSteps
  <2>4. CASE StopSteps
    <3> USE DEF Goto, Return, CallerPcs, Results
    <3>1. CASE StopTake
      BY <3>1 DEF StopTake
    <3>2. CASE StopDisconnecting \/ StopKillFails \/ StopEnd
      BY <3>2 DEF StopDisconnecting, StopKillFails, StopEnd, ConnectionStates
    <3>3. CASE StopKill \/ StopWait
      BY <3>3 DEF StopKill, StopWait, ProcStates
    <3> QED BY <2>4, <3>1, <3>2, <3>3 DEF StopSteps
  <2>5. ASSUME NEW r \in Procs, ReaperStep(r) PROVE TypeOK'
    <3>1. CASE Reap(r)
      BY <3>1 DEF Reap, ReaperStates, ProcStates
    <3>2. CASE PollAlive(r)
      BY <3>2 DEF PollAlive, vars
    <3>3. CASE PollEmpty(r) \/ PollFails(r) \/ ReportState(r)
      BY <3>3 DEF PollEmpty, PollFails, ReportState, ReaperStates, ConnectionStates
    <3>4. CASE ReportCrash(r)
      <4>1. Crashed(saw[r]) \in Event
        BY <3>4 DEF ReportCrash, Crashed, Event
      <4> QED BY <3>4, <4>1 DEF ReportCrash, ReaperStates
    <3> QED BY <2>5, <3>1, <3>2, <3>3, <3>4 DEF ReaperStep
  <2>6. ASSUME NEW p \in Procs, Exit(p) PROVE TypeOK'
    BY <2>6 DEF Exit, ProcStates
  <2>7. ASSUME NEW p \in Procs, NEW s \in Streams, WriteLine(p, s) PROVE TypeOK'
    <3>1. written[p][s] + 1 \in 0..MaxLines
      BY <2>7, ConstantsAssumption DEF WriteLine
    <3> QED BY <2>7, <3>1 DEF WriteLine
  <2>8. ASSUME NEW p \in Procs, NEW s \in Streams, ReadLine(p, s) PROVE TypeOK'
    <3>1. [kind |-> Kind(s), proc |-> p] \in Event
      BY DEF Event, Kind
    <3>2. read[p][s] + 1 \in 0..MaxLines
      BY <2>8, ConstantsAssumption DEF ReadLine
    <3> QED BY <2>8, <3>1, <3>2 DEF ReadLine
  <2>9. ASSUME NEW p \in Procs, NEW s \in Streams, ReaderFails(p, s) PROVE TypeOK'
    BY <2>9 DEF ReaderFails
  <2>10. CASE UNCHANGED vars
    BY <2>10 DEF vars
  <2> QED
    BY <2>1, <2>2, <2>3, <2>4, <2>5, <2>6, <2>7, <2>8, <2>9, <2>10
    DEF Next, CallerStep, OutputStep
<1> QED BY <1>1, <1>2, PTL DEF SafetySpec

-----------------------------------------------------------------------------
(* Custody *)

\* What is reported after an event was sent.
LEMMA ReportedAfter ==
  ASSUME TypeOK, NEW e \in Event, events' = Append(events, e), NEW p \in Procs
  PROVE  Reported(p)' <=> Reported(p) \/ e = Crashed(p)
<1>1. Len(events') = Len(events) + 1 /\ Len(events) \in Nat
  BY DEF TypeOK
<1>2. \A i \in 1..Len(events) : events'[i] = events[i]
  BY DEF TypeOK
<1>3. events'[Len(events) + 1] = e
  BY DEF TypeOK
<1>4. DOMAIN events = 1..Len(events) /\ DOMAIN events' = 1..(Len(events) + 1)
  BY <1>1 DEF TypeOK
<1> QED BY <1>1, <1>2, <1>3, <1>4 DEF Reported, Crashed

\* A step that sends no event reports nothing new.
LEMMA ReportedSame ==
  ASSUME events' = events, NEW p
  PROVE  Reported(p)' <=> Reported(p)
BY DEF Reported, Crashed

\* Every reachable state of ProcessCore satisfies Handles.
THEOREM HandlesHold == SafetySpec => []Handles
<1>1. ASSUME Init PROVE Handles
  BY <1>1 DEF Init, Handles, StopHoldsChild
<1>2. ASSUME TypeOK, Handles, [Next]_vars PROVE Handles'
  <2> USE <1>2 DEF TypeOK, Handles, StopHoldsChild, shared, locals, threads, os, pipes
  <2>1. CASE Calls
    BY <2>1 DEF Calls, StartCall, RestartCall, StopCall, KillCall, Subscribe, Enter
  <2>2. CASE RestartStatus
    BY <2>2 DEF RestartStatus, Goto
  <2>3. CASE StartSteps
    <3> USE ConstantsAssumption DEF Goto, Return
    <3>1. CASE StartCheck \/ StartFailed
      BY <3>1 DEF StartCheck, StartFailed
    <3>2. CASE StartConnecting \/ StartSpawnFails \/ StartConnected
      BY <3>2 DEF StartConnecting, StartSpawnFails, StartConnected
    <3>3. CASE StartStore
      BY <3>3 DEF StartStore
    <3>4. ASSUME NEW p \in Procs, StartSpawn(p) PROVE Handles'
      BY <3>4 DEF StartSpawn
    <3>5. ASSUME NEW p \in Procs, StartWatch(p) PROVE Handles'
      BY <3>5 DEF StartWatch
    <3> QED BY <2>3, <3>1, <3>2, <3>3, <3>4, <3>5 DEF StartSteps
  <2>4. CASE StopSteps
    <3> USE DEF Goto, Return
    <3>1. CASE StopTake
      BY <3>1 DEF StopTake
    <3>2. CASE StopDisconnecting \/ StopKillFails \/ StopEnd
      BY <3>2 DEF StopDisconnecting, StopKillFails, StopEnd
    <3>3. CASE StopKill
      BY <3>3 DEF StopKill
    <3>4. CASE StopWait
      BY <3>4 DEF StopWait
    <3> QED BY <2>4, <3>1, <3>2, <3>3, <3>4 DEF StopSteps
  <2>5. ASSUME NEW r \in Procs, ReaperStep(r) PROVE Handles'
    <3>1. CASE Reap(r)
      BY <3>1 DEF Reap
    <3>2. CASE PollAlive(r)
      BY <3>2 DEF PollAlive, vars
    <3>3. CASE PollEmpty(r) \/ PollFails(r) \/ ReportState(r) \/ ReportCrash(r)
      BY <3>3 DEF PollEmpty, PollFails, ReportState, ReportCrash
    <3> QED BY <2>5, <3>1, <3>2, <3>3 DEF ReaperStep
  <2>6. ASSUME NEW p \in Procs, Exit(p) PROVE Handles'
    BY <2>6 DEF Exit
  <2>7. CASE OutputStep
    BY <2>7 DEF OutputStep, WriteLine, ReadLine, ReaderFails
  <2>8. CASE UNCHANGED vars
    BY <2>8 DEF vars
  <2> QED
    BY <2>1, <2>2, <2>3, <2>4, <2>5, <2>6, <2>7, <2>8 DEF Next, CallerStep
<1> QED BY <1>1, <1>2, TypeCorrect, PTL DEF SafetySpec

\* How a step changes what the OS knows of a process: a reaped one stays
\* reaped, and only a reaper's Reap makes it so.
LEMMA ReapedIsFinal ==
  ASSUME TypeOK, Handles, [Next]_vars, NEW p \in Procs, proc[p] = "reaped"
  PROVE  proc'[p] = "reaped"
<1> USE DEF TypeOK, Handles, shared, locals, threads, os, pipes
<1>1. ASSUME NEW q \in Procs, StartSpawn(q) \/ Exit(q) PROVE proc'[p] = "reaped"
  BY <1>1 DEF StartSpawn, Exit, Executing
<1>2. CASE StopKill
  BY <1>2 DEF StopKill
<1>3. CASE StopWait
  BY <1>3 DEF StopWait
<1>4. ASSUME NEW r \in Procs, Reap(r) PROVE proc'[p] = "reaped"
  BY <1>4 DEF Reap
<1>5. CASE UNCHANGED proc
  BY <1>5
<1> QED
  <2>1. CASE Calls
    BY <2>1, <1>5 DEF Calls, StartCall, RestartCall, StopCall, KillCall, Subscribe, Enter
  <2>2. CASE CallerStep
    BY <2>2, <1>1, <1>2, <1>3, <1>5
    DEF CallerStep, RestartStatus, StartSteps, StopSteps, StartCheck, StartConnecting,
        StartSpawnFails, StartFailed, StartStore, StartConnected, StartWatch,
        StopTake, StopDisconnecting, StopKillFails, StopEnd
  <2>3. ASSUME NEW r \in Procs, ReaperStep(r) PROVE proc'[p] = "reaped"
    BY <2>3, <1>4, <1>5
    DEF ReaperStep, PollAlive, PollEmpty, PollFails, ReportState, ReportCrash, vars
  <2>4. CASE OutputStep
    BY <2>4, <1>5 DEF OutputStep, WriteLine, ReadLine, ReaderFails
  <2> QED BY <2>1, <2>2, <2>3, <2>4, <1>1, <1>5 DEF Next, vars

\* The steps of a reaper that touch what is pending, and all the others.
LEMMA QuietSteps ==
  ASSUME TypeOK, [Next]_vars,
         \A r \in Procs : ~Reap(r) /\ ~ReportState(r) /\ ~ReportCrash(r)
  PROVE  /\ \A r \in Procs : Reporting(r)' => Reporting(r) /\ saw'[r] = saw[r]
         /\ \A p \in Procs : Reported(p)' => Reported(p)
         /\ \A i \in DOMAIN events' : events'[i].kind = "Crashed" => i \in DOMAIN events
         /\ \A i \in DOMAIN events : events'[i] = events[i]
<1> USE DEF TypeOK, shared, locals, threads, os, pipes, Reporting
<1>1. CASE UNCHANGED <<events, saw, reaper>>
  BY <1>1, ReportedSame
<1>2. ASSUME NEW p \in Procs, NEW s \in Streams, ReadLine(p, s)
      PROVE  /\ UNCHANGED <<saw, reaper>>
             /\ \A q \in Procs : Reported(q)' => Reported(q)
             /\ \A i \in DOMAIN events' : events'[i].kind = "Crashed" => i \in DOMAIN events
             /\ \A i \in DOMAIN events : events'[i] = events[i]
  <2> DEFINE e == [kind |-> Kind(s), proc |-> p]
  <2>1. e \in Event /\ e.kind # "Crashed" /\ \A q \in Procs : e # Crashed(q)
    BY DEF Event, Kind, Crashed
  <2>2. events' = Append(events, e)
    BY <1>2 DEF ReadLine
  <2> HIDE DEF e
  <2>3. \A q \in Procs : Reported(q)' => Reported(q)
    BY <2>1, <2>2, ReportedAfter
  <2>4. UNCHANGED <<saw, reaper>>
    BY <1>2 DEF ReadLine
  <2>5. events \in Seq(Event)
    OBVIOUS
  <2> HIDE DEF TypeOK
  <2>6. /\ DOMAIN events' = 1 .. Len(events) + 1 /\ DOMAIN events = 1 .. Len(events)
        /\ events'[Len(events) + 1] = e
        /\ \A i \in DOMAIN events : events'[i] = events[i]
    BY <2>1, <2>2, <2>5
  <2>7. Len(events) \in Nat
    BY <2>5
  <2>8. \A i \in DOMAIN events' : events'[i].kind = "Crashed" => i \in DOMAIN events
    BY <2>1, <2>6, <2>7
  <2> QED BY <2>3, <2>4, <2>6, <2>8
<1>3. ASSUME NEW r \in Procs, StartWatch(r) \/ PollEmpty(r) \/ PollFails(r)
      PROVE  UNCHANGED events /\ \A q \in Procs : Reporting(q)' => Reporting(q) /\ saw'[q] = saw[q]
  BY <1>3 DEF StartWatch, PollEmpty, PollFails
<1>4. CASE Calls
  BY <1>1, <1>4 DEF Calls, StartCall, RestartCall, StopCall, KillCall, Subscribe, Enter
<1>5. CASE CallerStep
  BY <1>5, <1>1, <1>3, ReportedSame
  DEF CallerStep, RestartStatus, StartSteps, StopSteps, StartCheck, StartConnecting, StartSpawn,
      StartSpawnFails, StartFailed, StartStore, StartConnected,
      StopTake, StopDisconnecting, StopKill, StopKillFails, StopWait, StopEnd
<1>6. ASSUME NEW p \in Procs, NEW s \in Streams, WriteLine(p, s) \/ ReaderFails(p, s)
      PROVE UNCHANGED <<events, saw, reaper>>
  BY <1>6 DEF WriteLine, ReaderFails
<1>7. ASSUME NEW p \in Procs, Exit(p) \/ PollAlive(p)
      PROVE UNCHANGED <<events, saw, reaper>>
  BY <1>7 DEF Exit, PollAlive, vars
<1>8. CASE UNCHANGED vars
  BY <1>1, <1>8 DEF vars
<1> QED
  BY <1>1, <1>2, <1>3, <1>4, <1>5, <1>6, <1>7, <1>8, ReportedSame
  DEF Next, ReaperStep, OutputStep

CrashInv == CrashIsUnexpected /\ OneCrashPerProcess /\ Pending

\* Every step keeps what a crash report rests on.
LEMMA CrashStep == TypeOK /\ Handles /\ CrashInv /\ [Next]_vars => CrashInv'
<1> SUFFICES ASSUME TypeOK, Handles, CrashInv, [Next]_vars PROVE CrashInv'
  OBVIOUS
<1> USE DEF CrashInv, CrashIsUnexpected, OneCrashPerProcess, Pending
<1>1. \A p \in Procs : proc[p] = "reaped" => proc'[p] = "reaped"
  BY ReapedIsFinal
<1>2. \A r \in Procs : Reporting(r) => saw[r] \in Procs
  BY DEF TypeOK, Reporting
<1>3. ASSUME NEW r \in Procs, Reap(r) PROVE CrashInv'
  <2>1. UNCHANGED events /\ child \in Procs /\ proc[child] = "zombie" /\ proc'[child] = "reaped"
    BY <1>3 DEF Reap, TypeOK, Handles, Exited
  <2>2. ~Reported(child) /\ \A q \in Procs : Reporting(q) => saw[q] # child
    BY <2>1
  <2>3. /\ saw'[r] = child /\ Reporting(r)' /\ ~Reporting(r)
        /\ \A q \in Procs \ {r} : saw'[q] = saw[q] /\ (Reporting(q)' <=> Reporting(q))
    BY <1>3 DEF Reap, TypeOK, Reporting
  <2>4. \A p \in Procs : Reported(p)' <=> Reported(p)
    BY <2>1, ReportedSame
  <2>5. CrashIsUnexpected' /\ OneCrashPerProcess'
    BY <2>1, <2>4, <1>1
  <2> QED BY <2>1, <2>2, <2>3, <2>4, <2>5, <1>1, <1>2
<1>4. ASSUME NEW r \in Procs, ReportState(r) PROVE CrashInv'
  <2>1. UNCHANGED <<events, saw>> /\ \A q \in Procs : Reporting(q)' <=> Reporting(q)
    BY <1>4 DEF ReportState, TypeOK, threads, Reporting
  <2>2. \A p \in Procs : Reported(p)' <=> Reported(p)
    BY <2>1, ReportedSame
  <2> QED BY <2>1, <2>2, <1>1, <1>2
<1>5. ASSUME NEW r \in Procs, ReportCrash(r) PROVE CrashInv'
  <2>1. /\ Reporting(r) /\ ~Reporting(r)' /\ UNCHANGED saw /\ saw[r] \in Procs
        /\ \A q \in Procs \ {r} : Reporting(q)' <=> Reporting(q)
        /\ events' = Append(events, Crashed(saw[r])) /\ Crashed(saw[r]) \in Event
    BY <1>5 DEF ReportCrash, TypeOK, Reporting, Event, Crashed
  <2>2. \A p \in Procs : Reported(p)' <=> Reported(p) \/ p = saw[r]
    BY <2>1, ReportedAfter DEF Crashed
  <2>3. CrashIsUnexpected'
    BY <2>1, <2>2, <1>1
  <2>4. OneCrashPerProcess'
    <3>1. /\ Len(events') = Len(events) + 1 /\ Len(events) \in Nat
          /\ DOMAIN events = 1..Len(events) /\ DOMAIN events' = 1..(Len(events) + 1)
      BY <2>1 DEF TypeOK
    <3>2. /\ events'[Len(events) + 1] = Crashed(saw[r])
          /\ \A i \in DOMAIN events : events'[i] = events[i]
      BY <2>1, <3>1 DEF TypeOK
    <3>3. \A i \in DOMAIN events : events'[i] # Crashed(saw[r])
      BY <2>1, <3>2 DEF Reported
    <3> QED BY <3>1, <3>2, <3>3
  <2> QED BY <2>1, <2>2, <2>3, <2>4, <1>1, <1>2
<1>6. CASE \A r \in Procs : ~Reap(r) /\ ~ReportState(r) /\ ~ReportCrash(r)
  <2>1. /\ \A r \in Procs : Reporting(r)' => Reporting(r) /\ saw'[r] = saw[r]
        /\ \A p \in Procs : Reported(p)' => Reported(p)
        /\ \A i \in DOMAIN events' : events'[i].kind = "Crashed" => i \in DOMAIN events
        /\ \A i \in DOMAIN events : events'[i] = events[i]
    BY <1>6, QuietSteps
  <2>2. CrashIsUnexpected' /\ Pending'
    BY <2>1, <1>1, <1>2
  <2>3. OneCrashPerProcess'
    BY <2>1
  <2> QED BY <2>2, <2>3
<1> QED BY <1>3, <1>4, <1>5, <1>6

\* No interleaving of calls and reapers, however many reapers poll the slot,
\* reports a process twice, nor one that stop or kill brought down.
THEOREM CrashesAreGenuine == SafetySpec => [](CrashesAreReal /\ Pending)
<1>1. Init => CrashInv
  BY DEF Init, CrashInv, CrashIsUnexpected, OneCrashPerProcess, Pending, Reporting, Reported
<1> QED
  BY <1>1, CrashStep, TypeCorrect, HandlesHold, PTL DEF SafetySpec, CrashInv, CrashesAreReal

\* Every reachable state keeps custody of every process.
THEOREM CustodyHolds == SafetySpec => []Custody
BY HandlesHold, CrashesAreGenuine, PTL DEF Custody

-----------------------------------------------------------------------------
(* No process is lost *)

\* While kill works, start and stop never lose track of a process: at any time
\* at most one has not been waited for.
THEOREM NoLoss == SafetySpec => []NoProcessLost
<1> USE DEF NoProcessLost, Lives
<1>1. ASSUME Init PROVE NoProcessLost
  BY <1>1 DEF Init
<1>2. ASSUME TypeOK, Handles, NoProcessLost, [Next]_vars PROVE NoProcessLost'
  <2> SUFFICES ASSUME ~KillMayFail, NEW p \in Procs, Lives(p)'
               PROVE  p \in {child', mine'}
    OBVIOUS
  <2> USE <1>2 DEF TypeOK, Handles, StopHoldsChild, shared, locals, threads, os, pipes
  <2>1. CASE Calls
    BY <2>1 DEF Calls, StartCall, RestartCall, StopCall, KillCall, Subscribe, Enter
  <2>2. CASE RestartStatus
    BY <2>2 DEF RestartStatus, Goto
  <2>3. CASE StartSteps
    <3> USE DEF Goto, Return
    <3>1. CASE StartCheck \/ StartFailed
      BY <3>1 DEF StartCheck, StartFailed
    <3>2. CASE StartConnecting \/ StartSpawnFails \/ StartConnected
      BY <3>2 DEF StartConnecting, StartSpawnFails, StartConnected
    <3>3. CASE StartStore
      BY <3>3 DEF StartStore
    <3>4. ASSUME NEW q \in Procs, StartSpawn(q) PROVE p \in {child', mine'}
      BY <3>4 DEF StartSpawn
    <3>5. ASSUME NEW q \in Procs, StartWatch(q) PROVE p \in {child', mine'}
      BY <3>5 DEF StartWatch
    <3> QED BY <2>3, <3>1, <3>2, <3>3, <3>4, <3>5 DEF StartSteps
  <2>4. CASE StopSteps
    <3> USE DEF Goto, Return
    <3>1. CASE StopTake
      BY <3>1 DEF StopTake
    <3>2. CASE StopDisconnecting \/ StopKillFails \/ StopEnd
      BY <3>2 DEF StopDisconnecting, StopKillFails, StopEnd
    <3>3. CASE StopKill
      BY <3>3 DEF StopKill
    <3>4. CASE StopWait
      BY <3>4 DEF StopWait
    <3> QED BY <2>4, <3>1, <3>2, <3>3, <3>4 DEF StopSteps
  <2>5. ASSUME NEW r \in Procs, ReaperStep(r) PROVE p \in {child', mine'}
    <3>1. CASE Reap(r)
      <4>1. proc'[child] = "reaped" /\ (p # child => Lives(p)) /\ mine' = mine
        BY <3>1 DEF Reap, Exited
      <4> QED BY <4>1
    <3>2. CASE PollAlive(r)
      BY <3>2 DEF PollAlive, vars
    <3>3. CASE PollEmpty(r) \/ PollFails(r) \/ ReportState(r) \/ ReportCrash(r)
      BY <3>3 DEF PollEmpty, PollFails, ReportState, ReportCrash
    <3> QED BY <2>5, <3>1, <3>2, <3>3 DEF ReaperStep
  <2>6. ASSUME NEW q \in Procs, Exit(q) PROVE p \in {child', mine'}
    BY <2>6 DEF Exit, Executing
  <2>7. CASE OutputStep
    BY <2>7 DEF OutputStep, WriteLine, ReadLine, ReaderFails
  <2>8. CASE UNCHANGED vars
    BY <2>8 DEF vars
  <2> QED
    BY <2>1, <2>2, <2>3, <2>4, <2>5, <2>6, <2>7, <2>8 DEF Next, CallerStep
<1> QED BY <1>1, <1>2, TypeCorrect, HandlesHold, PTL DEF SafetySpec

\* What stop or kill brought down stays down until the next call: leftover
\* reapers can neither resurrect the state nor the slot.
THEOREM StopsAreFinal == SafetySpec => []StopIsFinal
<1> DEFINE Stopped == pc = "idle" /\ call \in {"stop", "kill"} /\ ret = "Ok"
           Down == Stopped => child = NoChild /\ state = "Disconnected"
           NotYet == pc \in CallerPcs \ {"idle"} => call \notin {"none", "subscribe"}
           StopPath == call \in {"stop", "kill"} => pc \in {"idle", "stop"} \/ StopHoldsChild
<1>1. ASSUME Init PROVE Down /\ NotYet /\ StopPath
  BY <1>1 DEF Init
<1>2. ASSUME TypeOK, Handles, Down, NotYet, StopPath, [Next]_vars
      PROVE  (Down /\ NotYet /\ StopPath)'
  <2> USE <1>2 DEF TypeOK, Handles, StopHoldsChild, shared, locals, threads, os, pipes, CallerPcs
  <2>1. CASE Calls
    BY <2>1 DEF Calls, StartCall, RestartCall, StopCall, KillCall, Subscribe, Enter
  <2>2. CASE RestartStatus
    BY <2>2 DEF RestartStatus, Goto
  <2>3. CASE StartSteps
    BY <2>3 DEF StartSteps, Goto, Return, StartCheck, StartConnecting, StartSpawn,
                StartSpawnFails, StartFailed, StartStore, StartConnected, StartWatch
  <2>4. CASE StopSteps
    BY <2>4 DEF StopSteps, Goto, Return, StopTake, StopDisconnecting, StopKill,
                StopKillFails, StopWait, StopEnd
  <2>5. ASSUME NEW r \in Procs, ReaperStep(r) PROVE (Down /\ NotYet /\ StopPath)'
    BY <2>5 DEF ReaperStep, Reap, PollAlive, vars, PollEmpty, PollFails, ReportState, ReportCrash
  <2>6. ASSUME NEW p \in Procs, Exit(p) PROVE (Down /\ NotYet /\ StopPath)'
    BY <2>6 DEF Exit
  <2>7. CASE OutputStep
    BY <2>7 DEF OutputStep, WriteLine, ReadLine, ReaderFails
  <2>8. CASE UNCHANGED vars
    BY <2>8 DEF vars
  <2> QED
    BY <2>1, <2>2, <2>3, <2>4, <2>5, <2>6, <2>7, <2>8 DEF Next, CallerStep
<1>3. TypeOK /\ Handles /\ NoProcessLost /\ Down => StopIsFinal
  BY ConstantsAssumption DEF TypeOK, Handles, NoProcessLost, StopIsFinal, Lives
<1> QED
  BY <1>1, <1>2, <1>3, TypeCorrect, HandlesHold, NoLoss, PTL DEF SafetySpec

-----------------------------------------------------------------------------
(* The contract of the trait *)

\* With a patient caller and a kill that works, every step keeps the discipline.
LEMMA DisciplineStep ==
  ASSUME PatientCaller, ~KillMayFail, TypeOK, Handles, Discipline, [Next]_vars
  PROVE  Discipline'
<1> USE DEF TypeOK, Handles, StopHoldsChild, shared, locals, threads, os, pipes
<1>1. CASE Calls
  <2>1. UNCHANGED <<shared, threads, os, mine>> \/ Subscribe
    BY <1>1 DEF Calls, StartCall, RestartCall, StopCall, KillCall, Enter
  <2>2. CASE Subscribe
    BY <2>2 DEF Subscribe, Discipline, NoReaperLeft, Reporting
  <2>3. CASE StopCall \/ KillCall
    BY <2>3 DEF StopCall, KillCall, Enter, Discipline, NoReaperLeft, Reporting
  <2>4. ASSUME NEW q \in Paths, StartCall(q) \/ RestartCall(q) PROVE Discipline'
    <3>1. NoReaperLeft
      BY <2>4 DEF StartCall, RestartCall
    <3> QED BY <2>4, <3>1 DEF StartCall, RestartCall, Enter, Discipline, NoReaperLeft, Reporting
  <2> QED BY <1>1, <2>2, <2>3, <2>4 DEF Calls
<1>2. CASE RestartStatus
  BY <1>2 DEF RestartStatus, Goto, IsActive, Discipline, NoReaperLeft, Reporting
<1>3. CASE StartSteps
  <2> USE DEF Goto, Return, Discipline, NoReaperLeft, Reporting
  <2>1. CASE StartCheck
    BY <2>1 DEF StartCheck
  <2>2. CASE StartConnecting \/ StartSpawnFails \/ StartFailed
    BY <2>2 DEF StartConnecting, StartSpawnFails, StartFailed
  <2>3. CASE StartStore
    BY <2>3 DEF StartStore
  <2>4. CASE StartConnected
    BY <2>4 DEF StartConnected
  <2>5. ASSUME NEW q \in Procs, StartSpawn(q) PROVE Discipline'
    BY <2>5 DEF StartSpawn
  <2>6. ASSUME NEW q \in Procs, StartWatch(q) PROVE Discipline'
    BY <2>6 DEF StartWatch
  <2> QED BY <1>3, <2>1, <2>2, <2>3, <2>4, <2>5, <2>6 DEF StartSteps
<1>4. CASE StopSteps
  <2> USE DEF Goto, Return, Discipline, NoReaperLeft, Reporting
  <2>1. CASE StopTake
    BY <2>1 DEF StopTake
  <2>2. CASE StopDisconnecting \/ StopKillFails
    BY <2>2 DEF StopDisconnecting, StopKillFails
  <2>3. CASE StopKill \/ StopWait
    BY <2>3 DEF StopKill, StopWait
  <2>4. CASE StopEnd
    BY <2>4 DEF StopEnd
  <2> QED BY <1>4, <2>1, <2>2, <2>3, <2>4 DEF StopSteps
<1>5. ASSUME NEW r \in Procs, ReaperStep(r) PROVE Discipline'
  <2>1. CASE Reap(r)
    <3>1. pc \in {"idle", "stop"}
      BY <2>1 DEF Reap, Discipline, NoReaperLeft, CallerPcs
    <3> QED BY <2>1, <3>1 DEF Reap, Discipline, NoReaperLeft, Reporting
  <2>2. CASE PollAlive(r)
    BY <2>2 DEF PollAlive, vars, Discipline, NoReaperLeft, Reporting
  <2>3. CASE PollEmpty(r) \/ PollFails(r)
    BY <2>3 DEF PollEmpty, PollFails, Discipline, NoReaperLeft, Reporting
  <2>4. CASE ReportState(r)
    BY <2>4 DEF ReportState, Discipline, NoReaperLeft, Reporting
  <2>5. CASE ReportCrash(r)
    BY <2>5 DEF ReportCrash, Discipline, NoReaperLeft, Reporting
  <2> QED BY <1>5, <2>1, <2>2, <2>3, <2>4, <2>5 DEF ReaperStep
<1>6. ASSUME NEW p \in Procs, Exit(p) PROVE Discipline'
  BY <1>6 DEF Exit, Discipline, NoReaperLeft, Reporting
<1>7. CASE OutputStep
  BY <1>7 DEF OutputStep, WriteLine, ReadLine, ReaderFails, Discipline, NoReaperLeft, Reporting
<1>8. CASE UNCHANGED vars
  BY <1>8 DEF vars, Discipline, NoReaperLeft, Reporting
<1> QED
  BY <1>1, <1>2, <1>3, <1>4, <1>5, <1>6, <1>7, <1>8 DEF Next, CallerStep

\* Under the discipline a step is one of the contract, or is not seen in it.
LEMMA ContractStep ==
  ASSUME ~KillMayFail, TypeOK, Handles, Discipline, [Next]_vars
  PROVE  [Contract!Next]_(Contract!vars)
<1> USE DEF TypeOK, Handles, StopHoldsChild, shared, locals, threads, os, pipes,
            Contract!Next, Contract!vars
<1>1. CASE UNCHANGED <<state, child, mine>>
  BY <1>1
<1>2. CASE Calls \/ RestartStatus
  BY <1>2 DEF Calls, StartCall, RestartCall, StopCall, KillCall, Subscribe, Enter,
              RestartStatus, Goto
<1>3. CASE StartSteps
  <2> USE ConstantsAssumption DEF Goto, Return, Discipline
  <2>1. CASE StartCheck \/ StartSpawnFails
    BY <2>1 DEF StartCheck, StartSpawnFails
  <2>2. CASE StartConnecting
    BY <2>2 DEF StartConnecting, Contract!BeginStart
  <2>3. CASE StartFailed
    BY <2>3 DEF StartFailed, Contract!FailStart
  <2>4. CASE StartStore
    BY <2>4 DEF StartStore
  <2>5. CASE StartConnected
    BY <2>5 DEF StartConnected, Contract!FinishStart
  <2>6. ASSUME NEW p \in Procs, StartSpawn(p) PROVE Contract!Launch
    BY <2>6 DEF StartSpawn, Contract!Launch
  <2>7. ASSUME NEW p \in Procs, StartWatch(p) PROVE UNCHANGED <<state, child, mine>>
    BY <2>7 DEF StartWatch
  <2> QED BY <1>1, <1>3, <2>1, <2>2, <2>3, <2>4, <2>5, <2>6, <2>7 DEF StartSteps
<1>4. CASE StopSteps
  <2> USE ConstantsAssumption DEF Goto, Return, Discipline
  <2>1. CASE StopTake \/ StopKill \/ StopKillFails
    BY <2>1 DEF StopTake, StopKill, StopKillFails
  <2>2. CASE StopDisconnecting
    BY <2>2 DEF StopDisconnecting, Contract!BeginStop
  <2>3. CASE StopWait
    BY <2>3 DEF StopWait, Contract!End
  <2>4. CASE StopEnd
    BY <2>4 DEF StopEnd, Contract!NoteEnd
  <2> QED BY <1>4, <2>1, <2>2, <2>3, <2>4 DEF StopSteps
<1>5. ASSUME NEW r \in Procs, ReaperStep(r) PROVE [Contract!Next]_(Contract!vars)
  <2>1. CASE Reap(r)
    <3>1. state = "Connected" /\ mine = NoChild
      BY <2>1 DEF Reap, Discipline, NoReaperLeft, CallerPcs
    <3> QED BY <2>1, <3>1 DEF Reap, Contract!End
  <2>2. CASE ReportState(r)
    <3>1. child = NoChild /\ mine = NoChild /\ state \in {"Connected", "Disconnected"}
      BY <2>2 DEF ReportState, Discipline, Reporting
    <3> QED BY <2>2, <3>1 DEF ReportState, Contract!NoteEnd
  <2>3. CASE PollAlive(r) \/ PollEmpty(r) \/ PollFails(r) \/ ReportCrash(r)
    BY <2>3, <1>1 DEF PollAlive, vars, PollEmpty, PollFails, ReportCrash
  <2> QED BY <1>5, <2>1, <2>2, <2>3 DEF ReaperStep
<1>6. ASSUME NEW p \in Procs, Exit(p) PROVE UNCHANGED <<state, child, mine>>
  BY <1>6 DEF Exit
<1>7. CASE OutputStep
  BY <1>7, <1>1 DEF OutputStep, WriteLine, ReadLine, ReaderFails
<1>8. CASE UNCHANGED vars
  BY <1>8, <1>1 DEF vars
<1> QED
  BY <1>1, <1>2, <1>3, <1>4, <1>5, <1>6, <1>7, <1>8 DEF Next, CallerStep

\* With a patient caller and a kill that does not fail, ProcessCore's state and
\* processes follow the lifecycle that the VpnCore trait promises: each step is
\* one of the contract's or invisible to it.
THEOREM KeepsContract ==
  ASSUME PatientCaller, ~KillMayFail
  PROVE  SafetySpec => Contract!SafetySpec
<1>1. ASSUME Init PROVE Discipline /\ Contract!Init
  BY <1>1 DEF Init, Discipline, Contract!Init, NoReaperLeft, Reporting
<1>2. TypeOK /\ Handles /\ Discipline /\ [Next]_vars => Discipline'
  BY DisciplineStep
<1>3. TypeOK /\ Handles /\ Discipline /\ [Next]_vars => [Contract!Next]_(Contract!vars)
  BY ContractStep
<1> QED
  BY <1>1, <1>2, <1>3, TypeCorrect, HandlesHold, PTL DEF SafetySpec, Contract!SafetySpec

=============================================================================
