---------------------------- MODULE ProcessCore ----------------------------
(***************************************************************************)
(* ProcessCore (cores/core-process/src/lib.rs): a VpnCore that runs an     *)
(* operating-system process.  Four kinds of actors interleave:             *)
(*                                                                         *)
(*   - the caller, who makes one start / stop / kill / restart / subscribe *)
(*     call at a time (the mutating methods take &mut self);               *)
(*   - one reaper thread per successful start, detached, which polls the   *)
(*     child slot (not "its" child) every reaper_interval;                 *)
(*   - one reader thread per output stream of a spawned process, detached; *)
(*   - the processes themselves, which write lines and may exit any time.  *)
(*                                                                         *)
(* `state' and `child' are two mutexes.  The state lock is never held      *)
(* across another access, so each access is one step.  The child lock is   *)
(* held by stop from take() to its return, which is why a reaper cannot    *)
(* poll meanwhile; every other critical section on it is one step.         *)
(***************************************************************************)
EXTENDS Naturals, Sequences

CONSTANTS
  Procs,           \* the processes the OS can still create: bounds the spawns
  NoChild,         \* None in the child slot
  Streams,         \* subset of {"stdout", "stderr"} the processes write to
  MaxLines,        \* bound on the lines a process writes to each stream
  KillMayFail,     \* Child::kill may return an error (e.g. EPERM)
  TryWaitMayFail,  \* Child::try_wait may return an error (e.g. ECHILD)
  ReadMayFail,     \* a line may be unreadable: not UTF-8
  PatientCaller    \* the caller lets earlier reapers end before it starts again

ASSUME ConstantsAssumption ==
  /\ NoChild \notin Procs
  /\ Streams \subseteq {"stdout", "stderr"}
  /\ MaxLines \in Nat
  /\ KillMayFail \in BOOLEAN /\ TryWaitMayFail \in BOOLEAN
  /\ ReadMayFail \in BOOLEAN /\ PatientCaller \in BOOLEAN

VARIABLES
  state,    \* Arc<Mutex<ConnectionState>>
  child,    \* Arc<Mutex<Option<Child>>>
  rxHeld,   \* event_rx still holds the receiver
  events,   \* everything sent on the event channel
  pc,       \* where the caller is; "idle" between calls
  call,     \* the call it makes, or made last
  path,     \* the config_path argument of start and restart
  mine,     \* the Child the caller holds in a local variable
  ret,      \* what its last call returned
  reaper,   \* where each reaper thread is
  saw,      \* the process whose exit status a reaper holds in a local variable
  proc,     \* what the OS knows of each process
  written,  \* lines written to each pipe
  read,     \* lines its reader thread has taken from it
  ended     \* pipes whose reader thread has ended with lines unread

shared == <<state, child, rxHeld, events>>
locals == <<pc, call, path, mine, ret>>
threads == <<reaper, saw>>
pipes == <<written, read, ended>>
os == <<proc, pipes>>
vars == <<shared, locals, threads, os>>

-----------------------------------------------------------------------------
(* Vocabulary *)

ConnectionStates == {"Disconnected", "Connecting", "Connected", "Disconnecting"}
IsActive(s) == s \in {"Connecting", "Connected", "Disconnecting"}

Paths == {"empty", "config"}
SpawnErrors == {"PrerequisiteMissing", "ProcessStartFailed"}
Results == {"None", "Some", "Ok", "InvalidConfiguration", "AlreadyConnected",
            "NotConnected", "ProcessStopFailed"} \cup SpawnErrors

\* "zombie": exited, not yet waited for.  "waited" and "reaped" are its end,
\* by stop and by a reaper.
ProcStates == {"unborn", "running", "signalled", "zombie", "waited", "reaped"}
Executing(p) == proc[p] \in {"running", "signalled"}
Exited(p) == proc[p] \in {"zombie", "waited", "reaped"}

ReaperStates == {"unborn", "sleeping", "noticed", "reporting", "done"}

\* stop keeps the child lock between take() and its return.
StopHoldsChild == pc \in {"stop_state", "stop_kill", "stop_wait", "stop_end"}
CallerPcs == {"idle", "restart", "start", "connecting", "spawn", "spawn_failed", "store",
              "connected", "watch", "stop"}
             \cup {"stop_state", "stop_kill", "stop_wait", "stop_end"}

Kind(s) == IF s = "stdout" THEN "Log" ELSE "ErrorLog"
Event == [kind: {"Log", "ErrorLog", "Crashed"}, proc: Procs]
Crashed(p) == [kind |-> "Crashed", proc |-> p]

\* The types of the variables; a reaper that has seen an exit has its status.
TypeOK ==
  /\ state \in ConnectionStates
  /\ child \in Procs \cup {NoChild}
  /\ rxHeld \in BOOLEAN
  /\ events \in Seq(Event)
  /\ pc \in CallerPcs
  /\ call \in {"none", "start", "stop", "kill", "restart", "subscribe"}
  /\ path \in Paths
  /\ mine \in Procs \cup {NoChild}
  /\ ret \in Results
  /\ reaper \in [Procs -> ReaperStates]
  /\ saw \in [Procs -> Procs \cup {NoChild}]
  /\ \A r \in Procs : reaper[r] \in {"noticed", "reporting"} => saw[r] \in Procs
  /\ proc \in [Procs -> ProcStates]
  /\ written \in [Procs -> [Streams -> 0..MaxLines]]
  /\ read \in [Procs -> [Streams -> 0..MaxLines]]
  /\ ended \subseteq Procs \X Streams

Init ==
  /\ state = "Disconnected" /\ child = NoChild /\ rxHeld = TRUE /\ events = <<>>
  /\ pc = "idle" /\ call = "none" /\ path = "empty" /\ mine = NoChild /\ ret = "None"
  /\ reaper = [r \in Procs |-> "unborn"]
  /\ saw = [r \in Procs |-> NoChild]
  /\ proc = [p \in Procs |-> "unborn"]
  /\ written = [p \in Procs |-> [s \in Streams |-> 0]]
  /\ read = [p \in Procs |-> [s \in Streams |-> 0]]
  /\ ended = {}

-----------------------------------------------------------------------------
(* The caller: entering and leaving a call *)

NoReaperLeft == \A r \in Procs : reaper[r] \in {"unborn", "done"}

Enter(name, at) ==
  /\ pc = "idle"
  /\ call' = name /\ pc' = at
  /\ UNCHANGED <<shared, mine, ret, threads, os>>

StartCall(p) ==
  /\ PatientCaller => NoReaperLeft
  /\ Enter("start", "start") /\ path' = p

RestartCall(p) ==
  /\ PatientCaller => NoReaperLeft
  /\ Enter("restart", "restart") /\ path' = p

StopCall == Enter("stop", "stop") /\ UNCHANGED path
KillCall == Enter("kill", "stop") /\ UNCHANGED path

\* The receiver can be taken once.
Subscribe ==
  /\ pc = "idle"
  /\ call' = "subscribe" /\ ret' = IF rxHeld THEN "Some" ELSE "None"
  /\ rxHeld' = FALSE
  /\ UNCHANGED <<state, child, events, pc, path, mine, threads, os>>

Goto(next) == pc' = next /\ UNCHANGED <<call, path, mine, ret>>

Return(result) ==
  /\ pc' = "idle" /\ ret' = result /\ mine' = NoChild
  /\ UNCHANGED <<call, path>>

\* The default VpnCore::restart: `if self.status().is_active()'.
RestartStatus ==
  /\ pc = "restart"
  /\ Goto(IF IsActive(state) THEN "stop" ELSE "start")
  /\ UNCHANGED <<shared, threads, os>>

-----------------------------------------------------------------------------
(* start *)

StartCheck ==
  /\ pc = "start"
  /\ \/ path = "empty" /\ Return("InvalidConfiguration")
     \/ path # "empty" /\ child # NoChild /\ Return("AlreadyConnected")
     \/ path # "empty" /\ child = NoChild /\ Goto("connecting")
  /\ UNCHANGED <<shared, threads, os>>

StartConnecting ==
  /\ pc = "connecting" /\ Goto("spawn")
  /\ state' = "Connecting"
  /\ UNCHANGED <<child, rxHeld, events, threads, os>>

\* spawn_process: a process whose two pipes have their reader threads.
StartSpawn(p) ==
  /\ pc = "spawn" /\ proc[p] = "unborn"
  /\ proc' = [proc EXCEPT ![p] = "running"]
  /\ mine' = p /\ pc' = "store"
  /\ UNCHANGED <<shared, call, path, ret, threads, pipes>>

\* The binary is missing, or the OS refuses.
StartSpawnFails ==
  /\ pc = "spawn" /\ Goto("spawn_failed")
  /\ UNCHANGED <<shared, threads, os>>

\* A slip: returning the spawn error without resetting the state.
StartFailedUnreset ==
  /\ pc = "spawn_failed" /\ \E error \in SpawnErrors : Return(error)
  /\ UNCHANGED <<shared, threads, os>>

StartFailed ==
  /\ pc = "spawn_failed" /\ \E error \in SpawnErrors : Return(error)
  /\ state' = "Disconnected"
  /\ UNCHANGED <<child, rxHeld, events, threads, os>>

StartStore ==
  /\ pc = "store"
  /\ child' = mine /\ mine' = NoChild /\ pc' = "connected"
  /\ UNCHANGED <<state, rxHeld, events, call, path, ret, threads, os>>

StartConnected ==
  /\ pc = "connected" /\ Goto("watch")
  /\ state' = "Connected"
  /\ UNCHANGED <<child, rxHeld, events, threads, os>>

StartWatch(r) ==
  /\ pc = "watch" /\ reaper[r] = "unborn"
  /\ reaper' = [reaper EXCEPT ![r] = "sleeping"]
  /\ Return("Ok")
  /\ UNCHANGED <<shared, saw, os>>

-----------------------------------------------------------------------------
(* stop and kill (kill is stop) *)

\* A slip: taking a reference to the child and leaving it in its slot.
StopBorrow ==
  /\ pc = "stop"
  /\ \/ child = NoChild /\ Return("NotConnected")
     \/ child # NoChild /\ mine' = child /\ pc' = "stop_state"
        /\ UNCHANGED <<call, path, ret>>
  /\ UNCHANGED <<shared, threads, os>>

StopTake ==
  /\ pc = "stop"
  /\ \/ child = NoChild /\ Return("NotConnected")
     \/ child # NoChild /\ mine' = child /\ pc' = "stop_state"
        /\ UNCHANGED <<call, path, ret>>
  /\ child' = NoChild
  /\ UNCHANGED <<state, rxHeld, events, threads, os>>

StopDisconnecting ==
  /\ pc = "stop_state" /\ Goto("stop_kill")
  /\ state' = "Disconnecting"
  /\ UNCHANGED <<child, rxHeld, events, threads, os>>

\* A slip: waiting for the process without having killed it.
StopNoKill ==
  /\ pc = "stop_kill" /\ Goto("stop_wait")
  /\ UNCHANGED <<shared, threads, os>>

\* SIGKILL; a process that already exited stays a zombie.
StopKill ==
  /\ pc = "stop_kill" /\ Goto("stop_wait")
  /\ proc' = [proc EXCEPT ![mine] = IF @ = "running" THEN "signalled" ELSE @]
  /\ UNCHANGED <<shared, threads, pipes>>

\* `kill()...?' returns early: the handle is dropped, the state stays.
StopKillFails ==
  /\ pc = "stop_kill" /\ KillMayFail /\ Return("ProcessStopFailed")
  /\ UNCHANGED <<shared, threads, os>>

\* A slip: not waiting for the process to end.
StopNoWait ==
  /\ pc = "stop_wait" /\ Goto("stop_end")
  /\ UNCHANGED <<shared, threads, os>>

\* wait() blocks, with the child lock held, until the process has exited.
StopWait ==
  /\ pc = "stop_wait" /\ Exited(mine)
  /\ proc' = [proc EXCEPT ![mine] = "waited"]
  /\ mine' = NoChild /\ pc' = "stop_end"
  /\ UNCHANGED <<shared, call, path, ret, threads, pipes>>

StopEnd ==
  /\ pc = "stop_end"
  /\ IF call = "restart" THEN Goto("start") ELSE Return("Ok")
  /\ state' = "Disconnected"
  /\ UNCHANGED <<child, rxHeld, events, threads, os>>

-----------------------------------------------------------------------------
(* A reaper thread *)

\* A slip: reporting the exit but leaving the child in its slot.
ReapKeepingChild(r) ==
  /\ reaper[r] = "sleeping" /\ ~StopHoldsChild
  /\ child # NoChild /\ Exited(child)
  /\ proc' = [proc EXCEPT ![child] = IF @ = "zombie" THEN "reaped" ELSE @]
  /\ saw' = [saw EXCEPT ![r] = child]
  /\ reaper' = [reaper EXCEPT ![r] = "noticed"]
  /\ UNCHANGED <<shared, locals, pipes>>

\* try_wait says Some(status), which it repeats for a process waited for
\* before: clear the slot, then release the child lock.
Reap(r) ==
  /\ reaper[r] = "sleeping" /\ ~StopHoldsChild
  /\ child # NoChild /\ Exited(child)
  /\ proc' = [proc EXCEPT ![child] = IF @ = "zombie" THEN "reaped" ELSE @]
  /\ child' = NoChild
  /\ saw' = [saw EXCEPT ![r] = child]
  /\ reaper' = [reaper EXCEPT ![r] = "noticed"]
  /\ UNCHANGED <<state, rxHeld, events, locals, pipes>>

\* A slip: giving up on the first poll that finds the process alive.
PollGivesUp(r) ==
  /\ reaper[r] = "sleeping" /\ ~StopHoldsChild
  /\ child # NoChild /\ Executing(child)
  /\ reaper' = [reaper EXCEPT ![r] = "done"]
  /\ UNCHANGED <<shared, locals, saw, os>>

\* A slip: taking the child out of the slot to poll it.
PollTaking(r) ==
  /\ reaper[r] = "sleeping" /\ ~StopHoldsChild
  /\ child # NoChild /\ Executing(child)
  /\ child' = NoChild
  /\ UNCHANGED <<state, rxHeld, events, locals, threads, os>>

\* try_wait says None: sleep again.
PollAlive(r) ==
  /\ reaper[r] = "sleeping" /\ ~StopHoldsChild
  /\ child # NoChild /\ Executing(child)
  /\ UNCHANGED vars

\* A slip: sleeping on when the slot is empty.
PollEmptyForever(r) ==
  /\ reaper[r] = "sleeping" /\ ~StopHoldsChild
  /\ child = NoChild
  /\ UNCHANGED vars

PollEmpty(r) ==
  /\ reaper[r] = "sleeping" /\ ~StopHoldsChild
  /\ child = NoChild
  /\ reaper' = [reaper EXCEPT ![r] = "done"]
  /\ UNCHANGED <<shared, locals, saw, os>>

PollFails(r) ==
  /\ reaper[r] = "sleeping" /\ ~StopHoldsChild
  /\ TryWaitMayFail /\ child # NoChild
  /\ reaper' = [reaper EXCEPT ![r] = "done"]
  /\ UNCHANGED <<shared, locals, saw, os>>

ReportState(r) ==
  /\ reaper[r] = "noticed"
  /\ state' = "Disconnected"
  /\ reaper' = [reaper EXCEPT ![r] = "reporting"]
  /\ UNCHANGED <<child, rxHeld, events, locals, saw, os>>

ReportCrash(r) ==
  /\ reaper[r] = "reporting"
  /\ events' = Append(events, Crashed(saw[r]))
  /\ reaper' = [reaper EXCEPT ![r] = "done"]
  /\ UNCHANGED <<state, child, rxHeld, locals, saw, os>>

-----------------------------------------------------------------------------
(* The processes and the reader threads of their pipes *)

Exit(p) ==
  /\ Executing(p)
  /\ proc' = [proc EXCEPT ![p] = "zombie"]
  /\ UNCHANGED <<shared, locals, threads, pipes>>

\* A process whose pipe lost its reader cannot write: it gets an error or a
\* signal, after which it may exit.
WriteLine(p, s) ==
  /\ Executing(p) /\ <<p, s>> \notin ended /\ written[p][s] < MaxLines
  /\ written' = [written EXCEPT ![p][s] = @ + 1]
  /\ UNCHANGED <<shared, locals, threads, proc, read, ended>>

\* A slip: a reader that gives up when its process is no longer the child.
ReadLineOfChild(p, s) ==
  /\ read[p][s] < written[p][s] /\ <<p, s>> \notin ended /\ child = p
  /\ read' = [read EXCEPT ![p][s] = @ + 1]
  /\ events' = Append(events, [kind |-> Kind(s), proc |-> p])
  /\ UNCHANGED <<state, child, rxHeld, locals, threads, proc, written, ended>>

ReadLine(p, s) ==
  /\ read[p][s] < written[p][s] /\ <<p, s>> \notin ended
  /\ read' = [read EXCEPT ![p][s] = @ + 1]
  /\ events' = Append(events, [kind |-> Kind(s), proc |-> p])
  /\ UNCHANGED <<state, child, rxHeld, locals, threads, proc, written, ended>>

\* `map_while(Result::ok)': the thread ends at the first unreadable line.
ReaderFails(p, s) ==
  /\ ReadMayFail /\ read[p][s] < written[p][s] /\ <<p, s>> \notin ended
  /\ ended' = ended \cup {<<p, s>>}
  /\ UNCHANGED <<shared, locals, threads, proc, written, read>>

-----------------------------------------------------------------------------

Calls ==
  \/ \E p \in Paths : StartCall(p) \/ RestartCall(p)
  \/ StopCall \/ KillCall \/ Subscribe

StartSteps ==
  \/ StartCheck \/ StartConnecting \/ StartSpawnFails \/ StartFailed
  \/ StartStore \/ StartConnected
  \/ \E p \in Procs : StartSpawn(p) \/ StartWatch(p)

StopSteps ==
  \/ StopTake \/ StopDisconnecting \/ StopKill \/ StopKillFails
  \/ StopWait \/ StopEnd

CallerStep == RestartStatus \/ StartSteps \/ StopSteps

ReaperStep(r) ==
  \/ Reap(r) \/ PollAlive(r) \/ PollEmpty(r) \/ PollFails(r)
  \/ ReportState(r) \/ ReportCrash(r)

OutputStep ==
  \E p \in Procs, s \in Streams : WriteLine(p, s) \/ ReadLine(p, s) \/ ReaderFails(p, s)

Next ==
  \/ Calls \/ CallerStep
  \/ \E p \in Procs : ReaperStep(p) \/ Exit(p)
  \/ OutputStep

\* Threads run: a call under way goes on, reapers poll, readers read, and a
\* killed process dies.  Nothing forces a call, an exit or a line.
Fairness ==
  /\ WF_vars(CallerStep)
  /\ \A p \in Procs :
       /\ WF_vars(ReaperStep(p))
       /\ WF_vars(proc[p] = "signalled" /\ Exit(p))
       /\ \A s \in Streams : WF_vars(ReadLine(p, s))

SafetySpec == Init /\ [][Next]_vars
Spec == SafetySpec /\ Fairness

-----------------------------------------------------------------------------
(* Safety *)

Reported(p) == \E i \in DOMAIN events : events[i] = Crashed(p)
Lives(p) == proc[p] \in {"running", "signalled", "zombie"}

Reporting(r) == reaper[r] \in {"noticed", "reporting"}

\* The caller and the slot never hold a process at the same time.
Handles ==
  /\ mine # NoChild <=> pc \in {"store", "stop_state", "stop_kill", "stop_wait"}
  /\ child # NoChild => pc \notin {"connecting", "spawn", "spawn_failed", "store"} /\ ~StopHoldsChild
  /\ child # NoChild => proc[child] \in {"running", "zombie"}
  /\ mine # NoChild =>
       proc[mine] \in {"zombie", IF pc = "stop_wait" THEN "signalled" ELSE "running"}

\* Two reapers about to report hold the statuses of different processes that
\* nobody has reported.
Pending ==
  /\ \A r \in Procs : Reporting(r) => proc[saw[r]] = "reaped" /\ ~Reported(saw[r])
  /\ \A q, r \in Procs : Reporting(q) /\ Reporting(r) /\ saw[q] = saw[r] => q = r

\* Every process is in one place: in the slot, in the caller's hands, or in
\* those of the one reaper that has reaped it, and not waited for before that.
Custody == Handles /\ Pending

\* However many reapers a quick stop and start leaves polling the same slot,
\* one process is reported as crashed at most once.
OneCrashPerProcess ==
  \A i, j \in DOMAIN events :
    events[i].kind = "Crashed" /\ events[i] = events[j] => i = j

\* A process that stop or kill brought down is never reported as "crashed or
\* was killed unexpectedly", even if a reaper was polling meanwhile.
CrashIsUnexpected == \A p \in Procs : Reported(p) => proc[p] = "reaped"

\* Both: what a host is told of crashes is what happened.
CrashesAreReal == OneCrashPerProcess /\ CrashIsUnexpected

\* No process is forgotten: while kill works, the one that has not been waited
\* for is in the slot or in the caller's hands, so there is at most one.
NoProcessLost ==
  KillMayFail \/ \A p \in Procs : Lives(p) => p \in {child, mine}

\* A stop or kill that returned Ok left nothing behind: the slot is empty, the
\* state says so, and (while kill works) no process is alive or a zombie.  It
\* stays so until the next call, whatever the reapers still have to say.
StopIsFinal ==
  pc = "idle" /\ call \in {"stop", "kill"} /\ ret = "Ok" =>
    /\ child = NoChild /\ state = "Disconnected"
    /\ KillMayFail \/ \A p \in Procs : ~Lives(p)

\* With a caller that lets the reapers of earlier sessions end before it
\* starts again, and with kill and try_wait that do not fail, the core keeps
\* the contract of its trait.
Contract == INSTANCE VpnCore WITH
  engine <- child # NoChild \/ mine # NoChild
ImplementsContract == Contract!Spec

\* Why it does, for a patient caller: no reaper is left while a start is under
\* way, one that is about to report has an empty slot before it, and the state
\* tells where the caller is.
Discipline ==
  /\ pc \notin {"idle", "stop"} /\ ~StopHoldsChild => call \in {"start", "restart"}
  /\ pc # "idle" /\ call \in {"start", "restart"} => NoReaperLeft
  /\ \A r \in Procs : Reporting(r) => child = NoChild /\ pc \in {"idle", "stop"}
  /\ pc \in {"connected", "watch"} => child # NoChild
  /\ pc \in {"idle", "restart", "start", "stop"} =>
       IF child # NoChild
         THEN state = "Connected"
         ELSE \/ state = "Disconnected"
              \/ state = "Connected" /\ \E r \in Procs : reaper[r] = "noticed"
  /\ pc = "connecting" => state = "Disconnected"
  /\ pc \in {"spawn", "spawn_failed", "store", "connected"} => state = "Connecting"
  /\ pc \in {"watch", "stop_state"} => state = "Connected"
  /\ pc \in {"stop_kill", "stop_wait", "stop_end"} => state = "Disconnecting"

-----------------------------------------------------------------------------
(* Liveness *)

\* Every call returns: stop cannot wait forever with the child lock held.
CallsReturn == pc # "idle" ~> pc = "idle"

\* A child that dies is reported as crashed, unless stop gets to it first, and
\* then says so or that it failed.
CrashIsReported ==
  \A p \in Procs :
    child = p /\ proc[p] = "zombie" ~>
      Reported(p) \/ proc[p] = "waited" \/ ret = "ProcessStopFailed"

\* The reapers that a stop leaves behind do not stay for ever.
ReapersEnd ==
  \A r \in Procs : reaper[r] = "sleeping" ~> reaper[r] = "done" \/ child # NoChild

\* What a process wrote reaches the channel, also after it was stopped, up to
\* the first line that cannot be read.
OutputIsDrained ==
  \A p \in Procs, s \in Streams :
    read[p][s] < written[p][s] ~> read[p][s] = written[p][s] \/ <<p, s>> \in ended

-----------------------------------------------------------------------------
(* What the documentation says and the code does not do *)

ReapersSettled == \A r \in Procs : reaper[r] \in {"unborn", "sleeping", "done"}

\* domain/src/types.rs: "Disconnected: No active process, ready to connect."
DisconnectedMeansNoProcess ==
  pc = "idle" /\ ReapersSettled /\ state = "Disconnected" =>
    child = NoChild \/ ~Executing(child)

\* domain/src/traits/vpn_core.rs: running() should "verify liveness beyond just
\* checking in-memory state - e.g. try_wait() for subprocesses".
RunningMeansAlive ==
  pc = "idle" /\ state = "Connected" => child # NoChild /\ Executing(child)

\* domain/src/traits/vpn_core.rs: stop and kill return "NotConnected if the
\* engine is not running".
NotConnectedMeansNotRunning ==
  pc = "idle" /\ call \in {"stop", "kill"} /\ ret = "NotConnected" =>
    \A p \in Procs : ~Executing(p)

=============================================================================
