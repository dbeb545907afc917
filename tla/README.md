# A verification development for pingling

pingling (`src/crates/`) is the open core of a VPN client: a daemon that drives
an engine process, an extension host that lets WASI plugins take part in
operations ("slots"), and the services around them. This directory holds TLA+
models of the parts that keep state and run concurrently, may fail half-way, or
decide by rules that interact, and of the conversions between them; TLC
configurations that check them on small instances; and theorems about all of
them, proved with TLAPS for every instance.

Run, in this directory: `tlc -workers 2 -config MCProcessCoreSessions.cfg
MCProcessCore` (and so on for the table of runs below) and `tlapm
ProcessCoreProofs.tla` (and so on for the modules named `...Proofs`).

## 1. Inventory

### Components, their state and their operations

| component | code (`src/crates/`) | state | operations | what makes it correct |
|---|---|---|---|---|
| VPN core contract | `domain/src/traits/vpn_core.rs`, `domain/src/types.rs` | a `ConnectionState` | start, stop, kill, restart, status, subscribe | the lifecycle its docs describe: Disconnected means no process, an engine's end is noticed, a start or stop is not abandoned |
| Process core | `cores/core-process/src/lib.rs` | `state` and `child`, two mutexes; an event channel | the contract's, plus a reaper thread per start and a reader thread per pipe | no process is lost, none is reported as crashed twice or after a stop, a stop is final, output reaches the channel |
| Mock core | `mocks/core-mock` | a state, an event channel | the contract's | it keeps the contract, and its events tell its state |
| sing-box core | `cores/core-singbox` | a process core | delegates with other arguments | that of the process core |
| Core registry | `core/src/core_registry.rs` | descriptors, boxed cores, the active type | register, discover, switch, set_binary_path | there is an active core once there is a core, and only a switch changes it |
| Event broadcaster | `extension_slots/ipc/src/broadcaster.rs` | bounded history, list of senders, a mutex each | publish, subscribe | exactly once after subscribing, one order for all, closed clients are pruned |
| Plugin registry and merged contract | `plugin_runtime/host-contract`, `host-runtime` | accepted manifests, loaded plugins, owners of methods and events | register, bindings, dispatch, merged_contract, its lists | no two plugins own what one may own; what is accepted can be merged; an owner is reachable |
| Slot chain | `host-runtime/src/lib.rs` | payload, `any_handled`, the observer's feed | run_slot_phase / run_slot_chain, observed or not | policies decide who is asked, which payload wins and what an error does, consistently across phases |
| Slot adapter, observer bridge | `domain/src/traits/plugin_slot.rs`, `extension_slots/ipc/src/slot_observer.rs` | the toggles of the bridge | conversion of errors to the runtime and back, notifications of observations | a listener can replay a chain |
| Hook pipeline | `domain/src/pipeline.rs` | hooks, wraps, the input being rewritten | execute | the phase contract written above `Hook` |
| Settings store | `shared/storage/src/json_store.rs` | a map, a file, a temporary file | open, set, remove, clear, persist | the file is whole after any crash, and holds what was acknowledged |
| Discovery registry | `extension_slots/ipc/src/discovery.rs` | one file per daemon, `latest.json`, a UDP port | publish (prune, write), cleanup, the beacon | live daemons are listed, dead ones go |
| Network watcher | `shared/netwatch` | watch handle, senders | subscribe, the platform's callback | one watch; every feed is complete |
| Configuration pipeline | `config/pipeline` | none between calls | process_with, RetryPolicy, classify_error | delays grow to their cap; the steps tell which processor failed |
| Proxy DTOs | `shared/proxy-dto` | none | the projections to sing-box, Xray and Clash | sing-box and Xray agree; where they do not, it is known what each gets; nothing is weakened besides |
| Configuration loader | `shared/config` | none | load_file, load_env, load_env_only | environment over file over defaults; one file decides |
| Clash API client | `shared/clash-api` | none between calls | the REST calls, recv | nothing but a whole answer is taken for one |
| Component descriptors | `plugin_runtime/host-contract/src/contract.rs` | none | validate, render_wit_world | the world defines the interfaces it exports and imports |
| Rest | payloads, logging, paths, guest adapter, adapter manifests, in-memory storage | - | - | data, parsing and formatting |

### How they interact

A daemon publishes itself in the discovery registry, opens the settings store,
and registers cores with the core registry and packages with the plugin
registry. An operation such as `vpn.connect` runs the hook pipeline around a
handler; the plugin slot adapter turns a slot phase into a run of the slot chain
over the bindings that the plugin registry planned; the chain tells the observer
bridge what happened, which publishes it through the event broadcaster to the
connected clients. The handler calls the active core, whose events come back
over a channel. The network watcher feeds the daemon from a thread of the
platform's. The configuration of a core is built by the processors of the
configuration pipeline, out of outbounds that the projections translate, once
per attempt of a retry policy; a running core is asked through the Clash API.

Three compositions are modelled: `CoreHost` is the core registry over the mock
core and over a sing-box core taken at its contract; `DomainSlot` is the slot
chain between the domain's adapter and the observer bridge; `ProcessCore` is
itself shown to implement the contract that `CoreHost` assumes.

### What is hard

- Interleaving: two mutexes in the process core and two in the broadcaster that
  are never held together, so every pair of critical sections has other
  threads' steps between them; detached threads that outlive the call that made
  them; concurrent first subscribers; daemons that prune one directory; an
  observer that is switched off in the middle of a chain.
- Failure half-way: kill, try_wait, spawn and reads that fail; a temporary file
  created and not renamed; a broadcast observer that fails; hooks that fail in
  either direction; answers cut off on the wire.
- Order: plugins and cores that register in any order and again; two phases'
  flags that decide one result; a stop and a start inside a reaper's two steps.
- Two views of one thing that can differ: `state` and `child`, history and the
  list, the map and the file, the manifest and the package derived from it, the
  events and the state, two projections of one outbound.

`PROJECT.json` lists every hazard at its line, with the properties that watch it.

## 2. Modules

| module | models | checked by | proved in |
|---|---|---|---|
| `VpnCore` | the contract, as an abstract lifecycle: a state, and whether there is an engine | as `Contract` in `ProcessCore` and `MockCore`, as `Singbox` in `CoreHost` | `ProcessCoreProofs`, `CoreHostProofs` |
| `ProcessCore` | the process core with caller, reapers, readers and processes | `MCProcessCore` | `ProcessCoreProofs` |
| `MockCore` | the mock core, with the store and the send of each state apart | `MCCoreHost` | `CoreHostProofs` |
| `CoreRegistry` | descriptors, instances and the active core | `MCCoreHost` | `CoreHostProofs` |
| `CoreHost` | the registry with a mock core and a sing-box core in it | `MCCoreHost` | `CoreHostProofs` |
| `EventBroadcaster` | publish and subscribe, two steps each | `MCEventBroadcaster` | `IpcProofs` |
| `PluginRegistry` | register, the lookups, dispatch, merging and what the merged contract lists | `MCPluginRegistry` | `PluginRegistryProofs` |
| `SlotChain` | one run over planned bindings, whatever plugins answer | `MCSlotChain` | `SlotChainProofs` |
| `DomainSlot` | that run between the domain's adapter and the observer bridge | `MCSlotChain` | `SlotChainProofs` |
| `SettingsStore` | the store over a file system, with crashes | `MCSettingsStore` | `SettingsStoreProofs` |
| `DiscoveryRegistry` | daemons that start, prune, write, listen, stop and die | `MCDiscoveryRegistry` | `IpcProofs` |
| `NetWatch` | the lazy start and the fan-out | `MCNetWatch` | `SequenceProofs` |
| `HookPipeline` | wraps around the hook runner around the handler | `MCHookPipeline` | `HookPipelineProofs` |
| `Collections` | filtered lists and objects put over one another, for the five below | `MCConversions` | `SequenceProofs` |
| `ProxyProjection` | the projections of an outbound | `MCConversions` | `SequenceProofs` |
| `ConfigLoader` | the sources of a host's configuration | `MCConversions` | `SequenceProofs` |
| `ClashApi` | what a client makes of an answer | `MCConversions` | `SequenceProofs` |
| `ConfigPipeline` | retry policies, error kinds, the runner of processors | `MCConversions` | `SequenceProofs` |
| `WitContract` | component descriptors and the world rendered from them | `MCConversions` | `SequenceProofs` |
| `Conversions` | one call of a function of the five modules above | `MCConversions` | `SequenceProofs` |

Conventions. An action is one critical section, one system call or one call into
foreign code; what runs between two of those is part of one of them. `pc` says
where a thread is. Operators that begin with "A slip" in their comment are
plausible mistakes in the definition that follows them: no specification uses
them, and each makes a named property fail when it takes the definition's place
("mutants" in `PROJECT.json`). Modules keep a `TypeOK` for the proofs to start
from, also where no run lists it. Two modules that one proof module extends have
different names for everything: hence `DRInit`, `CSpec` and the like.

### ProcessCore

`state` and `child` are the two mutexes. The state lock is taken for single
assignments only, so each is a step. `stop` holds the child lock from `take()`
to its return (`StopHoldsChild`): no reaper polls meanwhile. The mutating
methods take `&mut self`, so there is one caller (`pc`, `call`, `path`, `mine`).
`restart` is the trait's default: it asks `status()`, and goes through stop if
the state is active, then through start.

A reaper polls the slot, not the process it was started for. So several may poll
one process, after a stop and a start within a poll interval; the model lets as
many poll as there were starts. `Reap` clears the slot under the lock;
`ReportState` and `ReportCrash` come later. A process is `running`, may be
`signalled` by kill, becomes a `zombie`, and is `waited` for by stop or `reaped`
by a reaper. Reader threads take lines from pipes after their process has ended
too; they end at a line that is not UTF-8 (`ReaderFails`).

### CoreRegistry, MockCore, CoreHost

Core types are numbered in the order of the registry's maps, so that `First` is
the first key. An instance is the number of its registration; registering a type
again gives it a new one and drops the old. `Install` is the file system, where
binaries come and go between calls; one that `which` finds may be gone when
`discover` asks for it again, and is then listed as unavailable.

`MockCore` has the one caller that `&mut self` allows; `todo` are the states the
call under way still emits, `EmitStore` and `EmitSend` the two locks of
`emit_state`. In `CoreHost` calls go to `active_core()` or, by name, to any core
that `get_core()` gives (`Reached`). Both borrow the registry: while a call is under
way the registry does nothing else (`Borrowed`).
The mock core stands for the instance of its type registered first; once it is
replaced (`replaced`) nobody can call it. The sing-box core hands every call to
a process core, so its steps are those of `VpnCore`, which go on while another
core is active: that is what process and reaper do.

### EventBroadcaster

Notifications are numbered as they enter history. `PublishHistory` and `FanOut`
are publish; copying history (sending it into the new channel) and joining the
list are subscribe. The list `subs` is a set: the fan-out goes to everybody on
it in one critical section. `copied`, `base` and `joined` are ghosts that say which part
of an inbox is a replay and when subscribe ran.

### PluginRegistry

A manifest is reduced to the claims that registration and merging compare: slots
with phases and policies, method patterns, required capabilities, allowed hosts,
an optional package with its methods, events, labels and component. `Normalized`
is the derived package, `Acceptable` the checks of `register`, `MergeNext` one
step of `merged_contract`, which goes through the packages in id order and fails
on the first that does not validate or collides. `Bindings` and `MethodBindings`
are the lookups: `BindingsFor` sorts the ones, and `Dispatch` (`dispatch_method`)
goes through the others in the same order (`Sooner`). `Methods` and `Events`
have every name that a package lists (`ManifestsAssumption`).
`MethodList` and `EventList` are what the merged contract lists.

### SlotChain, DomainSlot

Bindings of the three phases are arbitrary up to `MaxBindings`. A call is
`Call`, then one of eight answers (no component output, error, unparsable,
unhandled, unchanged, continue, halt, error outcome) treated by policy, or it is
not made because the envelope cannot be serialised (`CannotCall`). Payloads are
numbered by the call that produced them.

`DomainSlot` adds a caller. The registry runs a chain as before; the domain runs
one with a single plugin, whose `VpnError` becomes a failure of the runtime
(`HostCode`) and is turned back for the caller (`FromHost`), and whose
observations become notes unless broadcasting is off. `SetBroadcastEnabled` may
come between any two steps; `watched` remembers that it did not.

### SettingsStore, DiscoveryRegistry

Both model the file system as names and contents. In the store, creating the
temporary file truncates it, writing fills it, renaming replaces the settings
file; every step may fail, and the process may be killed between any two. A
settings file that cannot be looked at counts as missing to `path.exists()`, so
`Open` may find an empty map where there is one.
The ghosts `acked` and `tried` are the last acknowledged map and those of later,
unacknowledged operations. In the registry, a starting daemon reads the
directory once and then checks and removes entry by entry while others go on. The
directory may be unreadable, wholly or in part, and a removal may fail: the ghost
`stale`, which holds the entries a starting daemon is to remove, excuses these.
The port of the beacon is the machine's and goes to the first that binds it.

### NetWatch, HookPipeline

`NetWatch`: `holder` is the mutex around the handle, held while the platform watch
starts; the callback holds the list's mutex to its last event (`ListFree`). `base`
is a ghost, what was known when a caller joined; `Told` is what the events sent to
it since then make of that, one after the other. An interface appears, changes its
address or goes away. A caller whose start failed may call again, `MaxRetries`
times in all (`retries`).
`HookPipeline`: `stack` is the nesting of wraps, which may call the rest of the
chain several times with any input; `phase` and `next` are where the hook runner
is; `calls` are the calls one execution of the hook runner made, and `Ran` says
which, position by position.

### The conversions

`Conversions` has no state of the program's: a step is one call, with an input
from a given set and the value the function returns. Its five modules are the
functions. `InputsAssumption` says that the inputs are what the types of the code
admit, and no more: TLC gives some of them, the theorems are about all.

- `ProxyProjection`: an outbound is a function from the fields it has to their
  values; `Rename` and `When` are the `if let` and `if` of the code. A value is
  the name of its field, so a projected value tells where it came from. `NoWeaker`
  says exactly which outbounds come out of each core with tls or reality, `CoresAgree`
  which transport each gets, also for a network named without its options.
- `ConfigLoader`: a source gives values to some fields. The library that merges
  a file with the defaults is external, and overrides field by field. A variable
  that is not Unicode (`NotUnicode`) makes reading the environment panic.
- `ClashApi`: an answer is how the connection ended, whether there is a head, the
  status, the framing and the shape of the body. A body may be an array where a
  struct is asked for: serde takes its elements for the fields, in order, and a
  struct whose fields have defaults comes out of an empty one. A pong that cannot be
  sent ends `recv` with an error.
- `ConfigPipeline`: durations are numbers; the width of the multiplier (32) and
  the longest duration are constants. A message is the set of phrases in it.
- `WitContract`: names are given as valid or not; the text that is rendered is
  modelled by what it declares. Type names are checked for their form only, as in
  `validate_wit_type`, and nothing looks whether they are defined.

## 3. Runs

Bounds are constants of the modules, given in the `.cfg` files.

| run | question | bounds, and why they are enough |
|---|---|---|
| `process_sessions` | Whatever a caller does and though kill may fail: are handles and crash reports consistent, do calls return, are crashes reported, do reapers end? | 2 sessions, the least with a leftover reaper; no symmetry, for liveness. 89,603 states |
| `process_contract` | Does a patient caller with a kill that works get the contract, with its liveness, no process lost, and all output? | 2 sessions, one line per process, unreadable lines, a try_wait that may fail. 164,121 states |
| `broadcaster` | Is delivery exactly once, ordered, and pruned? | 2 publishers, 2 clients, 3 notifications over a history of 2, so that history overflows while both race. 163,610 states |
| `registry` | Do the checks of register and of merging agree, and are owners listed once and reachable? | 3 plugins out of 17 shapes, accepted and refused ones, in every order. 10,617 states |
| `slot_chain` | Do the policies compose over phases, and can a listener replay a chain? | every mixture of 5 policies over up to 3 bindings, so that a binding has one before it and one after it in its phase, or the phases have one each; domain chains with 3 kinds of errors. 820,687 states |
| `settings` | Is the file whole, and does a restart find what was acknowledged? | 2 keys, 2 crashes (a leftover, then a crash over it), any step failing, from looking at the file on. 22,327 states |
| `discovery` | Are live daemons listed and dead ones pruned? | 3 pids, 4 starts (one pid is used again once its entry is gone), failing reads of the directory, writes and removals. 526,158 states |
| `netwatch` | One watch, complete feeds, and does subscribe return? | 2 callers, 2 interfaces with 2 addresses, so that one update may add, change and remove, 2 changes, and 2 calls again after a start that failed: either caller may need both, or each one while the other is at it. 407,775 states |
| `pipeline` | Does the phase contract hold under wraps that retry? | 3 hooks, 2 wraps, 2 calls per wrap, 2 inputs. 11,372 states |
| `core_host` | Is nobody switched without asking, and does the mock core keep the contract and tell its state, whatever is done to the registry? | 2 core types, 3 instances (one type registered again, the other after it), 5 events of the mock (a whole session and the start of the next). 396,730 states |
| `conversions` | Do the functions without state keep what they promise? | every combination of the fields and cases a function decides by; attempts past the width of the multiplier (3 bits here) and durations past the longest. 19,392 states |
| `disconnected_core` | expected violation, section 5 | 2 processes |

Deadlock is checked where a system should be able to go on for ever, or ends in a
state with a self-loop of its own. `MCSlotChain`, `MCHookPipeline`,
`MCEventBroadcaster`, `MCDiscoveryRegistry`, `MCNetWatch` and `MCCoreHost` stop by
design when the run ends or a bound is reached.

What the process runs leave out: with a kill that fails and a caller that does
not wait, `NoProcessLost` and `StopIsFinal` are false (the handle is dropped),
so they are checked, and proved, for a kill that works; `CrashIsReported` is
checked without failures of `try_wait`, which end the reaper that would report.
A larger instance of `Custody` and `CrashesAreReal` is not run: they are proved
for every set of processes.

### Fairness

- `ProcessCore`: weak fairness of the caller inside a call, of each reaper, each
  reader, and of the exit of a process that got SIGKILL: threads are scheduled,
  and the kernel ends a killed process. Nothing forces a call, an exit or a line.
- `MockCore`, `CoreHost`: a call on the mock core goes on to its end; its steps
  wait for nothing but short locks.
- `EventBroadcaster`: a publish under way goes on.
- `NetWatch`: weak fairness of the callback and of each step of a call.
  `std::sync::Mutex` promises no order among those who wait for it, and none is
  assumed. So `SubscribeReturns` is about callers who call again after an error a
  bounded number of times: an endless stream of calls that fail could keep one
  caller from the mutex for ever.
- The others are checked for safety only.

## 4. Proofs

Each module named `...Proofs` proves, for every value of the constants that their
assumptions allow, that an invariant is inductive, and from it the properties that
the runs check. Where that invariant is more than the properties, TLC has checked
it under the constants of the module's run before it was proved. The theorems are
listed under "theorems" in `PROJECT.json`.

`ProcessCoreProofs` (any processes, streams and lines, whatever may fail):

- `TypeCorrect`: `SafetySpec => []TypeOK`.
- `HandlesHold`: the slot and the caller never hold a process together, and what
  either holds has not been waited for. Inductive with `TypeOK`.
- `CrashesAreGenuine` (`CrashesAreReal` and `Pending`): a
  process is reported at most once, and never after stop or kill brought it down.
  The events alone are not inductive: a reaper between `Reap` and `ReportCrash`
  could report a second time. `Pending` closes this: two reapers about to report
  hold statuses of different processes, which are reaped and not yet reported.
  With `Handles`, the process that `Reap` finds is in the slot and so cannot have
  been reaped before. `CustodyHolds` joins the two.
- `NoLoss`: if kill does not fail, a process not yet waited for is in the slot or
  with the caller. Inductive with `TypeOK` and `Handles`.
- `StopsAreFinal`: what a successful stop or kill leaves. It needs where the
  caller can be during a stop (only on the stop path, which holds the child lock
  from `take()` on) and `NoLoss`; a leftover reaper can then only write
  Disconnected over Disconnected.
- `KeepsContract`: with a patient caller and a kill that works, every step is a
  step of `VpnCore` or a stutter. `Discipline` is the invariant behind it: no
  reaper is left while a start is under way, one that is about to report has an
  empty slot before it, and the state tells where the caller is. Without patience
  the theorem is false (section 5).

`IpcProofs`, about the broadcaster (any publishers, clients, history limit and
number of notifications; `DeliveredOnce`, `OrderKept`, `AllAgree`). An inbox is a
replay and then what was sent since the client was listed (`Inbox`). The crux is what is on
its way: a publisher's number under way is the last it took (`InFlight`), and it is
in nobody's inbox past the replay (`Deliveries`), so a fan-out adds it once and
behind what that publisher sent before. Two clients agree because whoever is
listed gets every number from then on, in one order: each step appends the same
number to both (`EndingsGrow`).

`PluginRegistryProofs` (any manifests; `SingleOwner`, `MergeSucceeds`,
`OwnersNamed`, `Reachable`). `Apart` is what register's conflict checks leave: no
name is in two packages. `Halfway` says that the ids merged and those to come are
different plugins, and `MethodsOwned` and `EventsOwned` that the owners recorded
are the owners among the merged. Then no name is ever found taken (`NotTaken`), and
the only check that a merge can fail is that of the capabilities, by a host.
Reachability does not need the order of the bindings: with the owner alone
willing, no other binding can settle, since every plugin is loaded. (Where a plugin
of higher priority is willing too, under a wildcard, it answers instead.)

`SlotChainProofs` (plans of any length with any policies, whoever runs them;
`LatestPayload`, `NoneIsNobody`, `CallsInOrder`, `EntersPair`, `NotesTellTheEnd`).
The invariant places the chain (`Placed`), says that everything answered lies
behind it (`Behind`) and everything behind it was asked or spared (`Passed`), what
the two flags have counted (`Tallied`), and how observations pair up (`Paired`).
Across `DomainSlot` it adds that notes mirror observations while broadcasting has
been on (`Mirrored`) and what can be told of them so far (`Told`). The theorems are
about `DomainSpec`, of which a chain of the registry's own is the case without
notes.

`SettingsStoreProofs` (any processes, keys, values and crashes, any operation
failing). `WholeFile` and `NothingLost` assume `[]Alone`, that no two processes
have the store open at once, since section 5 shows them false otherwise; they may
take turns. `OneProcessIsSafe` has that for a single process, with nothing left to
assume. Between its steps, the file being written is the temporary one and empty,
the one being renamed holds the whole map (`Written`), and that map counts as
tried (`Pending`).

`IpcProofs`, about the registry (any pids and number of daemons, any read of the
directory, write or removal failing). `LiveListed` and `StalePruned` are stated for `PidsReused = FALSE`: no pid is given
out again while the registry or a daemon that prunes still knows it. Otherwise the
first is false (section 5). What a daemon is about to remove is dead and stays so
(`DoomedIsDead`); an entry that was stale when a daemon began is gone, or made anew
by a later daemon (`Successors`), or still ahead of it (`Ahead`), unless the daemon
did not see it in the directory or could not remove it.

`HookPipelineProofs` (any hooks, wraps and inputs; `ContractKept`,
`HandlersInputShown`). `Script` says how far the calls have come in every phase of
the hook runner, `Shown` that the snapshot is what the handler was given. A lemma
for each kind of hook says what one more call makes of the calls (`RanBefore` to
`RanOnError`). The wraps matter only in that each descent starts afresh.

`CoreHostProofs` (any core types, paths, registrations and events). `StepsAre`
splits a step of the host into one of the registry and one of the mock core.
`SwitchesAlone` is the action property; `MockTells` needs that what was announced
is the state, but for the one emission under way; `MockImplements` maps every step
to `VpnCore` with the engine being the state itself.

`SequenceProofs` is about what goes along a sequence. The provers cannot use an
induction theorem that takes a predicate, so the induction is done once, with sets
and functions for parameters: the library proves that `<` on Nat is well-founded
(`NatLessThanWellFounded`, `WFMin`), hence a set of numbers has a least one (`LeastNat`), what holds at 0 and
at the next holds up to N (`Induct`), what is defined step by step is defined
(`Recursion`), and two functions that start alike and go on alike are alike
(`StepByStep`). A property is handed to them as the set of the places where it
fails.

- The watcher (any callers, finite set of interfaces and number of changes;
  `FeedComplete`). `ToldIs` says what `Told` computes, `EventsAre` that the events
  of an update make the new view of the old one and are news one by one, in
  whatever order the sets are listed. `Fed` is the invariant for one receiver: what
  it was told, completed by what the running callback has yet to send to it
  (`Unsent`), is what is known. `Sending` says that those events are about
  different interfaces, so the ones to come stay news whatever comes before.
- The conversions (any inputs within `InputsAssumption`). The call under way is
  of the function its name says (`TheCall`), and each theorem follows from a lemma
  about that function: `BackoffHolds` from `ShiftedIs` (each bit doubles) for any
  width, as far as the width goes, beyond which the delay stays (it need not have
  reached the cap); `StepsTold` from the states of the loop, turn by turn (`Run`), of which an
  error, once set, stays; `WholeAnswers` and `InterfacesDefined` from `PickedIs`, which
  says that filtering is a bijection from the places of the result to those that
  are picked; `Cascading` field by field, over the first file that exists.
- The projections (any outbound with the fields of its kind, any subset of its
  options; `ProjectionsMatch`, `ProtectionKept`). An outbound has more optional
  fields than TLC could combine, so the run takes those that decide. The proof goes
  by where a value comes from: `FromEndpoint` and `FromServer` trace the server and
  the credentials of either projection to the outbound, `IsTls` and `StreamFrom`
  its tls, `AttachIs` and `SettingsAre` its transport, and what comes from the same
  field agrees (`NetworksAgree`, `SecurityAgrees`). Where the cores are told
  different things, the theorems say which: of reality options without tls, and of a
  network without its options, sing-box is given nothing and Xray both; socks5 with
  tls reaches sing-box without it.
- `InterfacesDefined` is about the names of interfaces. That the types in them are
  defined, and that no two imports are rendered alike, is not so (section 5).

The assumptions are those named in the modules: markers such as `None` and
`NoManifest` are none of the values they stand beside, bounds are numbers, flags
are Boolean, what a package lists is among `Methods` and `Events`, there are
finitely many interfaces, and the inputs of the conversions have their types.

Every safety property that a passing run checks is a theorem. Model-checked only:

- Every liveness property (`CallsReturn`, `CrashIsReported`, `ReapersEnd`,
  `OutputIsDrained`, `ClosedIsPruned`, `SubscribeReturns`) and the liveness halves of
  `ImplementsContract` and `MockKeepsTheContract`: there is no rule for fairness.
- That the slips listed under "mutants" break the properties they name, and the
  disagreements of section 5.

## 5. Where code and documentation disagree

The first is a run. The others are found violated by TLC in a configuration of
their own, or, where none is named, in the `.cfg` of the module's run with its
INVARIANTS and PROPERTIES replaced by the property.

| property, configuration | what is promised | what the code does |
|---|---|---|
| `DisconnectedMeansNoProcess`, run `disconnected_core` | `domain/src/types.rs:14`: "No active process, ready to connect." | a start that fits between a reaper's clearing of the slot and its write of Disconnected leaves Disconnected over a live process, for good |
| `ContractMerges`, `MCPluginRegistry` | tests validate a wildcard host (`host-contract/src/lib.rs:772`) and unwrap merging (`:1148`) | `normalized_package` makes each allowed host a capability, and capabilities must be tokens: one accepted manifest with a wildcard host makes `merged_contract` fail for all |
| `NotConnectedMeansNotRunning`, `MCProcessCore_NotConnectedMeansNotRunning.cfg` | `vpn_core.rs:53`, `:59`: NotConnected "if the engine is not running" | after a kill that failed the handle is gone, and stop says NotConnected over a live process |
| `RunningMeansAlive`, `MCProcessCore_RunningMeansAlive.cfg` | `vpn_core.rs:77`: running() should verify liveness | running() follows the state until a reaper polls |
| `NothingRecentIsLost`, `MCEventBroadcasterLost.cfg` | test `late_subscriber_receives_recent_history` | what is published between subscribe's two sections reaches that client neither way |
| `OwnedSlotIsOwnedOnce`, `MCPluginRegistry_OwnedSlot.cfg` | `README.md:71` | slots declared only in packages are not held to the single-owner rule |
| `EveryoneObserves`, `MCSlotChain` | `README.md:72` | a broadcast observer that fails ends the chain before those behind it |
| `EveryEnterIsClosed`, `MCSlotChain` | `slot_observer.rs:22`: pair enter with what follows | an unparsable answer ends a chain without an event |
| `RecoverabilitySurvives`, `MCSlotChain` | `errors.rs:113`: recoverable tells whether the user can retry | every error of a domain plugin comes back as Unknown, which is recoverable, or as InvalidConfiguration |
| `FileIsWhole`, `MCSettingsStore_Shared.cfg` | `json_store.rs:3`: tray app and server share the store | they share the temporary file's name too |
| `OpenReadsTheFile`, `MCSettingsStore` (without SYMMETRY) | `json_store.rs`: opening gives what is stored, or an error | a file that cannot be looked at counts as missing, and the next write replaces it |
| `LiveIsListed`, `MCDiscoveryRegistry_LiveIsListed.cfg` | the registry lists running daemons | a daemon that gets a dead one's pid between check and removal loses its entry |
| `LatestIsMostRecent`, `MCDiscoveryRegistry` (FilesMayFail FALSE) | `discovery.rs:8` | cleanup leaves `latest.json` naming a daemon that is gone |
| `EveryDaemonAnswers`, `MCDiscoveryRegistry` | `discovery.rs:17`: one response per daemon | the second daemon of a machine does not get the port |
| `DroppingUnsubscribes`, `MCNetWatch_DroppingUnsubscribes.cfg` | `watcher.rs:85`: no leak | senders of dropped receivers stay in the list |
| `AvailableIsReady`, `MCCoreHost` | `types.rs`, `CoreDescriptor::available`: ready to use | a discovered core has no instance, and switching to it fails |
| `RunningIsReachable`, `MCCoreHost` | a core that runs can be stopped | registering its type again drops it while it runs |
| `RunningIsActivable`, `MCCoreHost` | `switch_to` leads back to a core that runs | linking a path that is not there makes it impossible to switch back to; only `get_core` still gives it |
| `TlsIsProjected`, `MCConversions` | `project.rs:30`: projections cover protocol and tls | socks5 with tls is projected to sing-box without it |
| `NetworkIsProjected`, `MCConversions` | `project.rs:16`: each core is given the network | without its options a network is kept for Xray and dropped for sing-box |
| `ExplicitFileWins`, `MCConversions` | `shared/config/src/lib.rs:4`: explicit file over environment | the environment overrides it (as the comment at `:98` and a test say) |
| `WorldIsWellFormed`, `MCConversions` | a rendered world is WIT | an interface that is imported and exported is defined twice |
| `ImportsAreApart`, `MCConversions` | a rendered world is WIT | two imports of one external path are rendered alike |
| `TypesAreDefined`, `MCConversions` | a rendered world is WIT | a function or record may name a type that nothing defines |

Also: `plugin_slot.rs:270` says that any serde error is surfaced as Unknown, and
one of building the envelope becomes InvalidConfiguration (`FromHost`).

## 6. Not modelled

- Power failure: the file system survives the process, not the machine (the
  store does not sync its directory).
- `pid_alive` on Windows, which is always true.
- The projection to Clash: serde derives it from the fields, renamed to kebab case,
  and it decides nothing.
- Lock poisoning: a panic while a mutex is held.
- The log sink of the observer bridge and the log lines of the mock core.
- The handshake of a WebSocket, the time an HTTP answer takes (a timeout is one of
  the ways it ends), percent-encoding of names.
- `set_binary_path` does not reach an instance that exists already: instances of
  `CoreHost` have no path.
- The loop over the strategies of a plan: it is left to the hosts.
- Payloads, the operations' wire types, logging, paths, the guest adapter,
  adapter manifests and in-memory storage: no concurrent or failing state of
  their own, and nothing they decide interacts.

## 7. Plan

Modelled, in this order: `VpnCore` and `ProcessCore` with their proofs, then
`EventBroadcaster`, `PluginRegistry`, `SlotChain`, `SettingsStore`,
`DiscoveryRegistry`, `NetWatch`, `HookPipeline`; then `DomainSlot`,
`CoreRegistry`, `MockCore` and `CoreHost`, and the conversions.

Proved, in the order of section 4: what is proved about a component is stated for
the constants the code leaves open, so a change in one of the modules is first run
under TLC and then proved again.

Worth adding: the loop over the strategies of a plan, once a host has one in this
repository, over `ConfigPipeline` and `CoreHost`; and the durability of the settings
store under a power failure, should it begin to sync its directory.

Out of the prover's reach: liveness and ENABLED, and anything about recursive
operators. The modules use recursive functions or folds, so each of them may be used
from a module with theorems.
