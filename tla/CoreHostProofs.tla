--------------------------- MODULE CoreHostProofs ---------------------------
(***************************************************************************)
(* Proofs about CoreHost, for any core types, paths and number of          *)
(* registrations, and any number of events of the mock core: the registry  *)
(* of cores, the mock core, and the contract the mock core keeps.          *)
(***************************************************************************)
EXTENDS CoreHost, TLAPS

\* A step of the host is a step of the registry and one of the mock core, or
\* leaves them alone.
LEMMA StepsAre ==
  [HostNext]_hostVars =>
    /\ [Next]_vars
    /\ [Mock!Next]_mockVars
<1> SUFFICES ASSUME [HostNext]_hostVars PROVE [Next]_vars /\ [Mock!Next]_mockVars
  OBVIOUS
<1>1. CASE UNCHANGED hostVars
  BY <1>1 DEF hostVars
<1>2. CASE RegistryCall
  BY <1>2 DEF RegistryCall
<1>3. CASE MockCall
  BY <1>3 DEF MockCall, Mock!Next
<1>4. CASE MockWorks
  BY <1>4 DEF MockWorks, Mock!Next
<1>5. CASE SingboxCall
  BY <1>5 DEF SingboxCall
<1>6. CASE SingboxWorks
  BY <1>6 DEF SingboxWorks
<1> QED BY <1>1, <1>2, <1>3, <1>4, <1>5, <1>6 DEF HostNext

-----------------------------------------------------------------------------
(* The registry *)

\* There is an active core as soon as there is a core, and it has an instance.
ActiveHolds ==
  /\ active = None <=> DOMAIN cores = {}
  /\ active # None => active \in DOMAIN cores

RegistryInv == TypeOK /\ ActiveHolds

\* A new instance takes the place of an earlier one of its type.
LEMMA RegisterKeeps ==
  ASSUME RegistryInv, NEW t \in CoreTypes, NEW path \in Paths \cup {NoPath}, NEW a \in BOOLEAN,
         Register(t, path, a)
  PROVE  RegistryInv' /\ (active # None => active' = active)
<1> DEFINE described == [source |-> "registered", path |-> path, available |-> a]
<1>1. /\ made \in Nat /\ made' = made + 1 /\ made' \in 0..MaxCores /\ exists' = exists
      /\ active' = IF active = None THEN t ELSE active
      /\ cores' = With(cores, t, made') /\ descriptors' = With(descriptors, t, described)
  BY ConstantsAssumption DEF RegistryInv, TypeOK, Register
<1>2. /\ DOMAIN cores' = DOMAIN cores \cup {t} /\ cores'[t] = made'
      /\ \A k \in DOMAIN cores : k # t => cores'[k] = cores[k]
  BY <1>1 DEF With
<1>3. /\ DOMAIN descriptors' = DOMAIN descriptors \cup {t} /\ descriptors'[t] = described
      /\ \A k \in DOMAIN descriptors : k # t => descriptors'[k] = descriptors[k]
  BY <1>1 DEF With
<1>4. described \in Descriptor
  BY DEF Descriptor
<1> HIDE DEF described
<1>5. \A k \in DOMAIN cores : cores[k] \in 1..made
  BY DEF RegistryInv, TypeOK
<1>6. \A k \in DOMAIN cores' : cores'[k] \in 1..made'
  BY <1>1, <1>2, <1>5
<1>7. IsInjective(cores')
  <2> SUFFICES ASSUME NEW k \in DOMAIN cores', NEW l \in DOMAIN cores', cores'[k] = cores'[l]
               PROVE  k = l
    BY DEF IsInjective
  <2>1. CASE k # t /\ l # t
    BY <1>2, <2>1 DEF RegistryInv, TypeOK, IsInjective
  <2>2. CASE k = t /\ l # t
    BY <1>1, <1>2, <1>5, <2>2
  <2>3. CASE k # t /\ l = t
    BY <1>1, <1>2, <1>5, <2>3
  <2> QED BY <2>1, <2>2, <2>3
<1>8. \A k \in DOMAIN descriptors' : descriptors'[k] \in Descriptor
  BY <1>3, <1>4 DEF RegistryInv, TypeOK
<1>9. t # None
  BY ConstantsAssumption
<1>10. ActiveHolds'
  BY <1>1, <1>2, <1>9 DEF RegistryInv, ActiveHolds
<1>11. TypeOK'
  BY <1>1, <1>2, <1>3, <1>6, <1>7, <1>8 DEF RegistryInv, TypeOK
<1> QED BY <1>1, <1>10, <1>11 DEF RegistryInv

\* Discovering and linking describe cores and make none; discovering makes the
\* first core the active one only when there is no core.
LEMMA DescribingKeeps ==
  ASSUME RegistryInv,
         Discover \/ \E t \in CoreTypes, path \in Paths : SetBinaryPath(t, path)
  PROVE  RegistryInv' /\ active' = active
<1>1. CASE Discover
  <2> DEFINE Described(gone) ==
               [t \in DOMAIN descriptors \cup Found |->
                  IF t \in Found THEN [source |-> "system", path |-> t, available |-> t \notin gone]
                                 ELSE descriptors[t]]
  <2>0. PICK gone \in SUBSET Found :
           /\ exists' = exists \ gone /\ descriptors' = Described(gone)
           /\ active' = IF active = None THEN First(DOMAIN cores) ELSE active
           /\ UNCHANGED <<cores, made>>
    BY <1>1 DEF Discover
  <2>1. DOMAIN descriptors' = DOMAIN descriptors \cup Found
    BY <2>0
  <2>2. Found \subseteq CoreTypes \cap Paths
    BY ConstantsAssumption DEF Found
  <2>3. \A k \in DOMAIN descriptors' : descriptors'[k] \in Descriptor
    BY <2>0, <2>2 DEF RegistryInv, TypeOK, Descriptor
  <2>4. active' = active /\ exists' \subseteq exists /\ UNCHANGED <<cores, made>>
    BY <2>0 DEF First, RegistryInv, ActiveHolds
  <2> QED BY <2>1, <2>2, <2>3, <2>4 DEF RegistryInv, TypeOK, ActiveHolds
<1>2. ASSUME NEW t \in CoreTypes, NEW path \in Paths, SetBinaryPath(t, path)
      PROVE  RegistryInv' /\ active' = active
  <2> DEFINE described == [source |-> "linked", path |-> path, available |-> path \in exists]
  <2>1. /\ descriptors' = With(descriptors, t, described) /\ t \in DOMAIN descriptors
        /\ UNCHANGED <<exists, cores, active, made>>
    BY <1>2 DEF SetBinaryPath
  <2>2. described \in Descriptor
    BY DEF Descriptor
  <2>3. \A k \in DOMAIN descriptors' : descriptors'[k] \in Descriptor
    BY <2>1, <2>2 DEF With, RegistryInv, TypeOK
  <2>4. DOMAIN descriptors' = DOMAIN descriptors
    BY <2>1 DEF With
  <2> QED BY <2>1, <2>3, <2>4 DEF RegistryInv, TypeOK, ActiveHolds
<1> QED BY <1>1, <1>2

\* A switch goes to a type that has an instance and is available.
LEMMA SwitchKeeps ==
  ASSUME RegistryInv, NEW t \in CoreTypes, Switch(t)
  PROVE  RegistryInv' /\ UNCHANGED <<cores, descriptors>> /\ descriptors[active'].available
<1>1. /\ active' = t /\ t \in DOMAIN cores /\ descriptors[t].available
      /\ UNCHANGED <<exists, cores, descriptors, made>>
  BY DEF Switch, Switchable
<1>2. t # None
  BY ConstantsAssumption
<1> QED BY <1>1, <1>2 DEF RegistryInv, TypeOK, ActiveHolds

\* What a step of the registry keeps and may change.
LEMMA RegistrySteps ==
  ASSUME RegistryInv, [Next]_vars
  PROVE  /\ RegistryInv'
         /\ active \notin {None, active'} =>
              UNCHANGED <<cores, descriptors>> /\ descriptors[active'].available
<1>1. CASE UNCHANGED vars
  BY <1>1 DEF RegistryInv, TypeOK, ActiveHolds, vars
<1>2. ASSUME NEW p \in Paths, Install(p)
      PROVE  RegistryInv' /\ active' = active
  <2>1. exists' \subseteq Paths
    BY <1>2 DEF Install, RegistryInv, TypeOK
  <2> QED BY <1>2, <2>1 DEF Install, RegistryInv, TypeOK, ActiveHolds
<1> QED
  BY <1>1, <1>2, RegisterKeeps, DescribingKeeps, SwitchKeeps DEF Next

\* The types of the registry; an instance is described and shared by no two types,
\* and a registry with a core has an active one.
THEOREM RegistryCorrect == HostSpec => []RegistryInv
<1>1. HostInit => RegistryInv
  <2>1. DOMAIN << >> = {}
    OBVIOUS
  <2> QED
    BY <2>1, ConstantsAssumption DEF HostInit, Init, RegistryInv, TypeOK, ActiveHolds, IsInjective
<1>2. RegistryInv /\ [HostNext]_hostVars => RegistryInv'
  BY StepsAre, RegistrySteps
<1> QED BY <1>1, <1>2, PTL DEF HostSpec

\* core_registry.rs: once there is a core there is an active one, and only a switch
\* to an available one with an instance puts another in its place.
THEOREM SwitchesAlone == HostSpec => OnlySwitchSwitches
<1>1. RegistryInv /\ [HostNext]_hostVars =>
        [/\ active' = None <=> DOMAIN cores' = {}
         /\ active' # None => active' \in DOMAIN cores' \cap DOMAIN descriptors'
         /\ active \notin {None, active'} =>
              UNCHANGED <<cores, descriptors>> /\ descriptors[active'].available]_vars
  <2> SUFFICES ASSUME RegistryInv, [HostNext]_hostVars
               PROVE  /\ active' = None <=> DOMAIN cores' = {}
                      /\ active' # None => active' \in DOMAIN cores' \cap DOMAIN descriptors'
                      /\ active \notin {None, active'} =>
                           UNCHANGED <<cores, descriptors>> /\ descriptors[active'].available
    OBVIOUS
  <2> QED BY StepsAre, RegistrySteps DEF RegistryInv, TypeOK, ActiveHolds
<1> QED BY <1>1, RegistryCorrect, PTL DEF HostSpec, OnlySwitchSwitches
-----------------------------------------------------------------------------
(* The mock core *)

\* The state a host has last been told.
LastSeen == IF events = <<>> THEN "Disconnected" ELSE events[Len(events)]

\* Which states may follow which.
Lifecycle ==
  { <<"Disconnected", "Connecting">>, <<"Connecting", "Connected">>,
    <<"Connected", "Disconnecting">>, <<"Disconnecting", "Disconnected">>,
    <<"Connected", "Disconnected">> }

\* What a call under way has still to emit goes on from what was last told.
Announced ==
  /\ todo \in { <<>>, <<"Connecting", "Connected">>, <<"Connected">>,
                <<"Disconnecting", "Disconnected">>, <<"Disconnected">> }
  /\ todo = <<>> => LastSeen \in {"Disconnected", "Connected"}
  /\ todo = <<"Connecting", "Connected">> => LastSeen = "Disconnected"
  /\ todo = <<"Connected">> => LastSeen = "Connecting"
  /\ todo = <<"Disconnecting", "Disconnected">> => LastSeen = "Connected"
  /\ todo = <<"Disconnected">> => LastSeen \in {"Disconnecting", "Connected"}

\* Between calls and between emissions the host knows the state; while one is
\* under way, the state is the one being sent.
Known ==
  /\ sending \in BOOLEAN /\ sending => todo # <<>>
  /\ state = IF sending THEN Head(todo) ELSE LastSeen

\* The events so far, one after another.
Successive ==
  /\ events \in Seq(Mock!States)
  /\ \A i \in DOMAIN events :
       <<IF i = 1 THEN "Disconnected" ELSE events[i - 1], events[i]>> \in Lifecycle

MockInv == Announced /\ Known /\ Successive

\* Every step of the mock core keeps what it has told.
LEMMA MockSteps == MockInv /\ [Mock!Next]_mockVars => MockInv'
<1> SUFFICES ASSUME MockInv, [Mock!Next]_mockVars PROVE MockInv'
  OBVIOUS
<1>1. CASE UNCHANGED mockVars
  BY <1>1 DEF MockInv, Announced, Known, Successive, LastSeen, mockVars
<1>2. ASSUME UNCHANGED <<state, events, sending>>, ~sending,
             \/ todo' = todo \/ todo' = <<>>
             \/ todo = <<>> /\ state = "Disconnected" /\ todo' = <<"Connecting", "Connected">>
             \/ todo = <<>> /\ state = "Connected"
                  /\ todo' \in { <<"Disconnecting", "Disconnected">>, <<"Disconnected">> },
             todo' = <<>> => todo = <<>>
      PROVE  MockInv'
  <2>1. state = LastSeen /\ LastSeen' = LastSeen
    BY <1>2 DEF MockInv, Known, LastSeen
  <2>2. Known' /\ Successive'
    BY <1>2, <2>1 DEF MockInv, Known, Successive
  <2>3. Announced'
    BY <1>2, <2>1 DEF MockInv, Announced
  <2> QED BY <2>2, <2>3 DEF MockInv
<1>3. Mock!Idle => todo = <<>> /\ ~sending /\ state \in {"Disconnected", "Connected"}
  BY DEF Mock!Idle, MockInv, Known, Announced
<1>4. CASE Mock!Start
  BY <1>2, <1>3, <1>4 DEF Mock!Start, Mock!StartWith, Mock!Run, Mock!CanCall, Mock!IsActive
<1>5. CASE Mock!Stop
  BY <1>2, <1>3, <1>5 DEF Mock!Stop, Mock!StopBody, Mock!Run, Mock!CanCall, Mock!IsActive
<1>6. CASE Mock!Kill
  BY <1>2, <1>3, <1>6 DEF Mock!Kill, Mock!Run, Mock!CanCall, Mock!IsActive
<1>7. CASE Mock!Restart
  BY <1>2, <1>3, <1>7 DEF Mock!Restart, Mock!StopBody, Mock!Run, Mock!CanCall, Mock!IsActive
<1>8. CASE Mock!Subscribe
  BY <1>2, <1>3, <1>8 DEF Mock!Subscribe, Mock!CanCall
<1>9. CASE Mock!RestartStart
  <2>1. todo = <<>> /\ ~sending /\ state \in {"Disconnected", "Connected"}
    BY <1>9 DEF Mock!RestartStart, MockInv, Known, Announced
  <2> QED BY <1>2, <1>9, <2>1 DEF Mock!RestartStart, Mock!StartWith, Mock!Run, Mock!IsActive
<1>10. CASE Mock!EmitStore
  <2>1. UNCHANGED <<events, todo>> /\ sending' = TRUE /\ state' = Head(todo) /\ todo # <<>>
    BY <1>10 DEF Mock!EmitStore
  <2> QED BY <2>1 DEF MockInv, Announced, Known, Successive, LastSeen
<1>11. CASE Mock!EmitSend
  <2> DEFINE n == Len(events)
  <2>1. /\ sending /\ events' = Append(events, Head(todo)) /\ sending' = FALSE
        /\ todo' = Tail(todo) /\ state' = state /\ todo # <<>> /\ state = Head(todo)
    BY <1>11 DEF Mock!EmitSend, MockInv, Known
  <2>2. todo \in { <<"Connecting", "Connected">>, <<"Connected">>,
                   <<"Disconnecting", "Disconnected">>, <<"Disconnected">> }
    BY <2>1 DEF MockInv, Announced
  <2>3. Head(todo) \in Mock!States /\ events \in Seq(Mock!States)
    BY <2>2 DEF Mock!States, MockInv, Successive
  <2>4. /\ n \in Nat /\ events' \in Seq(Mock!States) /\ Len(events') = n + 1
        /\ DOMAIN events = 1..n /\ DOMAIN events' = 1..n + 1
        /\ \A i \in 1..n : events'[i] = events[i]
        /\ events'[n + 1] = Head(todo)
    BY <2>1, <2>3
  <2>5. LastSeen' = Head(todo)
    <3>1. events' # <<>>
      BY <2>4
    <3> QED BY <2>4, <3>1 DEF LastSeen
  <2>6. LastSeen = IF n = 0 THEN "Disconnected" ELSE events[n]
    <3>1. events = <<>> <=> n = 0
      BY <2>3
    <3> QED BY <3>1 DEF LastSeen
  <2> HIDE DEF n
  <2>7. <<LastSeen, Head(todo)>> \in Lifecycle
    BY <2>2 DEF MockInv, Announced, Lifecycle
  <2>8. \A i \in 1..n + 1 :
          <<IF i = 1 THEN "Disconnected" ELSE events'[i - 1], events'[i]>> \in Lifecycle
    <3> TAKE i \in 1..n + 1
    <3>1. CASE i = n + 1
      <4>1. (IF i = 1 THEN "Disconnected" ELSE events'[i - 1]) = LastSeen
        BY <2>4, <2>6, <3>1
      <4> QED BY <2>4, <2>7, <3>1, <4>1
    <3>2. CASE i \in 1..n
      <4>1. <<IF i = 1 THEN "Disconnected" ELSE events[i - 1], events[i]>> \in Lifecycle
        BY <2>4, <3>2 DEF MockInv, Successive
      <4>2. i # 1 => i - 1 \in 1..n
        BY <2>4, <3>2
      <4> QED BY <2>4, <3>2, <4>1, <4>2
    <3> QED BY <2>4, <3>1, <3>2
  <2>9. Successive'
    BY <2>4, <2>8 DEF Successive
  <2>10. Known'
    BY <2>1, <2>5 DEF Known
  <2>11. Announced'
    <3>1. CASE todo = <<"Connecting", "Connected">>
      <4>1. todo' = <<"Connected">> /\ LastSeen' = "Connecting"
        BY <2>1, <2>5, <3>1
      <4> QED BY <4>1 DEF Announced
    <3>2. CASE todo = <<"Connected">>
      <4>1. todo' = <<>> /\ LastSeen' = "Connected"
        BY <2>1, <2>5, <3>2
      <4> QED BY <4>1 DEF Announced
    <3>3. CASE todo = <<"Disconnecting", "Disconnected">>
      <4>1. todo' = <<"Disconnected">> /\ LastSeen' = "Disconnecting"
        BY <2>1, <2>5, <3>3
      <4> QED BY <4>1 DEF Announced
    <3>4. CASE todo = <<"Disconnected">>
      <4>1. todo' = <<>> /\ LastSeen' = "Disconnected"
        BY <2>1, <2>5, <3>4
      <4> QED BY <4>1 DEF Announced
    <3> QED BY <2>2, <3>1, <3>2, <3>3, <3>4
  <2> QED BY <2>9, <2>10, <2>11 DEF MockInv
<1> QED
  BY <1>1, <1>4, <1>5, <1>6, <1>7, <1>8, <1>9, <1>10, <1>11 DEF Mock!Next, Mock!Working, mockVars

\* What the mock core has told, it has told in order, and it has told all.
THEOREM MockInvariance == HostSpec => []MockInv
<1>1. HostInit => MockInv
  BY DEF HostInit, Mock!Init, MockInv, Announced, Known, Successive, LastSeen
<1>2. MockInv /\ [HostNext]_hostVars => MockInv'
  BY StepsAre, MockSteps
<1> QED BY <1>1, <1>2, PTL DEF HostSpec

\* core-mock/src/lib.rs: a host that follows the mock core's events knows its state,
\* and sees no jump in them, whatever is done with the registry in between.
THEOREM MockTells == HostSpec => []MockTellsItsState
<1>1. MockInv => MockTellsItsState
  <2> SUFFICES ASSUME MockInv PROVE MockTellsItsState
    OBVIOUS
  <2> DEFINE n == Len(events)
             seen == <<"Disconnected">> \o events
  <2>1. /\ events \in Seq(Mock!States) /\ n \in Nat /\ DOMAIN events = 1..n
        /\ "Disconnected" \in Mock!States
    BY DEF MockInv, Successive, Mock!States
  <2>2. /\ Len(seen) = n + 1 /\ seen[1] = "Disconnected"
        /\ \A i \in 1..n : seen[i + 1] = events[i]
    BY <2>1
  <2>3. LastSeen = IF n = 0 THEN "Disconnected" ELSE events[n]
    <3>1. events = <<>> <=> n = 0
      BY <2>1
    <3> QED BY <3>1 DEF LastSeen
  <2> HIDE DEF n, seen
  <2>4. seen[Len(seen)] = LastSeen
    BY <2>1, <2>2, <2>3
  <2>5. ~sending => seen[Len(seen)] = state
    BY <2>4 DEF MockInv, Known
  <2>6. \A i \in 1..n : <<seen[i], seen[i + 1]>> \in Lifecycle
    <3> TAKE i \in 1..n
    <3>1. <<IF i = 1 THEN "Disconnected" ELSE events[i - 1], events[i]>> \in Lifecycle
      BY <2>1 DEF MockInv, Successive
    <3>2. i # 1 => i - 1 \in 1..n /\ seen[(i - 1) + 1] = events[i - 1]
      BY <2>1, <2>2
    <3>3. seen[i] = IF i = 1 THEN "Disconnected" ELSE events[i - 1]
      BY <2>1, <2>2, <3>2
    <3> QED BY <2>2, <3>1, <3>3
  <2> QED BY <2>1, <2>5, <2>6 DEF MockTellsItsState, Mock!EventsFollowTheCore, Lifecycle, seen
<1> QED BY <1>1, MockInvariance, PTL

\* A step of the mock core is one of the contract of the VpnCore trait, or none
\* that its embedder sees.
LEMMA MockStepsKeepContract ==
  MockInv /\ [Mock!Next]_mockVars => [Mock!Contract!Next]_(Mock!Contract!vars)
<1> SUFFICES ASSUME MockInv, [Mock!Next]_mockVars, state' # state
             PROVE  Mock!Contract!Next
  BY DEF Mock!Contract!vars
<1>1. Mock!EmitStore
  BY DEF Mock!Next, Mock!Start, Mock!StartWith, Mock!Stop, Mock!Kill, Mock!Restart,
         Mock!Subscribe, Mock!Working, Mock!RestartStart, Mock!EmitSend, mockVars
<1>2. state = LastSeen /\ state' = Head(todo) /\ todo # <<>>
  BY <1>1 DEF Mock!EmitStore, MockInv, Known
<1>3. <<state, state'>> \in Lifecycle
  BY <1>2 DEF MockInv, Announced, Lifecycle
<1>4. \/ state = "Disconnected" /\ state' = "Connecting"
      \/ state = "Connecting" /\ state' = "Connected"
      \/ state = "Connected" /\ state' = "Disconnecting"
      \/ state \in {"Connected", "Disconnecting"} /\ state' = "Disconnected"
  BY <1>3 DEF Lifecycle
<1> QED
  BY <1>4 DEF Mock!Contract!Next, Mock!Contract!BeginStart, Mock!Contract!FinishStart,
              Mock!Contract!BeginStop, Mock!Contract!End

\* The safety part of MockKeepsTheContract: whatever the host does, the mock core
\* implements the lifecycle that domain/src/types.rs documents, its engine being
\* the state itself.
THEOREM MockImplements == HostSpec => Mock!Contract!SafetySpec
<1>1. HostInit => Mock!Contract!Init
  BY DEF HostInit, Mock!Init, Mock!Contract!Init
<1>2. MockInv /\ [HostNext]_hostVars => [Mock!Contract!Next]_(Mock!Contract!vars)
  BY StepsAre, MockStepsKeepContract
<1> QED BY <1>1, <1>2, MockInvariance, PTL DEF HostSpec, Mock!Contract!SafetySpec
=============================================================================
