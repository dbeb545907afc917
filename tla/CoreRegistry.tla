---------------------------- MODULE CoreRegistry ----------------------------
(***************************************************************************)
(* The registry of VPN cores (core/src/core_registry.rs): the descriptors  *)
(* of the cores that are known, the instances that were registered, and    *)
(* which of them is active.  The daemon registers cores, discovers those   *)
(* on the PATH, switches between them and links other binaries, in any     *)
(* order and again; binaries come and go on the file system meanwhile.     *)
(***************************************************************************)
EXTENDS Naturals, Functions

CONSTANTS
  CoreTypes,    \* core types, numbered in the order of the BTreeMap
  KnownCores,   \* those discover_system_cores looks for
  Paths,        \* paths a binary may be at, numbered: t is where `which` finds core t
  MaxCores      \* bound on the instances registered

None == 0
NoPath == 0

ASSUME ConstantsAssumption ==
  /\ CoreTypes \subseteq Nat \ {None} /\ Paths \subseteq Nat \ {NoPath}
  /\ KnownCores \subseteq CoreTypes \cap Paths
  /\ MaxCores \in Nat

VARIABLES
  exists,        \* file system: the paths at which there is a binary
  cores,         \* the instance registered for each type, numbered; a partial map
  descriptors,   \* [source, path, available] of each type; a partial map
  active,        \* the active type, or None
  made           \* instances registered so far

vars == <<exists, cores, descriptors, active, made>>

Descriptor == [source : {"registered", "system", "linked"},
               path : Paths \cup {NoPath}, available : BOOLEAN]

Init ==
  /\ exists \in SUBSET Paths
  /\ cores = <<>> /\ descriptors = <<>>
  /\ active = None /\ made = 0

With(f, key, value) == [k \in DOMAIN f \cup {key} |-> IF k = key THEN value ELSE f[k]]
First(S) == IF S = {} THEN None ELSE CHOOSE t \in S : \A u \in S : t <= u

\* A binary is installed or removed.
Install(p) ==
  /\ exists' = IF p \in exists THEN exists \ {p} ELSE exists \cup {p}
  /\ UNCHANGED <<cores, descriptors, active, made>>

\* A slip: the core registered last becomes the active one.
RegisterActivating(t, path, available) ==
  /\ made < MaxCores /\ made' = made + 1
  /\ active' = t
  /\ descriptors' = With(descriptors, t, [source |-> "registered", path |-> path, available |-> available])
  /\ cores' = With(cores, t, made')
  /\ UNCHANGED exists

\* The caller's descriptor and core; an earlier instance of the type is dropped.
Register(t, path, available) ==
  /\ made < MaxCores /\ made' = made + 1
  /\ active' = IF active = None THEN t ELSE active
  /\ descriptors' = With(descriptors, t, [source |-> "registered", path |-> path, available |-> available])
  /\ cores' = With(cores, t, made')
  /\ UNCHANGED exists

\* discover_system_cores: types that have a descriptor are passed over.
Found == (KnownCores \cap exists) \ DOMAIN descriptors

\* A binary that `which' found may be gone when its path is looked at.
Discover ==
  \E gone \in SUBSET Found :
    /\ exists' = exists \ gone
    /\ descriptors' =
         [t \in DOMAIN descriptors \cup Found |->
            IF t \in Found THEN [source |-> "system", path |-> t, available |-> t \notin gone]
                           ELSE descriptors[t]]
    /\ active' = IF active = None THEN First(DOMAIN cores) ELSE active
    /\ UNCHANGED <<cores, made>>

\* switch: the three refusals leave everything as it is.
Switchable(t) ==
  t \in DOMAIN descriptors /\ descriptors[t].available /\ t \in DOMAIN cores

Switch(t) ==
  /\ Switchable(t)
  /\ active' = t
  /\ UNCHANGED <<exists, cores, descriptors, made>>

SetBinaryPath(t, path) ==
  /\ t \in DOMAIN descriptors
  /\ descriptors' =
       With(descriptors, t, [source |-> "linked", path |-> path, available |-> path \in exists])
  /\ UNCHANGED <<exists, cores, active, made>>

Next ==
  \/ \E p \in Paths : Install(p)
  \/ \E t \in CoreTypes :
       \/ \E path \in Paths \cup {NoPath}, a \in BOOLEAN : Register(t, path, a)
       \/ Switch(t)
       \/ \E path \in Paths : SetBinaryPath(t, path)
  \/ Discover

Spec == Init /\ [][Next]_vars

-----------------------------------------------------------------------------
(* Properties *)

\* The types of the variables; an instance is described, and shared by no two
\* types.
TypeOK ==
  /\ exists \subseteq Paths
  /\ DOMAIN cores \subseteq DOMAIN descriptors /\ DOMAIN descriptors \subseteq CoreTypes
  /\ \A t \in DOMAIN cores : cores[t] \in 1..made
  /\ \A t \in DOMAIN descriptors : descriptors[t] \in Descriptor
  /\ active \in CoreTypes \cup {None} /\ made \in 0..MaxCores
  /\ IsInjective(cores)

\* core_registry.rs: once there is a core there is an active one, which
\* active_core() finds whatever was discovered, linked or registered again
\* since; and nobody is switched to another core without asking: once there is
\* an active core, only a switch to an available one with an instance changes it.
OnlySwitchSwitches ==
  [][/\ active' = None <=> DOMAIN cores' = {}
     /\ active' # None => active' \in DOMAIN cores' \cap DOMAIN descriptors'
     /\ active \notin {None, active'} =>
          UNCHANGED <<cores, descriptors>> /\ descriptors[active'].available]_vars

-----------------------------------------------------------------------------
(* What the documentation says and the code does not do *)

\* types.rs, CoreDescriptor::available: "Whether the core is ready to use
\* (binary exists, prereqs met)": one that list() shows as available can be
\* switched to.
AvailableIsReady ==
  \A t \in DOMAIN descriptors : descriptors[t].available => Switchable(t)
=============================================================================
