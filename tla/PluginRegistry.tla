--------------------------- MODULE PluginRegistry ---------------------------
(***************************************************************************)
(* The plugin registry (plugin_runtime/host-contract/src/lib.rs), the map  *)
(* of loaded plugins beside it (host-runtime/src/lib.rs) and the contract  *)
(* that is merged from the packages of its plugins (contract.rs).          *)
(*                                                                         *)
(* register decides by comparing a manifest with those accepted before;    *)
(* merged_contract goes through the accepted packages again, later, with   *)
(* checks of its own.  The properties relate the two.                      *)
(*                                                                         *)
(* Ids stand for plugin ids in their string order; a method name is the    *)
(* sequence of its dot-separated parts.  All of them are valid tokens: the *)
(* names that the validators tell apart are those of capabilities.         *)
(***************************************************************************)
EXTENDS Naturals, Sequences, FiniteSets, SequencesExt

CONSTANTS
  Ids,            \* plugin ids
  Methods,        \* method names
  Events,         \* event names
  Tokens,         \* names that validate_token accepts
  HostPatterns,   \* names that validate_host_pattern accepts
  NoManifest,     \* an id that is not registered
  NoPackage,      \* None in a manifest's package
  Manifests       \* what callers try to register

ASSUME IdsAssumption == Ids \subseteq Nat /\ NoManifest \notin Ids /\ NoManifest \notin Manifests

Phases == {"Before", "Exec", "After"}
Policies == {"Pipeline", "FirstSuccess", "SingleOwner", "Broadcast", "BestEffort"}

VARIABLES
  plugins,      \* PluginRegistry.plugins
  loaded,       \* LoadedPluginRegistry.plugins: each plugin by its manifest
  ret,          \* what the last register or merged_contract returned
  todo,         \* the ids merged_contract has not come to
  packages,     \* MergedContractRegistry.packages, by id
  methodOwner,  \* its method_owners
  eventOwner    \* its event_owners

merging == <<todo, packages, methodOwner, eventOwner>>
vars == <<plugins, loaded, ret, merging>>

Registered == { i \in Ids : plugins[i] # NoManifest }

-----------------------------------------------------------------------------
(* Manifests and their packages *)

\* `labels': domain, version and the versions of the compatibility range;
\* `twice': a method or an event is listed more than once; `silent': one of a
\* method's errors has no message; `component': none, or whether its descriptor
\* is valid (WitContract).
ValidPackage(p) ==
  /\ p.labels \subseteq Tokens
  /\ ~p.twice /\ ~p.silent
  /\ p.caps \subseteq Tokens
  /\ p.component # "invalid"

\* IpcPackageDescriptor::new.
NewPackage(i) ==
  [id |-> i, methods |-> {}, events |-> {}, slots |-> {}, caps |-> {}, labels |-> {},
   twice |-> FALSE, silent |-> FALSE, component |-> "none"]

\* A slip: not looking into the package.
ValidWithoutPackage(m) ==
  /\ m.needs \subseteq Tokens
  /\ m.hosts \subseteq HostPatterns
  /\ \A k \in DOMAIN m.slots : m.slots[k].phases # {}
  /\ m.package # NoPackage => m.package.id = m.id

Valid(m) ==
  /\ m.needs \subseteq Tokens
  /\ m.hosts \subseteq HostPatterns
  /\ \A k \in DOMAIN m.slots : m.slots[k].phases # {}
  /\ m.package # NoPackage => ValidPackage(m.package) /\ m.package.id = m.id

\* The methods of a manifest with a package of its own are not added to it.
Normalized(m) ==
  LET own == IF m.package # NoPackage
               THEN m.package
               ELSE [NewPackage(m.id) EXCEPT
                       !.methods = { p.path : p \in { q \in m.methods : ~q.wild } }]
  IN  [own EXCEPT !.slots = @ \cup Range(m.slots), !.caps = @ \cup m.needs \cup m.hosts]

\* The types of PluginManifest and IpcPackageDescriptor, as far as it matters here;
\* Methods and Events have every name that a plugin lists.
ASSUME ManifestsAssumption ==
  \A m \in Manifests :
    /\ m.id \in Ids
    /\ m.package # NoPackage => DOMAIN m.package = DOMAIN NewPackage(m.id)
    /\ Normalized(m).methods \subseteq Methods /\ Normalized(m).events \subseteq Events

\* A slip: dispatching what the manifest lists, not what its package does.
DispatchListed(m) == m.methods

DispatchMethods(m) ==
  m.methods \cup { [path |-> n, wild |-> FALSE] : n \in Normalized(m).methods }

-----------------------------------------------------------------------------
(* Lookups *)

Claim(s, slot, phase) == s.name = slot /\ phase \in s.phases

BindingsOf(i, slot, phase) ==
  { [plugin |-> i, index |-> k, priority |-> plugins[i].priority,
     policy |-> plugins[i].slots[k].policy] :
    k \in { k \in DOMAIN plugins[i].slots : Claim(plugins[i].slots[k], slot, phase) } }

Bindings(slot, phase) == UNION { BindingsOf(i, slot, phase) : i \in Registered }

\* Lower priority first, then the plugin id.
Sooner(a, b) == a.priority < b.priority \/ (a.priority = b.priority /\ a.plugin < b.plugin)

\* A stable sort: a plugin's own bindings stay in their order.
BindingsFor(slot, phase) ==
  LET Before(a, b) == Sooner(a, b) \/ (a.priority = b.priority /\ a.plugin = b.plugin /\ a.index < b.index)
  IN  SetToSortSeq(Bindings(slot, phase), Before)

Matches(pattern, method) ==
  IF pattern.wild THEN IsPrefix(pattern.path, method) ELSE pattern.path = method

\* Each plugin is asked once, for its most specific pattern; no two bindings tie.
MethodBindings(method) ==
  LET matching(i) == { p \in DispatchMethods(plugins[i]) : Matches(p, method) }
      best(i) == CHOOSE p \in matching(i) :
                   \A q \in matching(i) :
                     ~p.wild \/ (q.wild /\ Len(q.path) <= Len(p.path))
  IN  { [plugin |-> i, priority |-> plugins[i].priority, pattern |-> best(i)] :
        i \in { j \in Registered : matching(j) # {} } }

Owns(i, method) == i \in Registered /\ method \in Normalized(plugins[i]).methods
Announces(i, event) == i \in Registered /\ event \in Normalized(plugins[i]).events

\* dispatch_method: the first binding whose plugin answers settles it, and so
\* does one whose plugin is not loaded.
Dispatch(method, willing) ==
  LET settling == { b \in MethodBindings(method) :
                      loaded[b.plugin] = NoManifest \/ b.plugin \in willing }
      first == CHOOSE b \in settling : \A c \in settling \ {b} : Sooner(b, c)
  IN  IF settling = {} THEN [result |-> "None", plugin |-> NoManifest]
      ELSE [result |-> IF loaded[first.plugin] = NoManifest THEN "not loaded" ELSE "Some",
            plugin |-> first.plugin]

-----------------------------------------------------------------------------
(* register *)

\* A slip: minding the policy of the newcomer only.
NewcomerConflict(m) ==
  \E k \in DOMAIN m.slots : \E phase \in m.slots[k].phases :
    m.slots[k].policy = "SingleOwner" /\ Bindings(m.slots[k].name, phase) # {}

SlotConflict(m) ==
  \E k \in DOMAIN m.slots : \E phase \in m.slots[k].phases :
    \E existing \in Bindings(m.slots[k].name, phase) :
      "SingleOwner" \in {m.slots[k].policy, existing.policy}

PackageConflict(m) ==
  \E i \in Registered :
    \/ \E method \in Normalized(m).methods : Owns(i, method)
    \/ \E event \in Normalized(m).events : Announces(i, event)

Acceptable(m) ==
  /\ Valid(m) /\ plugins[m.id] = NoManifest
  /\ ~SlotConflict(m) /\ ~PackageConflict(m)

Merging == todo # {}

\* LoadedPluginRegistry::register, and PluginRegistry::register in it.
Register(m) ==
  /\ ~Merging
  /\ IF Acceptable(m)
       THEN /\ plugins' = [plugins EXCEPT ![m.id] = m]
            /\ loaded' = [loaded EXCEPT ![m.id] = m]
            /\ ret' = "Ok"
       ELSE ret' = "InvalidInput" /\ UNCHANGED <<plugins, loaded>>
  /\ UNCHANGED merging

-----------------------------------------------------------------------------
(* merged_contract *)

NoOwner == [n \in Methods |-> NoManifest]

MergeBegin ==
  /\ ~Merging
  /\ todo' = Registered
  /\ packages' = {} /\ ret' = IF Registered = {} THEN "Ok" ELSE "None"
  /\ methodOwner' = NoOwner
  /\ eventOwner' = [e \in Events |-> NoManifest]
  /\ UNCHANGED <<plugins, loaded>>

\* A slip: merging packages as they were written.
MergeNextWritten(i) ==
  LET p == plugins[i].package
  IN  /\ i \in todo /\ \A j \in todo : i <= j
      /\ todo' = todo \ {i} /\ packages' = packages \cup {i}
      /\ ret' = IF todo' = {} THEN "Ok" ELSE ret
      /\ methodOwner' = [n \in Methods |-> IF p # NoPackage /\ n \in p.methods
                                             THEN i ELSE methodOwner[n]]
      /\ eventOwner' = [e \in Events |-> IF p # NoPackage /\ e \in p.events
                                            THEN i ELSE eventOwner[e]]
      /\ UNCHANGED <<plugins, loaded>>

\* register_package for the next manifest in the order of the ids.
MergeNext(i) ==
  LET p == Normalized(plugins[i])
      taken == \/ \E n \in p.methods : methodOwner[n] # NoManifest
               \/ \E e \in p.events : eventOwner[e] # NoManifest
  IN  /\ i \in todo /\ \A j \in todo : i <= j
      /\ IF ValidPackage(p) /\ i \notin packages /\ ~taken
           THEN /\ packages' = packages \cup {i}
                /\ methodOwner' = [n \in Methods |-> IF n \in p.methods THEN i ELSE methodOwner[n]]
                /\ eventOwner' = [e \in Events |-> IF e \in p.events THEN i ELSE eventOwner[e]]
                /\ todo' = todo \ {i}
                /\ ret' = IF todo' = {} THEN "Ok" ELSE ret
           ELSE /\ todo' = {} /\ ret' = "NotMerged"
                /\ UNCHANGED <<packages, methodOwner, eventOwner>>
      /\ UNCHANGED <<plugins, loaded>>

\* methods() and events(): what the packages declare, each with its package.
MethodList ==
  UNION { { [package_id |-> i, name |-> n] : n \in Normalized(plugins[i]).methods } : i \in packages }
EventList ==
  UNION { { [package_id |-> i, name |-> e] : e \in Normalized(plugins[i]).events } : i \in packages }

\* inventory_summary: how often it lists each name.
ListedTimes(name, list) == Cardinality({ e \in list : e.name = name })

-----------------------------------------------------------------------------

Init ==
  /\ plugins = [i \in Ids |-> NoManifest]
  /\ loaded = [i \in Ids |-> NoManifest]
  /\ ret = "None" /\ todo = {} /\ packages = {}
  /\ methodOwner = NoOwner
  /\ eventOwner = [e \in Events |-> NoManifest]

Next ==
  \/ \E m \in Manifests : Register(m)
  \/ MergeBegin
  \/ \E i \in Ids : MergeNext(i)

Spec == Init /\ [][Next]_vars

-----------------------------------------------------------------------------
(* Properties *)

\* The types of the variables; both registries keep a manifest, and a manifest
\* its package, under its own id (register).
TypeOK ==
  /\ plugins \in [Ids -> Manifests \cup {NoManifest}]
  /\ loaded \in [Ids -> Manifests \cup {NoManifest}]
  /\ \A i \in Registered :
       /\ plugins[i].id = i
       /\ plugins[i].package # NoPackage => plugins[i].package.id = i
  /\ ret \in {"None", "Ok", "InvalidInput", "NotMerged"}
  /\ todo \subseteq Ids /\ packages \subseteq Ids
  /\ methodOwner \in [Methods -> Ids \cup {NoManifest}]
  /\ eventOwner \in [Events -> Ids \cup {NoManifest}]

\* Whatever was registered in whatever order, a slot phase that one plugin
\* binds as its single owner is bound by no other plugin.
SingleOwnerAlone ==
  \A i, j \in Registered : i # j =>
    \A k \in DOMAIN plugins[i].slots, l \in DOMAIN plugins[j].slots :
      LET a == plugins[i].slots[k]
          b == plugins[j].slots[l]
      IN  a.name = b.name /\ a.phases \cap b.phases # {} =>
            "SingleOwner" \notin {a.policy, b.policy}

\* The merged contract of plugins that were accepted one by one can be built,
\* whatever the checks of the one and of the other look at, but for the host
\* patterns that are capabilities nobody may have.
MergesUnlessHostIsNoToken ==
  ret = "NotMerged" => \E i \in Registered : ~(plugins[i].hosts \subseteq Tokens)

\* The merged contract and the registry name the same owners, also while it is
\* being built, and the inventory lists each name once, or not at all.
OwnersAgree ==
  /\ \A n \in Methods, i \in packages : methodOwner[n] = i <=> Owns(i, n)
  /\ \A e \in Events, i \in packages : eventOwner[e] = i <=> Announces(i, e)
  /\ \A n \in Methods :
       ListedTimes(n, MethodList) = (IF methodOwner[n] = NoManifest THEN 0 ELSE 1)
  /\ \A e \in Events :
       ListedTimes(e, EventList) = (IF eventOwner[e] = NoManifest THEN 0 ELSE 1)

\* A method of the contract reaches its owner, by its exact name, whenever no
\* other plugin wants it, wildcards of others notwithstanding.
OwnerIsReachable ==
  \A i \in Ids, n \in Methods : Owns(i, n) =>
    /\ Dispatch(n, {i}) = [result |-> "Some", plugin |-> i]
    /\ \E b \in MethodBindings(n) : b.plugin = i /\ ~b.pattern.wild

-----------------------------------------------------------------------------
(* What the documentation says and the code does not do *)

\* The tests validate a manifest with a wildcard host, and unwrap the merged
\* contract of validated manifests.
ContractMerges == ret # "NotMerged"

\* README.md: "single_owner: exactly one extension may own that slot phase".
\* The slots of the merged packages are the contract that a host publishes.
OwnedSlotIsOwnedOnce ==
  \A i, j \in packages : i # j =>
    \A a \in Normalized(plugins[i]).slots, b \in Normalized(plugins[j]).slots :
      a.name = b.name /\ a.phases \cap b.phases # {} =>
        "SingleOwner" \notin {a.policy, b.policy}

=============================================================================
