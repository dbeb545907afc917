------------------------ MODULE PluginRegistryProofs ------------------------
(***************************************************************************)
(* Proofs about PluginRegistry.                                            *)
(*                                                                         *)
(* What register rejects keeps the accepted packages apart, so the merge   *)
(* cannot find a name taken.  Inv says where that leaves a merge that is   *)
(* under way: the ids it has come to and those it has not are disjoint,    *)
(* and the owners recorded are the owners among those it has come to.      *)
(***************************************************************************)
EXTENDS PluginRegistry, FiniteSetTheorems, TLAPS

\* Both registries hold the same manifests, all of them validated.
Accepted ==
  /\ loaded = plugins
  /\ \A i \in Registered : Valid(plugins[i])

\* No name is in the packages of two plugins.
Apart ==
  \A i, j \in Registered : i # j =>
    /\ Normalized(plugins[i]).methods \cap Normalized(plugins[j]).methods = {}
    /\ Normalized(plugins[i]).events \cap Normalized(plugins[j]).events = {}

\* The packages merged and those to come are of different plugins.
Halfway ==
  /\ todo \cap packages = {}
  /\ todo \cup packages \subseteq Registered

\* The owner of a name is a merged package that has it, and every merged package
\* owns its names.
MethodsOwned ==
  \A n \in Methods :
    /\ methodOwner[n] # NoManifest => methodOwner[n] \in packages /\ Owns(methodOwner[n], n)
    /\ \A i \in packages : Owns(i, n) => methodOwner[n] = i
EventsOwned ==
  \A e \in Events :
    /\ eventOwner[e] # NoManifest => eventOwner[e] \in packages /\ Announces(eventOwner[e], e)
    /\ \A i \in packages : Announces(i, e) => eventOwner[e] = i

Inv ==
  /\ TypeOK /\ Accepted /\ SingleOwnerAlone /\ Apart
  /\ Halfway /\ MethodsOwned /\ EventsOwned
  /\ MergesUnlessHostIsNoToken

-----------------------------------------------------------------------------
(* Manifests and what register asks of them *)

\* The capabilities of a normalized package are the package's and the manifest's;
\* unless a host pattern is no token, a valid manifest has a valid package.
LEMMA ValidNormalized ==
  ASSUME NEW m \in Manifests, Valid(m), m.hosts \subseteq Tokens
  PROVE  ValidPackage(Normalized(m))
<1>1. CASE m.package = NoPackage
  BY <1>1 DEF Valid, ValidPackage, Normalized, NewPackage
<1>2. CASE m.package # NoPackage
  BY <1>2, ManifestsAssumption DEF Valid, ValidPackage, Normalized, NewPackage
<1> QED  BY <1>1, <1>2

\* Every slot phase that a registered plugin binds is among the bindings.
LEMMA Bound ==
  ASSUME NEW i \in Registered, NEW k \in DOMAIN plugins[i].slots,
         NEW phase \in plugins[i].slots[k].phases
  PROVE  \E b \in Bindings(plugins[i].slots[k].name, phase) :
            b.policy = plugins[i].slots[k].policy
<1> DEFINE name == plugins[i].slots[k].name
           b == [plugin |-> i, index |-> k, priority |-> plugins[i].priority,
                 policy |-> plugins[i].slots[k].policy]
<1>1. b \in BindingsOf(i, name, phase)
  BY DEF BindingsOf, Claim
<1>2. b \in Bindings(name, phase)
  BY <1>1 DEF Bindings
<1> QED  BY <1>2

-----------------------------------------------------------------------------
(* The steps *)

\* Init establishes the invariant.
LEMMA InitEstablishes == Init => Inv
<1> SUFFICES ASSUME Init  PROVE Inv
  OBVIOUS
<1>1. Registered = {}
  BY DEF Init, Registered
<1>2. TypeOK
  BY <1>1 DEF Init, TypeOK, NoOwner
<1>3. Accepted /\ SingleOwnerAlone /\ Apart /\ Halfway /\ MergesUnlessHostIsNoToken
  BY <1>1 DEF Init, Accepted, SingleOwnerAlone, Apart, Halfway, MergesUnlessHostIsNoToken
<1>4. MethodsOwned /\ EventsOwned
  BY DEF Init, MethodsOwned, EventsOwned, NoOwner
<1> QED  BY <1>2, <1>3, <1>4 DEF Inv

\* register: what it accepts is valid and collides with nothing.
LEMMA RegisterKeeps ==
  ASSUME Inv, NEW m \in Manifests, Register(m)
  PROVE  Inv'
<1> USE DEF Inv
<1>1. CASE ~Acceptable(m)
  <2>1. UNCHANGED <<plugins, loaded, todo, packages, methodOwner, eventOwner>> /\ ret' = "InvalidInput"
    BY <1>1 DEF Register, merging
  <2>2. Registered' = Registered
    BY <2>1 DEF Registered
  <2>3. TypeOK'
    BY <2>1, <2>2 DEF TypeOK
  <2>4. Accepted' /\ SingleOwnerAlone' /\ Apart' /\ Halfway'
    BY <2>1, <2>2 DEF Accepted, SingleOwnerAlone, Apart, Halfway
  <2>5. MethodsOwned' /\ EventsOwned'
    BY <2>1, <2>2 DEF MethodsOwned, EventsOwned, Owns, Announces
  <2>6. MergesUnlessHostIsNoToken'
    BY <2>1 DEF MergesUnlessHostIsNoToken
  <2> QED  BY <2>3, <2>4, <2>5, <2>6
<1>2. CASE Acceptable(m)
  <2> DEFINE i == m.id
  <2>1. /\ plugins' = [plugins EXCEPT ![i] = m] /\ loaded' = [loaded EXCEPT ![i] = m]
        /\ ret' = "Ok" /\ UNCHANGED <<todo, packages, methodOwner, eventOwner>>
    BY <1>2 DEF Register, merging
  <2>2. i \in Ids /\ m # NoManifest /\ i \notin Registered
    BY <1>2, ManifestsAssumption, IdsAssumption DEF Acceptable, Registered
  <2>3. Registered' = Registered \cup {i}
    BY <2>1, <2>2 DEF Registered, TypeOK
  <2>4. plugins'[i] = m /\ \A j \in Registered : plugins'[j] = plugins[j]
    BY <2>1, <2>2 DEF TypeOK, Registered
  <2>5. Valid(m) /\ ~SlotConflict(m) /\ ~PackageConflict(m)
    BY <1>2 DEF Acceptable
  <2>6. TypeOK'
    <3>1. plugins' \in [Ids -> Manifests \cup {NoManifest}] /\ loaded' \in [Ids -> Manifests \cup {NoManifest}]
      BY <2>1, <2>2 DEF TypeOK
    <3>2. m.package # NoPackage => m.package.id = i
      BY <2>5 DEF Valid
    <3>3. (\A j \in Registered : plugins[j].id = j /\ (plugins[j].package # NoPackage => plugins[j].package.id = j))'
      BY <2>3, <2>4, <3>2 DEF TypeOK
    <3> QED  BY <2>1, <3>1, <3>3 DEF TypeOK
  <2>7. Accepted'
    BY <2>1, <2>3, <2>4, <2>5 DEF Accepted
  <2>8. ASSUME NEW j \in Registered, NEW k \in DOMAIN m.slots, NEW l \in DOMAIN plugins[j].slots,
               m.slots[k].name = plugins[j].slots[l].name,
               m.slots[k].phases \cap plugins[j].slots[l].phases # {}
        PROVE  "SingleOwner" \notin {m.slots[k].policy, plugins[j].slots[l].policy}
    <3>1. PICK phase \in m.slots[k].phases : phase \in plugins[j].slots[l].phases
      BY <2>8
    <3>2. PICK b \in Bindings(m.slots[k].name, phase) : b.policy = plugins[j].slots[l].policy
      BY <2>8, <3>1, Bound
    <3> QED  BY <2>5, <3>1, <3>2 DEF SlotConflict
  <2>9. SingleOwnerAlone'
    <3> SUFFICES ASSUME NEW j1 \in Registered', NEW j2 \in Registered', j1 # j2,
                        NEW k \in DOMAIN plugins'[j1].slots, NEW l \in DOMAIN plugins'[j2].slots,
                        plugins'[j1].slots[k].name = plugins'[j2].slots[l].name,
                        plugins'[j1].slots[k].phases \cap plugins'[j2].slots[l].phases # {}
                 PROVE  "SingleOwner" \notin {plugins'[j1].slots[k].policy, plugins'[j2].slots[l].policy}
      BY DEF SingleOwnerAlone
    <3>1. CASE j1 = i
      BY <2>3, <2>4, <2>8, <3>1
    <3>2. CASE j2 = i
      BY <2>3, <2>4, <2>8, <3>2
    <3>3. CASE j1 # i /\ j2 # i
      BY <2>3, <2>4, <3>3 DEF SingleOwnerAlone
    <3> QED  BY <3>1, <3>2, <3>3
  <2>10. Apart'
    <3>1. \A j \in Registered : /\ Normalized(m).methods \cap Normalized(plugins[j]).methods = {}
                                /\ Normalized(m).events \cap Normalized(plugins[j]).events = {}
      BY <2>5 DEF PackageConflict, Owns, Announces
    <3> QED  BY <2>3, <2>4, <3>1 DEF Apart
  <2>11. Halfway'
    BY <2>1, <2>3 DEF Halfway
  <2>12. \A j \in packages : /\ \A n : Owns(j, n)' <=> Owns(j, n)
                             /\ \A e : Announces(j, e)' <=> Announces(j, e)
    BY <2>3, <2>4 DEF Owns, Announces, Halfway
  <2>13. MethodsOwned' /\ EventsOwned'
    BY <2>1, <2>12 DEF MethodsOwned, EventsOwned
  <2>14. MergesUnlessHostIsNoToken'
    BY <2>1 DEF MergesUnlessHostIsNoToken
  <2> QED  BY <2>6, <2>7, <2>9, <2>10, <2>11, <2>13, <2>14
<1> QED  BY <1>1, <1>2

\* merged_contract begins with nothing merged.
LEMMA BeginKeeps ==
  ASSUME Inv, MergeBegin
  PROVE  Inv'
<1> USE DEF Inv
<1>1. /\ UNCHANGED <<plugins, loaded>> /\ todo' = Registered /\ packages' = {}
      /\ ret' \in {"Ok", "None"}
      /\ methodOwner' = [n \in Methods |-> NoManifest] /\ eventOwner' = [e \in Events |-> NoManifest]
  BY DEF MergeBegin, NoOwner
<1>2. Registered' = Registered /\ Registered \subseteq Ids
  BY <1>1 DEF Registered
<1>3. TypeOK'
  BY <1>1, <1>2 DEF TypeOK
<1>4. Accepted' /\ SingleOwnerAlone' /\ Apart' /\ Halfway'
  BY <1>1, <1>2 DEF Accepted, SingleOwnerAlone, Apart, Halfway
<1>5. MethodsOwned' /\ EventsOwned'
  BY <1>1 DEF MethodsOwned, EventsOwned
<1>6. MergesUnlessHostIsNoToken'
  BY <1>1 DEF MergesUnlessHostIsNoToken
<1> QED  BY <1>3, <1>4, <1>5, <1>6

\* A name in the package of a plugin that merged_contract has not come to has no
\* owner yet: packages are apart.
LEMMA NotTaken ==
  ASSUME Inv, NEW i \in todo
  PROVE  /\ \A n \in Normalized(plugins[i]).methods : methodOwner[n] = NoManifest
         /\ \A e \in Normalized(plugins[i]).events : eventOwner[e] = NoManifest
<1>1. i \in Registered /\ i \notin packages /\ plugins[i] \in Manifests /\ packages \subseteq Registered
  BY DEF Inv, Halfway, Registered, TypeOK
<1>2. /\ Normalized(plugins[i]).methods \subseteq Methods
      /\ Normalized(plugins[i]).events \subseteq Events
  BY <1>1, ManifestsAssumption
<1>3. ASSUME NEW n \in Normalized(plugins[i]).methods  PROVE methodOwner[n] = NoManifest
  <2>1. SUFFICES ASSUME methodOwner[n] # NoManifest  PROVE FALSE
    OBVIOUS
  <2>2. methodOwner[n] \in packages /\ Owns(methodOwner[n], n)
    BY <1>2, <1>3, <2>1 DEF Inv, MethodsOwned
  <2> QED  BY <1>1, <1>3, <2>2 DEF Inv, Apart, Owns
<1>4. ASSUME NEW e \in Normalized(plugins[i]).events  PROVE eventOwner[e] = NoManifest
  <2>1. SUFFICES ASSUME eventOwner[e] # NoManifest  PROVE FALSE
    OBVIOUS
  <2>2. eventOwner[e] \in packages /\ Announces(eventOwner[e], e)
    BY <1>2, <1>4, <2>1 DEF Inv, EventsOwned
  <2> QED  BY <1>1, <1>4, <2>2 DEF Inv, Apart, Announces
<1> QED  BY <1>3, <1>4

\* register_package in the middle of merged_contract.
LEMMA MergeKeeps ==
  ASSUME Inv, NEW i \in Ids, MergeNext(i)
  PROVE  Inv'
<1> USE DEF Inv
<1> DEFINE p == Normalized(plugins[i])
           taken == (\E n \in p.methods : methodOwner[n] # NoManifest)
                      \/ (\E e \in p.events : eventOwner[e] # NoManifest)
<1>1. i \in todo /\ UNCHANGED <<plugins, loaded>>
  BY DEF MergeNext
<1>2. ~taken /\ i \notin packages /\ i \in Registered /\ plugins[i] \in Manifests
  BY <1>1, NotTaken DEF Halfway, Registered, TypeOK
<1>3. Registered' = Registered
  BY <1>1 DEF Registered
<1>4. Accepted' /\ SingleOwnerAlone' /\ Apart'
  BY <1>1, <1>3 DEF Accepted, SingleOwnerAlone, Apart
<1>5. /\ \A j, n : Owns(j, n)' <=> Owns(j, n)
      /\ \A j, e : Announces(j, e)' <=> Announces(j, e)
  BY <1>1, <1>3 DEF Owns, Announces
<1>6. CASE ValidPackage(p)
  <2>1. /\ packages' = packages \cup {i} /\ todo' = todo \ {i}
        /\ methodOwner' = [n \in Methods |-> IF n \in p.methods THEN i ELSE methodOwner[n]]
        /\ eventOwner' = [e \in Events |-> IF e \in p.events THEN i ELSE eventOwner[e]]
        /\ ret' = IF todo' = {} THEN "Ok" ELSE ret
    BY <1>2, <1>6 DEF MergeNext
  <2>2. TypeOK'
    <3>1. methodOwner' \in [Methods -> Ids \cup {NoManifest}] /\ eventOwner' \in [Events -> Ids \cup {NoManifest}]
      BY <2>1 DEF TypeOK
    <3>2. ret' \in {"None", "Ok", "InvalidInput", "NotMerged"}
      BY <2>1 DEF TypeOK
    <3> QED  BY <1>1, <1>3, <2>1, <3>1, <3>2 DEF TypeOK
  <2>3. Halfway'
    BY <1>1, <1>2, <1>3, <2>1 DEF Halfway
  <2>4. MethodsOwned'
    <3> SUFFICES ASSUME NEW n \in Methods
                 PROVE  /\ methodOwner'[n] # NoManifest =>
                             methodOwner'[n] \in packages' /\ Owns(methodOwner'[n], n)
                        /\ \A j \in packages' : Owns(j, n) => methodOwner'[n] = j
      BY <1>5 DEF MethodsOwned
    <3>1. CASE n \in p.methods
      <4>1. methodOwner'[n] = i /\ Owns(i, n)
        BY <1>2, <2>1, <3>1 DEF Owns
      <4> QED  BY <1>2, <2>1, <4>1 DEF Owns, Apart, Halfway
    <3>2. CASE n \notin p.methods
      <4>1. methodOwner'[n] = methodOwner[n] /\ ~Owns(i, n)
        BY <2>1, <3>2 DEF Owns
      <4> QED  BY <2>1, <4>1 DEF MethodsOwned
    <3> QED  BY <3>1, <3>2
  <2>5. EventsOwned'
    <3> SUFFICES ASSUME NEW e \in Events
                 PROVE  /\ eventOwner'[e] # NoManifest =>
                             eventOwner'[e] \in packages' /\ Announces(eventOwner'[e], e)
                        /\ \A j \in packages' : Announces(j, e) => eventOwner'[e] = j
      BY <1>5 DEF EventsOwned
    <3>1. CASE e \in p.events
      <4>1. eventOwner'[e] = i /\ Announces(i, e)
        BY <1>2, <2>1, <3>1 DEF Announces
      <4> QED  BY <1>2, <2>1, <4>1 DEF Announces, Apart, Halfway
    <3>2. CASE e \notin p.events
      <4>1. eventOwner'[e] = eventOwner[e] /\ ~Announces(i, e)
        BY <2>1, <3>2 DEF Announces
      <4> QED  BY <2>1, <4>1 DEF EventsOwned
    <3> QED  BY <3>1, <3>2
  <2>6. MergesUnlessHostIsNoToken'
    BY <1>1, <1>3, <2>1 DEF MergesUnlessHostIsNoToken
  <2> QED  BY <1>4, <2>2, <2>3, <2>4, <2>5, <2>6
<1>7. CASE ~ValidPackage(p)
  <2>1. todo' = {} /\ ret' = "NotMerged" /\ UNCHANGED <<packages, methodOwner, eventOwner>>
    BY <1>7 DEF MergeNext
  <2>2. ~(plugins[i].hosts \subseteq Tokens)
    BY <1>2, <1>7, ValidNormalized DEF Accepted
  <2>3. TypeOK'
    BY <1>1, <1>3, <2>1 DEF TypeOK
  <2>4. Halfway' /\ MethodsOwned' /\ EventsOwned'
    BY <1>3, <1>5, <2>1 DEF Halfway, MethodsOwned, EventsOwned
  <2>5. MergesUnlessHostIsNoToken'
    BY <1>1, <1>2, <1>3, <2>2 DEF MergesUnlessHostIsNoToken
  <2> QED  BY <1>4, <2>3, <2>4, <2>5
<1> QED  BY <1>6, <1>7

\* Every step keeps the invariant.
LEMMA NextKeeps == Inv /\ [Next]_vars => Inv'
<1> SUFFICES ASSUME Inv, [Next]_vars  PROVE Inv'
  OBVIOUS
<1>1. ASSUME NEW m \in Manifests, Register(m)  PROVE Inv'
  BY <1>1, RegisterKeeps
<1>2. CASE MergeBegin
  BY <1>2, BeginKeeps
<1>3. ASSUME NEW i \in Ids, MergeNext(i)  PROVE Inv'
  BY <1>3, MergeKeeps
<1>4. CASE UNCHANGED vars
  <2>1. UNCHANGED <<plugins, loaded, ret, todo, packages, methodOwner, eventOwner>>
    BY <1>4 DEF vars, merging
  <2>2. Registered' = Registered
    BY <2>1 DEF Registered
  <2>3. TypeOK' /\ MergesUnlessHostIsNoToken'
    BY <2>1, <2>2 DEF Inv, TypeOK, MergesUnlessHostIsNoToken
  <2>4. Accepted' /\ SingleOwnerAlone' /\ Apart' /\ Halfway'
    BY <2>1, <2>2 DEF Inv, Accepted, SingleOwnerAlone, Apart, Halfway
  <2>5. MethodsOwned' /\ EventsOwned'
    BY <2>1, <2>2 DEF Inv, MethodsOwned, EventsOwned, Owns, Announces
  <2> QED  BY <2>3, <2>4, <2>5 DEF Inv
<1> QED  BY <1>1, <1>2, <1>3, <1>4 DEF Next

\* The invariant holds in every state that the two registries can be in.
THEOREM Invariance == Spec => []Inv
  BY InitEstablishes, NextKeeps, PTL DEF Spec

-----------------------------------------------------------------------------
(* What follows *)

\* Both registries keep a manifest, and a manifest its package, under its own id.
THEOREM TypeCorrect == Spec => []TypeOK
<1>1. Inv => TypeOK
  BY DEF Inv
<1> QED  BY <1>1, Invariance, PTL

\* Whatever was registered in whatever order, a slot phase that one plugin binds
\* as its single owner is bound by no other plugin.
THEOREM SingleOwner == Spec => []SingleOwnerAlone
<1>1. Inv => SingleOwnerAlone
  BY DEF Inv
<1> QED  BY <1>1, Invariance, PTL

\* merged_contract rejects plugins that register accepted for one reason only: a
\* host pattern that is no token.
THEOREM MergeSucceeds == Spec => []MergesUnlessHostIsNoToken
<1>1. Inv => MergesUnlessHostIsNoToken
  BY DEF Inv
<1> QED  BY <1>1, Invariance, PTL

\* inventory_summary lists a method once when it has an owner, and not at all
\* when it has none.
LEMMA MethodsListed ==
  ASSUME Inv, NEW n \in Methods
  PROVE  ListedTimes(n, MethodList) = (IF methodOwner[n] = NoManifest THEN 0 ELSE 1)
<1> DEFINE listed == { e \in MethodList : e.name = n }
<1>1. \A e : e \in listed <=> \E i \in packages : Owns(i, n) /\ e = [package_id |-> i, name |-> n]
  BY DEF Inv, Halfway, MethodList, Owns
<1>2. CASE methodOwner[n] = NoManifest
  <2>1. \A i \in packages : ~Owns(i, n)
    BY <1>2, IdsAssumption DEF Inv, MethodsOwned, TypeOK
  <2>2. listed = {}
    BY <1>1, <2>1
  <2> QED  BY <1>2, <2>2, FS_EmptySet DEF ListedTimes
<1>3. CASE methodOwner[n] # NoManifest
  <2>1. methodOwner[n] \in packages /\ \A i \in packages : Owns(i, n) <=> i = methodOwner[n]
    BY <1>3 DEF Inv, MethodsOwned
  <2>2. listed = {[package_id |-> methodOwner[n], name |-> n]}
    BY <1>1, <2>1
  <2>3. Cardinality(listed) = 1
    BY <2>2, FS_Singleton
  <2> QED  BY <1>3, <2>3 DEF ListedTimes
<1> QED  BY <1>2, <1>3

\* The same of an event.
LEMMA EventsListed ==
  ASSUME Inv, NEW n \in Events
  PROVE  ListedTimes(n, EventList) = (IF eventOwner[n] = NoManifest THEN 0 ELSE 1)
<1> DEFINE listed == { e \in EventList : e.name = n }
<1>1. \A e : e \in listed <=> \E i \in packages : Announces(i, n) /\ e = [package_id |-> i, name |-> n]
  BY DEF Inv, Halfway, EventList, Announces
<1>2. CASE eventOwner[n] = NoManifest
  <2>1. \A i \in packages : ~Announces(i, n)
    BY <1>2, IdsAssumption DEF Inv, EventsOwned, TypeOK
  <2>2. listed = {}
    BY <1>1, <2>1
  <2> QED  BY <1>2, <2>2, FS_EmptySet DEF ListedTimes
<1>3. CASE eventOwner[n] # NoManifest
  <2>1. eventOwner[n] \in packages /\ \A i \in packages : Announces(i, n) <=> i = eventOwner[n]
    BY <1>3 DEF Inv, EventsOwned
  <2>2. listed = {[package_id |-> eventOwner[n], name |-> n]}
    BY <1>1, <2>1
  <2>3. Cardinality(listed) = 1
    BY <2>2, FS_Singleton
  <2> QED  BY <1>3, <2>3 DEF ListedTimes
<1> QED  BY <1>2, <1>3

\* The merged contract names the owners that the registry names, at every point of
\* the merge, and the inventory lists each name once or not at all.
THEOREM OwnersNamed == Spec => []OwnersAgree
<1>1. Inv => OwnersAgree
  <2> SUFFICES ASSUME Inv  PROVE OwnersAgree
    OBVIOUS
  <2>1. packages \subseteq Ids /\ NoManifest \notin Ids
    BY IdsAssumption DEF Inv, TypeOK
  <2>2. \A n \in Methods, i \in packages : methodOwner[n] = i <=> Owns(i, n)
    BY <2>1 DEF Inv, MethodsOwned
  <2>3. \A e \in Events, i \in packages : eventOwner[e] = i <=> Announces(i, e)
    BY <2>1 DEF Inv, EventsOwned
  <2> QED  BY <2>2, <2>3, MethodsListed, EventsListed DEF OwnersAgree
<1> QED  BY <1>1, Invariance, PTL

\* The binding of a method's owner is for its exact name: of the owner's patterns
\* that match, one has no wildcard, and method_bindings takes such a one.
LEMMA OwnerBinds ==
  ASSUME Inv, NEW i \in Ids, NEW n \in Methods, Owns(i, n)
  PROVE  /\ \E b \in MethodBindings(n) : b.plugin = i /\ ~b.pattern.wild
         /\ \A b, c \in MethodBindings(n) : b.plugin = c.plugin => b = c
         /\ \A b \in MethodBindings(n) : b.plugin \in Registered
<1> DEFINE matching(j) == { p \in DispatchMethods(plugins[j]) : Matches(p, n) }
           Best(p, j) == \A q \in matching(j) : ~p.wild \/ (q.wild /\ Len(q.path) <= Len(p.path))
           best(j) == CHOOSE p \in matching(j) : Best(p, j)
           binding(j) == [plugin |-> j, priority |-> plugins[j].priority, pattern |-> best(j)]
           exact == [path |-> n, wild |-> FALSE]
<1>1. MethodBindings(n) = { binding(j) : j \in { k \in Registered : matching(k) # {} } }
  BY DEF MethodBindings
<1>2. exact \in matching(i) /\ i \in Registered
  BY DEF Owns, DispatchMethods, Matches
<1>3. Best(exact, i)
  OBVIOUS
<1>4. best(i) \in matching(i) /\ Best(best(i), i)
  BY <1>2, <1>3
<1>5. ~best(i).wild
  BY <1>2, <1>4
<1>6. binding(i) \in MethodBindings(n)
  BY <1>1, <1>2
<1>7. binding(i).plugin = i /\ ~binding(i).pattern.wild
  BY <1>5
<1>8. \A j : binding(j).plugin = j
  OBVIOUS
<1> HIDE DEF binding, matching
<1> QED  BY <1>1, <1>6, <1>7, <1>8

\* A method of the merged contract reaches its owner whenever no other plugin wants
\* it: no lower priority and no wildcard of another plugin stands in its way.
THEOREM Reachable == Spec => []OwnerIsReachable
<1>1. ASSUME Inv, NEW i \in Ids, NEW n \in Methods, Owns(i, n)
      PROVE  Dispatch(n, {i}) = [result |-> "Some", plugin |-> i]
  <2> DEFINE settling == { b \in MethodBindings(n) : loaded[b.plugin] = NoManifest \/ b.plugin \in {i} }
             first == CHOOSE b \in settling : \A c \in settling \ {b} : Sooner(b, c)
  <2>1. PICK own \in MethodBindings(n) : own.plugin = i
    BY <1>1, OwnerBinds
  <2>2. \A b \in MethodBindings(n) : loaded[b.plugin] # NoManifest
    BY <1>1, OwnerBinds DEF Inv, Accepted, Registered
  <2>3. settling = {own}
    BY <1>1, <2>1, <2>2, OwnerBinds
  <2>4. first = own
    BY <2>3
  <2>5. Dispatch(n, {i}) = [result |-> IF loaded[first.plugin] = NoManifest THEN "not loaded" ELSE "Some",
                            plugin |-> first.plugin]
    BY <2>3 DEF Dispatch
  <2> QED  BY <2>1, <2>2, <2>4, <2>5
<1>2. Inv => OwnerIsReachable
  BY <1>1, OwnerBinds DEF OwnerIsReachable
<1> QED  BY <1>2, Invariance, PTL
=============================================================================
