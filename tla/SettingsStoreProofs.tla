------------------------- MODULE SettingsStoreProofs -------------------------
(***************************************************************************)
(* Proofs about SettingsStore, for any processes, keys, values and number  *)
(* of crashes, with every file operation failing or not.                   *)
(***************************************************************************)
EXTENDS SettingsStore, TLAPS

\* What the module's claim rests on: the store is never open in two processes
\* at once.  They may take turns, one opening it after another has ended.
Alone == \A p, q \in Procs : pc[p] # "down" /\ pc[q] # "down" => p = q

\* The case the run MCSettingsStore checks.
OneProcess == \A p, q \in Procs : p = q

-----------------------------------------------------------------------------
(* The inductive invariant *)

\* While p writes, the temporary file is its own and still empty; when p is about
\* to rename it, it holds p's whole map.
Written(p) ==
  /\ pc[p] = "write" => file[p] = tmp /\ content[tmp] = Truncated
  /\ pc[p] = "rename" => tmp \in Files /\ content[tmp] = data[p]
\* A map that is being persisted has been tried and not acknowledged.
Pending(p) == pc[p] \in {"create", "write", "rename"} => data[p] \in tried

Inv ==
  /\ \A p \in Procs : Written(p) /\ Pending(p)
  /\ RestartFindsAcknowledged

-----------------------------------------------------------------------------
(* Types *)

\* Changing one key of a map gives a map.
LEMMA MapsAre ==
  /\ Empty \in Maps
  /\ \A m \in Maps, k \in Keys : [m EXCEPT ![k] = Unset] \in Maps
  /\ \A m \in Maps, k \in Keys, v \in Values : [m EXCEPT ![k] = v] \in Maps
BY DEF Empty, Maps

\* A mutation puts another map in memory and touches no file.
LEMMA MutateKeepsTypes ==
  ASSUME TypeOK, NEW p \in Procs, NEW map \in Maps, Mutate(p, map)
  PROVE  TypeOK'
BY DEF TypeOK, Mutate, At, Reply, disk

\* The type invariant holds of any number of processes: the two names never name
\* one file, and a file is held open while it is written and at no other time.
THEOREM TypeCorrect == Spec => []TypeOK
<1>1. Init => TypeOK
  BY MapsAre, ConstantsAssumption DEF Init, TypeOK
<1>2. TypeOK /\ [Next]_vars => TypeOK'
  <2> SUFFICES ASSUME TypeOK, [Next]_vars PROVE TypeOK'
    OBVIOUS
  <2>1. CASE UNCHANGED vars
    BY <2>1 DEF TypeOK, vars, disk, ghosts
  <2>2. ASSUME NEW p \in Procs, Open(p) PROVE TypeOK'
    <3>1. PICK map \in Maps : data' = [data EXCEPT ![p] = map]
      BY <2>2 DEF Open
    <3> QED BY <2>2, <3>1 DEF TypeOK, Open, At, Reply, disk, ghosts
  <2>3. ASSUME NEW p \in Procs, OpenFails(p) PROVE TypeOK'
    BY <2>3 DEF TypeOK, OpenFails, Reply, disk, ghosts
  <2>4. ASSUME NEW p \in Procs, Clear(p) PROVE TypeOK'
    BY <2>4, MapsAre, MutateKeepsTypes DEF Clear
  <2>5. ASSUME NEW p \in Procs, NEW k \in Keys, Remove(p, k) PROVE TypeOK'
    <3>1. data[p] \in Maps
      BY DEF TypeOK
    <3> QED BY <2>5, <3>1, MapsAre, MutateKeepsTypes DEF Remove
  <2>6. ASSUME NEW p \in Procs, NEW k \in Keys, NEW v \in Values, SetString(p, k, v) PROVE TypeOK'
    <3>1. data[p] \in Maps
      BY DEF TypeOK
    <3> QED BY <2>6, <3>1, MapsAre, MutateKeepsTypes DEF SetString
  <2>7. ASSUME NEW p \in Procs, Create(p) PROVE TypeOK'
    <3>1. PICK f \in Files :
            /\ IF tmp # NoFile THEN f = tmp ELSE f # settings /\ \A q \in Procs : f # file[q]
            /\ tmp' = f /\ content' = [content EXCEPT ![f] = Truncated]
            /\ file' = [file EXCEPT ![p] = f]
      BY <2>7 DEF Create
    <3>2. f # settings /\ f # NoFile
      BY <3>1, ConstantsAssumption DEF TypeOK
    <3> QED BY <2>7, <3>1, <3>2 DEF TypeOK, Create, At, ghosts
  <2>8. ASSUME NEW p \in Procs, Write(p) PROVE TypeOK'
    <3>1. file[p] \in Files /\ data[p] \in Maps
      BY <2>8 DEF TypeOK, Write, At
    <3> QED BY <2>8, <3>1 DEF TypeOK, Write, At, ghosts
  <2>9. ASSUME NEW p \in Procs, Rename(p) PROVE TypeOK'
    BY <2>9 DEF TypeOK, Rename, At, Reply
  <2>10. ASSUME NEW p \in Procs, PersistFails(p) PROVE TypeOK'
    BY <2>10 DEF TypeOK, PersistFails, Reply, disk, ghosts
  <2>11. ASSUME NEW p \in Procs, Crash(p) PROVE TypeOK'
    BY <2>11, MapsAre, ConstantsAssumption DEF TypeOK, Crash, Reply, disk, ghosts
  <2> QED
    BY <2>1, <2>2, <2>3, <2>4, <2>5, <2>6, <2>7, <2>8, <2>9, <2>10, <2>11 DEF Next, Persist
<1> QED BY <1>1, <1>2, PTL DEF Spec

-----------------------------------------------------------------------------
(* The invariant under each step *)

\* A mutation leaves the files alone, and its map counts as tried from here on.
LEMMA MutateKeeps ==
  ASSUME TypeOK, Inv, NEW p \in Procs, NEW map \in Maps, Mutate(p, map)
  PROVE  Inv'
BY DEF TypeOK, Inv, Written, Pending, RestartFindsAcknowledged, Stored, Mutate, At, Reply, disk

\* A new temporary file, or the one an earlier attempt left, is never the settings
\* file, and nobody else is writing.
LEMMA CreateKeeps ==
  ASSUME TypeOK, Inv, Alone, NEW p \in Procs, Create(p)
  PROVE  Inv'
<1>1. PICK f \in Files :
        /\ IF tmp # NoFile THEN f = tmp ELSE f # settings /\ \A q \in Procs : f # file[q]
        /\ tmp' = f /\ content' = [content EXCEPT ![f] = Truncated]
        /\ file' = [file EXCEPT ![p] = f]
  BY DEF Create
<1>2. f # settings
  BY <1>1 DEF TypeOK
<1>3. Stored' = Stored
  BY <1>1, <1>2 DEF TypeOK, Stored, Create
<1>4. \A q \in Procs : q # p => pc[q] = "down" /\ pc'[q] = "down"
  BY DEF Alone, Create, At, TypeOK
<1>5. pc'[p] = "write" /\ file'[p] = f /\ content'[f] = Truncated
  BY <1>1 DEF Create, At, TypeOK
<1>6. Written(p)'
  BY <1>1, <1>5 DEF Written
<1>7. \A q \in Procs : Written(q)'
  BY <1>4, <1>6 DEF Written
<1>8. \A q \in Procs : Pending(q)'
  BY <1>4 DEF Inv, Pending, Create, At, ghosts, TypeOK
<1>9. RestartFindsAcknowledged'
  BY <1>3 DEF Inv, RestartFindsAcknowledged, Create, ghosts
<1> QED BY <1>7, <1>8, <1>9 DEF Inv

\* What is written into an empty file is the whole map.
LEMMA WriteKeeps ==
  ASSUME TypeOK, Inv, Alone, NEW p \in Procs, Write(p)
  PROVE  Inv'
<1>1. file[p] = tmp /\ content[tmp] = Truncated /\ tmp \in Files
  BY DEF Inv, Written, Write, At, TypeOK
<1>2. content' = [content EXCEPT ![tmp] = data[p]]
  BY <1>1 DEF Write
<1>3. tmp # settings
  BY <1>1, ConstantsAssumption DEF TypeOK
<1>4. Stored' = Stored
  BY <1>2, <1>3 DEF Stored, Write, TypeOK
<1>5. \A q \in Procs : q # p => pc[q] = "down" /\ pc'[q] = "down"
  BY DEF Alone, Write, At, TypeOK
<1>6. pc'[p] = "rename" /\ tmp' = tmp /\ content'[tmp] = data[p] /\ data' = data
  BY <1>1, <1>2 DEF Write, At, TypeOK
<1>7. \A q \in Procs : Written(q)'
  BY <1>1, <1>5, <1>6 DEF Written
<1>8. \A q \in Procs : Pending(q)'
  BY <1>5 DEF Inv, Pending, Write, At, ghosts, TypeOK
<1>9. RestartFindsAcknowledged'
  BY <1>4 DEF Inv, RestartFindsAcknowledged, Write, ghosts
<1> QED BY <1>7, <1>8, <1>9 DEF Inv

\* The settings file becomes the one that holds the map the caller is told is saved.
LEMMA RenameKeeps ==
  ASSUME TypeOK, Inv, Alone, NEW p \in Procs, Rename(p)
  PROVE  Inv'
<1>1. tmp \in Files /\ content[tmp] = data[p]
  BY DEF Inv, Written, Rename, At
<1>2. Stored' = data[p]
  BY <1>1, ConstantsAssumption DEF Stored, Rename
<1>3. RestartFindsAcknowledged'
  BY <1>2 DEF RestartFindsAcknowledged, Rename
<1>4. \A q \in Procs : pc'[q] \in {"down", "idle"}
  BY DEF Alone, Rename, At, TypeOK
<1> QED BY <1>3, <1>4 DEF Inv, Written, Pending

\* While the store is open in one process at a time, the invariant holds.
THEOREM Invariance == Spec /\ []Alone => []Inv
<1>1. Init => Inv
  BY DEF Init, Inv, Written, Pending, RestartFindsAcknowledged, Stored
<1>2. TypeOK /\ Alone /\ Inv /\ [Next]_vars => Inv'
  <2> SUFFICES ASSUME TypeOK, Alone, Inv, [Next]_vars PROVE Inv'
    OBVIOUS
  <2>1. CASE UNCHANGED vars
    BY <2>1 DEF Inv, Written, Pending, RestartFindsAcknowledged, Stored, vars, disk, ghosts
  <2>2. ASSUME NEW p \in Procs, Open(p) PROVE Inv'
    <3>1. PICK map \in Maps : data' = [data EXCEPT ![p] = map]
      BY <2>2 DEF Open
    <3>2. \A q \in Procs : (pc'[q] = pc[q] /\ data'[q] = data[q]) \/ pc'[q] = "idle"
      BY <2>2, <3>1 DEF TypeOK, Open, At
    <3> QED
      BY <2>2, <3>2 DEF Inv, Written, Pending, RestartFindsAcknowledged, Stored, Open, disk, ghosts
  <2>3. ASSUME NEW p \in Procs, OpenFails(p) PROVE Inv'
    BY <2>3 DEF Inv, Written, Pending, RestartFindsAcknowledged, Stored, OpenFails, disk, ghosts
  <2>4. ASSUME NEW p \in Procs, Clear(p) PROVE Inv'
    BY <2>4, MapsAre, MutateKeeps DEF Clear
  <2>5. ASSUME NEW p \in Procs, NEW k \in Keys, Remove(p, k) PROVE Inv'
    <3>1. data[p] \in Maps
      BY DEF TypeOK
    <3> QED BY <2>5, <3>1, MapsAre, MutateKeeps DEF Remove
  <2>6. ASSUME NEW p \in Procs, NEW k \in Keys, NEW v \in Values, SetString(p, k, v) PROVE Inv'
    <3>1. data[p] \in Maps
      BY DEF TypeOK
    <3> QED BY <2>6, <3>1, MapsAre, MutateKeeps DEF SetString
  <2>7. ASSUME NEW p \in Procs, PersistFails(p) PROVE Inv'
    BY <2>7 DEF TypeOK, Inv, Written, Pending, RestartFindsAcknowledged, Stored, PersistFails, disk, ghosts
  <2>8. ASSUME NEW p \in Procs, Crash(p) PROVE Inv'
    BY <2>8 DEF TypeOK, Inv, Written, Pending, RestartFindsAcknowledged, Stored, Crash, disk, ghosts
  <2> QED
    BY <2>1, <2>2, <2>3, <2>4, <2>5, <2>6, <2>7, <2>8, CreateKeeps, WriteKeeps, RenameKeeps
    DEF Next, Persist
<1> QED BY <1>1, <1>2, TypeCorrect, PTL DEF Spec

\* json_store.rs "writes it back atomically": while the store is open in one
\* process at a time, the settings file can be parsed, wherever a process is
\* killed and whatever fails.
THEOREM WholeFile == Spec /\ []Alone => []FileIsWhole
<1>1. TypeOK /\ Inv => FileIsWhole
  BY DEF TypeOK, Inv, RestartFindsAcknowledged, FileIsWhole
<1> QED BY <1>1, TypeCorrect, Invariance, PTL

\* And the file has, for the next process to open the store, the map last
\* acknowledged, or a later one whose operation was not acknowledged.
THEOREM NothingLost == Spec /\ []Alone => []RestartFindsAcknowledged
<1>1. Inv => RestartFindsAcknowledged
  BY DEF Inv
<1> QED BY <1>1, Invariance, PTL

\* Both, for the only process that ever opens the store.
THEOREM OneProcessIsSafe ==
  ASSUME OneProcess PROVE Spec => [](FileIsWhole /\ RestartFindsAcknowledged)
<1>1. Alone
  BY DEF OneProcess, Alone
<1>2. []Alone
  BY <1>1, PTL
<1> QED BY <1>2, WholeFile, NothingLost, PTL
=============================================================================
