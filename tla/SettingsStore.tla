---------------------------- MODULE SettingsStore ----------------------------
(***************************************************************************)
(* JsonFileSettingsStorage (shared/storage/src/json_store.rs): a map in    *)
(* memory, written back after each mutation by filling a temporary file    *)
(* next to the settings file and renaming it over it.  The process may be  *)
(* killed between any two steps, each step may fail, and, since the module *)
(* says it serves "the tray app and the headless IPC server", several      *)
(* processes may have the same file open.  They share the name of the      *)
(* temporary file too.                                                     *)
(*                                                                         *)
(* The file system: a directory with two names, each naming a file or      *)
(* nothing; a file keeps its content, and stays writable through an open   *)
(* descriptor, when it is renamed.                                         *)
(***************************************************************************)
EXTENDS Naturals, FiniteSets

CONSTANTS
  Procs,       \* processes that may open the store
  Keys, Values,
  Unset,       \* a key that is not in the map
  Files,       \* enough files for the two names and one per process
  NoFile,
  Truncated,   \* the content of a created file until it is all written
  Garbage,     \* what two writers can make of one file
  MaxCrashes,  \* bound on the crashes
  IoMayFail    \* a file operation may return an error

ASSUME ConstantsAssumption ==
  /\ NoFile \notin Files /\ Unset \notin Values
  /\ MaxCrashes \in Nat /\ IoMayFail \in BOOLEAN

VARIABLES
  settings,  \* the file named settings.json
  tmp,       \* the file named settings.json.tmp
  content,   \* of each file
  data,      \* the BTreeMap of each process
  pc,        \* where each process is; "down" without a store
  file,      \* the file a process has created and not dropped
  ret,       \* what the last operation of a process returned
  acked,     \* ghost: the map of the last operation that returned Ok
  tried,     \* ghost: maps of later operations that were not acknowledged
  crashes

disk == <<settings, tmp, content>>
ghosts == <<acked, tried>>
vars == <<disk, data, pc, file, ret, ghosts, crashes>>

Maps == [Keys -> Values \cup {Unset}]
Empty == [k \in Keys |-> Unset]

\* The types of the variables; the two names never name one file, and a process
\* holds a file open only while it writes it (persist).
TypeOK ==
  /\ settings \in Files \cup {NoFile} /\ tmp \in Files \cup {NoFile}
  /\ settings = tmp => tmp = NoFile
  /\ content \in [Files -> Maps \cup {Truncated, Garbage}]
  /\ data \in [Procs -> Maps]
  /\ pc \in [Procs -> {"down", "idle", "create", "write", "rename"}]
  /\ file \in [Procs -> Files \cup {NoFile}]
  /\ \A p \in Procs : file[p] # NoFile <=> pc[p] = "write"
  /\ ret \in [Procs -> {"None", "Ok", "StorageError"}]
  /\ acked \in Maps /\ tried \subseteq Maps
  /\ crashes \in 0..MaxCrashes

Init ==
  /\ settings = NoFile /\ tmp = NoFile
  /\ content = [f \in Files |-> Truncated]
  /\ data = [p \in Procs |-> Empty]
  /\ pc = [p \in Procs |-> "down"]
  /\ file = [p \in Procs |-> NoFile]
  /\ ret = [p \in Procs |-> "None"]
  /\ acked = Empty /\ tried = {} /\ crashes = 0

At(p, from, to) == pc[p] = from /\ pc' = [pc EXCEPT ![p] = to]
Reply(p, result) == ret' = [ret EXCEPT ![p] = result]

-----------------------------------------------------------------------------
(* with_path *)

Stored == IF settings = NoFile THEN Empty ELSE content[settings]

\* A file that cannot be looked at is taken for one that is missing.
Open(p) ==
  /\ At(p, "down", "idle") /\ Reply(p, "None")
  /\ \E map \in {Stored} \cup (IF IoMayFail THEN {Empty} ELSE {}) :
       map \in Maps /\ data' = [data EXCEPT ![p] = map]
  /\ UNCHANGED <<disk, file, ghosts, crashes>>

\* The file cannot be read, or not be parsed: there is no store.
OpenFails(p) ==
  /\ pc[p] = "down" /\ Reply(p, "StorageError")
  /\ IoMayFail \/ Stored \notin Maps
  /\ UNCHANGED <<disk, data, pc, file, ghosts, crashes>>

-----------------------------------------------------------------------------
(* set_string, remove and clear change the map first *)

Mutate(p, map) ==
  /\ At(p, "idle", "create") /\ Reply(p, "None")
  /\ data' = [data EXCEPT ![p] = map]
  /\ tried' = tried \cup {map}
  /\ UNCHANGED <<disk, file, acked, crashes>>

SetString(p, k, v) == Mutate(p, [data[p] EXCEPT ![k] = v])
Remove(p, k) == Mutate(p, [data[p] EXCEPT ![k] = Unset])
Clear(p) == Mutate(p, Empty)

-----------------------------------------------------------------------------
(* persist *)

\* A slip: writing the settings file in place.
CreateInPlace(p) ==
  /\ At(p, "create", "write")
  /\ \E f \in Files : /\ IF settings # NoFile THEN f = settings ELSE f # tmp
                      /\ settings' = f /\ content' = [content EXCEPT ![f] = Truncated]
                      /\ file' = [file EXCEPT ![p] = f]
  /\ UNCHANGED <<tmp, data, ret, ghosts, crashes>>

\* File::create truncates the file of that name, also one another process is
\* writing, or makes a new one.
Create(p) ==
  /\ At(p, "create", "write")
  /\ \E f \in Files :
       /\ IF tmp # NoFile THEN f = tmp ELSE f # settings /\ \A q \in Procs : f # file[q]
       /\ tmp' = f /\ content' = [content EXCEPT ![f] = Truncated]
       /\ file' = [file EXCEPT ![p] = f]
  /\ UNCHANGED <<settings, data, ret, ghosts, crashes>>

\* Over what another process has written, the shorter text leaves the end of
\* the longer one.
Write(p) ==
  /\ At(p, "write", "rename")
  /\ \E text \in {data[p]} \cup (IF content[file[p]] = Truncated THEN {} ELSE {Garbage}) :
       content' = [content EXCEPT ![file[p]] = text]
  /\ file' = [file EXCEPT ![p] = NoFile]
  /\ UNCHANGED <<settings, tmp, data, ret, ghosts, crashes>>

\* Slips: acknowledging without the rename, and keeping the old name too.
AckUnrenamed(p) ==
  /\ At(p, "rename", "idle") /\ tmp # NoFile
  /\ Reply(p, "Ok") /\ acked' = data[p] /\ tried' = {}
  /\ UNCHANGED <<disk, data, file, crashes>>

\* rename replaces whatever the name settings.json named.
Rename(p) ==
  /\ At(p, "rename", "idle") /\ tmp # NoFile
  /\ settings' = tmp /\ tmp' = NoFile
  /\ Reply(p, "Ok") /\ acked' = data[p] /\ tried' = {}
  /\ UNCHANGED <<content, data, file, crashes>>

\* Any step may fail, and a rename does when the name is gone; the map in
\* memory stays as it is.
PersistFails(p) ==
  /\ \/ IoMayFail /\ pc[p] \in {"create", "write", "rename"}
     \/ pc[p] = "rename" /\ tmp = NoFile
  /\ pc' = [pc EXCEPT ![p] = "idle"]
  /\ file' = [file EXCEPT ![p] = NoFile]
  /\ Reply(p, "StorageError")
  /\ UNCHANGED <<disk, data, ghosts, crashes>>

\* The process is killed; its memory is gone, the files are as they are.
Crash(p) ==
  /\ pc[p] # "down" /\ crashes < MaxCrashes
  /\ pc' = [pc EXCEPT ![p] = "down"]
  /\ file' = [file EXCEPT ![p] = NoFile]
  /\ data' = [data EXCEPT ![p] = Empty] /\ Reply(p, "None")
  /\ crashes' = crashes + 1
  /\ UNCHANGED <<disk, ghosts>>

Persist(p) == Create(p) \/ Write(p) \/ Rename(p) \/ PersistFails(p)

Next ==
  \E p \in Procs :
    \/ Open(p) \/ OpenFails(p) \/ Clear(p) \/ Persist(p) \/ Crash(p)
    \/ \E k \in Keys : Remove(p, k) \/ \E v \in Values : SetString(p, k, v)

Spec == Init /\ [][Next]_vars

-----------------------------------------------------------------------------
(* Properties *)

\* "Writes it back atomically": wherever the process is killed, the settings
\* file can be parsed.
FileIsWhole == Stored \in Maps

\* What the file has for a restart to find is the map that was last acknowledged,
\* or a later one whose operation failed or was cut short.
RestartFindsAcknowledged == Stored \in {acked} \cup tried

-----------------------------------------------------------------------------
(* What one might expect and the code does not do *)

\* Whoever opens the store has what is stored; with an empty map instead, the next
\* mutation would replace the settings file by its own entry alone.
OpenReadsTheFile ==
  [][\A p \in Procs : pc[p] = "down" /\ pc'[p] = "idle" => data'[p] = Stored]_vars

=============================================================================
