-------------------------- MODULE DiscoveryRegistry --------------------------
(***************************************************************************)
(* The filesystem registry of daemons (extension_slots/ipc/src/            *)
(* discovery.rs): one file per daemon, named by its pid, and a copy        *)
(* latest.json.  Daemons of one machine publish, shut down and are killed  *)
(* at any time; a daemon that starts removes the files whose pids are not  *)
(* alive.  It reads the directory once, and looks at one entry after the   *)
(* other, while others go on.  The UDP beacon is a thread that answers     *)
(* probes for as long as the process lives, if it got the port.            *)
(***************************************************************************)
EXTENDS Naturals, FiniteSets

CONSTANTS
  Pids,        \* pids the OS hands out
  MaxStarts,   \* bound on the daemons started
  PidsReused,  \* the OS may give a dead process's pid to a new one
  FilesMayFail \* the directory may be read in part, and a file not written or removed

ASSUME DRAssumption ==
  Pids \subseteq Nat \ {0} /\ MaxStarts \in Nat /\ PidsReused \in BOOLEAN /\ FilesMayFail \in BOOLEAN

VARIABLES
  daemon,    \* the daemon that runs as each pid, 0 if none
  starts,    \* daemons started, numbered in the order of their start
  pc,        \* where the daemon of each pid is
  todo,      \* entries of the directory it read and has not looked at
  doomed,    \* the entry it has found dead and not yet removed; 0 if none
  entry,     \* the daemon advertised in <pid>.json, 0 if there is no file
  latest,    \* the daemon advertised in latest.json, 0 if there is no file
  beacon,    \* of each pid, whether its beacon listens or was refused the port
  stale      \* ghost: the entries of dead pids when each daemon began, but for those
             \* that it could not read or remove

files == <<entry, latest>>
DRvars == <<daemon, starts, pc, todo, doomed, files, beacon, stale>>

\* The types of the variables; the daemons that run are those on their way or
\* up, and a removal belongs to the pruning (pid_alive and remove_file).
DRTypeOK ==
  /\ daemon \in [Pids -> 0..MaxStarts] /\ starts \in 0..MaxStarts
  /\ pc \in [Pids -> {"none", "read", "prune", "write", "latest", "up", "unlisted"}]
  /\ \A p \in Pids : daemon[p] = 0 <=> pc[p] = "none"
  /\ todo \in [Pids -> SUBSET Pids]
  /\ doomed \in [Pids -> Pids \cup {0}]
  /\ \A p \in Pids : doomed[p] # 0 => pc[p] = "prune"
  /\ entry \in [Pids -> 0..MaxStarts] /\ latest \in 0..MaxStarts
  /\ beacon \in [Pids -> {"none", "listening", "refused"}]
  /\ stale \in [Pids -> SUBSET Pids]

DRInit ==
  /\ daemon = [p \in Pids |-> 0] /\ starts = 0
  /\ pc = [p \in Pids |-> "none"]
  /\ todo = [p \in Pids |-> {}] /\ doomed = [p \in Pids |-> 0]
  /\ entry = [p \in Pids |-> 0] /\ latest = 0
  /\ beacon = [p \in Pids |-> "none"]
  /\ stale = [p \in Pids |-> {}]

Alive(p) == daemon[p] # 0
Dead == { p \in Pids : entry[p] # 0 /\ ~Alive(p) }
Used == { p \in Pids : entry[p] # 0 \/ Alive(p) \/ \E q \in Pids : p \in todo[q] \cup {doomed[q]} }
At(p, from, to) == pc[p] = from /\ pc' = [pc EXCEPT ![p] = to]

-----------------------------------------------------------------------------

\* A daemon starts; a pid without traces is as good as one never used.
Start(p) ==
  /\ ~Alive(p) /\ starts < MaxStarts
  /\ PidsReused \/ p \notin Used
  /\ starts' = starts + 1
  /\ daemon' = [daemon EXCEPT ![p] = starts']
  /\ pc' = [pc EXCEPT ![p] = "read"]
  /\ stale' = [stale EXCEPT ![p] = Dead]
  /\ UNCHANGED <<todo, doomed, files, beacon>>

\* prune_stale_entries: read_dir, which passes over latest.json.  A directory that
\* cannot be read counts as empty, and of one that can be, entries that cannot be are
\* passed over.
Listed == { q \in Pids : entry[q] # 0 }

ReadDir(p) ==
  /\ At(p, "read", "prune")
  /\ \E seen \in SUBSET Listed :
       /\ FilesMayFail \/ seen = Listed
       /\ todo' = [todo EXCEPT ![p] = seen]
       /\ stale' = [stale EXCEPT ![p] = @ \ (Listed \ seen)]
  /\ UNCHANGED <<daemon, starts, doomed, files, beacon>>

\* A slip: taking every pid for an alive one.
PruneCheckNever(p, q) ==
  /\ pc[p] = "prune" /\ doomed[p] = 0 /\ q \in todo[p]
  /\ todo' = [todo EXCEPT ![p] = @ \ {q}]
  /\ UNCHANGED <<daemon, starts, pc, doomed, files, beacon, stale>>

\* A slip: taking every file for a stale one.
PruneCheckAll(p, q) ==
  /\ pc[p] = "prune" /\ doomed[p] = 0 /\ q \in todo[p]
  /\ todo' = [todo EXCEPT ![p] = @ \ {q}]
  /\ doomed' = [doomed EXCEPT ![p] = q]
  /\ UNCHANGED <<daemon, starts, pc, files, beacon, stale>>

\* pid_alive: kill(pid, 0) for the next entry.
PruneCheck(p, q) ==
  /\ pc[p] = "prune" /\ doomed[p] = 0 /\ q \in todo[p]
  /\ todo' = [todo EXCEPT ![p] = @ \ {q}]
  /\ doomed' = [doomed EXCEPT ![p] = IF Alive(q) THEN 0 ELSE q]
  /\ UNCHANGED <<daemon, starts, pc, files, beacon, stale>>

\* remove_file, whatever has become of the file since; its failure is ignored.
PruneRemove(p) ==
  /\ doomed[p] # 0
  /\ \/ entry' = [entry EXCEPT ![doomed[p]] = 0] /\ UNCHANGED stale
     \/ /\ FilesMayFail /\ UNCHANGED entry
        /\ stale' = [stale EXCEPT ![p] = @ \ {doomed[p]}]
  /\ doomed' = [doomed EXCEPT ![p] = 0]
  /\ UNCHANGED <<daemon, starts, pc, todo, latest, beacon>>

PruneDone(p) ==
  /\ todo[p] = {} /\ doomed[p] = 0 /\ At(p, "prune", "write")
  /\ UNCHANGED <<daemon, starts, todo, doomed, files, beacon, stale>>

\* publish_registry: the file of this daemon ...
WriteEntry(p) ==
  /\ At(p, "write", "latest")
  /\ entry' = [entry EXCEPT ![p] = daemon[p]]
  /\ UNCHANGED <<daemon, starts, todo, doomed, latest, beacon, stale>>

\* The error is returned; the file may have been created already.
WriteEntryFails(p) ==
  /\ FilesMayFail /\ At(p, "write", "unlisted")
  /\ entry' \in {entry, [entry EXCEPT ![p] = daemon[p]]}
  /\ UNCHANGED <<daemon, starts, todo, doomed, latest, beacon, stale>>

\* ... and the copy, whose failure is ignored.
WriteLatest(p) ==
  /\ At(p, "latest", "up")
  /\ latest' \in {daemon[p]} \cup (IF FilesMayFail THEN {latest} ELSE {})
  /\ UNCHANGED <<daemon, starts, todo, doomed, entry, beacon, stale>>

\* spawn_beacon: the port is the machine's, and stays with the process.
SpawnBeacon(p) ==
  /\ pc[p] \in {"up", "unlisted"} /\ beacon[p] = "none"
  /\ beacon' = [beacon EXCEPT ![p] =
                  IF \E q \in Pids : beacon[q] = "listening" THEN "refused" ELSE "listening"]
  /\ UNCHANGED <<daemon, starts, pc, todo, doomed, files, stale>>

Gone(p) ==
  /\ daemon' = [daemon EXCEPT ![p] = 0]
  /\ pc' = [pc EXCEPT ![p] = "none"]
  /\ todo' = [todo EXCEPT ![p] = {}]
  /\ doomed' = [doomed EXCEPT ![p] = 0]
  /\ beacon' = [beacon EXCEPT ![p] = "none"]
  /\ stale' = [stale EXCEPT ![p] = {}]
  /\ UNCHANGED <<starts, latest>>

\* cleanup_registry, then the process exits.
Shutdown(p) ==
  /\ pc[p] \in {"up", "unlisted"}
  /\ entry' = [entry EXCEPT ![p] = 0]
  /\ Gone(p)

\* SIGKILL or a crash: the file stays.
Crash(p) == Alive(p) /\ UNCHANGED entry /\ Gone(p)

PublishRegistry(p) ==
  \/ ReadDir(p) \/ PruneRemove(p) \/ PruneDone(p)
  \/ WriteEntry(p) \/ WriteEntryFails(p) \/ WriteLatest(p)
  \/ \E q \in Pids : PruneCheck(p, q)

DRNext ==
  \E p \in Pids : Start(p) \/ PublishRegistry(p) \/ SpawnBeacon(p) \/ Shutdown(p) \/ Crash(p)

DRSpec == DRInit /\ [][DRNext]_DRvars

-----------------------------------------------------------------------------
(* Properties *)

\* While pids are not reused, a daemon that has published stays listed however
\* many others start, prune and die meanwhile.
LiveIsListed == \A p \in Pids : pc[p] \in {"latest", "up"} => entry[p] = daemon[p]

\* While pids are not reused, a daemon that has published has rid the registry of
\* every entry that was dead when it started, unless a later daemon has made it
\* anew, or the entry could not be read or removed: "cleaning on every fresh start
\* keeps discovery results honest".
StaleIsPruned ==
  \A p \in Pids : pc[p] \in {"write", "latest", "up", "unlisted"} =>
    \A q \in stale[p] : entry[q] = 0 \/ entry[q] > daemon[p]

-----------------------------------------------------------------------------
(* What the documentation says and the code does not do *)

\* discovery.rs: "A sibling latest.json copy points at the most recent file."
LatestIsMostRecent ==
  (\A p \in Pids : pc[p] \in {"none", "up"}) =>
    LET listed == { entry[p] : p \in Pids } \ {0}
    IN  listed # {} => latest \in listed

\* discovery.rs: a client's probe "receives one response per daemon on the LAN".
EveryDaemonAnswers == \A p \in Pids : beacon[p] # "refused"
=============================================================================
