------------------------------ MODULE NetWatch ------------------------------
(***************************************************************************)
(* The network interface watcher (shared/netwatch/src/backend.rs).         *)
(* subscribe() starts the platform watch on first use, under the mutex     *)
(* `handle`, and then adds a sender to `subs`, under the mutex of that     *)
(* list.  The platform calls back on a thread of its own: the callback     *)
(* turns a difference into events and sends each of them to every sender   *)
(* while it holds the list's mutex.  Callers subscribe and drop their      *)
(* receivers concurrently with callbacks; starting the watch may fail.     *)
(***************************************************************************)
EXTENDS Naturals, Sequences, FiniteSets, SequencesExt

CONSTANTS
  Callers,      \* threads that subscribe
  Interfaces,   \* network interfaces
  Addrs,        \* what an interface that is present looks like
  MaxChanges,   \* bound on the changes of the OS
  MaxRetries    \* bound on the calls made again after an error

None == "none"

ASSUME ConstantsAssumption ==
  /\ MaxChanges \in Nat /\ MaxRetries \in Nat /\ IsFiniteSet(Interfaces)
  /\ None \notin Callers /\ None \notin Addrs

VARIABLES
  present,   \* OS: the interfaces as they are
  changes,   \* changes made
  known,     \* platform library: the interfaces as last reported
  watches,   \* platform library: the watches started
  handle,    \* the watch handle is stored
  holder,    \* who holds the mutex of `handle`
  subs,      \* the senders
  batch,     \* events the running callback has yet to send, head first
  cursor,    \* the senders the head has been sent to
  inbox,     \* what each receiver was sent
  pc,        \* where each caller is
  retries,   \* calls made again after an error
  base       \* ghost: what was known when each caller joined

os == <<present, changes>>
mutex == <<handle, holder>>
feed == <<batch, cursor, inbox>>
vars == <<os, known, watches, mutex, subs, feed, pc, retries, base>>

View == [Interfaces -> Addrs \cup {None}]
Event == [kind : {"Added", "Modified"}, iface : Interfaces, as : Addrs]
           \cup [kind : {"Removed"}, iface : Interfaces, as : {None}]

\* The types of the variables, and the mutex: it is held by the caller that
\* starts the watch, and by nobody else.
TypeOK ==
  /\ present \in View /\ known \in View /\ changes \in 0..MaxChanges
  /\ watches \in Nat /\ handle \in BOOLEAN /\ retries \in 0..MaxRetries
  /\ holder \in Callers \cup {None}
  /\ pc \in [Callers -> {"idle", "starting", "storing", "push", "on", "dropped", "failed"}]
  /\ \A c \in Callers : pc[c] \in {"starting", "storing"} <=> holder = c
  /\ subs \in Seq(Callers) /\ batch \in Seq(Event) /\ cursor \in 0..Len(subs)
  /\ inbox \in [Callers -> Seq(Event)] /\ base \in [Callers -> View]

Absent == [i \in Interfaces |-> None]

Init ==
  /\ present \in View /\ changes = 0 /\ known = Absent
  /\ watches = 0 /\ handle = FALSE /\ holder = None
  /\ subs = <<>> /\ batch = <<>> /\ cursor = 0
  /\ inbox = [c \in Callers |-> <<>>]
  /\ pc = [c \in Callers |-> "idle"] /\ retries = 0
  /\ base = [c \in Callers |-> Absent]

At(c, from, to) == pc[c] = from /\ pc' = [pc EXCEPT ![c] = to]
ListFree == batch = <<>>   \* the callback holds the list's mutex to its last event

-----------------------------------------------------------------------------
(* The platform *)

OsChange ==
  /\ changes < MaxChanges /\ changes' = changes + 1
  /\ \E i \in Interfaces, a \in Addrs \cup {None} :
       a # present[i] /\ present' = [present EXCEPT ![i] = a]
  /\ UNCHANGED <<known, watches, mutex, subs, feed, pc, base, retries>>

\* events_from_update: the interfaces added, those removed, those modified.
EventsOf(old, new) ==
  LET added == { i \in Interfaces : old[i] = None /\ new[i] # None }
      removed == { i \in Interfaces : old[i] # None /\ new[i] = None }
      modified == { i \in Interfaces \ (added \cup removed) : old[i] # new[i] }
      events(kind, S) == SetToSeq({ [kind |-> kind, iface |-> i, as |-> new[i]] : i \in S })
  IN  events("Added", added) \o events("Removed", removed) \o events("Modified", modified)

\* The callback takes the list's mutex.
Callback ==
  /\ watches > 0 /\ known # present /\ ListFree
  /\ batch' = IF subs = <<>> THEN <<>> ELSE EventsOf(known, present)
  /\ known' = present
  /\ UNCHANGED <<os, watches, mutex, subs, cursor, inbox, pc, base, retries>>

\* A slip: stopping at the first sender whose receiver is gone.
SendUntilDropped ==
  /\ ~ListFree
  /\ LET c == subs[cursor + 1]
         last == cursor + 1 = Len(subs) \/ pc[c] = "dropped"
     IN  /\ inbox' = IF pc[c] = "on" THEN [inbox EXCEPT ![c] = Append(@, Head(batch))] ELSE inbox
         /\ cursor' = IF last THEN 0 ELSE cursor + 1
         /\ batch' = IF last THEN Tail(batch) ELSE batch
  /\ UNCHANGED <<os, known, watches, mutex, subs, pc, base, retries>>

\* tx.send: to a dropped receiver it is a no-op.
Send ==
  /\ ~ListFree
  /\ LET c == subs[cursor + 1]
         last == cursor + 1 = Len(subs)
     IN  /\ inbox' = IF pc[c] = "on" THEN [inbox EXCEPT ![c] = Append(@, Head(batch))] ELSE inbox
         /\ cursor' = IF last THEN 0 ELSE cursor + 1
         /\ batch' = IF last THEN Tail(batch) ELSE batch
  /\ UNCHANGED <<os, known, watches, mutex, subs, pc, base, retries>>

-----------------------------------------------------------------------------
(* subscribe *)

\* ensure_started: the mutex is kept while the watch is being started.
Ensure(c) ==
  /\ pc[c] = "idle" /\ holder = None
  /\ pc' = [pc EXCEPT ![c] = IF handle THEN "push" ELSE "starting"]
  /\ holder' = IF handle THEN None ELSE c
  /\ UNCHANGED <<os, known, watches, handle, subs, feed, base, retries>>

\* watch_interfaces succeeds.  The first report may be of every interface.
Watch(c) ==
  /\ At(c, "starting", "storing")
  /\ watches' = watches + 1
  /\ known' \in {Absent, present}
  /\ UNCHANGED <<os, mutex, subs, feed, base, retries>>

\* A slip: the failure path keeps the mutex.
WatchFailsLocked(c) ==
  /\ At(c, "starting", "failed")
  /\ UNCHANGED <<os, known, watches, mutex, subs, feed, base, retries>>

WatchFails(c) ==
  /\ At(c, "starting", "failed")
  /\ holder' = None
  /\ UNCHANGED <<os, known, watches, handle, subs, feed, base, retries>>

Store(c) ==
  /\ At(c, "storing", "push")
  /\ handle' = TRUE /\ holder' = None
  /\ UNCHANGED <<os, known, watches, subs, feed, base, retries>>

Push(c) ==
  /\ ListFree /\ At(c, "push", "on")
  /\ subs' = Append(subs, c)
  /\ base' = [base EXCEPT ![c] = known]
  /\ UNCHANGED <<os, known, watches, mutex, feed, retries>>

\* The callers' side: trying again, and dropping the receiver.
Retry(c) ==
  /\ retries < MaxRetries /\ retries' = retries + 1
  /\ At(c, "failed", "idle")
  /\ UNCHANGED <<os, known, watches, mutex, subs, feed, base>>

DropReceiver(c) ==
  /\ At(c, "on", "dropped")
  /\ UNCHANGED <<os, known, watches, mutex, subs, feed, base, retries>>

Subscribe(c) == Ensure(c) \/ Watch(c) \/ WatchFails(c) \/ Store(c) \/ Push(c)

Next ==
  \/ OsChange \/ Callback \/ Send
  \/ \E c \in Callers : Subscribe(c) \/ Retry(c) \/ DropReceiver(c)

Spec == Init /\ [][Next]_vars

\* Threads run on, and a callback reaches its last event.  A mutex that is free
\* and stays free is taken by somebody who waits for it; which of them gets it
\* first is left open, since std::sync::Mutex promises no order.
FairSpec ==
  /\ Spec /\ WF_vars(Send) /\ WF_vars(Callback)
  /\ \A c \in Callers :
       WF_vars(Ensure(c)) /\ WF_vars(Watch(c) \/ WatchFails(c)) /\ WF_vars(Store(c)) /\ WF_vars(Push(c))

-----------------------------------------------------------------------------
(* Properties *)

\* The lazy start is race-free: however many callers find no handle at once,
\* the platform is asked for one watch that succeeds, and a caller only gets a
\* receiver while that watch runs.
OneWatch ==
  /\ watches <= 1
  /\ \A c \in Callers : pc[c] \in {"push", "on", "dropped"} => watches = 1

Apply(view, e) == [view EXCEPT ![e.iface] = e.as]

\* What each event leaves of a view, from the view before the first.
Told(start, events) ==
  LET view[n \in 0..Len(events)] ==
        IF n = 0 THEN start ELSE Apply(view[n - 1], events[n])
  IN  view

\* The event says something that the view does not, and names it rightly.
News(view, e) ==
  /\ e.as # view[e.iface]
  /\ e.kind = IF view[e.iface] = None THEN "Added"
              ELSE IF e.as = None THEN "Removed" ELSE "Modified"

\* Receivers are fed by one watch, and replaying what one was sent over what was
\* known when it joined gives what is known now, each event being news to it
\* when it comes: no event of an update is lost, doubled or out of order,
\* whatever other receivers came and went.
FeedIsComplete ==
  /\ OneWatch
  /\ \A c \in Callers :
       LET view == Told(base[c], inbox[c])
       IN  /\ \A n \in DOMAIN inbox[c] : News(view[n - 1], inbox[c][n])
           /\ pc[c] = "on" /\ ListFree => view[Len(inbox[c])] = known

\* Every call of subscribe returns, with a receiver or an error, when failed
\* calls are tried again at most MaxRetries times and the network changes at
\* most MaxChanges times: a start that fails gives the mutex back to those who
\* wait for it, and a callback the list's.  (With callers that retry for ever it
\* would take a fair mutex.)
SubscribeReturns ==
  \A c \in Callers : pc[c] \in {"idle", "push"} ~> pc[c] \in {"on", "failed"}

-----------------------------------------------------------------------------
(* What the documentation says and the code does not do *)

\* watcher.rs: "Dropping the receiver unsubscribes (no resource leak)": once a
\* callback has been through the list, no sender of a dropped receiver is left.
DroppingUnsubscribes ==
  [][Send /\ batch' = <<>> =>
       \A n \in 1..Len(subs') : pc[subs'[n]] # "dropped"]_vars
=============================================================================
