-------------------------- MODULE EventBroadcaster --------------------------
(***************************************************************************)
(* EventBroadcaster (extension_slots/ipc/src/broadcaster.rs): publishers   *)
(* and connection threads of the daemon share a bounded history and a list *)
(* of channel senders, each behind its own mutex.  Both publish and        *)
(* subscribe take the history lock, release it, and take the list's lock,  *)
(* so each is two steps and all four interleave.                           *)
(*                                                                         *)
(* Notifications are numbered in the order in which they entered history.  *)
(***************************************************************************)
EXTENDS Naturals, Sequences, SequencesExt

CONSTANTS
  Publishers,     \* threads that call publish
  Clients,        \* connections; each subscribes once and may hang up
  HistoryLimit,   \* history_limit (128 in the code)
  MaxNotifs       \* bound on the notifications published

ASSUME ConstantsAssumption ==
  /\ HistoryLimit \in Nat
  /\ MaxNotifs \in Nat

VARIABLES
  history,    \* Mutex<VecDeque<Notification>>
  subs,       \* Mutex<Vec<Subscriber>>: the clients whose sender is listed; as
              \* the list is locked throughout, nobody sees its order
  inbox,      \* everything sent on a client's channel
  client,     \* where each client is
  sending,    \* what a publisher still has to send to the list; 0 if nothing
  published,  \* notifications that have entered history
  origin,     \* who published each notification
  copied,     \* how much of a client's inbox came from history
  base,       \* `published' when the client copied history
  joined      \* `published' when the client's subscribe returned

shared == <<history, subs, inbox>>
ghosts == <<origin, copied, base, joined>>
vars == <<shared, client, sending, published, ghosts>>

Notifs == 1..MaxNotifs
ClientStates == {"new", "copied", "subscribed", "gone"}

\* The types of the variables; history never exceeds its limit (publish).
TypeOK ==
  /\ history \in Seq(Notifs) /\ Len(history) <= HistoryLimit
  /\ subs \subseteq Clients
  /\ inbox \in [Clients -> Seq(Notifs)]
  /\ client \in [Clients -> ClientStates]
  /\ sending \in [Publishers -> 0..MaxNotifs]
  /\ published \in 0..MaxNotifs
  /\ origin \in Seq(Publishers) /\ Len(origin) = published
  /\ copied \in [Clients -> Nat]
  /\ base \in [Clients -> 0..MaxNotifs]
  /\ joined \in [Clients -> 0..MaxNotifs]

Init ==
  /\ history = <<>> /\ subs = {}
  /\ inbox = [c \in Clients |-> <<>>]
  /\ client = [c \in Clients |-> "new"]
  /\ sending = [t \in Publishers |-> 0]
  /\ published = 0 /\ origin = <<>>
  /\ copied = [c \in Clients |-> 0]
  /\ base = [c \in Clients |-> 0]
  /\ joined = [c \in Clients |-> 0]

-----------------------------------------------------------------------------
(* publish *)

\* push_back, then pop_front while longer than the limit.
Remember(h, n) ==
  LET longer == Append(h, n)
  IN  IF Len(longer) > HistoryLimit THEN Tail(longer) ELSE longer

PublishHistory(t) ==
  /\ sending[t] = 0 /\ published < MaxNotifs
  /\ published' = published + 1
  /\ history' = Remember(history, published')
  /\ sending' = [sending EXCEPT ![t] = published']
  /\ origin' = Append(origin, t)
  /\ UNCHANGED <<subs, inbox, client, copied, base, joined>>

\* send() succeeds while the receiver exists.
Open(c) == client[c] # "gone"

\* A slip: giving up at the first closed channel.
FanOutUntilClosed(t) ==
  /\ sending[t] # 0
  /\ \E reached \in SUBSET { c \in subs : Open(c) } :
       /\ reached # subs => \E c \in subs : ~Open(c)
       /\ inbox' = [c \in Clients |-> IF c \in reached THEN Append(inbox[c], sending[t]) ELSE inbox[c]]
  /\ subs' = { c \in subs : Open(c) }
  /\ sending' = [sending EXCEPT ![t] = 0]
  /\ UNCHANGED <<history, client, published, ghosts>>

\* A slip: sending without pruning.
FanOutKeepingAll(t) ==
  /\ sending[t] # 0
  /\ inbox' = [c \in Clients |-> IF c \in subs /\ Open(c)
                                   THEN Append(inbox[c], sending[t]) ELSE inbox[c]]
  /\ sending' = [sending EXCEPT ![t] = 0]
  /\ UNCHANGED <<history, subs, client, published, ghosts>>

\* A slip: sending to one client after the other without the list's lock.
FanOutUnlocked(t) ==
  LET live(c) == SubSeq(inbox[c], copied[c] + 1, Len(inbox[c]))
      waiting == { c \in subs : Open(c) /\ ~Contains(live(c), sending[t]) }
  IN  /\ sending[t] # 0
      /\ \/ /\ \E c \in waiting : inbox' = [inbox EXCEPT ![c] = Append(@, sending[t])]
            /\ UNCHANGED <<subs, sending>>
         \/ /\ waiting = {}
            /\ subs' = { c \in subs : Open(c) }
            /\ sending' = [sending EXCEPT ![t] = 0]
            /\ UNCHANGED inbox
      /\ UNCHANGED <<history, client, published, ghosts>>

\* subs.retain(send): under the list's lock, so two publishers cannot mix.
FanOut(t) ==
  /\ sending[t] # 0
  /\ inbox' = [c \in Clients |-> IF c \in subs /\ Open(c)
                                   THEN Append(inbox[c], sending[t]) ELSE inbox[c]]
  /\ subs' = { c \in subs : Open(c) }
  /\ sending' = [sending EXCEPT ![t] = 0]
  /\ UNCHANGED <<history, client, published, ghosts>>

-----------------------------------------------------------------------------
(* subscribe, and a client that goes away *)

CopyOf(c, replay) ==
  /\ client[c] = "new"
  /\ client' = [client EXCEPT ![c] = "copied"]
  /\ inbox' = [inbox EXCEPT ![c] = replay]
  /\ copied' = [copied EXCEPT ![c] = Len(replay)]
  /\ base' = [base EXCEPT ![c] = published]
  /\ UNCHANGED <<history, subs, sending, published, origin, joined>>

\* A slip: replaying the latest first.
SubscribeCopyReversed(c) == CopyOf(c, Reverse(history))

SubscribeCopy(c) == CopyOf(c, history)

SubscribeList(c) ==
  /\ client[c] = "copied"
  /\ client' = [client EXCEPT ![c] = "subscribed"]
  /\ subs' = subs \cup {c}
  /\ joined' = [joined EXCEPT ![c] = published]
  /\ UNCHANGED <<history, inbox, sending, published, origin, copied, base>>

\* The receiver is dropped; its sender stays listed until the next publish.
HangUp(c) ==
  /\ client[c] = "subscribed"
  /\ client' = [client EXCEPT ![c] = "gone"]
  /\ UNCHANGED <<shared, sending, published, ghosts>>

-----------------------------------------------------------------------------

Publish(t) == PublishHistory(t) \/ FanOut(t)
Subscribe(c) == SubscribeCopy(c) \/ SubscribeList(c)

Next ==
  \/ \E t \in Publishers : Publish(t)
  \/ \E c \in Clients : Subscribe(c) \/ HangUp(c)

\* A publish under way goes on; nothing forces a publish or a subscription.
Spec ==
  /\ Init /\ [][Next]_vars
  /\ \A t \in Publishers : WF_vars(FanOut(t))

-----------------------------------------------------------------------------
(* Properties *)

Times(c, n) == { i \in DOMAIN inbox[c] : inbox[c][i] = n }
Sent(n) == n \in 1..published /\ \A t \in Publishers : sending[t] # n
Live(c) == SubSeq(inbox[c], copied[c] + 1, Len(inbox[c]))

\* History is exactly the latest notifications, in order, up to the limit.
Recent(n) == SubSeq([i \in 1..n |-> i], IF n > HistoryLimit THEN n - HistoryLimit + 1 ELSE 1, n)
HistoryIsRecent == history = Recent(published)

\* What is published after subscribe returned reaches the client exactly once,
\* and nothing reaches anyone more than twice (a replay and a send).
ExactlyOnceOnceSubscribed ==
  \A c \in Clients, n \in Notifs :
    /\ client[c] = "subscribed" /\ n > joined[c] /\ Sent(n) => \E i \in DOMAIN inbox[c] : Times(c, n) = {i}
    /\ \A i, j, k \in Times(c, n) : i = j \/ j = k \/ i = k

\* A client is replayed the latest notifications before its copy, up to the
\* limit, and never sees one publisher's notifications out of order, across
\* that replay and what is sent later.
PublisherOrder ==
  \A c \in Clients :
    /\ client[c] # "new" => SubSeq(inbox[c], 1, copied[c]) = Recent(base[c])
    /\ \A i, j \in DOMAIN inbox[c] :
         i < j /\ origin[inbox[c][i]] = origin[inbox[c][j]] => inbox[c][i] <= inbox[c][j]

\* Whoever publishes, all clients agree on what came after what: of two that
\* are listening, one has been sent an ending of what the other has.
ClientsAgree ==
  \A c, d \in Clients :
    client[c] = "subscribed" /\ client[d] = "subscribed" =>
      IsSuffix(Live(c), Live(d)) \/ IsSuffix(Live(d), Live(c))

\* The module's documentation: a closed client is "dropped on the next
\* publish", so one that hung up stays listed only while nobody publishes.
ClosedIsPruned ==
  \A c \in Clients :
    (client[c] = "gone" /\ \E t \in Publishers : sending[t] # 0) ~> c \notin subs

-----------------------------------------------------------------------------
(* What the tests say and the code does not do *)

\* broadcaster.rs, test late_subscriber_receives_recent_history: a client that
\* has subscribed has everything recent that was published, from history or
\* from its channel.
NothingRecentIsLost ==
  \A c \in Clients :
    client[c] = "subscribed" /\ published <= HistoryLimit =>
      \A n \in 1..published : Sent(n) => Times(c, n) # {}

=============================================================================
