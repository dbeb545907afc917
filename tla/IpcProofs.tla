------------------------------ MODULE IpcProofs ------------------------------
(***************************************************************************)
(* Proofs about the two components of extension_slots/ipc that are shared  *)
(* by threads and by processes: EventBroadcaster, for any sets of          *)
(* publishers and clients, any limit of the history and any number of      *)
(* notifications, and then DiscoveryRegistry, for any pids and daemons.    *)
(***************************************************************************)
EXTENDS EventBroadcaster, DiscoveryRegistry, SequenceTheorems, TLAPS

-----------------------------------------------------------------------------
(* The broadcaster: the inductive invariant *)

\* Where a client is, and what is in its inbox: a replay, and after it what was
\* sent since the client was listed.  A client that listens is listed.
Inbox(c) ==
  /\ copied[c] <= Len(inbox[c]) /\ base[c] <= published /\ joined[c] <= published
  /\ client[c] = "new" => copied[c] = 0 /\ base[c] = 0
  /\ client[c] \in {"new", "copied"} => c \notin subs /\ Len(inbox[c]) = copied[c]
  /\ client[c] = "subscribed" => c \in subs /\ base[c] <= joined[c]
  /\ client[c] # "new" =>
       /\ copied[c] = Len(Recent(base[c]))
       /\ \A i \in 1..copied[c] : inbox[c][i] = Recent(base[c])[i]
  /\ \A i \in DOMAIN inbox[c] : inbox[c][i] <= published
Inboxes == \A c \in Clients : Inbox(c)

\* What a publisher still has to send is the latest it has published.
InFlight ==
  \A t \in Publishers : sending[t] # 0 =>
    /\ sending[t] <= published /\ origin[sending[t]] = t
    /\ \A n \in 1..published : origin[n] = t => n <= sending[t]

\* What was sent to a client is on nobody's way any more, was sent once, and
\* leaves out nothing that was published since it joined.
Delivered(c) ==
  /\ \A i \in copied[c] + 1..Len(inbox[c]) :
       /\ \A t \in Publishers : inbox[c][i] # sending[t]
       /\ \A j \in copied[c] + 1..Len(inbox[c]) : inbox[c][i] = inbox[c][j] => i = j
  /\ client[c] = "subscribed" =>
       \A n \in Notifs : n > joined[c] /\ Sent(n) => \E i \in DOMAIN inbox[c] : inbox[c][i] = n
Deliveries == \A c \in Clients : Delivered(c)

\* The second half of PublisherOrder.
InOrder ==
  \A c \in Clients : \A i, j \in DOMAIN inbox[c] :
    i < j /\ origin[inbox[c][i]] = origin[inbox[c][j]] => inbox[c][i] <= inbox[c][j]

Inv == HistoryIsRecent /\ Inboxes /\ InFlight /\ Deliveries /\ InOrder /\ ClientsAgree

-----------------------------------------------------------------------------
(* History, and endings of sequences *)

\* The latest notifications, position by position.
LEMMA RecentIs ==
  ASSUME NEW n \in Nat
  PROVE  /\ Recent(n) \in Seq(Nat)
         /\ Len(Recent(n)) = IF n > HistoryLimit THEN HistoryLimit ELSE n
         /\ \A k \in 1..Len(Recent(n)) : Recent(n)[k] = n - Len(Recent(n)) + k
<1> DEFINE all == [i \in 1..n |-> i]
           first == IF n > HistoryLimit THEN n - HistoryLimit + 1 ELSE 1
<1>1. first \in 1..n + 1
  BY ConstantsAssumption
<1>2. \A i \in first..n : all[i] \in Nat
  BY <1>1
<1>3. /\ SubSeq(all, first, n) \in Seq(Nat)
      /\ Len(SubSeq(all, first, n)) = IF first <= n THEN n - first + 1 ELSE 0
      /\ \A k \in 1..n - first + 1 : SubSeq(all, first, n)[k] = all[first + k - 1]
  <2> HIDE DEF all, first
  <2> QED BY <1>1, <1>2, SubSeqProperties
<1> QED BY <1>1, <1>3, ConstantsAssumption DEF Recent

\* publish keeps exactly the latest notifications in history.
LEMMA Remembering ==
  ASSUME NEW n \in Nat
  PROVE  Remember(Recent(n), n + 1) = Recent(n + 1)
<1> DEFINE h == Recent(n)
           m == n + 1
           r == Recent(m)
           all == Append(h, m)
           tail == Tail(all)
<1>1. /\ h \in Seq(Nat) /\ Len(h) = (IF n > HistoryLimit THEN HistoryLimit ELSE n)
      /\ \A k \in 1..Len(h) : h[k] = n - Len(h) + k
  BY RecentIs
<1>2. m \in Nat /\ m = n + 1
  OBVIOUS
<1> HIDE DEF m
<1>3. /\ r \in Seq(Nat) /\ Len(r) = (IF m > HistoryLimit THEN HistoryLimit ELSE m)
      /\ \A k \in 1..Len(r) : r[k] = m - Len(r) + k
  BY <1>2, RecentIs
<1> HIDE DEF h, r
<1>4. /\ all \in Seq(Nat) /\ Len(all) = Len(h) + 1
      /\ \A k \in 1..Len(all) : all[k] = n - Len(h) + k
  BY <1>1, <1>2
<1> HIDE DEF all
<1>5. CASE Len(all) > HistoryLimit
  <2>1. Len(h) = HistoryLimit /\ Len(r) = HistoryLimit
    BY <1>1, <1>2, <1>3, <1>4, <1>5, ConstantsAssumption
  <2>2. /\ tail \in Seq(Nat) /\ Len(tail) = Len(h)
        /\ \A k \in 1..Len(h) : tail[k] = all[k + 1]
    BY <1>1, <1>4
  <2> HIDE DEF tail
  <2>3. ASSUME NEW k \in 1..Len(tail) PROVE tail[k] = r[k]
    <3>1. tail[k] = all[k + 1] /\ k + 1 \in 1..Len(all) /\ k \in 1..Len(r)
      BY <1>4, <2>1, <2>2, ConstantsAssumption
    <3>2. all[k + 1] = n - Len(h) + (k + 1) /\ r[k] = m - Len(r) + k
      BY <1>3, <1>4, <3>1
    <3> QED BY <1>2, <2>1, <3>1, <3>2, ConstantsAssumption
  <2>4. tail = r
    BY <1>3, <2>1, <2>2, <2>3, SeqEqual
  <2> QED BY <1>5, <2>4 DEF Remember, h, r, all, tail, m
<1>6. CASE ~(Len(all) > HistoryLimit)
  <2>1. Len(h) = n /\ Len(r) = n + 1
    BY <1>1, <1>2, <1>3, <1>4, <1>6, ConstantsAssumption
  <2>2. \A k \in 1..Len(all) : all[k] = r[k]
    BY <1>2, <1>3, <1>4, <2>1
  <2>3. all = r
    BY <1>3, <1>4, <2>1, <2>2, SeqEqual
  <2> QED BY <1>6, <2>3 DEF Remember, h, r, all, m
<1> QED BY <1>5, <1>6

\* Turning a sequence round.
LEMMA ReverseIs ==
  ASSUME NEW S, NEW s \in Seq(S)
  PROVE  /\ Reverse(s) \in Seq(S) /\ Len(Reverse(s)) = Len(s)
         /\ \A i \in 1..Len(s) : Reverse(s)[i] = s[Len(s) - i + 1]
BY DEF Reverse

\* A suffix agrees with the whole from where it begins.
LEMMA SuffixIs ==
  ASSUME NEW S, NEW s \in Seq(S), NEW t \in Seq(S)
  PROVE  IsSuffix(s, t) <=>
           Len(s) <= Len(t) /\ \A i \in 1..Len(s) : s[i] = t[Len(t) - Len(s) + i]
<1> DEFINE a == Reverse(s)
           b == Reverse(t)
           u == SubSeq(b, 1, Len(s))
<1>1. a \in Seq(S) /\ Len(a) = Len(s) /\ \A i \in 1..Len(s) : a[i] = s[Len(s) - i + 1]
  BY ReverseIs
<1>2. b \in Seq(S) /\ Len(b) = Len(t) /\ \A i \in 1..Len(t) : b[i] = t[Len(t) - i + 1]
  BY ReverseIs
<1>3. SubSeq(a, 1, Len(s)) = a
  BY <1>1, SubSeqFull
<1>4. IsSuffix(s, t) <=> Len(s) <= Len(t) /\ a = u
  BY <1>1, <1>2, <1>3 DEF IsSuffix, IsPrefix
<1> HIDE DEF a, b
<1> SUFFICES ASSUME Len(s) <= Len(t)
             PROVE  a = u <=> \A i \in 1..Len(s) : s[i] = t[Len(t) - Len(s) + i]
  BY <1>4
<1>5. u \in Seq(S) /\ Len(u) = Len(s) /\ \A i \in 1..Len(s) : u[i] = b[i]
  BY <1>2
<1> HIDE DEF u
<1>6. \A i \in 1..Len(s) : u[i] = t[Len(t) - i + 1]
  BY <1>2, <1>5
<1>7. ASSUME a = u, NEW i \in 1..Len(s)
      PROVE  s[i] = t[Len(t) - Len(s) + i]
  <2> DEFINE k == Len(s) - i + 1
  <2>1. k \in 1..Len(s) /\ Len(s) - k + 1 = i /\ Len(t) - k + 1 = Len(t) - Len(s) + i
    OBVIOUS
  <2>2. a[k] = s[Len(s) - k + 1] /\ u[k] = t[Len(t) - k + 1]
    BY <1>1, <1>6, <2>1
  <2> QED BY <1>7, <2>1, <2>2
<1>8. ASSUME \A i \in 1..Len(s) : s[i] = t[Len(t) - Len(s) + i]
      PROVE  a = u
  <2>1. ASSUME NEW k \in 1..Len(s) PROVE a[k] = u[k]
    <3> DEFINE i == Len(s) - k + 1
    <3>1. i \in 1..Len(s) /\ Len(t) - Len(s) + i = Len(t) - k + 1
      OBVIOUS
    <3>2. s[i] = t[Len(t) - Len(s) + i]
      BY <1>8, <3>1
    <3> QED BY <1>1, <1>6, <3>1, <3>2
  <2> QED BY <1>1, <1>5, <2>1, SeqEqual
<1> QED BY <1>7, <1>8
\* The ending of one sequence is an ending of another's.
LEMMA EndingIs ==
  ASSUME NEW S, NEW s \in Seq(S), NEW t \in Seq(S), NEW a \in 0..Len(s), NEW b \in 0..Len(t)
  PROVE  IsSuffix(SubSeq(s, a + 1, Len(s)), SubSeq(t, b + 1, Len(t))) <=>
           /\ Len(s) - a <= Len(t) - b
           /\ \A i \in a + 1..Len(s) : s[i] = t[i + Len(t) - Len(s)]
<1> DEFINE x == SubSeq(s, a + 1, Len(s))
           y == SubSeq(t, b + 1, Len(t))
<1>1. /\ x \in Seq(S) /\ Len(x) = Len(s) - a
      /\ \A i \in 1..Len(s) - a : x[i] = s[a + i]
  OBVIOUS
<1>2. /\ y \in Seq(S) /\ Len(y) = Len(t) - b
      /\ \A i \in 1..Len(t) - b : y[i] = t[b + i]
  OBVIOUS
<1> HIDE DEF x, y
<1>3. IsSuffix(x, y) <=> Len(x) <= Len(y) /\ \A i \in 1..Len(x) : x[i] = y[Len(y) - Len(x) + i]
  <2>1. x \in Seq(S) /\ y \in Seq(S)
    BY <1>1, <1>2
  <2> QED BY <2>1, SuffixIs
<1> SUFFICES ASSUME Len(x) <= Len(y)
             PROVE  (\A i \in 1..Len(x) : x[i] = y[Len(y) - Len(x) + i])
                      <=> \A i \in a + 1..Len(s) : s[i] = t[i + Len(t) - Len(s)]
  BY <1>1, <1>2, <1>3 DEF x, y
<1>4. ASSUME NEW i \in 1..Len(x)
      PROVE  x[i] = s[a + i] /\ y[Len(y) - Len(x) + i] = t[(a + i) + Len(t) - Len(s)]
  <2> DEFINE k == Len(y) - Len(x) + i
  <2>1. k \in 1..Len(t) - b /\ b + k = (a + i) + Len(t) - Len(s)
    BY <1>1, <1>2
  <2>2. y[k] = t[b + k]
    BY <1>2, <2>1
  <2> QED BY <1>1, <2>1, <2>2
<1>5. ASSUME \A i \in 1..Len(x) : x[i] = y[Len(y) - Len(x) + i], NEW i \in a + 1..Len(s)
      PROVE  s[i] = t[i + Len(t) - Len(s)]
  <2>1. i - a \in 1..Len(x) /\ a + (i - a) = i
    BY <1>1
  <2>2. x[i - a] = y[Len(y) - Len(x) + (i - a)]
    BY <1>5, <2>1
  <2>3. x[i - a] = s[a + (i - a)] /\ y[Len(y) - Len(x) + (i - a)] = t[(a + (i - a)) + Len(t) - Len(s)]
    BY <1>4, <2>1
  <2> QED BY <2>1, <2>2, <2>3
<1>6. ASSUME \A i \in a + 1..Len(s) : s[i] = t[i + Len(t) - Len(s)], NEW i \in 1..Len(x)
      PROVE  x[i] = y[Len(y) - Len(x) + i]
  <2>1. a + i \in a + 1..Len(s)
    BY <1>1
  <2> QED BY <1>4, <1>6, <2>1
<1> QED BY <1>5, <1>6

\* It stays one when both grow by the same element.
LEMMA EndingsGrow ==
  ASSUME NEW S, NEW s \in Seq(S), NEW t \in Seq(S), NEW a \in 0..Len(s), NEW b \in 0..Len(t),
         NEW e \in S, IsSuffix(SubSeq(s, a + 1, Len(s)), SubSeq(t, b + 1, Len(t)))
  PROVE  IsSuffix(SubSeq(Append(s, e), a + 1, Len(Append(s, e))),
                  SubSeq(Append(t, e), b + 1, Len(Append(t, e))))
<1> DEFINE x == Append(s, e)
           y == Append(t, e)
<1>1. x \in Seq(S) /\ Len(x) = Len(s) + 1 /\ x[Len(x)] = e /\ \A i \in 1..Len(s) : x[i] = s[i]
  OBVIOUS
<1>2. y \in Seq(S) /\ Len(y) = Len(t) + 1 /\ y[Len(y)] = e /\ \A i \in 1..Len(t) : y[i] = t[i]
  OBVIOUS
<1>3. Len(s) - a <= Len(t) - b /\ \A i \in a + 1..Len(s) : s[i] = t[i + Len(t) - Len(s)]
  BY EndingIs
<1> HIDE DEF x, y
<1>4. ASSUME NEW i \in a + 1..Len(x)
      PROVE  x[i] = y[i + Len(y) - Len(x)]
  <2>1. CASE i = Len(x)
    BY <1>1, <1>2, <2>1
  <2>2. CASE i # Len(x)
    <3>1. i \in a + 1..Len(s) /\ i + Len(t) - Len(s) \in 1..Len(t) /\ i \in 1..Len(s)
          /\ i + Len(y) - Len(x) = i + Len(t) - Len(s)
      BY <1>1, <1>2, <1>3, <2>2
    <3>2. x[i] = s[i] /\ s[i] = t[i + Len(t) - Len(s)] /\ y[i + Len(t) - Len(s)] = t[i + Len(t) - Len(s)]
      BY <1>1, <1>2, <1>3, <3>1
    <3> QED BY <3>1, <3>2
  <2> QED BY <2>1, <2>2
<1>5. a \in 0..Len(x) /\ b \in 0..Len(y) /\ Len(x) - a <= Len(y) - b
  BY <1>1, <1>2, <1>3
<1>6. IsSuffix(SubSeq(x, a + 1, Len(x)), SubSeq(y, b + 1, Len(y)))
  BY <1>1, <1>2, <1>4, <1>5, EndingIs
<1> QED BY <1>6 DEF x, y

-----------------------------------------------------------------------------
(* Type correctness *)

\* publish and subscribe keep every variable in its type; the history stays
\* within its limit.
THEOREM TypeCorrect == Spec => []TypeOK
<1>1. ASSUME Init PROVE TypeOK
  <2>1. history \in Seq(Notifs) /\ Len(history) <= HistoryLimit /\ origin \in Seq(Publishers)
        /\ Len(origin) = published
    BY <1>1, ConstantsAssumption DEF Init
  <2>2. inbox \in [Clients -> Seq(Notifs)] /\ client \in [Clients -> ClientStates] /\ subs \subseteq Clients
    BY <1>1 DEF Init, ClientStates
  <2>3. /\ sending \in [Publishers -> 0..MaxNotifs] /\ published \in 0..MaxNotifs
        /\ base \in [Clients -> 0..MaxNotifs] /\ joined \in [Clients -> 0..MaxNotifs]
        /\ copied \in [Clients -> Nat]
    BY <1>1, ConstantsAssumption DEF Init
  <2> QED BY <2>1, <2>2, <2>3 DEF TypeOK
<1>2. ASSUME TypeOK, [Next]_vars PROVE TypeOK'
  <2> USE <1>2, ConstantsAssumption DEF TypeOK, shared, ghosts
  <2>1. ASSUME NEW t \in Publishers, PublishHistory(t) PROVE TypeOK'
    <3> DEFINE n == published + 1
               longer == Append(history, n)
    <3>1. n \in Notifs /\ published' = n /\ history' = Remember(history, n)
      BY <2>1 DEF PublishHistory, Notifs
    <3>2. longer \in Seq(Notifs) /\ Len(longer) = Len(history) + 1
      BY <3>1
    <3>3. history' \in Seq(Notifs) /\ Len(history') <= HistoryLimit
      <4> HIDE DEF longer, n
      <4>1. CASE Len(longer) > HistoryLimit
        <5>1. Tail(longer) \in Seq(Notifs) /\ Len(Tail(longer)) = Len(history)
          BY <3>2, <4>1
        <5> QED BY <3>1, <4>1, <5>1 DEF Remember, longer
      <4>2. CASE ~(Len(longer) > HistoryLimit)
        BY <3>1, <3>2, <4>2 DEF Remember, longer
      <4> QED BY <4>1, <4>2
    <3>4. origin' \in Seq(Publishers) /\ Len(origin') = published'
      BY <2>1 DEF PublishHistory
    <3>5. sending' \in [Publishers -> 0..MaxNotifs] /\ published' \in 0..MaxNotifs
      BY <2>1, <3>1 DEF PublishHistory, Notifs
    <3> QED BY <2>1, <3>3, <3>4, <3>5 DEF PublishHistory
  <2>2. ASSUME NEW t \in Publishers, FanOut(t) PROVE TypeOK'
    <3>1. sending[t] \in Notifs
      BY <2>2 DEF FanOut, Notifs
    <3>2. inbox' \in [Clients -> Seq(Notifs)]
      BY <2>2, <3>1 DEF FanOut
    <3> QED BY <2>2, <3>2 DEF FanOut
  <2>3. ASSUME NEW c \in Clients, SubscribeCopy(c) PROVE TypeOK'
    BY <2>3 DEF SubscribeCopy, CopyOf, ClientStates
  <2>4. ASSUME NEW c \in Clients, SubscribeList(c) PROVE TypeOK'
    BY <2>4 DEF SubscribeList, ClientStates
  <2>5. ASSUME NEW c \in Clients, HangUp(c) PROVE TypeOK'
    BY <2>5 DEF HangUp, ClientStates
  <2>6. CASE UNCHANGED vars
    BY <2>6 DEF vars
  <2> QED BY <2>1, <2>2, <2>3, <2>4, <2>5, <2>6 DEF Next, Publish, Subscribe
<1> QED BY <1>1, <1>2, PTL DEF Spec

-----------------------------------------------------------------------------
(* The steps *)

\* What is in an inbox has been published.
LEMMA InboxesArePublished ==
  ASSUME TypeOK, Inboxes, NEW c \in Clients, NEW i \in DOMAIN inbox[c]
  PROVE  inbox[c][i] \in 1..published
<1>1. inbox[c] \in Seq(Notifs) /\ published \in Nat
  BY ConstantsAssumption DEF TypeOK
<1>2. inbox[c][i] \in Notifs /\ inbox[c][i] <= published
  BY <1>1 DEF Inboxes, Inbox
<1> QED BY <1>1, <1>2 DEF Notifs

\* publish, first half: nothing of what was sent changes, and the new
\* notification is the latest of its publisher.
LEMMA PublishHistoryKeeps ==
  ASSUME TypeOK, Inv, NEW t \in Publishers, PublishHistory(t)
  PROVE  Inv'
<1> DEFINE n == published + 1
<1>1. /\ published' = n /\ n \in Notifs /\ published \in Nat
      /\ UNCHANGED <<subs, inbox, client, copied, base, joined>>
      /\ sending[t] = 0 /\ sending' = [sending EXCEPT ![t] = n]
  BY ConstantsAssumption DEF PublishHistory, TypeOK, Notifs
<1>2. /\ origin' = Append(origin, t) /\ origin'[n] = t
      /\ \A k \in 1..published : origin'[k] = origin[k]
  BY DEF PublishHistory, TypeOK
<1>3. HistoryIsRecent'
  BY <1>1, Remembering DEF PublishHistory, Inv, HistoryIsRecent
<1>4. \A c \in Clients : \A i \in DOMAIN inbox[c] : inbox[c][i] \in 1..published
  BY InboxesArePublished DEF Inv
<1>5. Inboxes'
  <2>1. \A k \in Int : k <= published => k <= published'
    BY <1>1
  <2>2. \A c \in Clients : base[c] \in Int /\ joined[c] \in Int
    BY DEF TypeOK
  <2> QED BY <1>1, <1>4, <2>1, <2>2 DEF Inv, Inboxes, Inbox
<1>6. InFlight'
  BY <1>1, <1>2 DEF Inv, InFlight, TypeOK
<1>7. Deliveries'
  <2>1. \A m \in Notifs : Sent(m)' => Sent(m)
    BY <1>1 DEF Sent, TypeOK
  <2>2. \A c \in Clients : \A i \in copied[c] + 1..Len(inbox[c]) : \A s \in Publishers :
           inbox[c][i] # sending'[s]
    <3> SUFFICES ASSUME NEW c \in Clients, NEW i \in copied[c] + 1..Len(inbox[c]), NEW s \in Publishers
                 PROVE  inbox[c][i] # sending'[s]
      OBVIOUS
    <3>1. i \in DOMAIN inbox[c]
      BY DEF TypeOK
    <3>2. inbox[c][i] # sending[s] /\ inbox[c][i] # n
      BY <1>1, <1>4, <3>1 DEF Inv, Deliveries, Delivered
    <3> QED BY <1>1, <3>2 DEF TypeOK
  <2> QED BY <1>1, <2>1, <2>2 DEF Inv, Deliveries, Delivered
<1>8. InOrder'
  <2> SUFFICES ASSUME NEW c \in Clients, NEW i \in DOMAIN inbox[c], NEW j \in DOMAIN inbox[c],
                      i < j, origin'[inbox[c][i]] = origin'[inbox[c][j]]
               PROVE  inbox[c][i] <= inbox[c][j]
    BY <1>1 DEF InOrder
  <2>1. origin[inbox[c][i]] = origin[inbox[c][j]]
    BY <1>2, <1>4
  <2> QED BY <2>1 DEF Inv, InOrder
<1>9. ClientsAgree'
  BY <1>1 DEF Inv, ClientsAgree, Live
<1> QED BY <1>3, <1>5, <1>6, <1>7, <1>8, <1>9 DEF Inv

\* publish, second half: what is sent was on its way to everybody who listens,
\* and to nobody else.
LEMMA FanOutKeeps ==
  ASSUME TypeOK, Inv, NEW t \in Publishers, FanOut(t)
  PROVE  Inv'
<1> DEFINE n == sending[t]
           fan(c) == c \in subs /\ Open(c)
<1>1. /\ n \in 1..published /\ n \in Notifs /\ published \in Nat /\ origin[n] = t
      /\ \A k \in 1..published : origin[k] = t => k <= n
      /\ UNCHANGED <<history, client, published, origin, copied, base, joined>>
      /\ sending' = [sending EXCEPT ![t] = 0]
      /\ subs' = { c \in subs : Open(c) }
  BY ConstantsAssumption DEF FanOut, TypeOK, Inv, InFlight, Notifs, ghosts
<1> HIDE DEF n
<1>2. ASSUME NEW c \in Clients
      PROVE  /\ inbox[c] \in Seq(Notifs) /\ inbox'[c] \in Seq(Notifs)
             /\ copied[c] \in 0..Len(inbox[c])
             /\ ~fan(c) => inbox'[c] = inbox[c]
             /\ fan(c) => /\ inbox'[c] = Append(inbox[c], n)
                          /\ Len(inbox'[c]) = Len(inbox[c]) + 1 /\ inbox'[c][Len(inbox[c]) + 1] = n
                          /\ \A i \in 1..Len(inbox[c]) : inbox'[c][i] = inbox[c][i]
  <2>1. inbox[c] \in Seq(Notifs) /\ copied[c] \in 0..Len(inbox[c])
    BY DEF TypeOK, Inv, Inboxes, Inbox
  <2>2. inbox'[c] = IF fan(c) THEN Append(inbox[c], n) ELSE inbox[c]
    BY DEF FanOut, TypeOK, n
  <2> HIDE DEF fan
  <2> QED BY <1>1, <2>1, <2>2
<1>3. \A c \in Clients : \A i \in 1..Len(inbox[c]) : inbox[c][i] \in 1..published
  BY <1>2, InboxesArePublished DEF Inv
<1>4. \A c \in Clients : client[c] = "subscribed" => fan(c)
  BY DEF Inv, Inboxes, Inbox, Open
<1>5. \A c \in Clients : fan(c) => client[c] = "subscribed"
  BY DEF Inv, Inboxes, Inbox, Open, TypeOK, ClientStates
<1> HIDE DEF fan
<1>6. HistoryIsRecent'
  BY <1>1 DEF Inv, HistoryIsRecent
<1>7. Inboxes'
  <2> SUFFICES ASSUME NEW c \in Clients PROVE Inbox(c)'
    BY DEF Inboxes
  <2>1. Inbox(c)
    BY DEF Inv, Inboxes
  <2>2. CASE ~fan(c)
    BY <1>1, <1>2, <1>4, <2>1, <2>2 DEF Inbox
  <2>3. CASE fan(c)
    <3>1. \A i \in 1..Len(inbox[c]) + 1 : inbox'[c][i] <= published
      <4> SUFFICES ASSUME NEW i \in 1..Len(inbox[c]) + 1 PROVE inbox'[c][i] <= published
        OBVIOUS
      <4>1. CASE i \in 1..Len(inbox[c])
        BY <1>2, <1>3, <2>3, <4>1
      <4>2. CASE i = Len(inbox[c]) + 1
        BY <1>1, <1>2, <2>3, <4>2
      <4> QED BY <1>2, <4>1, <4>2
    <3>2. DOMAIN inbox'[c] = 1..Len(inbox[c]) + 1
      BY <1>2, <2>3
    <3>3. \A i \in DOMAIN inbox'[c] : inbox'[c][i] <= published'
      BY <1>1, <3>1, <3>2
    <3>4. c \in subs'
      BY <1>1, <2>3 DEF fan
    <3> QED BY <1>1, <1>2, <1>5, <2>1, <2>3, <3>3, <3>4 DEF Inbox
  <2> QED BY <2>2, <2>3
<1>8. InFlight'
  BY <1>1 DEF Inv, InFlight, TypeOK
<1>9. Deliveries'
  <2> SUFFICES ASSUME NEW c \in Clients PROVE Delivered(c)'
    BY DEF Deliveries
  <2>1. Delivered(c)
    BY DEF Inv, Deliveries
  <2>2. \A s \in Publishers : sending'[s] = IF s = t THEN 0 ELSE sending[s]
    BY <1>1 DEF TypeOK
  <2>3. \A s \in Publishers : sending'[s] # n
    BY <1>1, <2>2 DEF Inv, InFlight
  <2>4. \A i \in copied[c] + 1..Len(inbox[c]) : inbox[c][i] # n /\ i \in 1..Len(inbox[c])
    <3>1. \A i \in copied[c] + 1..Len(inbox[c]) : inbox[c][i] # n
      BY <2>1 DEF Delivered, n
    <3>2. copied[c] + 1..Len(inbox[c]) \subseteq 1..Len(inbox[c])
      BY <1>2
    <3> QED BY <3>1, <3>2
  <2>5. \A i \in copied[c] + 1..Len(inbox[c]) : \A s \in Publishers : inbox[c][i] # sending'[s]
    BY <1>3, <2>1, <2>2, <2>4 DEF Delivered
  <2>6. CASE ~fan(c)
    BY <1>1, <1>2, <1>4, <2>1, <2>5, <2>6 DEF Delivered
  <2>7. CASE fan(c)
    <3> DEFINE m == Len(inbox[c]) + 1
    <3>1. /\ Len(inbox'[c]) = m /\ inbox'[c][m] = n /\ copied'[c] = copied[c]
          /\ \A i \in 1..Len(inbox[c]) : inbox'[c][i] = inbox[c][i]
      BY <1>1, <1>2, <2>7
    <3>2. \A i \in copied[c] + 1..m : i = m \/ i \in copied[c] + 1..Len(inbox[c])
      BY <1>2
    <3> HIDE DEF m
    <3>3. ASSUME NEW i \in copied[c] + 1..m
          PROVE  /\ \A s \in Publishers : inbox'[c][i] # sending'[s]
                 /\ \A j \in copied[c] + 1..m : inbox'[c][i] = inbox'[c][j] => i = j
      BY <2>1, <2>3, <2>4, <2>5, <3>1, <3>2 DEF Delivered
    <3>4. ASSUME NEW k \in Notifs, k > joined[c], Sent(k)'
          PROVE  \E i \in DOMAIN inbox'[c] : inbox'[c][i] = k
      <4>1. m \in DOMAIN inbox'[c]
        BY <1>2, <3>1 DEF m
      <4>2. CASE k = n
        BY <3>1, <4>1, <4>2
      <4>3. CASE k # n
        <5>1. Sent(k)
          BY <1>1, <2>2, <3>4, <4>3 DEF Sent, n, TypeOK
        <5>2. PICK i \in 1..Len(inbox[c]) : inbox[c][i] = k
          <6>1. client[c] = "subscribed"
            BY <1>5, <2>7
          <6>2. \E i \in DOMAIN inbox[c] : inbox[c][i] = k
            BY <2>1, <3>4, <5>1, <6>1 DEF Delivered
          <6> QED BY <1>2, <6>2
        <5>3. i \in DOMAIN inbox'[c]
          BY <1>2, <3>1 DEF m
        <5> QED BY <3>1, <5>2, <5>3
      <4> QED BY <4>2, <4>3
    <3> QED BY <1>1, <3>1, <3>3, <3>4 DEF Delivered
  <2> QED BY <2>6, <2>7
<1>10. InOrder'
  <2> SUFFICES ASSUME NEW c \in Clients, NEW i \in DOMAIN inbox'[c], NEW j \in DOMAIN inbox'[c],
                      i < j, origin[inbox'[c][i]] = origin[inbox'[c][j]]
               PROVE  inbox'[c][i] <= inbox'[c][j]
    BY <1>1 DEF InOrder
  <2>1. CASE j \in DOMAIN inbox[c]
    <3>1. \A k \in 1..Len(inbox[c]) : inbox'[c][k] = inbox[c][k]
      <4>1. CASE fan(c)
        BY <1>2, <4>1
      <4>2. CASE ~fan(c)
        BY <1>2, <4>2
      <4> QED BY <4>1, <4>2
    <3>2. DOMAIN inbox[c] = 1..Len(inbox[c]) /\ Len(inbox[c]) \in Nat
      BY <1>2
    <3>3. i \in Nat /\ i >= 1
      BY <1>2
    <3>4. i \in DOMAIN inbox[c]
      BY <2>1, <3>2, <3>3
    <3> QED BY <2>1, <3>1, <3>2, <3>4 DEF Inv, InOrder
  <2>2. CASE j \notin DOMAIN inbox[c]
    <3>1. inbox'[c][j] = n /\ i \in 1..Len(inbox[c]) /\ inbox'[c][i] = inbox[c][i]
      <4>1. fan(c) /\ DOMAIN inbox'[c] = 1..Len(inbox[c]) + 1
        BY <1>2, <2>2
      <4>2. j = Len(inbox[c]) + 1
        BY <1>2, <2>2, <4>1
      <4> QED BY <1>2, <4>1, <4>2
    <3> QED BY <1>1, <1>3, <3>1
  <2> QED BY <2>1, <2>2
<1>11. ClientsAgree'
  <2> SUFFICES ASSUME NEW c \in Clients, NEW d \in Clients,
                      client[c] = "subscribed", client[d] = "subscribed",
                      IsSuffix(Live(c), Live(d))
               PROVE  IsSuffix(Live(c), Live(d))'
    BY <1>1 DEF Inv, ClientsAgree
  <2>1. inbox'[c] = Append(inbox[c], n) /\ inbox'[d] = Append(inbox[d], n)
    BY <1>2, <1>4
  <2>2. /\ inbox[c] \in Seq(Notifs) /\ copied[c] \in 0..Len(inbox[c])
        /\ inbox[d] \in Seq(Notifs) /\ copied[d] \in 0..Len(inbox[d])
        /\ n \in Notifs /\ copied' = copied
    BY <1>1, <1>2
  <2> QED BY <2>1, <2>2, EndingsGrow DEF Live
<1> QED BY <1>6, <1>7, <1>8, <1>9, <1>10, <1>11 DEF Inv

\* subscribe, first half: the client is given what history holds, the latest
\* notifications, and nothing was sent to it before.
LEMMA SubscribeCopyKeeps ==
  ASSUME TypeOK, Inv, NEW c \in Clients, SubscribeCopy(c)
  PROVE  Inv'
<1>1. /\ UNCHANGED <<history, subs, sending, published, origin, joined>>
      /\ client[c] = "new" /\ client' = [client EXCEPT ![c] = "copied"]
      /\ published \in Nat /\ history = Recent(published)
      /\ \A d \in Clients \ {c} : /\ client'[d] = client[d] /\ inbox'[d] = inbox[d]
                                  /\ copied'[d] = copied[d] /\ base'[d] = base[d]
      /\ client'[c] = "copied" /\ inbox'[c] = history
      /\ copied'[c] = Len(history) /\ base'[c] = published
  BY DEF SubscribeCopy, CopyOf, TypeOK, Inv, HistoryIsRecent
<1>2. /\ history \in Seq(Nat)
      /\ \A k \in 1..Len(history) : history[k] = published - Len(history) + k
      /\ Len(history) = IF published > HistoryLimit THEN HistoryLimit ELSE published
  <2>1. published \in Nat /\ history = Recent(published)
    BY <1>1
  <2>2. Len(history) = IF published > HistoryLimit THEN HistoryLimit ELSE published
    BY <2>1, RecentIs
  <2>3. \A k \in 1..Len(history) : history[k] = published - Len(history) + k
    BY <2>1, RecentIs
  <2> QED BY <2>1, <2>2, <2>3, RecentIs
<1>3. /\ Len(history) <= published /\ DOMAIN history = 1..Len(history)
      /\ \A k \in DOMAIN history : history[k] <= published
      /\ \A i, j \in DOMAIN history : i < j => history[i] <= history[j]
  <2>1. /\ DOMAIN history = 1..Len(history) /\ Len(history) \in Nat
        /\ published \in Nat /\ Len(history) <= published
    BY <1>1, <1>2, ConstantsAssumption
  <2>2. \A k \in DOMAIN history : history[k] <= published
    BY <1>2, <2>1
  <2>3. \A i, j \in DOMAIN history : i < j => history[i] <= history[j]
    BY <1>2, <2>1
  <2> QED BY <2>1, <2>2, <2>3
<1>4. Inbox(c) /\ c \notin subs
  BY <1>1 DEF Inv, Inboxes, Inbox
<1>5. HistoryIsRecent'
  BY <1>1 DEF HistoryIsRecent
<1>6. Inboxes'
  <2> SUFFICES ASSUME NEW d \in Clients PROVE Inbox(d)'
    BY DEF Inboxes
  <2> USE DEF Inbox
  <2>1. CASE d # c
    <3>1. Inbox(d)
      BY <1>1 DEF Inv, Inboxes
    <3>2. /\ client'[d] = client[d] /\ inbox'[d] = inbox[d] /\ copied'[d] = copied[d]
          /\ base'[d] = base[d] /\ joined' = joined /\ subs' = subs /\ published' = published
      BY <1>1, <2>1
    <3> QED BY <3>1, <3>2
  <2>2. CASE d = c
    <3>1. /\ copied'[c] = Len(inbox'[c]) /\ base'[c] = published' /\ c \notin subs'
          /\ client'[c] = "copied" /\ joined'[c] <= published'
      BY <1>1, <1>4
    <3>2. inbox'[c] = Recent(base'[c])
      BY <1>1
    <3>3. copied'[c] \in Nat /\ published' \in Nat
      BY <1>1, <1>2
    <3>4. \A i \in DOMAIN inbox'[c] : inbox'[c][i] <= published'
      BY <1>1, <1>3
    <3> QED BY <2>2, <3>1, <3>2, <3>3, <3>4
  <2> QED BY <2>1, <2>2
<1>7. InFlight'
  BY <1>1 DEF Inv, InFlight
<1>8. Deliveries'
  <2> SUFFICES ASSUME NEW d \in Clients PROVE Delivered(d)'
    BY DEF Deliveries
  <2>1. \A k \in Notifs : Sent(k)' <=> Sent(k)
    BY <1>1 DEF Sent
  <2>2. CASE d # c
    BY <1>1, <2>1, <2>2 DEF Inv, Deliveries, Delivered
  <2>3. CASE d = c
    BY <1>1, <1>2, <2>3 DEF Delivered
  <2> QED BY <2>2, <2>3
<1>9. InOrder'
  <2> SUFFICES ASSUME NEW d \in Clients, NEW i \in DOMAIN inbox'[d], NEW j \in DOMAIN inbox'[d],
                      i < j, origin[inbox'[d][i]] = origin[inbox'[d][j]]
               PROVE  inbox'[d][i] <= inbox'[d][j]
    BY <1>1 DEF InOrder
  <2>1. CASE d # c
    BY <1>1, <2>1 DEF Inv, InOrder
  <2>2. CASE d = c
    BY <1>1, <1>3, <2>2
  <2> QED BY <2>1, <2>2
<1>10. ClientsAgree'
  <2> SUFFICES ASSUME NEW d \in Clients, NEW e \in Clients,
                      client'[d] = "subscribed", client'[e] = "subscribed"
               PROVE  (IsSuffix(Live(d), Live(e)) \/ IsSuffix(Live(e), Live(d)))'
    BY DEF ClientsAgree
  <2>1. d # c /\ e # c
    BY <1>1
  <2>2. Live(d)' = Live(d) /\ Live(e)' = Live(e)
    BY <1>1, <2>1 DEF Live
  <2> QED BY <1>1, <2>1, <2>2 DEF Inv, ClientsAgree
<1> QED BY <1>5, <1>6, <1>7, <1>8, <1>9, <1>10 DEF Inv

\* subscribe, second half: the client has been sent nothing yet, and all that
\* is published from now on goes to it.
LEMMA SubscribeListKeeps ==
  ASSUME TypeOK, Inv, NEW c \in Clients, SubscribeList(c)
  PROVE  Inv'
<1>1. /\ UNCHANGED <<history, inbox, sending, published, origin, copied, base>>
      /\ client[c] = "copied" /\ subs' = subs \cup {c} /\ published \in Nat
      /\ \A d \in Clients \ {c} : client'[d] = client[d] /\ joined'[d] = joined[d]
      /\ client'[c] = "subscribed" /\ joined'[c] = published
  BY DEF SubscribeList, TypeOK
<1>2. Inbox(c) /\ Len(inbox[c]) = copied[c]
  BY <1>1 DEF Inv, Inboxes, Inbox
<1>3. HistoryIsRecent'
  BY <1>1 DEF Inv, HistoryIsRecent
<1>4. Inboxes'
  <2> SUFFICES ASSUME NEW d \in Clients PROVE Inbox(d)'
    BY DEF Inboxes
  <2> USE DEF Inbox
  <2>1. CASE d # c
    BY <1>1, <2>1 DEF Inv, Inboxes
  <2>2. CASE d = c
    BY <1>1, <1>2, <2>2
  <2> QED BY <2>1, <2>2
<1>5. InFlight' /\ InOrder'
  BY <1>1 DEF Inv, InFlight, InOrder
<1>6. Deliveries'
  <2> SUFFICES ASSUME NEW d \in Clients PROVE Delivered(d)'
    BY DEF Deliveries
  <2>1. \A k \in Notifs : Sent(k)' <=> Sent(k)
    BY <1>1 DEF Sent
  <2>2. Delivered(d)
    BY DEF Inv, Deliveries
  <2>3. CASE d # c
    BY <1>1, <2>1, <2>2, <2>3 DEF Delivered
  <2>4. CASE d = c
    <3>1. \A k \in Notifs : ~(k > joined'[c] /\ Sent(k)')
      BY <1>1 DEF Sent, Notifs
    <3> QED BY <1>1, <1>2, <2>4, <3>1 DEF Delivered
  <2> QED BY <2>3, <2>4
<1>7. ClientsAgree'
  <2> SUFFICES ASSUME NEW d \in Clients, NEW e \in Clients,
                      client'[d] = "subscribed", client'[e] = "subscribed"
               PROVE  (IsSuffix(Live(d), Live(e)) \/ IsSuffix(Live(e), Live(d)))'
    BY DEF ClientsAgree
  <2>1. \A x \in Clients : Live(x)' = Live(x)
    BY <1>1 DEF Live
  <2>2. CASE d # c /\ e # c
    BY <1>1, <2>1, <2>2 DEF Inv, ClientsAgree
  <2>3. \A x \in Clients : inbox[x] \in Seq(Notifs) /\ copied[x] \in 0..Len(inbox[x])
    BY DEF TypeOK, Inv, Inboxes, Inbox
  <2>4. \A x \in Clients : IsSuffix(Live(c), Live(x))
    <3> SUFFICES ASSUME NEW x \in Clients PROVE IsSuffix(Live(c), Live(x))
      OBVIOUS
    <3>1. /\ inbox[c] \in Seq(Notifs) /\ copied[c] \in 0..Len(inbox[c])
          /\ inbox[x] \in Seq(Notifs) /\ copied[x] \in 0..Len(inbox[x])
      BY <2>3
    <3>2. /\ Len(inbox[c]) - copied[c] <= Len(inbox[x]) - copied[x]
          /\ copied[c] + 1..Len(inbox[c]) = {}
      BY <1>2, <3>1
    <3> QED BY <3>1, <3>2, EndingIs DEF Live
  <2> QED BY <2>1, <2>2, <2>4
<1> QED BY <1>3, <1>4, <1>5, <1>6, <1>7 DEF Inv

\* A client that hangs up: nothing is asked of it any more.
LEMMA HangUpKeeps ==
  ASSUME TypeOK, Inv, NEW c \in Clients, HangUp(c)
  PROVE  Inv'
<1>1. /\ UNCHANGED <<history, subs, inbox, sending, published, origin, copied, base, joined>>
      /\ client[c] = "subscribed" /\ client'[c] = "gone"
      /\ \A d \in Clients \ {c} : client'[d] = client[d]
  BY DEF HangUp, shared, ghosts, TypeOK
<1>2. HistoryIsRecent' /\ InFlight' /\ InOrder'
  BY <1>1 DEF Inv, HistoryIsRecent, InFlight, InOrder
<1>3. Inboxes'
  BY <1>1 DEF Inv, Inboxes, Inbox
<1>4. Deliveries'
  BY <1>1 DEF Inv, Deliveries, Delivered, Sent
<1>5. ClientsAgree'
  BY <1>1 DEF Inv, ClientsAgree, Live
<1> QED BY <1>2, <1>3, <1>4, <1>5 DEF Inv

-----------------------------------------------------------------------------
(* The invariant, and what follows from it *)

\* The inductive invariant holds in every reachable state of publishers and
\* connection threads.
THEOREM Invariance == Spec => []Inv
<1>1. ASSUME Init PROVE Inv
  <2>1. HistoryIsRecent
    <3>1. Recent(0) = <<>>
      BY RecentIs, ConstantsAssumption
    <3> QED BY <1>1, <3>1 DEF Init, HistoryIsRecent
  <2>2. Inboxes /\ InFlight /\ Deliveries /\ InOrder /\ ClientsAgree
    BY <1>1 DEF Init, Inboxes, Inbox, InFlight, Deliveries, Delivered, InOrder, ClientsAgree
  <2> QED BY <2>1, <2>2 DEF Inv
<1>2. TypeOK /\ Inv /\ [Next]_vars => Inv'
  <2> SUFFICES ASSUME TypeOK, Inv, [Next]_vars PROVE Inv'
    OBVIOUS
  <2>1. CASE UNCHANGED vars
    BY <2>1 DEF Inv, HistoryIsRecent, Inboxes, Inbox, InFlight, Deliveries, Delivered, Sent, InOrder,
                ClientsAgree, Live, vars, shared, ghosts
  <2> QED
    BY <2>1, PublishHistoryKeeps, FanOutKeeps, SubscribeCopyKeeps, SubscribeListKeeps, HangUpKeeps
    DEF Next, Publish, Subscribe
<1> QED BY <1>1, <1>2, TypeCorrect, PTL DEF Spec

\* In a replay, each notification appears once and is no later than the base.
LEMMA ReplayIs ==
  ASSUME TypeOK, Inv, NEW c \in Clients, client[c] # "new", NEW i \in 1..copied[c]
  PROVE  /\ inbox[c][i] = base[c] - copied[c] + i
         /\ i \in DOMAIN inbox[c] /\ copied[c] \in Nat /\ base[c] \in Nat
<1>1. base[c] \in Nat /\ copied[c] \in Nat /\ DOMAIN inbox[c] = 1..Len(inbox[c]) /\ Len(inbox[c]) \in Nat
  BY ConstantsAssumption DEF TypeOK
<1>2. /\ copied[c] = Len(Recent(base[c])) /\ inbox[c][i] = Recent(base[c])[i]
      /\ copied[c] <= Len(inbox[c])
  BY DEF Inv, Inboxes, Inbox
<1>3. Recent(base[c])[i] = base[c] - copied[c] + i
  <2> DEFINE r == Recent(base[c])
  <2>1. \A k \in 1..Len(r) : r[k] = base[c] - Len(r) + k
    BY <1>1, RecentIs
  <2> HIDE DEF r
  <2>2. i \in 1..Len(r) /\ Len(r) = copied[c]
    BY <1>2 DEF r
  <2> QED BY <2>1, <2>2 DEF r
<1> QED BY <1>1, <1>2, <1>3

\* ExactlyOnceOnceSubscribed: what is published after subscribe returned is in
\* the client's inbox exactly once, and nothing is anywhere more than twice.
THEOREM DeliveredOnce == Spec => []ExactlyOnceOnceSubscribed
<1>1. ASSUME TypeOK, Inv PROVE ExactlyOnceOnceSubscribed
  <2> SUFFICES ASSUME NEW c \in Clients, NEW n \in Notifs
               PROVE  /\ client[c] = "subscribed" /\ n > joined[c] /\ Sent(n)
                           => \E i \in DOMAIN inbox[c] : Times(c, n) = {i}
                      /\ \A i, j, k \in Times(c, n) : i = j \/ j = k \/ i = k
    BY DEF ExactlyOnceOnceSubscribed
  <2>1. /\ copied[c] \in Nat /\ Len(inbox[c]) \in Nat /\ DOMAIN inbox[c] = 1..Len(inbox[c])
        /\ joined[c] \in Int /\ Inbox(c) /\ Delivered(c)
    BY <1>1 DEF TypeOK, Inv, Inboxes, Deliveries
  <2>2. \A i \in DOMAIN inbox[c] : i \in 1..copied[c] \/ i \in copied[c] + 1..Len(inbox[c])
    BY <2>1
  <2>3. ASSUME NEW i \in copied[c] + 1..Len(inbox[c]), NEW j \in copied[c] + 1..Len(inbox[c]),
               inbox[c][i] = inbox[c][j]
        PROVE  i = j
    BY <2>1, <2>3 DEF Delivered
  <2>4. ASSUME NEW i \in 1..copied[c]
        PROVE  client[c] # "new"
    BY <2>1 DEF Inbox
  <2>5. ASSUME NEW i \in 1..copied[c], NEW j \in 1..copied[c], inbox[c][i] = inbox[c][j]
        PROVE  i = j
    <3>1. inbox[c][i] = base[c] - copied[c] + i /\ inbox[c][j] = base[c] - copied[c] + j
          /\ base[c] \in Nat /\ copied[c] \in Nat
      BY <1>1, <2>4, ReplayIs
    <3>2. base[c] - copied[c] + i = base[c] - copied[c] + j
      BY <2>5, <3>1
    <3> QED BY <3>1, <3>2
  <2>6. ASSUME client[c] = "subscribed", n > joined[c], Sent(n)
        PROVE  \E i \in DOMAIN inbox[c] : Times(c, n) = {i}
    <3>1. PICK i \in DOMAIN inbox[c] : inbox[c][i] = n
      BY <2>1, <2>6 DEF Delivered
    <3>2. ASSUME NEW j \in DOMAIN inbox[c], inbox[c][j] = n
          PROVE  j \in copied[c] + 1..Len(inbox[c])
      <4>1. CASE j \in 1..copied[c]
        <5>1. inbox[c][j] = base[c] - copied[c] + j /\ base[c] \in Nat /\ base[c] <= joined[c]
          BY <1>1, <2>1, <2>6, <4>1, ReplayIs DEF Inbox
        <5> QED BY <2>1, <2>6, <3>2, <4>1, <5>1
      <4> QED BY <2>2, <4>1
    <3> QED BY <2>3, <3>1, <3>2 DEF Times
  <2>7. ASSUME NEW i \in Times(c, n), NEW j \in Times(c, n), NEW k \in Times(c, n)
        PROVE  i = j \/ j = k \/ i = k
    BY <2>2, <2>3, <2>5 DEF Times
  <2> QED BY <2>6, <2>7
<1> QED BY <1>1, Invariance, TypeCorrect, PTL

\* PublisherOrder: a replay is the latest notifications before it, and no
\* client sees one publisher's notifications out of order.
THEOREM OrderKept == Spec => []PublisherOrder
<1>1. ASSUME TypeOK, Inv PROVE PublisherOrder
  <2>1. ASSUME NEW c \in Clients, client[c] # "new"
        PROVE  SubSeq(inbox[c], 1, copied[c]) = Recent(base[c])
    <3> DEFINE replay == SubSeq(inbox[c], 1, copied[c])
               r == Recent(base[c])
    <3>1. /\ inbox[c] \in Seq(Notifs) /\ copied[c] \in 0..Len(inbox[c]) /\ base[c] \in Nat
          /\ copied[c] = Len(r) /\ \A i \in 1..copied[c] : inbox[c][i] = r[i]
      BY <1>1, <2>1, ConstantsAssumption DEF TypeOK, Inv, Inboxes, Inbox
    <3>2. r \in Seq(Nat)
      BY <3>1, RecentIs
    <3>3. \A i \in 1..copied[c] : inbox[c][i] \in Nat
      <4>1. \A i \in 1..copied[c] : inbox[c][i] \in Notifs
        BY <3>1
      <4> QED BY <4>1 DEF Notifs
    <3>4. /\ replay \in Seq(Nat) /\ Len(replay) = copied[c]
          /\ \A i \in 1..copied[c] : replay[i] = inbox[c][i]
      BY <3>1, <3>3, SubSeqProperties
    <3> HIDE DEF replay, r
    <3>5. replay = r
      BY <3>1, <3>2, <3>4, SeqEqual
    <3> QED BY <3>5 DEF replay, r
  <2> QED BY <1>1, <2>1 DEF PublisherOrder, Inv, InOrder
<1> QED BY <1>1, Invariance, TypeCorrect, PTL

\* ClientsAgree: of two clients that listen, one has been sent an ending of
\* what the other has.
THEOREM AllAgree == Spec => []ClientsAgree
BY Invariance, PTL DEF Inv

-----------------------------------------------------------------------------
(* The discovery registry: the inductive invariant                         *)
(*                                                                         *)
(* A daemon decides that an entry is stale in one step and removes it in   *)
(* another.  As long as the OS gives no pid out again that the registry    *)
(* still knows, what it removes is still dead then (DoomedIsDead), and an  *)
(* entry it has to remove is ahead of it or in its hands (Ahead).          *)

\* Daemons are numbered as they start.
Numbered == \A p \in Pids : daemon[p] <= starts

\* The pid of an entry about to be removed is dead.
DoomedIsDead == \A p \in Pids : doomed[p] # 0 => ~Alive(doomed[p])

\* A daemon with a pid that was stale when p started came after p.
Successors == \A p \in Pids : \A q \in stale[p] : Alive(q) => daemon[q] > daemon[p]

\* q's entry is older than p, of a dead daemon, and p has yet to look at it or
\* to remove it.
ToRemove(p, q) ==
  /\ ~Alive(q)
  /\ \/ pc[p] = "read"
     \/ pc[p] = "prune" /\ (q \in todo[p] \/ doomed[p] = q)

Ahead ==
  \A p \in Pids : \A q \in stale[p] :
    entry[q] = 0 \/ entry[q] > daemon[p] \/ ToRemove(p, q)

DRInv == DRTypeOK /\ Numbered /\ DoomedIsDead /\ Successors /\ Ahead /\ LiveIsListed

-----------------------------------------------------------------------------
(* The discovery registry: types *)

\* Every step keeps the types.
LEMMA DRTypesKept == DRTypeOK /\ [DRNext]_DRvars => DRTypeOK'
<1> SUFFICES ASSUME DRTypeOK, [DRNext]_DRvars  PROVE DRTypeOK'
  OBVIOUS
<1> USE DRAssumption
<1>1. ASSUME NEW p \in Pids, Start(p)  PROVE DRTypeOK'
  <2>1. starts' \in 0..MaxStarts /\ starts' # 0
    BY <1>1 DEF Start, DRTypeOK
  <2>2. Dead \subseteq Pids
    BY DEF Dead
  <2> QED  BY <1>1, <2>1, <2>2 DEF Start, DRTypeOK, files, Alive
<1>2. ASSUME NEW p \in Pids, ReadDir(p)  PROVE DRTypeOK'
  <2>1. Listed \subseteq Pids
    BY DEF Listed
  <2> QED  BY <1>2, <2>1 DEF ReadDir, At, DRTypeOK, files
<1>3. ASSUME NEW p \in Pids, PruneRemove(p)  PROVE DRTypeOK'
  <2>1. /\ entry' \in [Pids -> 0..MaxStarts] /\ stale' \in [Pids -> SUBSET Pids]
    BY <1>3 DEF PruneRemove, DRTypeOK
  <2> QED  BY <1>3, <2>1 DEF PruneRemove, DRTypeOK
<1>4. ASSUME NEW p \in Pids, PruneDone(p)  PROVE DRTypeOK'
  BY <1>4 DEF PruneDone, At, DRTypeOK, files
<1>5. ASSUME NEW p \in Pids, WriteEntry(p)  PROVE DRTypeOK'
  BY <1>5 DEF WriteEntry, At, DRTypeOK
<1>6. ASSUME NEW p \in Pids, WriteEntryFails(p)  PROVE DRTypeOK'
  BY <1>6 DEF WriteEntryFails, At, DRTypeOK
<1>7. ASSUME NEW p \in Pids, WriteLatest(p)  PROVE DRTypeOK'
  <2>1. latest' \in 0..MaxStarts
    BY <1>7 DEF WriteLatest, DRTypeOK
  <2> QED  BY <1>7, <2>1 DEF WriteLatest, At, DRTypeOK
<1>8. ASSUME NEW p \in Pids, NEW q \in Pids, PruneCheck(p, q)  PROVE DRTypeOK'
  BY <1>8 DEF PruneCheck, DRTypeOK, files
<1>9. ASSUME NEW p \in Pids, SpawnBeacon(p)  PROVE DRTypeOK'
  BY <1>9 DEF SpawnBeacon, DRTypeOK, files
<1>10. ASSUME NEW p \in Pids, Shutdown(p) \/ Crash(p)  PROVE DRTypeOK'
  <2>1. entry' \in [Pids -> 0..MaxStarts]
    BY <1>10 DEF Shutdown, Crash, DRTypeOK
  <2>2. Gone(p)
    BY <1>10 DEF Shutdown, Crash
  <2> QED  BY <2>1, <2>2 DEF Gone, DRTypeOK
<1>11. CASE UNCHANGED DRvars
  BY <1>11 DEF DRvars, files, DRTypeOK
<1> QED
  BY <1>1, <1>2, <1>3, <1>4, <1>5, <1>6, <1>7, <1>8, <1>9, <1>10, <1>11 DEF DRNext, PublishRegistry

\* The types of the variables, with pids reused or not.
THEOREM DRTypeCorrect == DRSpec => []DRTypeOK
<1>1. DRInit => DRTypeOK
  BY DRAssumption DEF DRInit, DRTypeOK
<1> QED  BY <1>1, DRTypesKept, PTL DEF DRSpec

-----------------------------------------------------------------------------
(* The discovery registry: the steps, while pids are not reused *)

\* A pid that is given out is in no directory that a daemon has read, and no
\* entry has it.
LEMMA StartKeeps ==
  ASSUME DRInv, DRTypeOK', ~PidsReused, NEW p \in Pids, Start(p)
  PROVE  DRInv'
<1> USE DEF DRInv
<1>1. /\ daemon' = [daemon EXCEPT ![p] = starts + 1] /\ starts' = starts + 1
      /\ pc' = [pc EXCEPT ![p] = "read"] /\ stale' = [stale EXCEPT ![p] = Dead]
      /\ UNCHANGED <<todo, doomed, entry>> /\ ~Alive(p) /\ p \notin Used
  BY DEF Start, files
<1>2. entry[p] = 0 /\ \A q \in Pids : p \notin todo[q] /\ p # doomed[q]
  BY <1>1 DEF Used
<1>3. p \notin Dead /\ Dead \subseteq Pids /\ \A q \in Dead : ~Alive(q)
  BY <1>2 DEF Dead
<1>4. \A q : q # p => (Alive(q)' <=> Alive(q))
  BY <1>1 DEF Alive, DRTypeOK
<1>5. daemon'[p] = starts + 1 /\ starts \in Nat /\ \A q \in Pids : daemon[q] \in Nat /\ entry[q] \in Nat
  BY <1>1 DEF DRTypeOK
<1>6. Numbered'
  BY <1>1, <1>5 DEF Numbered, DRTypeOK
<1>7. DoomedIsDead'
  BY <1>1, <1>2, <1>4 DEF DoomedIsDead
<1>8. Successors'
  <2> SUFFICES ASSUME NEW r \in Pids, NEW q \in stale'[r], Alive(q)'  PROVE daemon'[q] > daemon'[r]
    BY DEF Successors
  <2>1. CASE r = p
    BY <1>1, <1>3, <1>4, <2>1 DEF DRTypeOK
  <2>2. CASE r # p /\ q = p
    BY <1>1, <1>5, <2>2 DEF Numbered, DRTypeOK
  <2>3. CASE r # p /\ q # p
    BY <1>1, <1>4, <2>3 DEF Successors, DRTypeOK
  <2> QED  BY <2>1, <2>2, <2>3
<1>9. Ahead'
  <2> SUFFICES ASSUME NEW r \in Pids, NEW q \in stale'[r]
               PROVE  entry'[q] = 0 \/ entry'[q] > daemon'[r] \/ ToRemove(r, q)'
    BY DEF Ahead
  <2>1. CASE r = p
    BY <1>1, <1>3, <1>4, <2>1 DEF ToRemove, DRTypeOK
  <2>2. CASE r # p /\ q = p
    BY <1>1, <1>2, <2>2
  <2>3. CASE r # p /\ q # p
    BY <1>1, <1>4, <2>3 DEF Ahead, ToRemove, DRTypeOK
  <2> QED  BY <2>1, <2>2, <2>3
<1>10. LiveIsListed'
  BY <1>1 DEF LiveIsListed, DRTypeOK
<1> QED  BY <1>6, <1>7, <1>8, <1>9, <1>10

\* What a daemon does to publish itself.
LEMMA PublishKeeps ==
  ASSUME DRInv, DRTypeOK', NEW p \in Pids, PublishRegistry(p)
  PROVE  DRInv'
<1> USE DEF DRInv
<1>1. UNCHANGED <<daemon, starts>> /\ \A q \in Pids : stale'[q] \subseteq stale[q]
  BY DEF PublishRegistry, ReadDir, PruneRemove, PruneDone, WriteEntry,
      WriteEntryFails, WriteLatest, PruneCheck, DRTypeOK
<1>2. \A q : Alive(q)' <=> Alive(q)
  BY <1>1 DEF Alive
<1>3. Numbered' /\ Successors'
  BY <1>1, <1>2 DEF Numbered, Successors
<1>4. \A q \in Pids : stale[q] \subseteq Pids /\ daemon[q] \in Nat /\ entry[q] \in Nat
  BY DEF DRTypeOK
<1>5. CASE ReadDir(p)
  <2>1. /\ pc[p] = "read" /\ pc' = [pc EXCEPT ![p] = "prune"] /\ UNCHANGED <<doomed, entry>>
        /\ \A q \in stale'[p] : entry[q] = 0 \/ q \in todo'[p]
        /\ \A r \in Pids : r # p => todo'[r] = todo[r]
    BY <1>5 DEF ReadDir, At, files, Listed, DRTypeOK
  <2>2. DoomedIsDead'
    BY <1>2, <2>1 DEF DoomedIsDead
  <2>3. Ahead'
    <3> SUFFICES ASSUME NEW r \in Pids, NEW q \in stale'[r]
                 PROVE  entry'[q] = 0 \/ entry'[q] > daemon'[r] \/ ToRemove(r, q)'
      BY DEF Ahead
    <3>1. CASE r = p
      BY <1>1, <1>2, <1>4, <2>1, <3>1 DEF Ahead, ToRemove, DRTypeOK
    <3>2. CASE r # p
      BY <1>1, <1>2, <2>1, <3>2 DEF Ahead, ToRemove, DRTypeOK
    <3> QED  BY <3>1, <3>2
  <2>4. LiveIsListed'
    BY <1>1, <2>1 DEF LiveIsListed, DRTypeOK
  <2> QED  BY <1>3, <2>2, <2>3, <2>4
<1>6. ASSUME NEW x \in Pids, PruneCheck(p, x)  PROVE DRInv'
  <2>1. /\ pc[p] = "prune" /\ doomed[p] = 0 /\ UNCHANGED <<pc, entry>>
        /\ todo' = [todo EXCEPT ![p] = @ \ {x}]
        /\ doomed' = [doomed EXCEPT ![p] = IF Alive(x) THEN 0 ELSE x]
    BY <1>6 DEF PruneCheck, files
  <2>2. DoomedIsDead'
    BY <1>2, <2>1 DEF DoomedIsDead, DRTypeOK
  <2>3. Ahead'
    <3> SUFFICES ASSUME NEW r \in Pids, NEW q \in stale[r]
                 PROVE  entry'[q] = 0 \/ entry'[q] > daemon'[r] \/ ToRemove(r, q)'
      BY <1>1 DEF Ahead
    <3>1. CASE r = p
      BY <1>1, <1>2, <1>4, <2>1, <3>1, DRAssumption
      DEF Ahead, ToRemove, DRTypeOK
    <3>2. CASE r # p
      BY <1>1, <1>2, <2>1, <3>2 DEF Ahead, ToRemove, DRTypeOK
    <3> QED  BY <3>1, <3>2
  <2>4. LiveIsListed'
    BY <1>1, <2>1 DEF LiveIsListed
  <2> QED  BY <1>3, <2>2, <2>3, <2>4
<1>7. CASE PruneRemove(p)
  <2>1. /\ doomed[p] # 0 /\ UNCHANGED <<pc, todo>>
        /\ entry' \in {entry, [entry EXCEPT ![doomed[p]] = 0]}
        /\ entry' = entry => doomed[p] \notin stale'[p] \/ entry[doomed[p]] = 0
        /\ doomed' = [doomed EXCEPT ![p] = 0]
    BY <1>7 DEF PruneRemove, DRTypeOK
  <2>2. doomed[p] \in Pids /\ ~Alive(doomed[p])
    BY <2>1 DEF DoomedIsDead, DRTypeOK
  <2>3. DoomedIsDead'
    BY <1>2, <2>1 DEF DoomedIsDead, DRTypeOK
  <2>4. Ahead'
    <3> SUFFICES ASSUME NEW r \in Pids, NEW q \in stale'[r], entry'[q] # 0
                 PROVE  entry'[q] > daemon'[r] \/ ToRemove(r, q)'
      BY DEF Ahead
    <3>1. q \in Pids /\ q \in stale[r] /\ entry'[q] = entry[q]
      BY <1>1, <1>4, <2>1, <2>2 DEF DRTypeOK
    <3>2. r = p => q # doomed[p]
      BY <2>1, <2>2, <3>1 DEF DRTypeOK
    <3> QED  BY <1>1, <1>2, <1>4, <2>1, <3>1, <3>2 DEF Ahead, ToRemove, DRTypeOK
  <2>5. LiveIsListed'
    <3> SUFFICES ASSUME NEW r \in Pids, pc[r] \in {"latest", "up"}  PROVE entry'[r] = daemon[r]
      BY <1>1, <2>1 DEF LiveIsListed
    <3>1. r # doomed[p]
      BY <2>2 DEF Alive, DRTypeOK
    <3> QED  BY <2>1, <2>2, <3>1 DEF LiveIsListed, DRTypeOK
  <2> QED  BY <1>3, <2>3, <2>4, <2>5
<1>8. CASE PruneDone(p)
  <2>1. /\ todo[p] = {} /\ doomed[p] = 0 /\ pc[p] = "prune" /\ pc' = [pc EXCEPT ![p] = "write"]
        /\ UNCHANGED <<todo, doomed, entry>>
    BY <1>8 DEF PruneDone, At, files
  <2>2. DoomedIsDead'
    BY <1>2, <2>1 DEF DoomedIsDead
  <2>3. Ahead'
    <3> SUFFICES ASSUME NEW r \in Pids, NEW q \in stale[r]
                 PROVE  entry'[q] = 0 \/ entry'[q] > daemon'[r] \/ ToRemove(r, q)'
      BY <1>1 DEF Ahead
    <3>1. CASE r = p
      BY <1>1, <1>4, <2>1, <3>1, DRAssumption
      DEF Ahead, ToRemove
    <3>2. CASE r # p
      BY <1>1, <1>2, <2>1, <3>2 DEF Ahead, ToRemove, DRTypeOK
    <3> QED  BY <3>1, <3>2
  <2>4. LiveIsListed'
    BY <1>1, <2>1 DEF LiveIsListed, DRTypeOK
  <2> QED  BY <1>3, <2>2, <2>3, <2>4
<1>9. CASE WriteEntry(p) \/ WriteEntryFails(p)
  <2>1. /\ pc[p] = "write" /\ pc' \in {[pc EXCEPT ![p] = "latest"], [pc EXCEPT ![p] = "unlisted"]}
        /\ entry' \in {entry, [entry EXCEPT ![p] = daemon[p]]} /\ UNCHANGED <<todo, doomed>>
        /\ pc'[p] = "latest" => entry'[p] = daemon[p]
    BY <1>9 DEF WriteEntry, WriteEntryFails, At, DRTypeOK
  <2>2. Alive(p)
    BY <2>1 DEF Alive, DRTypeOK
  <2>3. DoomedIsDead'
    BY <1>2, <2>1 DEF DoomedIsDead
  <2>4. Ahead'
    <3> SUFFICES ASSUME NEW r \in Pids, NEW q \in stale[r]
                 PROVE  entry'[q] = 0 \/ entry'[q] > daemon'[r] \/ ToRemove(r, q)'
      BY <1>1 DEF Ahead
    <3>1. ToRemove(r, q) => ToRemove(r, q)'
      BY <1>2, <2>1 DEF ToRemove, DRTypeOK
    <3>2. CASE entry'[q] = entry[q]
      BY <1>1, <3>1, <3>2 DEF Ahead
    <3>3. CASE entry'[q] # entry[q]
      <4>1. q = p /\ entry'[q] = daemon[p]
        BY <1>4, <2>1, <3>3 DEF DRTypeOK
      <4> QED  BY <1>1, <2>2, <4>1 DEF Successors
    <3> QED  BY <3>2, <3>3
  <2>5. LiveIsListed'
    BY <1>1, <2>1 DEF LiveIsListed, DRTypeOK
  <2> QED  BY <1>3, <2>3, <2>4, <2>5
<1>10. CASE WriteLatest(p)
  <2>1. /\ pc[p] = "latest" /\ pc' = [pc EXCEPT ![p] = "up"]
        /\ UNCHANGED <<todo, doomed, entry>>
    BY <1>10 DEF WriteLatest, At
  <2>2. DoomedIsDead'
    BY <1>2, <2>1 DEF DoomedIsDead
  <2>3. \A r \in Pids : \A q : ToRemove(r, q) => ToRemove(r, q)'
    BY <1>2, <2>1 DEF ToRemove, DRTypeOK
  <2>4. Ahead'
    BY <1>1, <2>1, <2>3 DEF Ahead
  <2>5. LiveIsListed'
    BY <1>1, <2>1 DEF LiveIsListed, DRTypeOK
  <2> QED  BY <1>3, <2>2, <2>4, <2>5
<1> QED  BY <1>5, <1>6, <1>7, <1>8, <1>9, <1>10 DEF PublishRegistry

\* A daemon goes: what is gone stays dead, and its own duties go with it.
LEMMA GoneKeeps ==
  ASSUME DRInv, DRTypeOK', NEW p \in Pids, Shutdown(p) \/ Crash(p)
  PROVE  DRInv'
<1> USE DEF DRInv
<1>1. /\ daemon' = [daemon EXCEPT ![p] = 0] /\ pc' = [pc EXCEPT ![p] = "none"]
      /\ todo' = [todo EXCEPT ![p] = {}] /\ doomed' = [doomed EXCEPT ![p] = 0]
      /\ stale' = [stale EXCEPT ![p] = {}] /\ starts' = starts
      /\ entry' \in {entry, [entry EXCEPT ![p] = 0]}
  BY DEF Shutdown, Crash, Gone
<1>2. \A q \in Pids : ~Alive(q) => ~Alive(q)'
  BY <1>1 DEF Alive, DRTypeOK
<1>3. \A q \in Pids : stale[q] \subseteq Pids /\ daemon[q] \in Nat /\ entry[q] \in Nat /\ starts \in Nat
  BY DEF DRTypeOK
<1>4. \A r \in Pids : r # p => /\ daemon'[r] = daemon[r] /\ pc'[r] = pc[r] /\ todo'[r] = todo[r]
                                /\ doomed'[r] = doomed[r] /\ stale'[r] = stale[r] /\ entry'[r] = entry[r]
                                /\ (Alive(r)' <=> Alive(r))
  BY <1>1 DEF Alive, DRTypeOK
<1>5. /\ daemon'[p] = 0 /\ pc'[p] = "none" /\ doomed'[p] = 0 /\ stale'[p] = {} /\ ~Alive(p)'
      /\ entry'[p] \in {0, entry[p]}
  BY <1>1, <1>3 DEF Alive, DRTypeOK
<1>6. Numbered'
  <2>1. \A q \in Pids : daemon'[q] \in {0, daemon[q]} /\ daemon[q] <= starts
    BY <1>4, <1>5 DEF Numbered
  <2> QED  BY <1>1, <1>3, <2>1 DEF Numbered
<1>7. DoomedIsDead'
  <2>1. ASSUME NEW q \in Pids, doomed'[q] # 0 PROVE daemon'[doomed'[q]] = 0
    <3>1. q # p /\ doomed'[q] = doomed[q]
      BY <1>4, <1>5, <2>1
    <3>2. doomed[q] \in Pids /\ ~Alive(doomed[q])
      BY <2>1, <3>1 DEF DoomedIsDead, DRTypeOK
    <3> QED  BY <1>2, <3>1, <3>2 DEF Alive
  <2> QED  BY <2>1 DEF DoomedIsDead, Alive
<1>8. Successors'
  BY <1>3, <1>4, <1>5 DEF Successors
<1>9. Ahead'
  <2> SUFFICES ASSUME NEW r \in Pids, NEW q \in stale'[r]
               PROVE  entry'[q] = 0 \/ entry'[q] > daemon'[r] \/ ToRemove(r, q)'
    BY DEF Ahead
  <2>1. r # p /\ q \in stale[r] /\ q \in Pids
    BY <1>3, <1>4, <1>5
  <2>2. ToRemove(r, q) => ToRemove(r, q)'
    BY <1>2, <1>4, <2>1 DEF ToRemove
  <2>3. entry'[q] \in {0, entry[q]}
    BY <1>4, <1>5, <2>1
  <2> QED  BY <1>4, <2>1, <2>2, <2>3 DEF Ahead
<1>10. LiveIsListed'
  BY <1>4, <1>5 DEF LiveIsListed
<1> QED  BY <1>6, <1>7, <1>8, <1>9, <1>10

\* Every step keeps the invariant.
LEMMA NextKeeps ==
  ASSUME ~PidsReused
  PROVE  DRInv /\ [DRNext]_DRvars => DRInv'
<1> SUFFICES ASSUME DRInv, [DRNext]_DRvars  PROVE DRInv'
  OBVIOUS
<1>1. DRTypeOK'
  BY DRTypesKept DEF DRInv
<1>2. ASSUME NEW p \in Pids, Start(p)  PROVE DRInv'
  BY <1>1, <1>2, StartKeeps
<1>3. ASSUME NEW p \in Pids, PublishRegistry(p)  PROVE DRInv'
  BY <1>1, <1>3, PublishKeeps
<1>4. ASSUME NEW p \in Pids, Shutdown(p) \/ Crash(p)  PROVE DRInv'
  BY <1>1, <1>4, GoneKeeps
<1>5. CASE UNCHANGED DRvars \/ \E p \in Pids : SpawnBeacon(p)
  <2>1. UNCHANGED <<daemon, starts, pc, todo, doomed, entry, stale>>
    BY <1>5 DEF DRvars, files, SpawnBeacon
  <2>2. Numbered' /\ DoomedIsDead' /\ Successors' /\ LiveIsListed'
    BY <2>1 DEF DRInv, Numbered, DoomedIsDead, Successors, LiveIsListed, Alive
  <2>3. Ahead'
    BY <2>1 DEF DRInv, Ahead, ToRemove, Alive
  <2> QED  BY <1>1, <2>2, <2>3 DEF DRInv
<1> QED  BY <1>2, <1>3, <1>4, <1>5 DEF DRNext

\* The invariant holds while pids are not reused.
THEOREM DRInvariance ==
  ASSUME ~PidsReused
  PROVE  DRSpec => []DRInv
<1>1. DRInit => DRInv
  <2> SUFFICES ASSUME DRInit  PROVE DRInv
    OBVIOUS
  <2>1. DRTypeOK
    BY DRAssumption DEF DRInit, DRTypeOK
  <2> QED
    BY <2>1 DEF DRInit, DRInv, Numbered, DoomedIsDead, Successors, Ahead, LiveIsListed
<1>2. DRInv /\ [DRNext]_DRvars => DRInv'
  BY NextKeeps
<1> QED  BY <1>1, <1>2, PTL DEF DRSpec

-----------------------------------------------------------------------------
(* The discovery registry: what follows *)

\* While pids are not reused, a daemon that has published stays listed, whatever
\* the others that start, prune and die decide from what they have read.
THEOREM LiveListed ==
  ASSUME ~PidsReused
  PROVE  DRSpec => []LiveIsListed
<1>1. DRInv => LiveIsListed
  BY DEF DRInv
<1> QED  BY <1>1, DRInvariance, PTL

\* While pids are not reused, a daemon that publishes has rid the registry of the
\* entries that were dead when it started, but for those it could not read or remove.
THEOREM StalePruned ==
  ASSUME ~PidsReused
  PROVE  DRSpec => []StaleIsPruned
<1>1. DRInv => StaleIsPruned
  BY DEF DRInv, Ahead, StaleIsPruned, ToRemove
<1> QED  BY <1>1, DRInvariance, PTL
=============================================================================
