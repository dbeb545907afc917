---------------------------- MODULE SequenceProofs ---------------------------
(***************************************************************************)
(* Proofs that go along a sequence: NetWatch, for any callers, any finite  *)
(* set of interfaces and any number of changes, whose receivers are told   *)
(* of the interfaces event by event; and then Conversions, for any inputs  *)
(* of the types the code has, whose functions run through lists.           *)
(***************************************************************************)
EXTENDS NetWatch, Conversions, FiniteSetTheorems, WellFoundedInduction, TLAPS

-----------------------------------------------------------------------------
(* Induction, from the library's theorem that < on Nat is well-founded *)

\* A set of natural numbers has a least member.
LEMMA LeastNat ==
  ASSUME NEW T \in SUBSET Nat, T # {}
  PROVE  \E n \in T : \A m \in T : n <= m
<1> DEFINE R == OpToRel(<, Nat)
<1>1. IsWellFoundedOn(R, Nat)
  BY NatLessThanWellFounded
<1>2. \A m, n \in Nat : m < n => <<m, n>> \in R
  BY DEF OpToRel
<1> HIDE DEF R
<1>3. PICK n \in T : \A m \in T : ~(<<m, n>> \in R)
  BY <1>1, WFMin
<1>4. n \in Nat /\ \A m \in T : m \in Nat /\ ~(m < n)
  BY <1>2, <1>3
<1> QED BY <1>3, <1>4

\* Two functions that start alike and go on alike are alike.
Follows(f, g, N) == f[0] = g[0] /\ \A n \in 1..N : f[n - 1] = g[n - 1] => f[n] = g[n]

\* They are, at every place.
LEMMA StepByStep ==
  ASSUME NEW N \in Nat, NEW f, NEW g, Follows(f, g, N)
  PROVE  \A n \in 0..N : f[n] = g[n]
<1> DEFINE D == { n \in 0..N : f[n] # g[n] }
<1> SUFFICES ASSUME D # {} PROVE FALSE
  OBVIOUS
<1>1. PICK n \in D : \A m \in D : n <= m
  <2> D \in SUBSET Nat
    OBVIOUS
  <2> HIDE DEF D
  <2> QED BY LeastNat
<1>2. n \in 1..N /\ n - 1 \in 0..N
  BY <1>1 DEF Follows
<1>3. f[n - 1] = g[n - 1]
  BY <1>1, <1>2
<1> QED BY <1>1, <1>2, <1>3 DEF Follows

\* The function goes from the first value to the N-th, each step giving the next.
Goes(f, first, step, V, N) ==
  /\ f \in [0..N -> V] /\ f[0] = first
  /\ \A n \in 1..N : f[n] = step[n][f[n - 1]]

\* What is defined step by step is defined.
LEMMA Recursion ==
  ASSUME NEW N \in Nat, NEW V, NEW first \in V, NEW step \in [1..N -> [V -> V]]
  PROVE  \E f : Goes(f, first, step, V, N)
<1> DEFINE T == { m \in 0..N : ~ \E f : Goes(f, first, step, V, m) }
<1>1. T = {}
  <2> SUFFICES ASSUME T # {} PROVE FALSE
    OBVIOUS
  <2>1. PICK m \in T : \A k \in T : m <= k
    <3> T \in SUBSET Nat
      OBVIOUS
    <3> HIDE DEF T
    <3> QED BY LeastNat
  <2>2. m # 0
    <3>1. Goes([n \in 0..0 |-> first], first, step, V, 0)
      BY DEF Goes
    <3> QED BY <3>1, <2>1
  <2>3. m \in 1..N /\ m - 1 \in 0..N /\ m - 1 \notin T
    BY <2>1, <2>2
  <2>4. PICK f : Goes(f, first, step, V, m - 1)
    BY <2>3
  <2> DEFINE last == step[m][f[m - 1]]
             longer == [n \in 0..m |-> IF n = m THEN last ELSE f[n]]
  <2>5. last \in V
    <3>1. f[m - 1] \in V /\ step[m] \in [V -> V]
      BY <2>3, <2>4 DEF Goes
    <3> QED BY <3>1
  <2>6. Goes(longer, first, step, V, m)
    <3>1. longer[m] = last /\ \A n \in 0..m - 1 : longer[n] = f[n] /\ f[n] \in V
      BY <2>3, <2>4 DEF Goes
    <3>2. longer \in [0..m -> V]
      BY <2>3, <2>4, <2>5 DEF Goes
    <3> HIDE DEF longer
    <3>3. ASSUME NEW n \in 1..m PROVE longer[n] = step[n][longer[n - 1]]
      <4>1. n - 1 \in 0..m - 1 /\ longer[n - 1] = f[n - 1]
        BY <2>3, <3>1
      <4>2. CASE n = m
        BY <3>1, <4>1, <4>2
      <4>3. CASE n # m
        <5>1. n \in 1..m - 1 /\ n \in 0..m - 1
          BY <2>3, <4>3
        <5>2. longer[n] = f[n] /\ f[n] = step[n][f[n - 1]]
          BY <2>4, <3>1, <5>1 DEF Goes
        <5> QED BY <4>1, <5>2
      <4> QED BY <4>2, <4>3
    <3>4. longer[0] = first
      BY <2>3, <2>4, <3>1 DEF Goes
    <3> QED BY <3>2, <3>3, <3>4 DEF Goes
  <2> HIDE DEF longer
  <2> QED BY <2>1, <2>3, <2>6
<1>2. N \in 0..N
  OBVIOUS
<1> QED BY <1>1, <1>2

\* Induction, for a set of numbers: a lemma has no predicates for parameters.
LEMMA Induct ==
  ASSUME NEW N \in Nat, NEW T, 0 \in T, \A n \in 1..N : n - 1 \in T => n \in T
  PROVE  \A n \in 0..N : n \in T
<1> DEFINE D == { n \in 0..N : n \notin T }
<1> SUFFICES ASSUME D # {} PROVE FALSE
  OBVIOUS
<1>1. PICK n \in D : \A m \in D : n <= m
  <2> D \in SUBSET Nat
    OBVIOUS
  <2> HIDE DEF D
  <2> QED BY LeastNat
<1>2. n \in 1..N /\ n - 1 \in 0..N /\ n - 1 \notin D
  BY <1>1
<1> QED BY <1>1, <1>2

-----------------------------------------------------------------------------
(* What a view becomes, event by event *)

\* An event changes the view of its own interface.
LEMMA ApplyIs ==
  ASSUME NEW v \in View, NEW e \in Event
  PROVE  /\ Apply(v, e) \in View /\ Apply(v, e)[e.iface] = e.as
         /\ \A i \in Interfaces : i # e.iface => Apply(v, e)[i] = v[i]
BY DEF Apply, View, Event

\* The equations of Told, up to the n-th event.
IsTold(start, events, view, n) ==
  /\ view \in [0..n -> View] /\ view[0] = start
  /\ \A k \in 1..n : view[k] = Apply(view[k - 1], events[k])

\* Told is defined: there is a function that satisfies its equations, and no
\* other one.
LEMMA ToldIs ==
  ASSUME NEW start \in View, NEW events \in Seq(Event)
  PROVE  IsTold(start, events, Told(start, events), Len(events))
<1> DEFINE N == Len(events)
           T == { n \in 0..N : ~ \E view : IsTold(start, events, view, n) }
           Is(view) ==
             view = [n \in 0..N |-> IF n = 0 THEN start ELSE Apply(view[n - 1], events[n])]
<1>0. N \in Nat /\ \A k \in 1..N : events[k] \in Event
  OBVIOUS
<1> HIDE DEF N
<1>1. T = {}
  <2> SUFFICES ASSUME T # {} PROVE FALSE
    OBVIOUS
  <2>1. PICK n \in T : \A m \in T : n <= m
    <3> T \in SUBSET Nat
      BY <1>0
    <3> HIDE DEF T
    <3> QED BY LeastNat
  <2>2. n # 0
    <3>1. IsTold(start, events, [k \in 0..0 |-> start], 0)
      BY DEF IsTold
    <3> QED BY <3>1, <2>1
  <2>3. n \in 1..N /\ n - 1 \in 0..N /\ n - 1 \notin T
    BY <1>0, <2>1, <2>2
  <2>4. PICK view : IsTold(start, events, view, n - 1)
    BY <2>3
  <2> DEFINE e == events[n]
             longer == [k \in 0..n |-> IF k = n THEN Apply(view[n - 1], e) ELSE view[k]]
  <2>5. IsTold(start, events, longer, n)
    <3>1. view[n - 1] \in View /\ e \in Event /\ n \in Nat
      BY <1>0, <2>3, <2>4 DEF IsTold
    <3>2. Apply(view[n - 1], e) \in View
      BY <3>1, ApplyIs
    <3>3. /\ \A k \in 0..n - 1 : longer[k] = view[k] /\ view[k] \in View
          /\ longer[n] = Apply(view[n - 1], e)
          /\ longer = [k \in 0..n |-> longer[k]]
      BY <2>4, <3>1 DEF IsTold
    <3> HIDE DEF longer
    <3>4. longer \in [0..n -> View]
      <4>1. \A k \in 0..n : k \in 0..n - 1 \/ k = n
        BY <3>1
      <4>2. \A k \in 0..n : longer[k] \in View
        BY <3>2, <3>3, <4>1
      <4> QED BY <3>3, <4>2
    <3>5. ASSUME NEW k \in 1..n PROVE longer[k] = Apply(longer[k - 1], events[k])
      <4>1. CASE k = n
        <5>1. n - 1 \in 0..n - 1
          BY <1>0, <2>3
        <5>2. longer[n - 1] = view[n - 1]
          BY <3>3, <5>1
        <5> QED BY <3>3, <4>1, <5>2
      <4>2. CASE k # n
        <5>1. k \in 1..n - 1 /\ k \in 0..n - 1 /\ k - 1 \in 0..n - 1
          BY <3>1, <4>2
        <5>2. view[k] = Apply(view[k - 1], events[k])
          BY <2>4, <5>1 DEF IsTold
        <5> QED BY <3>3, <5>1, <5>2
      <4> QED BY <4>1, <4>2
    <3>6. longer[0] = start
      <4>1. 0 \in 0..n - 1
        BY <1>0, <2>3
      <4> QED BY <2>4, <3>3, <4>1 DEF IsTold
    <3> QED BY <3>4, <3>5, <3>6 DEF IsTold
  <2> HIDE DEF longer
  <2> QED BY <2>1, <2>3, <2>5
<1>2. PICK view : IsTold(start, events, view, N)
  <2>1. N \in 0..N
    BY <1>0
  <2> QED BY <1>1, <2>1
<1>3. Is(view)
  BY <1>0, <1>2 DEF IsTold
<1>4. ASSUME NEW other, Is(other) PROVE other = view
  <2>1. Follows(other, view, N)
    BY <1>0, <1>3, <1>4 DEF Follows
  <2>2. \A n \in 0..N : other[n] = view[n]
    BY <1>0, <2>1, StepByStep
  <2> QED BY <1>3, <1>4, <2>2
<1>5. (CHOOSE other : Is(other)) = view
  BY <1>3, <1>4
<1>6. Told(start, events) = view
  BY <1>5 DEF Told, N
<1> QED BY <1>2, <1>6 DEF N

\* One more event leaves the earlier views as they were.
LEMMA ToldGrows ==
  ASSUME NEW start \in View, NEW events \in Seq(Event), NEW e \in Event
  PROVE  LET view == Told(start, events)
             more == Told(start, Append(events, e))
         IN  /\ \A n \in 0..Len(events) : more[n] = view[n]
             /\ more[Len(events) + 1] = Apply(view[Len(events)], e)
<1> DEFINE view == Told(start, events)
           longer == Append(events, e)
           more == Told(start, longer)
           N == Len(events)
<1>1. /\ longer \in Seq(Event) /\ Len(longer) = N + 1 /\ N \in Nat
      /\ longer[N + 1] = e /\ \A n \in 1..N : longer[n] = events[n]
  OBVIOUS
<1> HIDE DEF longer
<1>2. IsTold(start, events, view, N) /\ IsTold(start, longer, more, N + 1)
  BY <1>1, ToldIs
<1> HIDE DEF view, more, N
<1>3. Follows(more, view, N)
  BY <1>1, <1>2 DEF IsTold, Follows
<1>4. \A n \in 0..N : more[n] = view[n]
  <2>1. N \in Nat
    BY <1>1
  <2> QED BY <1>3, <2>1, StepByStep
<1>5. more[N + 1] = Apply(more[N], e)
  BY <1>1, <1>2 DEF IsTold
<1>6. more[N] = view[N]
  BY <1>1, <1>4
<1> QED BY <1>4, <1>5, <1>6 DEF longer, view, more, N

-----------------------------------------------------------------------------
(* What events_from_update reports *)

\* SetToSeq lists the members of a finite set, each once.
LEMMA SetToSeqIs ==
  ASSUME NEW S, IsFiniteSet(S)
  PROVE  /\ SetToSeq(S) \in Seq(S)
         /\ \A i, j \in 1..Len(SetToSeq(S)) : SetToSeq(S)[i] = SetToSeq(S)[j] => i = j
         /\ \A x \in S : \E i \in 1..Len(SetToSeq(S)) : SetToSeq(S)[i] = x
<1> DEFINE n == Cardinality(S)
           s == SetToSeq(S)
<1>1. n \in Nat /\ ExistsBijection(1..n, S)
  BY FS_CardinalityType
<1>2. s \in [1..n -> S] /\ IsInjective(s)
  <2>1. \E f \in [1..n -> S] : IsInjective(f)
    BY <1>1 DEF ExistsBijection, Bijection, Injection
  <2> QED BY <2>1 DEF SetToSeq
<1>3. s \in Injection(1..n, S)
  BY <1>2 DEF Injection
<1> HIDE DEF s
<1>4. s \in Surjection(1..n, S)
  <2>1. IsFiniteSet(1..n) /\ Cardinality(1..n) = n
    BY <1>1, FS_Interval
  <2> QED BY <1>3, <2>1, FS_Injection
<1>5. s \in Seq(S) /\ Len(s) = n /\ DOMAIN s = 1..n
  BY <1>1, <1>2
<1> QED BY <1>2, <1>4, <1>5 DEF IsInjective, Surjection, s

\* The events say what has become new of the interfaces of S, each once.
Report(events, S, old, new) ==
  /\ events \in Seq(Event)
  /\ \A i, j \in DOMAIN events : events[i].iface = events[j].iface => i = j
  /\ \A i \in DOMAIN events : /\ events[i].iface \in S /\ events[i].as = new[events[i].iface]
                              /\ News(old, events[i])
  /\ \A x \in S : \E i \in DOMAIN events : events[i].iface = x

\* Two reports of different interfaces, one after the other, are a report.
LEMMA ReportsJoin ==
  ASSUME NEW old \in View, NEW new \in View, NEW S, NEW T, S \cap T = {},
         NEW s, Report(s, S, old, new), NEW t, Report(t, T, old, new)
  PROVE  Report(s \o t, S \cup T, old, new)
<1> DEFINE u == s \o t
<1>1. /\ s \in Seq(Event) /\ DOMAIN s = 1..Len(s) /\ Len(s) \in Nat
      /\ t \in Seq(Event) /\ DOMAIN t = 1..Len(t) /\ Len(t) \in Nat
  BY DEF Report
<1>2. /\ u \in Seq(Event) /\ DOMAIN u = 1..Len(s) + Len(t)
      /\ \A i \in DOMAIN s : i \in DOMAIN u /\ u[i] = s[i]
      /\ \A i \in DOMAIN t : Len(s) + i \in DOMAIN u /\ u[Len(s) + i] = t[i]
  BY <1>1
<1>3. \A i \in DOMAIN u : \/ i \in DOMAIN s /\ u[i] = s[i]
                          \/ i - Len(s) \in DOMAIN t /\ u[i] = t[i - Len(s)]
  BY <1>1, <1>2
<1> HIDE DEF u
<1>4. \A i \in DOMAIN u : /\ u[i].iface \in S \cup T /\ u[i].as = new[u[i].iface]
                          /\ News(old, u[i])
  BY <1>3 DEF Report
<1>5. ASSUME NEW i \in DOMAIN u, NEW j \in DOMAIN u, u[i].iface = u[j].iface PROVE i = j
  <2>1. CASE i \in DOMAIN s /\ u[i] = s[i] /\ j \in DOMAIN s /\ u[j] = s[j]
    BY <1>5, <2>1 DEF Report
  <2>2. CASE /\ i - Len(s) \in DOMAIN t /\ u[i] = t[i - Len(s)]
             /\ j - Len(s) \in DOMAIN t /\ u[j] = t[j - Len(s)]
    <3>1. i - Len(s) = j - Len(s)
      BY <1>5, <2>2 DEF Report
    <3> QED BY <1>1, <1>2, <3>1
  <2>3. ~(u[i].iface \in S /\ u[j].iface \in T) /\ ~(u[i].iface \in T /\ u[j].iface \in S)
    BY <1>5
  <2> QED BY <1>3, <2>1, <2>2, <2>3 DEF Report
<1>6. ASSUME NEW x \in S \cup T PROVE \E i \in DOMAIN u : u[i].iface = x
  <2>1. CASE x \in S
    BY <1>2, <2>1 DEF Report
  <2>2. CASE x \in T
    BY <1>2, <2>2 DEF Report
  <2> QED BY <2>1, <2>2
<1> QED BY <1>2, <1>4, <1>5, <1>6 DEF Report, u

\* One of the three loops: events of one kind.
LEMMA SomeReport ==
  ASSUME NEW old \in View, NEW new \in View, NEW S \in SUBSET Interfaces, NEW kind,
         \A i \in S : LET e == [kind |-> kind, iface |-> i, as |-> new[i]]
                     IN  e \in Event /\ News(old, e)
  PROVE  Report(SetToSeq({ [kind |-> kind, iface |-> i, as |-> new[i]] : i \in S }), S, old, new)
<1> DEFINE f == [i \in S |-> [kind |-> kind, iface |-> i, as |-> new[i]]]
           E == { [kind |-> kind, iface |-> i, as |-> new[i]] : i \in S }
           s == SetToSeq(E)
<1>1. IsFiniteSet(S)
  BY FS_Subset, ConstantsAssumption
<1>2. f \in Surjection(S, E)
  BY DEF Surjection
<1>3. \A e \in E : /\ e \in Event /\ News(old, e) /\ e.iface \in S /\ e.as = new[e.iface]
                   /\ e = f[e.iface]
  BY DEF f
<1>4. \A x \in S : f[x] \in E /\ f[x].iface = x
  BY DEF f
<1> HIDE DEF f, E
<1>5. IsFiniteSet(E)
  BY <1>1, <1>2, FS_Surjection
<1>6. /\ s \in Seq(E)
      /\ \A i, j \in 1..Len(s) : s[i] = s[j] => i = j
      /\ \A x \in E : \E i \in 1..Len(s) : s[i] = x
  BY <1>5, SetToSeqIs
<1> HIDE DEF s
<1>7. DOMAIN s = 1..Len(s) /\ \A i \in DOMAIN s : s[i] \in E
  BY <1>6
<1>8. s \in Seq(Event)
  BY <1>3, <1>6, <1>7
<1>9. \A i, j \in DOMAIN s : s[i].iface = s[j].iface => i = j
  BY <1>3, <1>6, <1>7
<1>10. \A x \in S : \E i \in DOMAIN s : s[i].iface = x
  BY <1>4, <1>6, <1>7
<1>11. Report(s, S, old, new)
  BY <1>3, <1>7, <1>8, <1>9, <1>10 DEF Report
<1> QED BY <1>11 DEF s, E

\* events_from_update tells every difference of the two views once, rightly named.
LEMMA EventsAre ==
  ASSUME NEW old \in View, NEW new \in View
  PROVE  Report(EventsOf(old, new), { x \in Interfaces : old[x] # new[x] }, old, new)
<1> DEFINE added == { i \in Interfaces : old[i] = None /\ new[i] # None }
           removed == { i \in Interfaces : old[i] # None /\ new[i] = None }
           modified == { i \in Interfaces \ (added \cup removed) : old[i] # new[i] }
           events(kind, S) == SetToSeq({ [kind |-> kind, iface |-> i, as |-> new[i]] : i \in S })
           a == events("Added", added)
           r == events("Removed", removed)
           m == events("Modified", modified)
<1>1. Report(a, added, old, new)
  <2>1. \A i \in added : LET e == [kind |-> "Added", iface |-> i, as |-> new[i]]
                        IN  e \in Event /\ News(old, e)
    BY DEF Event, View, News
  <2> HIDE DEF added
  <2>2. added \in SUBSET Interfaces
    BY DEF added
  <2> QED BY <2>1, <2>2, SomeReport
<1>2. Report(r, removed, old, new)
  <2>1. \A i \in removed : LET e == [kind |-> "Removed", iface |-> i, as |-> new[i]]
                          IN  e \in Event /\ News(old, e)
    BY DEF Event, View, News
  <2> HIDE DEF removed
  <2>2. removed \in SUBSET Interfaces
    BY DEF removed
  <2> QED BY <2>1, <2>2, SomeReport
<1>3. Report(m, modified, old, new)
  <2>1. \A i \in modified : LET e == [kind |-> "Modified", iface |-> i, as |-> new[i]]
                           IN  e \in Event /\ News(old, e)
    BY DEF Event, View, News
  <2> HIDE DEF modified
  <2>2. modified \in SUBSET Interfaces
    BY DEF modified
  <2> QED BY <2>1, <2>2, SomeReport
<1>4. /\ added \cap removed = {} /\ (added \cup removed) \cap modified = {}
      /\ (added \cup removed) \cup modified = { x \in Interfaces : old[x] # new[x] }
  OBVIOUS
<1>5. EventsOf(old, new) = (a \o r) \o m
  <2>1. EventsOf(old, new) = a \o r \o m
    BY DEF EventsOf
  <2> QED BY <2>1
<1> HIDE DEF added, removed, modified, a, r, m
<1>6. Report(a \o r, added \cup removed, old, new)
  BY <1>1, <1>2, <1>4, ReportsJoin
<1>7. Report((a \o r) \o m, (added \cup removed) \cup modified, old, new)
  BY <1>3, <1>4, <1>6, ReportsJoin
<1> QED BY <1>4, <1>5, <1>7

-----------------------------------------------------------------------------
(* The watcher: the inductive invariant *)

\* The lazy start: the handle is stored once the one watch runs, and whoever
\* holds the mutex has found no handle.
Starting ==
  /\ watches <= 1
  /\ handle => watches = 1
  /\ holder = None => (handle <=> watches = 1)
  /\ \A c \in Callers :
       /\ pc[c] = "starting" => ~handle /\ watches = 0
       /\ pc[c] = "storing" => ~handle /\ watches = 1
       /\ pc[c] \in {"push", "on", "dropped"} => handle

\* The list holds each caller that has subscribed once, and no one else; nobody
\* else was sent anything.
Listed ==
  /\ \A i, j \in DOMAIN subs : subs[i] = subs[j] => i = j
  /\ \A c \in Callers : pc[c] \in {"on", "dropped"} <=> \E i \in DOMAIN subs : subs[i] = c
  /\ \A c \in Callers : pc[c] \notin {"on", "dropped"} => inbox[c] = <<>>

\* The callback is under way from its first event to its last, and every event
\* it has yet to send tells what is known of an interface of its own.
Sending ==
  /\ batch = <<>> => cursor = 0
  /\ batch # <<>> => cursor < Len(subs)
  /\ \A i, j \in DOMAIN batch : batch[i].iface = batch[j].iface => i = j
  /\ \A i \in DOMAIN batch : batch[i].as = known[batch[i].iface]

\* What the running callback has yet to send to c.
Unsent(c) == IF \E k \in 1..cursor : subs[k] = c THEN Tail(batch) ELSE batch

\* The events are all news to the view, and all it lacks of what is known.
Completes(events, view) ==
  /\ \A i \in DOMAIN events : News(view, events[i])
  /\ \A x \in Interfaces : view[x] # known[x] => \E i \in DOMAIN events : events[i].iface = x

\* What c was sent was news to it, and with what it will still be sent it knows
\* what is known.
Fed(c) ==
  LET view == Told(base[c], inbox[c])
  IN  /\ \A n \in DOMAIN inbox[c] : News(view[n - 1], inbox[c][n])
      /\ pc[c] = "on" => Completes(Unsent(c), view[Len(inbox[c])])
Feeds == \A c \in Callers : Fed(c)

Inv == TypeOK /\ Starting /\ Listed /\ Sending /\ Feeds

-----------------------------------------------------------------------------
(* The watcher: each action keeps it *)

\* Init establishes the invariant.
LEMMA InitHolds == Init => Inv
<1> SUFFICES ASSUME Init PROVE Inv
  OBVIOUS
<1>1. TypeOK /\ Starting /\ Listed /\ Sending
  <2>1. Absent \in View
    BY DEF View, Absent
  <2>2. TypeOK
    <3>1. /\ <<>> \in Seq(Callers) /\ <<>> \in Seq(Event) /\ Len(subs) = 0
          /\ inbox \in [Callers -> Seq(Event)] /\ base \in [Callers -> View]
      BY <2>1 DEF Init
    <3>2. 0 \in Nat /\ 0 \in 0..MaxChanges /\ 0 \in 0..MaxRetries /\ 0 \in 0..0
      BY ConstantsAssumption
    <3>3. \A c \in Callers : pc[c] \in {"starting", "storing"} <=> holder = c
      BY ConstantsAssumption DEF Init
    <3> QED BY <2>1, <3>1, <3>2, <3>3 DEF Init, TypeOK
  <2>3. Starting
    BY DEF Init, Starting
  <2>4. Listed
    BY DEF Init, Listed
  <2>5. Sending
    BY DEF Init, Sending
  <2> QED BY <2>2, <2>3, <2>4, <2>5
<1>2. ASSUME NEW c \in Callers PROVE Fed(c)
  BY <1>2 DEF Init, Fed
<1> QED BY <1>1, <1>2 DEF Inv, Feeds

\* What callers do among themselves touches no feed.
LEMMA FeedsStay ==
  ASSUME Sending, Feeds, UNCHANGED <<known, subs, feed, base>>,
         \A c \in Callers : pc'[c] = "on" => pc[c] = "on"
  PROVE  Sending' /\ Feeds'
<1>1. UNCHANGED <<batch, cursor, inbox, subs, known, base>>
  BY DEF feed
<1>2. Sending'
  BY <1>1 DEF Sending
<1>3. ASSUME NEW c \in Callers PROVE Fed(c)'
  <2>1. Fed(c) /\ (pc'[c] = "on" => pc[c] = "on")
    BY DEF Feeds
  <2> QED BY <1>1, <2>1 DEF Fed, Completes, Unsent
<1> QED BY <1>2, <1>3 DEF Feeds

\* The system changes an interface: nobody has been told yet.
LEMMA OsChangeKeeps == ASSUME Inv, OsChange PROVE Inv'
<1>1. /\ UNCHANGED <<known, watches, handle, holder, subs, batch, cursor, inbox, pc, base, retries>>
      /\ changes' \in 0..MaxChanges /\ present' \in View
  <2>1. present' \in View
    BY DEF Inv, OsChange, TypeOK, View
  <2> QED BY <2>1, ConstantsAssumption DEF Inv, OsChange, TypeOK, mutex, feed
<1>3. TypeOK' /\ Starting' /\ Listed'
  BY <1>1 DEF Inv, TypeOK, Starting, Listed
<1>2. Sending' /\ Feeds'
  BY FeedsStay DEF Inv, OsChange
<1> QED BY <1>2, <1>3 DEF Inv

\* A first caller takes the mutex, a later one finds the handle.
LEMMA EnsureKeeps == ASSUME Inv, NEW c \in Callers, Ensure(c) PROVE Inv'
<1>1. TypeOK' /\ Starting' /\ Listed'
  BY ConstantsAssumption DEF Inv, Ensure, TypeOK, Starting, Listed, os, feed
<1>2. Sending' /\ Feeds'
  BY FeedsStay DEF Inv, Ensure, TypeOK
<1> QED BY <1>1, <1>2 DEF Inv

\* Starting the watch failed, and the mutex is given up.
LEMMA WatchFailsKeeps == ASSUME Inv, NEW c \in Callers, WatchFails(c) PROVE Inv'
<1>1. TypeOK' /\ Starting' /\ Listed'
  BY ConstantsAssumption DEF Inv, WatchFails, At, TypeOK, Starting, Listed, os, feed
<1>2. Sending' /\ Feeds'
  BY FeedsStay DEF Inv, WatchFails, At, TypeOK
<1> QED BY <1>1, <1>2 DEF Inv

\* The handle of the one watch is stored.
LEMMA StoreKeeps == ASSUME Inv, NEW c \in Callers, Store(c) PROVE Inv'
<1>1. TypeOK' /\ Starting' /\ Listed'
  BY ConstantsAssumption DEF Inv, Store, At, TypeOK, Starting, Listed, os, feed
<1>2. Sending' /\ Feeds'
  BY FeedsStay DEF Inv, Store, At, TypeOK
<1> QED BY <1>1, <1>2 DEF Inv

\* A caller whose subscribe failed tries again.
LEMMA RetryKeeps == ASSUME Inv, NEW c \in Callers, Retry(c) PROVE Inv'
<1>1. TypeOK' /\ Starting' /\ Listed'
  <2>1. retries' \in 0..MaxRetries
    BY ConstantsAssumption DEF Inv, TypeOK, Retry
  <2>2. /\ UNCHANGED <<present, changes, known, watches, handle, holder, subs, batch, cursor, inbox, base>>
        /\ pc[c] = "failed" /\ pc' = [pc EXCEPT ![c] = "idle"]
    BY DEF Retry, At, os, mutex, feed
  <2>3. TypeOK'
    BY <2>1, <2>2 DEF Inv, TypeOK
  <2>4. Starting' /\ Listed'
    BY <2>2 DEF Inv, TypeOK, Starting, Listed
  <2> QED BY <2>3, <2>4
<1>2. Sending' /\ Feeds'
  BY FeedsStay DEF Inv, Retry, At, TypeOK
<1> QED BY <1>1, <1>2 DEF Inv

\* A dropped receiver stays listed and is owed nothing any more.
LEMMA DropReceiverKeeps == ASSUME Inv, NEW c \in Callers, DropReceiver(c) PROVE Inv'
<1>1. TypeOK' /\ Starting' /\ Listed'
  BY DEF Inv, DropReceiver, At, TypeOK, Starting, Listed, os, mutex, feed
<1>2. Sending' /\ Feeds'
  BY FeedsStay DEF Inv, DropReceiver, At, TypeOK
<1> QED BY <1>1, <1>2 DEF Inv

\* The watch starts: there is no other, so nobody is listed yet and whatever it
\* first takes as known contradicts nobody's view.
LEMMA WatchKeeps == ASSUME Inv, NEW c \in Callers, Watch(c) PROVE Inv'
<1>1. /\ UNCHANGED <<os, mutex, subs, feed, base, retries>> /\ watches' = 1 /\ known' \in View
      /\ pc[c] = "starting" /\ pc' = [pc EXCEPT ![c] = "storing"] /\ ~handle /\ watches = 0
  BY DEF Inv, Watch, At, TypeOK, Starting, View, Absent
<1>2. \A d \in Callers : pc[d] \notin {"on", "dropped"} /\ pc'[d] \notin {"on", "dropped"}
  BY <1>1 DEF Inv, Starting, TypeOK
<1>3. TypeOK' /\ Starting' /\ Listed'
  <2>1. TypeOK'
    BY <1>1 DEF Inv, TypeOK, os, mutex, feed
  <2>2. Starting'
    <3>1. holder = c /\ c # None
      BY <1>1, ConstantsAssumption DEF Inv, TypeOK
    <3>2. \A d \in Callers : d # c => pc'[d] = pc[d] /\ pc[d] # "starting" /\ pc[d] # "storing"
      BY <1>1, <3>1 DEF Inv, TypeOK
    <3>3. pc'[c] = "storing"
      BY <1>1 DEF Inv, TypeOK
    <3> QED BY <1>1, <1>2, <3>1, <3>2, <3>3 DEF Inv, Starting, mutex
  <2>3. Listed'
    BY <1>1, <1>2 DEF Inv, TypeOK, Listed, feed
  <2> QED BY <2>1, <2>2, <2>3
<1>4. batch = <<>>
  <2> SUFFICES ASSUME batch # <<>> PROVE FALSE
    OBVIOUS
  <2>1. cursor \in Nat /\ cursor < Len(subs) /\ subs \in Seq(Callers)
    BY DEF Inv, Sending, TypeOK
  <2>2. 1 \in DOMAIN subs /\ subs[1] \in Callers
    BY <2>1
  <2> QED BY <1>2, <2>2 DEF Inv, Listed
<1>5. Sending'
  BY <1>1, <1>4 DEF Inv, Sending, feed
<1>6. Feeds'
  BY <1>1, <1>2 DEF Inv, Feeds, Fed, feed
<1> QED BY <1>3, <1>5, <1>6 DEF Inv

\* A caller joins between two callbacks: its view is what is known.
LEMMA PushKeeps == ASSUME Inv, NEW c \in Callers, Push(c) PROVE Inv'
<1>1. /\ UNCHANGED <<os, known, watches, mutex, feed, retries>> /\ batch = <<>> /\ cursor = 0
      /\ pc[c] = "push" /\ pc' = [pc EXCEPT ![c] = "on"] /\ inbox[c] = <<>>
      /\ subs' = Append(subs, c) /\ base' = [base EXCEPT ![c] = known]
  BY DEF Inv, Push, At, ListFree, Sending, Listed
<1>2. /\ subs \in Seq(Callers) /\ subs' \in Seq(Callers) /\ DOMAIN subs = 1..Len(subs)
      /\ DOMAIN subs' = 1..Len(subs) + 1 /\ subs'[Len(subs) + 1] = c /\ Len(subs) \in Nat
      /\ \A i \in DOMAIN subs : subs'[i] = subs[i] /\ subs[i] # c
  <2>1. subs \in Seq(Callers)
    BY DEF Inv, TypeOK
  <2>2. \A i \in DOMAIN subs : subs[i] # c
    BY <1>1 DEF Inv, Listed
  <2> QED BY <1>1, <2>1, <2>2
<1>3. TypeOK'
  BY <1>1, <1>2 DEF Inv, TypeOK, os, mutex, feed
<1>4. Starting'
  BY <1>1 DEF Inv, TypeOK, Starting, mutex
<1>5. Listed'
  <2>1. \A i \in DOMAIN subs' : i \in DOMAIN subs \/ i = Len(subs) + 1
    BY <1>2
  <2>2. \A i, j \in DOMAIN subs' : subs'[i] = subs'[j] => i = j
    BY <1>2, <2>1 DEF Inv, Listed
  <2>3. \A d \in Callers : (\E i \in DOMAIN subs' : subs'[i] = d)
                             <=> d = c \/ \E i \in DOMAIN subs : subs[i] = d
    BY <1>2, <2>1
  <2>4. \A d \in Callers : pc'[d] = IF d = c THEN "on" ELSE pc[d]
    BY <1>1 DEF Inv, TypeOK
  <2> QED BY <1>1, <2>2, <2>3, <2>4 DEF Inv, Listed, feed
<1>6. Sending'
  BY <1>1 DEF Inv, Sending, feed
<1>7. ASSUME NEW d \in Callers PROVE Fed(d)'
  <2>1. Unsent(d) = <<>> /\ Unsent(d)' = <<>>
    BY <1>1 DEF Unsent, feed
  <2>2. CASE d = c
    <3>1. base'[c] = known /\ inbox'[c] = <<>> /\ known' = known
      BY <1>1 DEF Inv, TypeOK, feed
    <3>2. Told(known, <<>>)[0] = known
      <4>1. known \in View /\ <<>> \in Seq(Event) /\ Len(<<>>) = 0
        BY DEF Inv, TypeOK
      <4> QED BY <4>1, ToldIs DEF IsTold
    <3> QED BY <2>1, <2>2, <3>1, <3>2 DEF Fed, Completes
  <2>3. CASE d # c
    <3>1. /\ base'[d] = base[d] /\ inbox'[d] = inbox[d] /\ known' = known
          /\ pc'[d] = pc[d]
      BY <1>1, <2>3 DEF Inv, TypeOK, feed
    <3> QED BY <2>1, <3>1 DEF Inv, Feeds, Fed, Completes
  <2> QED BY <2>2, <2>3
<1> QED BY <1>3, <1>4, <1>5, <1>6, <1>7 DEF Inv, Feeds

\* The callback takes the list: what it will send is what each receiver lacks.
LEMMA CallbackKeeps == ASSUME Inv, Callback PROVE Inv'
<1> DEFINE lacks == { x \in Interfaces : known[x] # present[x] }
           events == EventsOf(known, present)
<1>1. /\ UNCHANGED <<os, watches, mutex, subs, cursor, inbox, pc, base, retries>>
      /\ batch = <<>> /\ cursor = 0 /\ batch' = (IF subs = <<>> THEN <<>> ELSE events)
      /\ known' = present /\ known \in View /\ present \in View
  BY DEF Inv, Callback, ListFree, Sending, TypeOK
<1>2. /\ events \in Seq(Event)
      /\ \A i, j \in DOMAIN events : events[i].iface = events[j].iface => i = j
      /\ \A i \in DOMAIN events : events[i].as = present[events[i].iface] /\ News(known, events[i])
      /\ \A x \in Interfaces : known[x] # present[x] => \E i \in DOMAIN events : events[i].iface = x
  <2>1. Report(events, lacks, known, present)
    BY <1>1, EventsAre
  <2> QED BY <2>1 DEF Report
<1> HIDE DEF events
<1>3. TypeOK'
  BY <1>1, <1>2 DEF Inv, TypeOK, os, mutex
<1>4. Starting' /\ Listed'
  BY <1>1 DEF Inv, Starting, Listed, mutex
<1>5. Sending'
  <2>1. CASE subs = <<>>
    BY <1>1, <2>1 DEF Sending
  <2>2. CASE subs # <<>>
    <3>1. 0 < Len(subs)
      BY <2>2 DEF Inv, TypeOK
    <3> QED BY <1>1, <1>2, <2>2, <3>1 DEF Sending
  <2> QED BY <2>1, <2>2
<1>6. ASSUME NEW c \in Callers PROVE Fed(c)'
  <2> DEFINE view == Told(base[c], inbox[c])
             all == view[Len(inbox[c])]
  <2>1. /\ \A n \in DOMAIN inbox[c] : News(view[n - 1], inbox[c][n])
        /\ pc[c] = "on" => Completes(<<>>, all)
    BY <1>1 DEF Inv, Feeds, Fed, Unsent
  <2>2. ASSUME pc[c] = "on" PROVE Completes(batch, all)'
    <3>1. subs # <<>>
      <4>1. \E i \in DOMAIN subs : subs[i] = c
        BY <2>2 DEF Inv, Listed
      <4> QED BY <4>1
    <3>2. \A x \in Interfaces : all[x] = known[x]
      BY <2>1, <2>2 DEF Completes
    <3>3. \A i \in DOMAIN events : events[i].iface \in Interfaces
      BY <1>2 DEF Event
    <3>4. \A i \in DOMAIN events : News(all, events[i])
      BY <1>2, <3>2, <3>3 DEF News
    <3>5. UNCHANGED all
      BY <1>1
    <3> HIDE DEF all
    <3> QED BY <1>1, <1>2, <3>1, <3>2, <3>4, <3>5 DEF Completes
  <2>3. Unsent(c)' = batch'
    BY <1>1 DEF Unsent
  <2> QED BY <1>1, <2>1, <2>2, <2>3 DEF Fed
<1> QED BY <1>3, <1>4, <1>5, <1>6 DEF Inv, Feeds

\* Who is told one more of the events that complete its view is still to be
\* told the others, which complete the view it then has.
LEMMA OneMore ==
  ASSUME NEW v \in View, NEW events \in Seq(Event), events # <<>>, Completes(events, v),
         \A i, j \in DOMAIN events : events[i].iface = events[j].iface => i = j,
         \A i \in DOMAIN events : events[i].as = known[events[i].iface]
  PROVE  News(v, Head(events)) /\ Completes(Tail(events), Apply(v, Head(events)))
<1> DEFINE e == Head(events)
           rest == Tail(events)
           w == Apply(v, e)
<1>1. /\ DOMAIN events = 1..Len(events) /\ Len(events) \in Nat \ {0} /\ e = events[1]
      /\ DOMAIN rest = 1..Len(events) - 1 /\ \A i \in DOMAIN rest : rest[i] = events[i + 1]
      /\ \A i \in DOMAIN events : events[i] \in Event
  OBVIOUS
<1> HIDE DEF e, rest
<1>2. 1 \in DOMAIN events /\ \A i \in DOMAIN rest : i + 1 \in DOMAIN events /\ i + 1 # 1
  BY <1>1
<1>3. e \in Event /\ e.iface \in Interfaces /\ e.as = known[e.iface] /\ News(v, e)
  BY <1>1, <1>2 DEF Event, Completes
<1>4. w[e.iface] = known[e.iface] /\ \A i \in Interfaces : i # e.iface => w[i] = v[i]
  BY <1>3, ApplyIs
<1> HIDE DEF w
<1>5. ASSUME NEW i \in DOMAIN rest PROVE News(w, rest[i])
  <2>1. /\ rest[i] = events[i + 1] /\ rest[i].iface # e.iface /\ rest[i] \in Event
        /\ News(v, rest[i])
    BY <1>1, <1>2 DEF Completes
  <2>2. rest[i].iface \in Interfaces
    BY <2>1 DEF Event
  <2>3. w[rest[i].iface] = v[rest[i].iface]
    BY <1>4, <2>1, <2>2
  <2> QED BY <2>1, <2>3 DEF News
<1>6. ASSUME NEW x \in Interfaces, w[x] # known[x] PROVE \E i \in DOMAIN rest : rest[i].iface = x
  <2>1. x # e.iface /\ v[x] # known[x]
    BY <1>4, <1>6
  <2>2. PICK j \in DOMAIN events : events[j].iface = x
    BY <2>1 DEF Completes
  <2>3. j # 1 /\ j - 1 \in DOMAIN rest /\ rest[j - 1] = events[j]
    BY <1>1, <2>1, <2>2
  <2> QED BY <2>2, <2>3
<1>7. News(v, e) /\ Completes(rest, w)
  BY <1>3, <1>5, <1>6 DEF Completes
<1> QED BY <1>7 DEF e, rest, w

\* One event to one sender: its receiver, unless dropped, has it for good, and
\* owes the others' nothing new.
LEMMA SendKeeps == ASSUME Inv, Send PROVE Inv'
<1> DEFINE c == subs[cursor + 1]
           last == cursor + 1 = Len(subs)
           e == Head(batch)
<1>1. UNCHANGED <<os, known, watches, mutex, subs, pc, base, retries>> /\ batch # <<>>
  BY DEF Send, ListFree
<1>2. /\ cursor \in Nat /\ cursor < Len(subs) /\ Len(subs) \in Nat /\ DOMAIN subs = 1..Len(subs)
      /\ cursor + 1 \in DOMAIN subs /\ c \in Callers
  <2>1. subs \in Seq(Callers) /\ cursor \in Nat /\ cursor < Len(subs)
    BY <1>1 DEF Inv, Sending, TypeOK
  <2> QED BY <2>1
<1>3. /\ batch \in Seq(Event) /\ e \in Event
      /\ DOMAIN batch = 1..Len(batch) /\ Len(batch) \in Nat \ {0} /\ Tail(batch) \in Seq(Event)
      /\ DOMAIN Tail(batch) = 1..Len(batch) - 1
      /\ \A i \in DOMAIN Tail(batch) : Tail(batch)[i] = batch[i + 1]
  <2>1. batch \in Seq(Event)
    BY DEF Inv, TypeOK
  <2> QED BY <1>1, <2>1
<1>4. inbox' = IF pc[c] = "on" THEN [inbox EXCEPT ![c] = Append(inbox[c], e)] ELSE inbox
  BY DEF Send
<1>5. /\ last => cursor' = 0 /\ batch' = Tail(batch)
      /\ ~last => cursor' = cursor + 1 /\ batch' = batch
  BY DEF Send
<1>14. /\ cursor' \in Nat /\ 0 < Len(subs) /\ cursor' < Len(subs)
       /\ ~last => cursor + 1 \in 1..cursor'
  <2>1. cursor \in Nat /\ cursor < Len(subs) /\ Len(subs) \in Nat
    BY <1>2
  <2>2. last => cursor' = 0
    BY <1>5
  <2>3. ~last => cursor' = cursor + 1
    BY <1>5
  <2> QED BY <2>1, <2>2, <2>3
<1>6. /\ \A i, j \in DOMAIN subs : subs[i] = subs[j] => i = j
      /\ \A d \in Callers : pc[d] = "on" => \E i \in DOMAIN subs : subs[i] = d
      /\ \A d \in Callers : pc[d] \notin {"on", "dropped"} => inbox[d] = <<>>
  BY DEF Inv, Listed
<1>7. /\ \A i, j \in DOMAIN batch : batch[i].iface = batch[j].iface => i = j
      /\ \A i \in DOMAIN batch : batch[i].as = known[batch[i].iface]
  BY DEF Inv, Sending
<1>8. inbox \in [Callers -> Seq(Event)] /\ base \in [Callers -> View]
  BY DEF Inv, TypeOK
<1> HIDE DEF c, e
<1>9. inbox' \in [Callers -> Seq(Event)] /\ \A d \in Callers : d # c => inbox'[d] = inbox[d]
  <2>1. Append(inbox[c], e) \in Seq(Event)
    BY <1>2, <1>3, <1>8
  <2> QED BY <1>2, <1>4, <1>8, <2>1
<1>10. TypeOK'
  <2>1. cursor' \in 0..Len(subs)
    BY <1>14
  <2>2. batch' \in Seq(Event)
    BY <1>3, <1>5
  <2> QED BY <1>1, <1>9, <2>1, <2>2 DEF Inv, TypeOK, os, mutex
<1>11. Starting' /\ Listed'
  <2>1. Starting'
    BY <1>1 DEF Inv, Starting, mutex
  <2>2. \A d \in Callers : pc[d] \notin {"on", "dropped"} => inbox'[d] = inbox[d]
    BY <1>4, <1>9
  <2> QED BY <1>1, <2>1, <2>2 DEF Inv, Listed
<1>12. Sending'
  <2>1. CASE last
    <3>1. \A i \in DOMAIN batch' : i \in Nat /\ i + 1 \in DOMAIN batch /\ batch'[i] = batch[i + 1]
      BY <1>3, <1>5, <2>1
    <3>2. \A i, j \in DOMAIN batch' : batch'[i].iface = batch'[j].iface => i + 1 = j + 1
      BY <1>7, <3>1
    <3>3. \A i, j \in DOMAIN batch' : i + 1 = j + 1 => i = j
      BY <3>1
    <3>4. /\ \A i, j \in DOMAIN batch' : batch'[i].iface = batch'[j].iface => i = j
          /\ \A i \in DOMAIN batch' : batch'[i].as = known'[batch'[i].iface]
      BY <1>1, <1>7, <3>1, <3>2, <3>3
    <3>5. cursor' = 0 /\ 0 < Len(subs')
      BY <1>1, <1>5, <1>14, <2>1
    <3> QED BY <3>4, <3>5 DEF Sending
  <2>2. CASE ~last
    <3>1. cursor' < Len(subs') /\ UNCHANGED <<batch, known>>
      BY <1>1, <1>5, <1>14, <2>2
    <3> QED BY <1>1, <1>7, <3>1 DEF Sending
  <2> QED BY <2>1, <2>2
<1>13. ASSUME NEW d \in Callers PROVE Fed(d)'
  <2> DEFINE view == Told(base[d], inbox[d])
             all == view[Len(inbox[d])]
  <2>1. /\ \A n \in DOMAIN inbox[d] : News(view[n - 1], inbox[d][n])
        /\ pc[d] = "on" => Completes(Unsent(d), all)
    BY DEF Inv, Feeds, Fed
  <2>2. CASE d # c \/ pc[d] # "on"
    <3>1. inbox'[d] = inbox[d] /\ base'[d] = base[d] /\ pc'[d] = pc[d] /\ known' = known
      BY <1>1, <1>4, <1>9, <2>2
    <3>2. pc[d] = "on" => Unsent(d)' = Unsent(d)
      <4> SUFFICES ASSUME pc[d] = "on" PROVE Unsent(d)' = Unsent(d)
        OBVIOUS
      <4>1. PICK i \in 1..Len(subs) : subs[i] = d
        BY <1>2, <1>6
      <4>2. i # cursor + 1
        BY <2>2, <4>1 DEF c
      <4>3. CASE last
        <5>1. i \in 1..cursor
          BY <1>2, <4>2, <4>3
        <5>2. Unsent(d) = Tail(batch)
          BY <4>1, <5>1 DEF Unsent
        <5>3. Unsent(d)' = Tail(batch)
          BY <1>5, <4>3 DEF Unsent
        <5> QED BY <5>2, <5>3
      <4>4. CASE ~last
        <5>1. (\E k \in 1..cursor + 1 : subs[k] = d) <=> \E k \in 1..cursor : subs[k] = d
          BY <1>2, <2>2 DEF c
        <5> QED BY <1>1, <1>5, <4>4, <5>1 DEF Unsent
      <4> QED BY <4>3, <4>4
    <3> QED BY <2>1, <3>1, <3>2 DEF Fed, Completes
  <2>3. CASE d = c /\ pc[d] = "on"
    <3> DEFINE n == Len(inbox[d])
               then == Told(base[d], Append(inbox[d], e))
    <3>1. Unsent(d) = batch
      <4>1. \A k \in 1..cursor : subs[k] # d
        <5>1. \A k \in 1..cursor : k \in DOMAIN subs /\ k # cursor + 1
          BY <1>2
        <5> QED BY <1>2, <1>6, <2>3, <5>1 DEF c
      <4> QED BY <4>1 DEF Unsent
    <3>2. Unsent(d)' = Tail(batch)
      <4>1. CASE last
        BY <1>5, <4>1 DEF Unsent
      <4>2. CASE ~last
        <5>1. cursor + 1 \in 1..cursor' /\ subs'[cursor + 1] = d
          BY <1>1, <1>14, <2>3, <4>2 DEF c
        <5> QED BY <1>5, <4>2, <5>1 DEF Unsent
      <4> QED BY <4>1, <4>2
    <3>3. /\ inbox'[d] = Append(inbox[d], e) /\ base'[d] = base[d] /\ pc'[d] = pc[d]
          /\ known' = known
      BY <1>1, <1>4, <1>8, <2>3
    <3>4. /\ inbox[d] \in Seq(Event) /\ base[d] \in View /\ n \in Nat
          /\ Len(inbox'[d]) = n + 1 /\ DOMAIN inbox[d] = 1..n /\ DOMAIN inbox'[d] = 1..n + 1
          /\ inbox'[d][n + 1] = e /\ \A k \in 1..n : inbox'[d][k] = inbox[d][k]
      <4>1. inbox[d] \in Seq(Event) /\ base[d] \in View
        BY <1>8
      <4> QED BY <1>3, <3>3, <4>1
    <3>5. all \in View
      BY <3>4, ToldIs DEF IsTold
    <3>6. News(all, e) /\ Completes(Tail(batch), Apply(all, e))
      BY <1>1, <1>3, <1>7, <2>1, <2>3, <3>1, <3>5, OneMore DEF e
    <3>7. /\ \A k \in 0..n : then[k] = view[k]
          /\ then[n + 1] = Apply(all, e)
      BY <1>3, <3>4, ToldGrows
    <3> HIDE DEF then, view
    <3>8. ASSUME NEW k \in 1..n + 1 PROVE News(then[k - 1], inbox'[d][k])
      <4>1. CASE k = n + 1
        <5>1. then[k - 1] = all /\ inbox'[d][k] = e
          BY <3>4, <3>7, <4>1
        <5> QED BY <3>6, <5>1
      <4>2. CASE k # n + 1
        <5>1. k \in 1..n /\ k - 1 \in 0..n
          BY <3>4, <4>2
        <5> QED BY <2>1, <3>4, <3>7, <5>1
      <4> QED BY <4>1, <4>2
    <3>9. Told(base[d], inbox[d])' = then
      BY <3>3 DEF then
    <3> QED BY <3>2, <3>3, <3>4, <3>6, <3>7, <3>8, <3>9 DEF Fed, Completes
  <2> QED BY <2>2, <2>3
<1> QED BY <1>10, <1>11, <1>12, <1>13 DEF Inv, Feeds

-----------------------------------------------------------------------------
(* The watcher: the theorems *)

\* Every state of the watcher satisfies the invariant: the equations of every
\* feed, in the middle of a callback as well as between two.
THEOREM Invariance == Spec => []Inv
<1>1. Init => Inv
  BY InitHolds
<1>2. Inv /\ [Next]_vars => Inv'
  <2> SUFFICES ASSUME Inv, [Next]_vars PROVE Inv'
    OBVIOUS
  <2>1. CASE OsChange
    BY <2>1, OsChangeKeeps
  <2>2. CASE Callback
    BY <2>2, CallbackKeeps
  <2>3. CASE Send
    BY <2>3, SendKeeps
  <2>4. ASSUME NEW c \in Callers, Subscribe(c) PROVE Inv'
    BY <2>4, EnsureKeeps, WatchKeeps, WatchFailsKeeps, StoreKeeps, PushKeeps DEF Subscribe
  <2>5. ASSUME NEW c \in Callers, Retry(c) \/ DropReceiver(c) PROVE Inv'
    BY <2>5, RetryKeeps, DropReceiverKeeps
  <2>6. CASE UNCHANGED vars
    <3>1. UNCHANGED <<present, changes, known, watches, handle, holder,
                      subs, batch, cursor, inbox, pc, base, retries>>
      BY <2>6 DEF vars, os, mutex, feed
    <3>2. TypeOK' /\ Starting' /\ Listed'
      BY <3>1 DEF Inv, TypeOK, Starting, Listed
    <3>3. Sending' /\ Feeds'
      BY <3>1, FeedsStay DEF Inv, feed
    <3> QED BY <3>2, <3>3 DEF Inv
  <2> QED BY <2>1, <2>2, <2>3, <2>4, <2>5, <2>6 DEF Next
<1> QED BY <1>1, <1>2, PTL DEF Spec

\* The type invariant holds of any number of callers: whoever starts the watch,
\* and nobody else, holds the mutex.
THEOREM TypeCorrect == Spec => []TypeOK
<1>1. Inv => TypeOK
  BY DEF Inv
<1> QED BY <1>1, Invariance, PTL

\* backend.rs: whatever callers subscribe, fail, try again and drop their receivers
\* while callbacks run, one watch feeds them, and what each was sent over what was
\* known when it joined is what is known now, every event news when it came.
THEOREM FeedComplete == Spec => []FeedIsComplete
<1>1. Inv => FeedIsComplete
  <2> SUFFICES ASSUME Inv PROVE FeedIsComplete
    OBVIOUS
  <2>1. OneWatch
    BY DEF Inv, Starting, OneWatch
  <2>2. ASSUME NEW c \in Callers
        PROVE  LET view == Told(base[c], inbox[c])
               IN  /\ \A n \in DOMAIN inbox[c] : News(view[n - 1], inbox[c][n])
                   /\ pc[c] = "on" /\ ListFree => view[Len(inbox[c])] = known
    <3> DEFINE view == Told(base[c], inbox[c])
               all == view[Len(inbox[c])]
    <3>1. Fed(c)
      BY DEF Inv, Feeds
    <3>2. ASSUME pc[c] = "on", ListFree PROVE all = known
      <4>1. Completes(<<>>, all)
        BY <3>1, <3>2 DEF Inv, Sending, Fed, Unsent, ListFree
      <4>2. all \in View
        <5>1. base[c] \in View /\ inbox[c] \in Seq(Event) /\ Len(inbox[c]) \in 0..Len(inbox[c])
          BY DEF Inv, TypeOK
        <5> QED BY <5>1, ToldIs DEF IsTold
      <4>3. known \in View /\ \A x \in Interfaces : all[x] = known[x]
        BY <4>1 DEF Inv, TypeOK, Completes
      <4> HIDE DEF all
      <4> QED BY <4>2, <4>3 DEF View
    <3> QED BY <3>1, <3>2 DEF Fed
  <2> QED BY <2>1, <2>2 DEF FeedIsComplete
<1> QED BY <1>1, Invariance, PTL

-----------------------------------------------------------------------------
(* Conversions: one call at a time *)

\* The name of a call tells which step made it.
LEMMA TheCall ==
  ASSUME CNext
  PROVE  /\ request'.op = "project" => Project
         /\ request'.op = "load_env" => LoadEnv
         /\ request'.op = "load_file" => LoadFile
         /\ request'.op = "ask" => Ask
         /\ request'.op = "list" => List
         /\ request'.op = "recv" => Receive
         /\ request'.op = "delay_for" => Delay
         /\ request'.op = "process" => RunProcessors
         /\ request'.op = "render" => Render
<1>1. Project => request'.op = "project"
  BY DEF Project, Calls
<1>2. LoadEnv => request'.op = "load_env"
  BY DEF LoadEnv, Calls
<1>3. LoadFile => request'.op = "load_file"
  BY DEF LoadFile, Calls
<1>4. LoadEnvOnly => request'.op = "load_env_only"
  BY DEF LoadEnvOnly, Calls
<1>5. Connect => request'.op = "new"
  BY DEF Connect, Calls
<1>6. Ask => request'.op = "ask"
  BY DEF Ask, Calls
<1>7. List => request'.op = "list"
  BY DEF List, Calls
<1>8. Receive => request'.op = "recv"
  BY DEF Receive, Calls
<1>9. Delay => request'.op = "delay_for"
  BY DEF Delay, Calls
<1>10. Classify => request'.op = "classify_error"
  BY DEF Classify, Calls
<1>11. RunProcessors => request'.op = "process"
  BY DEF RunProcessors, Calls
<1>12. Render => request'.op = "render"
  BY DEF Render, Calls
<1>13. Return => request'.op = "idle"
  BY DEF Return, Idle
<1> QED BY <1>1, <1>2, <1>3, <1>4, <1>5, <1>6, <1>7, <1>8, <1>9, <1>10, <1>11, <1>12, <1>13
           DEF CNext

-----------------------------------------------------------------------------
(* Conversions: retry delays *)

\* The shift by no bit is one, and each further bit doubles it.
LEMMA ShiftedIs ==
  ASSUME NEW e \in Nat
  PROVE  /\ Shifted(e) \in Nat \ {0} /\ Shifted(0) = 1
         /\ Shifted(e + 1) = 2 * Shifted(e)
<1> DEFINE Is(f, n) == f = [k \in 0..n |-> IF k = 0 THEN 1 ELSE 2 * f[k - 1]]
<1>1. ASSUME NEW n \in Nat
      PROVE  \E f \in [0..n -> Nat \ {0}] :
               /\ f[0] = 1 /\ \A k \in 1..n : f[k] = 2 * f[k - 1]
               /\ Shifted(n) = f[n]
  <2> DEFINE V == Nat \ {0}
             twice == [v \in V |-> 2 * v]
             double == [k \in 1..n |-> twice]
  <2>1. PICK f : Goes(f, 1, double, V, n)
    <3>1. twice \in [V -> V] /\ 1 \in V
      OBVIOUS
    <3>2. double \in [1..n -> [V -> V]]
      BY <3>1
    <3> HIDE DEF double, twice, V
    <3> QED BY <3>1, <3>2, Recursion
  <2>2. f \in [0..n -> V] /\ f[0] = 1 /\ \A k \in 1..n : f[k] = 2 * f[k - 1]
    <3>1. f \in [0..n -> V] /\ f[0] = 1 /\ \A k \in 1..n : f[k] = double[k][f[k - 1]]
      BY <2>1 DEF Goes
    <3>2. \A k \in 1..n : k - 1 \in 0..n /\ f[k - 1] \in V
      BY <3>1
    <3>3. \A k \in 1..n : double[k][f[k - 1]] = 2 * f[k - 1]
      BY <3>2
    <3> QED BY <3>1, <3>3
  <2>3. Is(f, n)
    BY <2>2
  <2>4. ASSUME NEW g, Is(g, n) PROVE g = f
    <3>1. Follows(g, f, n)
      BY <2>2, <2>4 DEF Follows
    <3>2. \A k \in 0..n : g[k] = f[k]
      BY <3>1, StepByStep
    <3> QED BY <2>3, <2>4, <3>2
  <2>5. (CHOOSE g : Is(g, n)) = f
    BY <2>3, <2>4
  <2>6. Shifted(n) = f[n]
    BY <2>5 DEF Shifted
  <2> QED BY <2>2, <2>6
<1> HIDE DEF Is
<1>2. PICK f \in [0..e + 1 -> Nat \ {0}] :
         /\ f[0] = 1 /\ \A k \in 1..e + 1 : f[k] = 2 * f[k - 1]
         /\ Shifted(e + 1) = f[e + 1]
  <2>1. e + 1 \in Nat
    OBVIOUS
  <2> QED BY <1>1, <2>1
<1>3. PICK g \in [0..e -> Nat \ {0}] :
         /\ g[0] = 1 /\ \A k \in 1..e : g[k] = 2 * g[k - 1]
         /\ Shifted(e) = g[e]
  BY <1>1
<1>4. f[e] = g[e]
  <2>1. Follows(f, g, e)
    BY <1>2, <1>3 DEF Follows
  <2> QED BY <2>1, StepByStep
<1>5. Shifted(0) = 1
  BY <1>1
<1> QED BY <1>2, <1>3, <1>4, <1>5

\* The multiplier doubles until it stays at the largest number of its width.
LEMMA MultiplierIs ==
  ASSUME NEW e \in Nat
  PROVE  /\ Multiplier(e) \in Nat \ {0} /\ Multiplier(e) <= Multiplier(e + 1)
         /\ e + 1 < ShiftWidth => Multiplier(e + 1) = 2 * Multiplier(e)
<1>1. /\ Shifted(e) \in Nat \ {0} /\ Shifted(e + 1) = 2 * Shifted(e)
      /\ Shifted(ShiftWidth) = 2 * Shifted(ShiftWidth - 1) /\ Shifted(ShiftWidth - 1) \in Nat \ {0}
  <2>1. ShiftWidth - 1 \in Nat /\ (ShiftWidth - 1) + 1 = ShiftWidth
    BY PipelineAssumption
  <2> QED BY <2>1, ShiftedIs
<1>2. ShiftWidth \in Nat
  BY PipelineAssumption
<1>3. CASE e + 1 < ShiftWidth
  BY <1>1, <1>2, <1>3 DEF Multiplier
<1>4. CASE e + 1 = ShiftWidth
  BY <1>1, <1>2, <1>4 DEF Multiplier
<1>5. CASE e >= ShiftWidth
  BY <1>1, <1>2, <1>5 DEF Multiplier
<1> QED BY <1>2, <1>3, <1>4, <1>5

\* A policy backs off after any attempt.
LEMMA BacksOff ==
  ASSUME NEW policy \in Retries, NEW attempt \in Attempts
  PROVE  Backoff(policy, attempt)
<1> DEFINE initial == policy.initial_delay
           max == policy.max_delay
           Wait(m) == Least(Proposed(initial, m, max), max)
<1>1. /\ policy.kind = "exponential" /\ initial \in Nat /\ max \in Nat
      /\ attempt \in Nat /\ DurationMax \in Nat
  BY InputsAssumption, PipelineAssumption
<1>2. ASSUME NEW m \in Nat PROVE initial * m \in Nat /\ Wait(m) \in Nat /\ Wait(m) <= max
  BY <1>1 DEF Least, Proposed
<1>3. DelayFor(policy, attempt) = IF attempt <= 1 THEN 0 ELSE Wait(Multiplier(attempt - 2))
  BY <1>1 DEF DelayFor
<1>4. DelayFor(policy, attempt + 1) = IF attempt < 1 THEN 0 ELSE Wait(Multiplier(attempt - 1))
  <2>1. attempt + 1 - 2 = attempt - 1 /\ (attempt + 1 <= 1 <=> attempt < 1)
    BY <1>1
  <2> QED BY <1>1, <2>1 DEF DelayFor
<1> HIDE DEF initial, max
<1>5. CASE attempt <= 1
  <2>1. CASE attempt = 0
    BY <1>1, <1>3, <1>4, <2>1 DEF Backoff, max
  <2>2. CASE attempt = 1
    <3>1. Multiplier(0) \in Nat
      BY MultiplierIs
    <3>2. attempt - 1 = 0 /\ Wait(Multiplier(0)) \in Nat
      BY <1>2, <2>2, <3>1
    <3> HIDE DEF Wait
    <3> QED BY <1>1, <1>3, <1>4, <2>2, <3>2 DEF Backoff, max
  <2> QED BY <1>1, <1>5, <2>1, <2>2
<1>6. CASE attempt > 1
  <2> DEFINE m == Multiplier(attempt - 2)
             n == Multiplier(attempt - 1)
  <2>1. /\ m \in Nat /\ n \in Nat /\ m <= n
        /\ attempt - 1 < ShiftWidth => n = 2 * m
    <3>1. attempt - 2 \in Nat /\ attempt - 1 \in Nat /\ attempt - 2 + 1 = attempt - 1
      BY <1>1, <1>6
    <3> QED BY <3>1, MultiplierIs
  <2> HIDE DEF m, n
  <2>2. Wait(m) <= Wait(n)
    <3>1. initial * m <= initial * n
      <4>1. PICK d \in Nat : n = m + d
        <5>1. n - m \in Nat /\ n = m + (n - m)
          BY <2>1
        <5> QED BY <5>1
      <4>2. initial * n = initial * m + initial * d /\ initial * d \in Nat
        BY <1>1, <2>1, <4>1
      <4> QED BY <1>2, <2>1, <4>2
    <3> DEFINE x == initial * m
               y == initial * n
    <3>2. x \in Nat /\ y \in Nat /\ x <= y
      BY <1>2, <2>1, <3>1
    <3>3. Wait(m) = Least(IF x <= DurationMax THEN x ELSE max, max)
      BY DEF Proposed
    <3>4. Wait(n) = Least(IF y <= DurationMax THEN y ELSE max, max)
      BY DEF Proposed
    <3> HIDE DEF x, y, Wait
    <3> QED BY <1>1, <3>2, <3>3, <3>4 DEF Least
  <2>3. ASSUME n = 2 * m PROVE Wait(n) = 2 * Wait(m) \/ Wait(n) = max
    <3> DEFINE x == initial * m
               y == initial * n
    <3>1. x \in Nat /\ y = 2 * x
      BY <1>1, <1>2, <2>1, <2>3
    <3>2. Wait(m) = Least(IF x <= DurationMax THEN x ELSE max, max)
      BY DEF Proposed
    <3>3. Wait(n) = Least(IF y <= DurationMax THEN y ELSE max, max)
      BY DEF Proposed
    <3> HIDE DEF x, y, Wait
    <3> QED BY <1>1, <3>1, <3>2, <3>3 DEF Least
  <2>4. Wait(m) <= max
    BY <1>2, <2>1
  <2>5. DelayFor(policy, attempt) = Wait(m) /\ DelayFor(policy, attempt + 1) = Wait(n)
    BY <1>1, <1>3, <1>4, <1>6 DEF m, n
  <2>6. attempt \in 2..ShiftWidth => n = 2 * m
    BY <1>1, <2>1, PipelineAssumption
  <2> HIDE DEF Wait
  <2> QED BY <2>2, <2>3, <2>4, <2>5, <2>6 DEF Backoff, max
<1> QED BY <1>1, <1>5, <1>6

\* config/pipeline: whatever the initial delay and the cap, no delay shrinks or
\* exceeds the cap, also where the shift or the product overflows, and each doubles
\* or is the cap while the shift has bits.
THEOREM BackoffHolds == CSpec => []DelaysBackOff
<1>1. CInit => DelaysBackOff
  BY DEF CInit, Idle, DelaysBackOff
<1>2. DelaysBackOff /\ [CNext]_cvars => DelaysBackOff'
  <2> SUFFICES ASSUME DelaysBackOff, [CNext]_cvars PROVE DelaysBackOff'
    OBVIOUS
  <2>1. CASE CNext
    <3> SUFFICES ASSUME Delay PROVE DelaysBackOff'
      BY <2>1, TheCall DEF DelaysBackOff
    <3>1. PICK policy \in Retries \cup {NoRetry, Fixed(0, 3)}, attempt \in Attempts :
             /\ request'.input.policy = policy /\ request'.input.attempt = attempt
             /\ answer'.delay = DelayFor(policy, attempt) /\ answer'.max = MaxAttempts(policy)
      BY DEF Delay, Calls
    <3>2. attempt \in Nat
      BY InputsAssumption
    <3>3. answer'.max >= 1
      BY <3>1, InputsAssumption DEF MaxAttempts, NoRetry, Fixed
    <3>4. ASSUME policy.kind = "exponential" PROVE policy \in Retries
      BY <3>4 DEF NoRetry, Fixed
    <3>5. policy.kind = "exponential" => answer'.delay = 0 \/ attempt > 1
      BY <3>1, <3>2 DEF DelayFor
    <3> QED BY <3>1, <3>3, <3>4, <3>5, BacksOff DEF DelaysBackOff
  <2>2. CASE UNCHANGED cvars
    BY <2>2 DEF cvars, DelaysBackOff
  <2> QED BY <2>1, <2>2
<1> QED BY <1>1, <1>2, PTL DEF CSpec

-----------------------------------------------------------------------------
(* Conversions: the steps of a run of processors *)

\* The state of the loop of process_with before its first turn.
NotYetRun == [config |-> <<>>, steps |-> <<>>, error |-> <<>>]

\* The state after a turn.
Turn(processor, before) ==
  IF before.error # <<>> THEN before
  ELSE IF processor.behaviour = "fails"
  THEN [before EXCEPT !.error = <<processor.name>>]
  ELSE [config |-> Process(processor, before.config),
        steps |-> Append(before.steps, Step(processor, before.config)),
        error |-> <<>>]

\* The states of the loop, turn by turn.
Run(run, processors) ==
  run = [i \in 0..Len(processors) |->
           IF i = 0 THEN NotYetRun ELSE Turn(processors[i], run[i - 1])]

\* What configurations, steps and errors are made of.
NamesOf(processors) == { processors[i].name : i \in DOMAIN processors }
StepsOf(processors) ==
  [processor_name : NamesOf(processors), input : Seq(NamesOf(processors)),
   output : Seq(NamesOf(processors))]

\* The states the loop can be in.
States(processors) ==
  [config : Seq(NamesOf(processors)), steps : Seq(StepsOf(processors)),
   error : Seq(NamesOf(processors))]

\* A turn makes a state of a state.
LEMMA TurnType ==
  ASSUME NEW processors, NEW i \in DOMAIN processors, NEW before \in States(processors)
  PROVE  Turn(processors[i], before) \in States(processors)
<1> DEFINE N == NamesOf(processors)
           S == StepsOf(processors)
           p == processors[i]
<1>1. p.name \in N
  BY DEF NamesOf
<1>2. before.config \in Seq(N) /\ before.steps \in Seq(S) /\ before.error \in Seq(N)
  BY DEF States
<1> HIDE DEF p, N, S
<1>3. <<p.name>> \in Seq(N) /\ Process(p, before.config) \in Seq(N)
  BY <1>1, <1>2 DEF Process
<1>4. Step(p, before.config) \in S
  BY <1>1, <1>2, <1>3 DEF Step, StepsOf, S, N
<1>5. Append(before.steps, Step(p, before.config)) \in Seq(S)
  BY <1>2, <1>4
<1>6. before \in [config : Seq(N), steps : Seq(S), error : Seq(N)]
  BY DEF States, N, S
<1>7. Turn(p, before) \in [config : Seq(N), steps : Seq(S), error : Seq(N)]
  <2>1. CASE before.error # <<>>
    BY <1>6, <2>1 DEF Turn
  <2>2. CASE before.error = <<>> /\ p.behaviour = "fails"
    BY <1>3, <1>6, <2>2 DEF Turn
  <2>3. CASE before.error = <<>> /\ p.behaviour # "fails"
    BY <1>3, <1>5, <2>3 DEF Turn
  <2> QED BY <2>1, <2>2, <2>3
<1> QED BY <1>7 DEF States, N, S, p

\* Steps is defined: its loop has the states it says, and no others.
LEMMA StepsIs ==
  ASSUME NEW processors, IsList(processors)
  PROVE  \E run \in [0..Len(processors) -> States(processors)] :
           /\ run[0] = NotYetRun
           /\ \A i \in DOMAIN processors : run[i] = Turn(processors[i], run[i - 1])
           /\ Steps(processors, <<>>) = run[Len(processors)]
<1> DEFINE N == Len(processors)
           V == States(processors)
           step == [i \in 1..N |-> [before \in V |-> Turn(processors[i], before)]]
<1>1. N \in Nat /\ DOMAIN processors = 1..N
  BY DEF IsList
<1>2. NotYetRun \in V
  BY DEF NotYetRun, States
<1>3. \A i \in 1..N, before \in V : Turn(processors[i], before) \in V
  BY <1>1, TurnType
<1> HIDE DEF V, N
<1>4. step \in [1..N -> [V -> V]]
  BY <1>3
<1>5. PICK run : Goes(run, NotYetRun, step, V, N)
  <2> HIDE DEF step
  <2> QED BY <1>1, <1>2, <1>4, Recursion
<1>6. /\ run \in [0..N -> V] /\ run[0] = NotYetRun
      /\ \A i \in 1..N : run[i] = Turn(processors[i], run[i - 1])
  <2>1. /\ run \in [0..N -> V] /\ run[0] = NotYetRun
        /\ \A i \in 1..N : run[i] = step[i][run[i - 1]]
    BY <1>5 DEF Goes
  <2>2. \A i \in 1..N : i - 1 \in 0..N /\ run[i - 1] \in V
    BY <1>1, <2>1
  <2> QED BY <2>1, <2>2
<1>7. Run(run, processors)
  BY <1>6 DEF Run, N
<1>8. ASSUME NEW other, Run(other, processors) PROVE other = run
  <2>1. Follows(other, run, N)
    BY <1>1, <1>6, <1>8 DEF Follows, Run, N
  <2>2. \A i \in 0..N : other[i] = run[i]
    BY <1>1, <2>1, StepByStep
  <2> QED BY <1>7, <1>8, <2>2 DEF Run, N
<1>9. (CHOOSE other : Run(other, processors)) = run
  BY <1>7, <1>8
<1>10. Steps(processors, <<>>) = run[N]
  BY <1>9 DEF Steps, Run, NotYetRun, Turn, N
<1> QED BY <1>1, <1>6, <1>10 DEF N, V

\* What is true after i turns: the steps are the processors that succeeded, up to
\* the i-th or to the one that failed.
Reported(state, processors, i) ==
  LET done == Len(state.steps)
  IN /\ Chained(state.steps, <<>>) /\ done <= i
     /\ \A k \in 1..done : /\ state.steps[k].processor_name = processors[k].name
                           /\ processors[k].behaviour # "fails"
     /\ IF state.error = <<>>
        THEN done = i /\ state.config = IF done = 0 THEN <<>> ELSE state.steps[done].output
        ELSE /\ done < i /\ processors[done + 1].behaviour = "fails"
             /\ state.error = <<processors[done + 1].name>>

\* A turn takes what is true of the turns before one further.
LEMMA TurnReports ==
  ASSUME NEW processors, NEW i \in DOMAIN processors, i \in Nat \ {0},
         NEW state \in States(processors), Reported(state, processors, i - 1)
  PROVE  Reported(Turn(processors[i], state), processors, i)
<1> DEFINE p == processors[i]
           S == StepsOf(processors)
           done == Len(state.steps)
           step == Step(p, state.config)
           next == Turn(p, state)
<1>1. state.steps \in Seq(S) /\ done \in Nat /\ DOMAIN state.steps = 1..done
  BY DEF States
<1>2. CASE state.error # <<>>
  BY <1>1, <1>2 DEF Turn, Reported
<1>3. CASE state.error = <<>> /\ p.behaviour = "fails"
  <2>1. next.steps = state.steps /\ next.error = <<p.name>> /\ next.error # <<>>
    BY <1>3 DEF Turn, States
  <2>2. done = i - 1 /\ done + 1 = i
    BY <1>1, <1>3 DEF Reported
  <2> HIDE DEF next
  <2>3. Reported(next, processors, i)
    BY <1>1, <1>3, <2>1, <2>2 DEF Reported
  <2> QED BY <2>3 DEF next
<1>4. CASE state.error = <<>> /\ p.behaviour # "fails"
  <2>1. /\ next.steps = Append(state.steps, step) /\ next.error = <<>>
        /\ next.config = step.output /\ step.input = state.config
        /\ step.processor_name = p.name
    BY <1>4 DEF Turn, Step
  <2>2. done = i - 1 /\ done + 1 = i
    BY <1>1, <1>4 DEF Reported
  <2> HIDE DEF next, step
  <2>3. /\ Len(next.steps) = i /\ DOMAIN next.steps = 1..i /\ next.steps[i] = step
        /\ \A k \in 1..i - 1 : next.steps[k] = state.steps[k]
    BY <1>1, <2>1, <2>2
  <2>4. Chained(next.steps, <<>>)
    <3> SUFFICES ASSUME NEW k \in 1..i
                 PROVE  next.steps[k].input = IF k = 1 THEN <<>> ELSE next.steps[k - 1].output
      BY <2>3 DEF Chained
    <3>1. CASE k = i
      <4>1. next.steps[k].input = state.config
        BY <2>1, <2>3, <3>1
      <4>2. state.config = IF i = 1 THEN <<>> ELSE state.steps[i - 1].output
        <5>1. state.config = IF done = 0 THEN <<>> ELSE state.steps[done].output
          BY <1>4 DEF Reported
        <5>2. done = i - 1 /\ (done = 0 <=> i = 1)
          BY <2>2
        <5> HIDE DEF done
        <5> QED BY <5>1, <5>2
      <4>3. i # 1 => next.steps[i - 1] = state.steps[i - 1]
        <5>1. i # 1 => i - 1 \in 1..i - 1
          OBVIOUS
        <5> QED BY <2>3, <5>1
      <4> QED BY <3>1, <4>1, <4>2, <4>3
    <3>2. CASE k # i
      <4>1. k \in 1..i - 1 /\ (k # 1 => k - 1 \in 1..i - 1)
        BY <3>2
      <4>2. state.steps[k].input = IF k = 1 THEN <<>> ELSE state.steps[k - 1].output
        BY <1>1, <2>2, <4>1 DEF Reported, Chained
      <4> QED BY <2>3, <4>1, <4>2
    <3> QED BY <3>1, <3>2
  <2>5. \A k \in 1..i : /\ next.steps[k].processor_name = processors[k].name
                        /\ processors[k].behaviour # "fails"
    <3> SUFFICES ASSUME NEW k \in 1..i
                 PROVE  /\ next.steps[k].processor_name = processors[k].name
                        /\ processors[k].behaviour # "fails"
      OBVIOUS
    <3>1. CASE k = i
      BY <1>4, <2>1, <2>3, <3>1
    <3>2. CASE k # i
      <4>1. k \in 1..i - 1
        BY <3>2
      <4> QED BY <2>2, <2>3, <4>1 DEF Reported
    <3> QED BY <3>1, <3>2
  <2>6. next.config = next.steps[i].output
    BY <2>1, <2>3
  <2>7. Reported(next, processors, i)
    BY <2>1, <2>3, <2>4, <2>5, <2>6 DEF Reported
  <2> QED BY <2>7 DEF next
<1> QED BY <1>2, <1>3, <1>4

\* config/pipeline: of any list of processors, the steps reported are those that
\* succeeded, in order and chained, up to the first that failed.
THEOREM StepsTold == CSpec => []StepsTellTheRun
<1>1. CInit => StepsTellTheRun
  BY DEF CInit, Idle, StepsTellTheRun
<1>2. StepsTellTheRun /\ [CNext]_cvars => StepsTellTheRun'
  <2> SUFFICES ASSUME StepsTellTheRun, [CNext]_cvars PROVE StepsTellTheRun'
    OBVIOUS
  <2>1. CASE CNext
    <3> SUFFICES ASSUME RunProcessors PROVE StepsTellTheRun'
      BY <2>1, TheCall DEF StepsTellTheRun
    <3>1. PICK processors \in Runs : /\ request'.input = processors
                                     /\ answer' = ProcessWith(processors, <<>>)
      BY DEF RunProcessors, Calls
    <3>2. IsList(processors)
      BY InputsAssumption
    <3>3. PICK run \in [0..Len(processors) -> States(processors)] :
             /\ run[0] = NotYetRun
             /\ \A i \in DOMAIN processors : run[i] = Turn(processors[i], run[i - 1])
             /\ Steps(processors, <<>>) = run[Len(processors)]
      BY <3>2, StepsIs
    <3> DEFINE N == Len(processors)
               T == { i \in 0..N : Reported(run[i], processors, i) }
    <3>4. N \in Nat /\ DOMAIN processors = 1..N
      BY <3>2 DEF IsList
    <3> HIDE DEF N
    <3>a. run \in [0..N -> States(processors)]
      BY <3>3 DEF N
    <3>5. 0 \in T
      BY <3>3, <3>4 DEF Reported, NotYetRun, Chained
    <3>6. ASSUME NEW i \in 1..N, i - 1 \in T PROVE i \in T
      <4>1. i \in Nat \ {0} /\ i \in 0..N /\ i - 1 \in 0..N
        BY <3>4
      <4>2. run[i - 1] \in States(processors)
        BY <3>a, <4>1
      <4>3. Reported(run[i - 1], processors, i - 1)
        BY <3>6
      <4>4. run[i] = Turn(processors[i], run[i - 1]) /\ i \in DOMAIN processors
        BY <3>3, <3>4
      <4>5. Reported(run[i], processors, i)
        BY <4>1, <4>2, <4>3, <4>4, TurnReports
      <4> QED BY <4>1, <4>5
    <3> HIDE DEF T
    <3>7. N \in 0..N /\ N \in T
      BY <3>4, <3>5, <3>6, Induct
    <3> DEFINE end == run[N]
    <3>8. /\ Reported(end, processors, N)
          /\ answer' = [ok |-> end.error = <<>>, config |-> end.config, steps |-> end.steps,
                        error |-> end.error]
      BY <3>1, <3>3, <3>7 DEF T, ProcessWith, N
    <3>9. end.steps \in Seq(StepsOf(processors)) /\ Len(end.steps) \in Nat
      BY <3>3, <3>7 DEF States, N
    <3> HIDE DEF end
    <3>10. /\ answer'.ok <=> end.error = <<>>
           /\ answer'.config = end.config /\ answer'.steps = end.steps /\ answer'.error = end.error
      BY <3>8
    <3> QED BY <3>1, <3>8, <3>9, <3>10 DEF Reported, StepsTellTheRun, N
  <2>2. CASE UNCHANGED cvars
    BY <2>2 DEF cvars, StepsTellTheRun
  <2> QED BY <2>1, <2>2
<1> QED BY <1>1, <1>2, PTL DEF CSpec

-----------------------------------------------------------------------------
(* Conversions: the cascade of configurations *)

\* The overrides of an environment over a configuration that has the values of a
\* file over the defaults.
LEMMA OverridesAre ==
  ASSUME NEW env, NEW values, NEW config,
         \A f \in Loader!Fields :
           config[f] = IF f \in DOMAIN values THEN values[f] ELSE Loader!Defaults[f]
  PROVE  LET result == Loader!ApplyEnvOverrides(env, config)
         IN  /\ result.ok <=> Loader!Readable(env)
             /\ result.ok => Loader!Cascade(env, values, result.config)
<1>1. \A f \in Loader!Fields : f \in Loader!EnvFields <=> f \notin Loader!PluginFields
  BY DEF Loader!Fields, Loader!EnvFields, Loader!StringFields, Loader!BoolFields,
         Loader!PluginFields
<1>2. CASE ~Loader!Readable(env)
  BY <1>2 DEF Loader!ApplyEnvOverrides, Loader!Failed
<1>3. CASE Loader!Readable(env)
  <2> DEFINE over == [f \in Loader!Fields |->
                        IF f \in DOMAIN env \cap Loader!EnvFields THEN Loader!EnvValue(f, env[f])
                        ELSE config[f]]
  <2>1. Loader!ApplyEnvOverrides(env, config) = Loader!Loaded(over)
    BY <1>3 DEF Loader!ApplyEnvOverrides
  <2>2. Loader!Cascade(env, values, over)
    BY <1>1 DEF Loader!Cascade
  <2> HIDE DEF over
  <2> QED BY <1>3, <2>1, <2>2 DEF Loader!Loaded
<1> QED BY <1>2, <1>3

\* A file that is there gives its configuration or stops the loading.
LEMMA FileCascades ==
  ASSUME NEW env, NEW file, file.exists
  PROVE  LET result == Loader!LoadFile(env, file)
         IN  /\ result.ok <=> /\ file.format \in Loader!Formats /\ file.parses
                              /\ Loader!Readable(env)
             /\ result.ok => Loader!Cascade(env, file.values, result.config)
<1> DEFINE config == [key \in DOMAIN file.values \cup DOMAIN Loader!Defaults |->
                        IF key \in DOMAIN file.values THEN file.values[key]
                        ELSE Loader!Defaults[key]]
           result == Loader!LoadFile(env, file)
           last == Loader!ApplyEnvOverrides(env, config)
<1>1. /\ last.ok <=> Loader!Readable(env)
      /\ last.ok => Loader!Cascade(env, file.values, last.config)
  <2>1. \A f \in Loader!Fields :
          config[f] = IF f \in DOMAIN file.values THEN file.values[f] ELSE Loader!Defaults[f]
    BY DEF Loader!Defaults
  <2> HIDE DEF config
  <2> QED BY <2>1, OverridesAre
<1>2. result = IF file.format \notin Loader!Formats THEN Loader!Failed("format")
               ELSE IF ~file.parses THEN Loader!Failed("parse")
               ELSE last
  BY DEF Loader!LoadFile, Loader!++
<1> HIDE DEF config, last, result
<1> QED BY <1>1, <1>2 DEF Loader!Failed, result

\* The first file found decides; without one the environment and the defaults do.
LEMMA FirstDecides ==
  ASSUME NEW env, NEW paths, IsList(paths), NEW files
  PROVE  LET result == Loader!LoadEnv(env, paths, files)
         IN  /\ \A i \in DOMAIN paths : Loader!FoundFirst(paths, files, i)
                  => result = Loader!LoadFile(env, files[paths[i]])
             /\ (\A i \in DOMAIN paths : ~files[paths[i]].exists)
                  => /\ result.ok <=> Loader!Readable(env)
                     /\ result.ok => Loader!Cascade(env, <<>>, result.config)
<1> DEFINE found == Loader!Existing(paths, files)
           first == CHOOSE i \in found : \A j \in found : i <= j
<1>1. DOMAIN paths = 1..Len(paths) /\ Len(paths) \in Nat
  BY DEF IsList
<1>2. ASSUME NEW i \in DOMAIN paths, Loader!FoundFirst(paths, files, i)
      PROVE  Loader!LoadEnv(env, paths, files) = Loader!LoadFile(env, files[paths[i]])
  <2>1. i \in found /\ \A j \in found : i <= j /\ j \in Nat
    BY <1>1, <1>2 DEF Loader!Existing, Loader!FoundFirst
  <2>2. \A k \in found : (\A j \in found : k <= j) => k = i
    BY <1>1, <2>1
  <2>3. first = i
    <3> HIDE DEF found
    <3> QED BY <2>1, <2>2
  <2> QED BY <2>1, <2>3 DEF Loader!LoadEnv
<1>3. ASSUME \A i \in DOMAIN paths : ~files[paths[i]].exists
      PROVE  LET result == Loader!LoadEnv(env, paths, files)
             IN  /\ result.ok <=> Loader!Readable(env)
                 /\ result.ok => Loader!Cascade(env, <<>>, result.config)
  <2>1. found = {}
    BY <1>3 DEF Loader!Existing
  <2>2. Loader!LoadEnv(env, paths, files) = Loader!LoadEnvOnly(env)
    BY <2>1 DEF Loader!LoadEnv
  <2>3. LET result == Loader!ApplyEnvOverrides(env, Loader!Defaults)
        IN  /\ result.ok <=> Loader!Readable(env)
            /\ result.ok => Loader!Cascade(env, <<>>, result.config)
    BY OverridesAre
  <2> QED BY <2>2, <2>3 DEF Loader!LoadEnvOnly
<1> QED BY <1>2, <1>3

\* shared/config: of any sources, environment over file over defaults, field by
\* field, and one file, the first that exists, decides.
THEOREM Cascading == CSpec => []CascadeHolds
<1>1. CInit => CascadeHolds
  BY DEF CInit, Idle, CascadeHolds
<1>2. CascadeHolds /\ [CNext]_cvars => CascadeHolds'
  <2> SUFFICES ASSUME CascadeHolds, [CNext]_cvars PROVE CascadeHolds'
    OBVIOUS
  <2>1. CASE CNext
    <3>1. ASSUME request'.op = "load_env" PROVE CascadeHolds'
      <4>1. PICK s \in Sources : 
               LET paths == Loader!SearchPaths(s.userDir, s.system)
               IN  /\ request' = [op |-> "load_env",
                                  input |-> [env |-> s.env, paths |-> paths, files |-> s.files]]
                   /\ answer' = Loader!LoadEnv(s.env, paths, s.files)
        BY <2>1, <3>1, TheCall DEF LoadEnv, Calls
      <4> DEFINE paths == Loader!SearchPaths(s.userDir, s.system)
                 env == s.env
                 files == s.files
      <4>2. paths \in Seq({"user.yaml", "user.json", "etc.yaml", "etc.json"})
        <5> DEFINE P == {"user.yaml", "user.json", "etc.yaml", "etc.json"}
                   own == IF s.userDir THEN <<"user.yaml", "user.json">> ELSE <<>>
                   etc == IF s.system THEN <<"etc.yaml", "etc.json">> ELSE <<>>
        <5>1. own \in Seq(P) /\ etc \in Seq(P)
          <6>1. <<"user.yaml", "user.json">> \in Seq(P)
            OBVIOUS
          <6>2. <<"etc.yaml", "etc.json">> \in Seq(P)
            OBVIOUS
          <6>3. <<>> \in Seq(P)
            OBVIOUS
          <6> QED BY <6>1, <6>2, <6>3, Zenon
        <5>2. paths = own \o etc
          BY DEF Loader!SearchPaths
        <5> HIDE DEF own, etc, paths
        <5> QED BY <5>1, <5>2
      <4> HIDE DEF paths, env, files
      <4>3. IsList(paths)
        BY <4>2 DEF IsList
      <4>4. /\ request'.input.env = env /\ request'.input.paths = paths
            /\ request'.input.files = files /\ answer' = Loader!LoadEnv(env, paths, files)
        BY <4>1 DEF paths, env, files
      <4>5. ASSUME NEW i \in DOMAIN paths, Loader!FoundFirst(paths, files, i)
            PROVE  /\ answer'.ok <=> /\ files[paths[i]].format \in Loader!Formats
                                     /\ files[paths[i]].parses /\ Loader!Readable(env)
                   /\ answer'.ok => Loader!Cascade(env, files[paths[i]].values, answer'.config)
        <5>1. files[paths[i]].exists
          BY <4>5 DEF Loader!FoundFirst
        <5>2. answer' = Loader!LoadFile(env, files[paths[i]])
          BY <4>3, <4>4, <4>5, FirstDecides
        <5> QED BY <5>1, <5>2, FileCascades
      <4>6. (\A i \in DOMAIN paths : ~files[paths[i]].exists)
               => /\ answer'.ok <=> Loader!Readable(env)
                  /\ answer'.ok => Loader!Cascade(env, <<>>, answer'.config)
        BY <4>3, <4>4, FirstDecides
      <4> QED BY <3>1, <4>4, <4>5, <4>6 DEF CascadeHolds, Cascaded
    <3>2. ASSUME request'.op = "load_file" PROVE CascadeHolds'
      <4>1. PICK env, file : /\ request'.input.env = env /\ request'.input.file = file
                             /\ answer' = Loader!LoadFile(env, file)
        BY <2>1, <3>2, TheCall DEF LoadFile, Calls
      <4>2. file.exists
              => /\ answer'.ok <=> /\ file.format \in Loader!Formats /\ file.parses
                                   /\ Loader!Readable(env)
                 /\ answer'.ok => Loader!Cascade(env, file.values, answer'.config)
        BY <4>1, FileCascades
      <4> QED BY <3>2, <4>1, <4>2 DEF CascadeHolds, Cascaded
    <3> QED BY <3>1, <3>2 DEF CascadeHolds
  <2>2. CASE UNCHANGED cvars
    BY <2>2 DEF cvars, CascadeHolds, Cascaded
  <2> QED BY <2>1, <2>2
<1> QED BY <1>1, <1>2, PTL DEF CSpec

-----------------------------------------------------------------------------
(* What is picked from a list *)

\* A function on 1..n is a sequence of length n.
LEMMA LenIs ==
  ASSUME NEW n \in Nat, NEW f, f = [i \in 1..n |-> f[i]]
  PROVE  Len(f) = n /\ DOMAIN f = 1..n
<1>1. f \in [1..n -> { f[i] : i \in 1..n }]
  OBVIOUS
<1>2. f \in Seq({ f[i] : i \in 1..n })
  BY <1>1
<1> QED BY <1>1, <1>2

\* The places picked are those of the set, each once.
LEMMA PickedIs ==
  ASSUME NEW list, NEW n \in Nat, NEW S \in SUBSET (1..n)
  PROVE  /\ IsFiniteSet(S) /\ Cardinality(S) \in Nat
         /\ Len(Picked(list, S)) = Cardinality(S)
         /\ DOMAIN Picked(list, S) = 1..Cardinality(S)
         /\ \E at \in Bijection(1..Cardinality(S), S) :
              \A k \in 1..Cardinality(S) : Picked(list, S)[k] = list[at[k]]
<1> DEFINE c == Cardinality(S)
           upto(i) == {j \in S : j <= i}
           rank == [i \in S |-> Rank(S, i)]
           at == [k \in 1..c |-> CHOOSE i \in S : Rank(S, i) = k]
<1>1. IsFiniteSet(S) /\ c \in Nat
  <2>1. IsFiniteSet(1..n)
    BY FS_Interval
  <2> QED BY <2>1, FS_Subset, FS_CardinalityType
<1>2. ASSUME NEW i \in S
      PROVE  /\ IsFiniteSet(upto(i)) /\ Rank(S, i) \in 1..c
  <2>1. upto(i) \in SUBSET S /\ i \in upto(i)
    OBVIOUS
  <2>2. IsFiniteSet(upto(i)) /\ Cardinality(upto(i)) <= c /\ Cardinality(upto(i)) \in Nat
    BY <1>1, <2>1, FS_Subset, FS_CardinalityType
  <2>3. Cardinality(upto(i)) # 0
    BY <2>1, <2>2, FS_EmptySet
  <2> QED BY <1>1, <2>2, <2>3 DEF Rank
<1>3. ASSUME NEW i \in S, NEW j \in S, i < j PROVE Rank(S, i) # Rank(S, j)
  <2>1. \A k \in S : k \in Int
    OBVIOUS
  <2>2. j \in upto(j) /\ j \notin upto(i)
    BY <1>3, <2>1
  <2>3. upto(i) \in SUBSET upto(j)
    <3>1. \A k \in upto(i) : k \in upto(j)
      BY <1>3, <2>1
    <3> HIDE DEF upto
    <3> QED BY <3>1
  <2>4. IsFiniteSet(upto(j))
    BY <1>2
  <2>5. Cardinality(upto(i)) # Cardinality(upto(j))
    <3> HIDE DEF upto
    <3> QED BY <2>2, <2>3, <2>4, FS_Subset
  <2> QED BY <2>5 DEF Rank
<1> HIDE DEF c
<1>4. rank \in Injection(S, 1..c)
  <2>1. rank \in [S -> 1..c]
    BY <1>2
  <2>2. ASSUME NEW i \in S, NEW j \in S, rank[i] = rank[j] PROVE i = j
    BY <1>3, <2>2
  <2> QED BY <2>1, <2>2 DEF Injection, IsInjective
<1>5. rank \in Surjection(S, 1..c)
  <2>1. IsFiniteSet(1..c) /\ Cardinality(1..c) = c
    BY <1>1, FS_Interval
  <2> QED BY <1>4, <2>1, FS_Injection DEF c
<1>6. \A k \in 1..c : at[k] \in S /\ Rank(S, at[k]) = k
  <2>1. \A k \in 1..c : \E i \in S : Rank(S, i) = k
    BY <1>5 DEF Surjection
  <2> QED BY <2>1
<1>7. \A i \in S : Rank(S, i) \in 1..c /\ at[Rank(S, i)] = i
  <2> SUFFICES ASSUME NEW i \in S PROVE Rank(S, i) \in 1..c /\ at[Rank(S, i)] = i
    OBVIOUS
  <2>1. Rank(S, i) \in 1..c
    BY <1>2
  <2>2. at[Rank(S, i)] \in S /\ Rank(S, at[Rank(S, i)]) = Rank(S, i)
    BY <1>6, <2>1
  <2>3. \A j \in S : Rank(S, j) = Rank(S, i) => j = i
    BY <1>3
  <2> QED BY <2>1, <2>2, <2>3
<1>8. at \in [1..c -> S]
  BY <1>6
<1>9. Picked(list, S) = [k \in 1..c |-> list[at[k]]]
  BY DEF Picked, c
<1> HIDE DEF at
<1>10. at \in Bijection(1..c, S)
  <2>1. \A k, l \in 1..c : at[k] = at[l] => k = l
    BY <1>6
  <2>2. \A i \in S : \E k \in 1..c : at[k] = i
    BY <1>7
  <2> QED BY <1>8, <2>1, <2>2 DEF Bijection, Injection, Surjection, IsInjective
<1>11. Len(Picked(list, S)) = c /\ DOMAIN Picked(list, S) = 1..c
  BY <1>1, <1>9, LenIs
<1>12. \A k \in 1..c : Picked(list, S)[k] = list[at[k]]
  BY <1>9
<1> QED BY <1>1, <1>10, <1>11, <1>12 DEF c

\* Two modules that filter lists mean the same by it.
LEMMA SamePicked ==
  ASSUME NEW list, NEW S
  PROVE  Clash!Picked(list, S) = Picked(list, S) /\ Wit!Picked(list, S) = Picked(list, S)
BY DEF Clash!Picked, Wit!Picked, Picked, Clash!Rank, Wit!Rank, Rank,
       Clash!Cardinality, Wit!Cardinality, Cardinality

-----------------------------------------------------------------------------
(* Conversions: the answers of the control API *)

\* What a getter returns for a body.
Read(value, body) ==
  \/ value = "wanted" /\ body \in {"wanted", "listed"}
  \/ value = "default" /\ body \in {"object", "nothing"}

\* A good answer is a whole one.
LEMMA HttpIs ==
  ASSUME NEW response \in Responses, Clash!HttpRequest(response).ok
  PROVE  /\ Complete(response)
         /\ Clash!HttpRequest(response).value \in {"wanted", "listed", "object", "nothing"}
              => /\ response.framing = "length"
                 /\ response.body = Clash!HttpRequest(response).value
<1>1. response.framing \in Clash!Framings /\ response.body \in Clash!Bodies
  BY InputsAssumption
<1>2. Complete(response) /\ Clash!HttpRequest(response) = Clash!ParseBody(response)
  BY DEF Clash!HttpRequest, Clash!Error, Complete
<1> QED BY <1>1, <1>2 DEF Clash!ParseBody, Clash!Ok, Clash!Error, Clash!Framings, Clash!Bodies

\* What is read into a structure was the body of a whole answer.
LEMMA GetterIs ==
  ASSUME NEW response \in Responses, NEW lenient \in BOOLEAN,
         Clash!FromValue(Clash!HttpRequest(response), lenient).ok
  PROVE  /\ Complete(response) /\ response.framing = "length"
         /\ Read(Clash!FromValue(Clash!HttpRequest(response), lenient).value, response.body)
         /\ ~lenient => response.body \in {"wanted", "listed"}
<1> DEFINE whole == Clash!HttpRequest(response)
           value == Clash!FromValue(whole, lenient).value
<1>1. whole.ok
  BY DEF Clash!FromValue
<1>2. \/ whole.value \in {"wanted", "listed"} /\ value = "wanted"
      \/ whole.value \in {"object", "nothing"} /\ lenient /\ value = "default"
  BY <1>1 DEF Clash!FromValue, Clash!Ok, Clash!Error
<1> HIDE DEF value
<1>3. Complete(response) /\ response.framing = "length" /\ response.body = whole.value
  BY <1>1, <1>2, HttpIs
<1> HIDE DEF whole
<1> QED BY <1>2, <1>3 DEF Read, value, whole

\* Each operation of the client.
LEMMA CallIs ==
  ASSUME NEW response \in Responses, NEW operation \in Clash!Operations,
         Clash!Call(operation, response).ok
  PROVE  /\ Complete(response)
         /\ operation \in Clash!Getters =>
              /\ response.framing = "length"
              /\ Read(Clash!Call(operation, response).value, response.body)
<1>1. CASE operation = "get_version"
  <2>1. Clash!Call(operation, response) = Clash!FromValue(Clash!HttpRequest(response), FALSE)
    BY <1>1 DEF Clash!Call, Clash!GetVersion
  <2> QED BY <2>1, GetterIs
<1>2. CASE operation = "get_connections" \/ operation = "get_active_proxy"
  <2>1. Clash!Call(operation, response) = Clash!FromValue(Clash!HttpRequest(response), TRUE)
    BY <1>2 DEF Clash!Call, Clash!GetConnections, Clash!GetActiveProxy
  <2> QED BY <2>1, GetterIs
<1>3. CASE operation = "set_active_proxy"
  <2>1. Clash!SetActiveProxy(response).ok
    BY <1>3 DEF Clash!Call
  <2>2. Clash!HttpRequest(response).ok
    BY <2>1 DEF Clash!SetActiveProxy
  <2> QED BY <1>3, <2>2, HttpIs DEF Clash!Getters
<1> QED BY <1>1, <1>2, <1>3 DEF Clash!Operations, Clash!Getters

\* The selectors that are listed.
LEMMA SelectorsAre ==
  ASSUME NEW response \in Responses, NEW proxies \in Listings,
         Clash!GetProxySelectors(response, proxies).ok
  PROVE  /\ Complete(response) /\ response.body \in {"wanted", "listed"}
         /\ Len(Clash!GetProxySelectors(response, proxies).value)
              = Cardinality({i \in DOMAIN proxies : Clash!IsSelector(proxies[i])})
<1> DEFINE whole == Clash!FromValue(Clash!HttpRequest(response), FALSE)
           S == {i \in DOMAIN proxies : Clash!IsSelector(proxies[i])}
           picked == Clash!Picked(proxies, S)
           value == [i \in DOMAIN picked |-> Clash!Selector(picked[i])]
           result == Clash!GetProxySelectors(response, proxies)
<1>1. result = IF ~whole.ok THEN whole ELSE Clash!Ok(value)
  BY DEF Clash!GetProxySelectors
<1>2. whole.ok
  <2> HIDE DEF whole, value
  <2> QED BY <1>1
<1>3. result.value = value
  <2> HIDE DEF whole, value
  <2> QED BY <1>1, <1>2 DEF Clash!Ok
<1>4. DOMAIN proxies = 1..Len(proxies) /\ Len(proxies) \in Nat
  BY InputsAssumption DEF IsList
<1>5. S \in SUBSET (1..Len(proxies))
  BY <1>4
<1> HIDE DEF S
<1>6. Cardinality(S) \in Nat
  BY <1>4, <1>5, PickedIs
<1>7. DOMAIN picked = 1..Cardinality(S)
  <2>1. picked = Picked(proxies, S)
    BY SamePicked
  <2> HIDE DEF picked
  <2> QED BY <1>4, <1>5, <2>1, PickedIs
<1>8. Len(value) = Cardinality(S)
  <2> HIDE DEF picked
  <2>1. value = [i \in 1..Cardinality(S) |-> value[i]]
    BY <1>7
  <2> HIDE DEF value
  <2> QED BY <1>6, <2>1, LenIs
<1> QED BY <1>2, <1>3, <1>8, GetterIs DEF S

\* recv reads up to the first frame that decides, and answers the pings before it.
LEMMA RecvIs ==
  ASSUME NEW frames \in Streams
  PROVE  LET result == Clash!Recv(frames)
         IN  /\ result.results = {} <=> ~\E i \in DOMAIN frames : Clash!Decides(frames[i])
             /\ result.pongs = Cardinality({i \in 1 .. result.read : frames[i] = "ping"})
             /\ (\E r \in result.results : r.ok) =>
                  /\ frames[result.read] = "data"
                  /\ \A i \in 1 .. result.read - 1 : frames[i] \in {"ping", "pong"}
<1> DEFINE N == Len(frames)
           n == Clash!Deciding(frames)
           Stops(m) == /\ m <= N => Clash!Decides(frames[m])
                       /\ \A i \in 1 .. m - 1 : ~Clash!Decides(frames[i])
           read == SubSeq(frames, 1, n - 1)
           S == {i \in DOMAIN read : read[i] = "ping"}
           result == Clash!Recv(frames)
<1>1. frames \in Seq(Clash!Frames) /\ N \in Nat /\ DOMAIN frames = 1..N
  BY InputsAssumption
<1> HIDE DEF N
<1>2. \E m \in 1 .. N + 1 : Stops(m)
  <2> DEFINE T == { m \in 1 .. N + 1 : m <= N => Clash!Decides(frames[m]) }
  <2>1. T \in SUBSET Nat /\ T # {}
    <3>1. N + 1 \in T
      BY <1>1
    <3>2. \A m \in 1 .. N + 1 : m \in Nat
      BY <1>1
    <3> QED BY <3>1, <3>2
  <2>2. PICK m \in T : \A k \in T : m <= k
    <3> HIDE DEF T
    <3> QED BY <2>1, LeastNat
  <2>3. ASSUME NEW i \in 1 .. m - 1 PROVE ~Clash!Decides(frames[i])
    <3>1. i \in 1 .. N + 1 /\ ~(m <= i)
      BY <1>1, <2>2
    <3> QED BY <2>2, <3>1
  <2> QED BY <2>2, <2>3
<1>3. n \in 1 .. N + 1 /\ Stops(n)
  BY <1>2 DEF Clash!Deciding, N
<1> HIDE DEF n
<1>4. /\ result.read = (IF n <= N THEN n ELSE N)
      /\ result.pongs = Len(Clash!Picked(read, S))
      /\ result.results = IF n <= N THEN {Clash!RecvResult(frames[n])} ELSE {}
  BY DEF Clash!Recv, N, n
<1> HIDE DEF result
<1>5. result.results = {} <=> ~\E i \in DOMAIN frames : Clash!Decides(frames[i])
  <2>1. CASE n <= N
    <3>1. n \in DOMAIN frames
      BY <1>1, <1>3, <2>1
    <3> QED BY <1>3, <1>4, <2>1, <3>1
  <2>2. CASE ~(n <= N)
    <3>1. n - 1 = N
      BY <1>1, <1>3, <2>2
    <3> QED BY <1>1, <1>3, <1>4, <2>2, <3>1
  <2> QED BY <2>1, <2>2
<1>6. /\ read \in Seq(Clash!Frames) /\ Len(read) = n - 1 /\ n - 1 \in Nat
      /\ DOMAIN read = 1 .. n - 1
      /\ \A i \in 1 .. n - 1 : read[i] = frames[i]
  BY <1>1, <1>3 DEF N
<1> HIDE DEF read
<1>7. S = {i \in 1 .. result.read : frames[i] = "ping"}
  <2>1. CASE n <= N
    <3>1. frames[n] # "ping"
      BY <1>3, <2>1 DEF Clash!Decides
    <3>2. result.read = n /\ \A i \in 1 .. n : i \in 1 .. n - 1 \/ i = n
      BY <1>3, <1>4, <2>1
    <3>3. \A i : i \in S <=> i \in 1 .. n /\ frames[i] = "ping"
      <4>1. \A i : i \in S <=> i \in 1 .. n - 1 /\ frames[i] = "ping"
        BY <1>6
      <4>2. n \in Nat /\ \A i \in 1 .. n - 1 : i \in 1 .. n
        BY <1>1, <1>3
      <4> HIDE DEF S
      <4> QED BY <3>1, <3>2, <4>1, <4>2
    <3> HIDE DEF S
    <3> QED BY <3>2, <3>3
  <2>2. CASE ~(n <= N)
    <3>1. result.read = n - 1
      BY <1>1, <1>3, <1>4, <2>2
    <3> QED BY <1>6, <3>1
  <2> QED BY <2>1, <2>2
<1>8. S \in SUBSET (1 .. n - 1)
  BY <1>6
<1> HIDE DEF S
<1>9. result.pongs = Cardinality(S)
  <2>1. Clash!Picked(read, S) = Picked(read, S)
    BY SamePicked
  <2>2. Len(Picked(read, S)) = Cardinality(S)
    BY <1>6, <1>8, PickedIs
  <2> QED BY <1>4, <2>1, <2>2
<1>10. ASSUME NEW r \in result.results, r.ok
       PROVE  /\ frames[result.read] = "data"
              /\ \A i \in 1 .. result.read - 1 : frames[i] \in {"ping", "pong"}
  <2>1. n <= N /\ result.read = n /\ r = Clash!RecvResult(frames[n]) /\ n \in 1..N
    BY <1>1, <1>3, <1>4, <1>10
  <2>2. frames[n] = "data"
    <3>1. frames[n] \in {"data", "garbage", "unanswerable", "close", "lost"}
      BY <1>3, <2>1 DEF Clash!Decides
    <3> QED BY <1>10, <2>1, <3>1 DEF Clash!RecvResult, Clash!Error
  <2>3. ASSUME NEW i \in 1 .. n - 1 PROVE frames[i] \in {"ping", "pong"}
    <3>1. frames[i] \in Clash!Frames
      BY <1>1, <2>1
    <3>2. ~Clash!Decides(frames[i])
      BY <1>3
    <3> QED BY <3>1, <3>2 DEF Clash!Frames, Clash!Decides
  <2> QED BY <2>1, <2>2, <2>3
<1> QED BY <1>5, <1>7, <1>9, <1>10 DEF result

\* shared/clash-api: whatever the peer sends and however the connection ends, who
\* asks and is told Ok has got a whole object or array with a good status, read for
\* what it holds, and a subscription the first message that was sent, every ping
\* before it answered.
THEOREM WholeAnswers == CSpec => []AnswersAreWhole
<1>1. CInit => AnswersAreWhole
  BY DEF CInit, Idle, AnswersAreWhole
<1>2. AnswersAreWhole /\ [CNext]_cvars => AnswersAreWhole'
  <2> SUFFICES ASSUME AnswersAreWhole, [CNext]_cvars PROVE AnswersAreWhole'
    OBVIOUS
  <2>1. CASE CNext
    <3>1. ASSUME request'.op = "ask" PROVE AnswersAreWhole'
      <4>1. PICK operation \in Clash!Operations, response \in Responses :
              /\ request'.input.operation = operation /\ request'.input.response = response
              /\ answer' = Clash!Call(operation, response)
        BY <2>1, <3>1, TheCall DEF Ask, Calls
      <4> QED BY <3>1, <4>1, CallIs DEF AnswersAreWhole, Complete, Read
    <3>2. ASSUME request'.op = "list" PROVE AnswersAreWhole'
      <4>1. /\ request'.input.response \in Responses /\ request'.input.proxies \in Listings
            /\ answer' = Clash!GetProxySelectors(request'.input.response, request'.input.proxies)
        BY <2>1, <3>2, TheCall DEF List, Calls
      <4>2. answer'.ok =>
              /\ Complete(request'.input.response)
              /\ request'.input.response.body \in {"wanted", "listed"}
              /\ Len(answer'.value) = Cardinality({i \in DOMAIN request'.input.proxies :
                                          Clash!IsSelector(request'.input.proxies[i])})
        BY <4>1, SelectorsAre
      <4> QED BY <3>2, <4>2 DEF AnswersAreWhole, Complete
    <3>3. ASSUME request'.op = "recv" PROVE AnswersAreWhole'
      <4>1. request'.input \in Streams /\ answer' = Clash!Recv(request'.input)
        BY <2>1, <3>3, TheCall DEF Receive, Calls
      <4> QED BY <3>3, <4>1, RecvIs DEF AnswersAreWhole
    <3> QED BY <3>1, <3>2, <3>3 DEF AnswersAreWhole
  <2>2. CASE UNCHANGED cvars
    <3>1. request' = request /\ answer' = answer
      BY <2>2 DEF cvars
    <3>2. request'.op = "ask" /\ answer'.ok =>
            /\ Complete(request'.input.response)
            /\ request'.input.operation \in Clash!Getters =>
                 /\ request'.input.response.framing = "length"
                 /\ Read(answer'.value, request'.input.response.body)
      BY <3>1 DEF AnswersAreWhole, Complete, Read
    <3>3. request'.op = "list" /\ answer'.ok =>
            /\ Complete(request'.input.response)
            /\ request'.input.response.body \in {"wanted", "listed"}
            /\ Len(answer'.value) = Cardinality({i \in DOMAIN request'.input.proxies :
                                        Clash!IsSelector(request'.input.proxies[i])})
      BY <3>1 DEF AnswersAreWhole, Complete
    <3>4. request'.op = "recv" =>
            /\ answer'.results = {}
                 <=> ~\E i \in DOMAIN request'.input : Clash!Decides(request'.input[i])
            /\ answer'.pongs = Cardinality({i \in 1 .. answer'.read : request'.input[i] = "ping"})
            /\ (\E result \in answer'.results : result.ok) =>
                 /\ request'.input[answer'.read] = "data"
                 /\ \A i \in 1 .. answer'.read - 1 : request'.input[i] \in {"ping", "pong"}
      BY <3>1 DEF AnswersAreWhole
    <3> QED BY <3>2, <3>3, <3>4 DEF AnswersAreWhole, Complete, Read
  <2> QED BY <2>1, <2>2
<1> QED BY <1>1, <1>2, PTL DEF CSpec

-----------------------------------------------------------------------------
(* Conversions: the WIT world of a component *)

\* What the validation gives of a component's interfaces.
LEMMA ValidIs ==
  ASSUME NEW component \in Components, Wit!ValidComponent(component)
  PROVE  /\ IsList(component.imports) /\ IsList(component.exports)
         /\ Wit!NamesApart(component.imports) /\ Wit!NamesApart(component.exports)
         /\ \A i \in DOMAIN component.imports :
              \/ component.imports[i].external = Wit!Absent
              \/ component.imports[i].external \in ImportPaths
         /\ \A i \in DOMAIN component.exports : component.exports[i].external = Wit!Absent
<1>1. /\ Wit!ValidInterfaces("import", component.imports)
      /\ Wit!ValidInterfaces("export", component.exports)
  BY DEF Wit!ValidComponent
<1> QED BY <1>1, InputsAssumption
           DEF Wit!ValidInterfaces, Wit!ValidInterface, Wit!ExternalIsEmpty

\* The interfaces of the world are the local ones of the component, imports first,
\* each once.
LEMMA WorldIs ==
  ASSUME NEW component \in Components, Wit!ValidComponent(component)
  PROVE  LET imports == component.imports
             exports == component.exports
             world == Wit!RenderWitWorld(component)
         IN  \E from : 
               /\ \A k \in DOMAIN world.interfaces :
                    /\ from[k].list \in {"import", "export"}
                    /\ LET list == IF from[k].list = "import" THEN imports ELSE exports
                       IN  /\ from[k].at \in DOMAIN list /\ list[from[k].at].external = Wit!Absent
                           /\ world.interfaces[k].name = list[from[k].at].name
               /\ \A k, l \in DOMAIN world.interfaces :
                    from[k].list = from[l].list /\ from[k].at = from[l].at => k = l
               /\ \A i \in DOMAIN imports :
                    imports[i].external = Wit!Absent
                      => \E k \in DOMAIN world.interfaces :
                           world.interfaces[k].name = imports[i].name
               /\ \A i \in DOMAIN exports :
                    exports[i].external = Wit!Absent
                      => \E k \in DOMAIN world.interfaces :
                           world.interfaces[k].name = exports[i].name
<1> DEFINE imports == component.imports
           exports == component.exports
           world == Wit!RenderWitWorld(component)
           all == imports \o exports
           S == {i \in DOMAIN all : Wit!Local(all[i])}
           local == Wit!Picked(all, S)
           M == Len(imports)
           c == Cardinality(S)
<1>1. /\ M \in Nat /\ DOMAIN imports = 1..M
      /\ Len(exports) \in Nat /\ DOMAIN exports = 1..Len(exports)
      /\ DOMAIN all = 1..M + Len(exports)
      /\ \A i \in DOMAIN imports : i \in DOMAIN all /\ all[i] = imports[i]
      /\ \A i \in DOMAIN exports : M + i \in DOMAIN all /\ all[M + i] = exports[i]
  <2>1. IsList(imports) /\ IsList(exports)
    BY InputsAssumption
  <2> HIDE DEF imports, exports
  <2> QED BY <2>1 DEF IsList
<1>2. \A i \in DOMAIN all : \/ i \in DOMAIN imports /\ all[i] = imports[i]
                            \/ /\ i \notin DOMAIN imports /\ i - M \in DOMAIN exports
                               /\ all[i] = exports[i - M]
  <2> SUFFICES ASSUME NEW i \in DOMAIN all
               PROVE  \/ i \in DOMAIN imports /\ all[i] = imports[i]
                      \/ /\ i \notin DOMAIN imports /\ i - M \in DOMAIN exports
                         /\ all[i] = exports[i - M]
    OBVIOUS
  <2> HIDE DEF all, imports, exports, M
  <2>1. CASE i \in DOMAIN imports
    BY <1>1, <2>1
  <2>2. CASE i \notin DOMAIN imports
    <3>1. i - M \in 1..Len(exports) /\ M + (i - M) = i
      BY <1>1, <2>2
    <3> QED BY <1>1, <2>2, <3>1
  <2> QED BY <2>1, <2>2
<1>3. \A i : i \in S <=> i \in DOMAIN all /\ all[i].external = Wit!Absent
  BY DEF Wit!Local
<1>4. S \in SUBSET (1..M + Len(exports)) /\ M + Len(exports) \in Nat
  <2>1. S \in SUBSET DOMAIN all
    OBVIOUS
  <2> HIDE DEF all, S, M, imports, exports
  <2> QED BY <1>1, <2>1
<1>5. /\ DOMAIN world.interfaces = DOMAIN local
      /\ \A k \in DOMAIN local : world.interfaces[k].name = local[k].name
  BY DEF Wit!RenderWitWorld, Wit!RenderInterface
<1>6. local = Picked(all, S)
  BY SamePicked
<1> HIDE DEF local, world, S
<1>7. DOMAIN local = 1..c
  <2> HIDE DEF all
  <2> QED BY <1>4, <1>6, PickedIs
<1>8. PICK at \in Bijection(1..c, S) : \A k \in 1..c : local[k] = all[at[k]]
  <2> HIDE DEF all
  <2>1. \E at \in Bijection(1..c, S) : \A k \in 1..c : Picked(all, S)[k] = all[at[k]]
    <3> HIDE DEF M, exports
    <3> QED BY <1>4, PickedIs
  <2> HIDE DEF c
  <2> QED BY <1>6, <2>1
<1> HIDE DEF all, imports, exports, M, c
<1>9. /\ \A k \in 1..c : at[k] \in S
      /\ \A k, l \in 1..c : at[k] = at[l] => k = l
      /\ \A i \in S : \E k \in 1..c : at[k] = i
  BY <1>8 DEF Bijection, Injection, Surjection, IsInjective
<1> DEFINE from == [k \in 1..c |-> IF at[k] \in DOMAIN imports
                                   THEN [list |-> "import", at |-> at[k]]
                                   ELSE [list |-> "export", at |-> at[k] - M]]
<1>10. ASSUME NEW k \in DOMAIN world.interfaces
       PROVE  /\ from[k].list \in {"import", "export"}
              /\ LET list == IF from[k].list = "import" THEN imports ELSE exports
                 IN  /\ from[k].at \in DOMAIN list /\ list[from[k].at].external = Wit!Absent
                     /\ world.interfaces[k].name = list[from[k].at].name
  <2>1. /\ k \in 1..c /\ at[k] \in DOMAIN all /\ all[at[k]].external = Wit!Absent
        /\ world.interfaces[k].name = all[at[k]].name
    BY <1>3, <1>5, <1>7, <1>8, <1>9
  <2>2. CASE at[k] \in DOMAIN imports
    <3>1. from[k] = [list |-> "import", at |-> at[k]]
      BY <2>1, <2>2
    <3> HIDE DEF from
    <3> QED BY <1>2, <2>1, <2>2, <3>1
  <2>3. CASE at[k] \notin DOMAIN imports
    <3>1. from[k] = [list |-> "export", at |-> at[k] - M]
      BY <2>1, <2>3
    <3> HIDE DEF from
    <3> QED BY <1>2, <2>1, <2>3, <3>1
  <2> QED BY <2>2, <2>3
<1>11. ASSUME NEW k \in DOMAIN world.interfaces, NEW l \in DOMAIN world.interfaces,
              from[k].list = from[l].list, from[k].at = from[l].at
       PROVE  k = l
  <2>1. k \in 1..c /\ l \in 1..c /\ at[k] \in DOMAIN all /\ at[l] \in DOMAIN all
    BY <1>3, <1>5, <1>7, <1>9
  <2>2. at[k] \in Int /\ at[l] \in Int /\ M \in Int
    BY <1>1, <2>1
  <2>3. at[k] \in DOMAIN imports <=> at[l] \in DOMAIN imports
    BY <1>11, <2>1
  <2>4. at[k] = at[l]
    BY <1>11, <2>1, <2>2, <2>3
  <2> QED BY <1>9, <2>1, <2>4
<1>12. ASSUME NEW i \in DOMAIN all, all[i].external = Wit!Absent
       PROVE  \E k \in DOMAIN world.interfaces : world.interfaces[k].name = all[i].name
  BY <1>3, <1>5, <1>7, <1>8, <1>9, <1>12
<1>13. \A i \in DOMAIN imports :
         imports[i].external = Wit!Absent
           => \E k \in DOMAIN world.interfaces : world.interfaces[k].name = imports[i].name
  BY <1>1, <1>12
<1>14. \A i \in DOMAIN exports :
         exports[i].external = Wit!Absent
           => \E k \in DOMAIN world.interfaces : world.interfaces[k].name = exports[i].name
  BY <1>1, <1>12
<1> HIDE DEF from
<1> QED BY <1>10, <1>11, <1>13, <1>14 DEF imports, exports, world

\* The world of a valid component defines its interfaces, and none of them twice.
LEMMA WorldIsGood ==
  ASSUME NEW component \in Components, Wit!RenderWitWorld(component).ok
  PROVE  /\ Wit!InterfacesDefined(Wit!RenderWitWorld(component))
         /\ Wit!DefinedOnce(Wit!RenderWitWorld(component))
<1> DEFINE imports == component.imports
           exports == component.exports
           world == Wit!RenderWitWorld(component)
           names == Wit!DefinedNames(world)
           Import(i) == IF imports[i].external = Wit!Absent THEN imports[i].name
                        ELSE imports[i].external
<1>1. Wit!ValidComponent(component)
  BY DEF Wit!RenderWitWorld, Wit!Refused
<1>2. /\ world.imports = [i \in DOMAIN imports |-> Import(i)]
      /\ world.exports = [i \in DOMAIN exports |-> exports[i].name]
  BY <1>1 DEF Wit!RenderWitWorld, Wit!RenderImport, Wit!Local
<1>3. /\ Wit!NamesApart(imports) /\ Wit!NamesApart(exports)
      /\ \A i \in DOMAIN imports : imports[i].external \in ImportPaths \cup {Wit!Absent}
      /\ \A i \in DOMAIN exports : exports[i].external = Wit!Absent
  BY <1>1, ValidIs
<1>4. PICK from : 
        /\ \A k \in DOMAIN world.interfaces :
             /\ from[k].list \in {"import", "export"}
             /\ LET list == IF from[k].list = "import" THEN imports ELSE exports
                IN  /\ from[k].at \in DOMAIN list /\ list[from[k].at].external = Wit!Absent
                    /\ world.interfaces[k].name = list[from[k].at].name
        /\ \A k, l \in DOMAIN world.interfaces :
             from[k].list = from[l].list /\ from[k].at = from[l].at => k = l
        /\ \A i \in DOMAIN imports :
             imports[i].external = Wit!Absent
               => \E k \in DOMAIN world.interfaces : world.interfaces[k].name = imports[i].name
        /\ \A i \in DOMAIN exports :
             exports[i].external = Wit!Absent
               => \E k \in DOMAIN world.interfaces : world.interfaces[k].name = exports[i].name
  BY <1>1, WorldIs
<1> HIDE DEF world, imports, exports
<1>5. /\ \A x : x \in names <=> \E k \in DOMAIN world.interfaces : world.interfaces[k].name = x
      /\ \A x : x \in Wit!ToSet(world.imports) <=> \E i \in DOMAIN imports : Import(i) = x
      /\ \A x : x \in Wit!ToSet(world.exports) <=> \E i \in DOMAIN exports : exports[i].name = x
  BY <1>2 DEF Wit!DefinedNames, Wit!ToSet
<1>6. \A i \in DOMAIN imports : imports[i].external = Wit!Absent => imports[i].name \in names
  BY <1>4, <1>5
<1>7. \A i \in DOMAIN exports : exports[i].name \in names
  BY <1>3, <1>4, <1>5
<1>8. ASSUME NEW k \in DOMAIN world.interfaces
      PROVE  \/ /\ from[k].list = "import" /\ from[k].at \in DOMAIN imports
                /\ world.interfaces[k].name = imports[from[k].at].name
                /\ world.interfaces[k].name \in Wit!ToSet(world.imports)
             \/ /\ from[k].list = "export" /\ from[k].at \in DOMAIN exports
                /\ world.interfaces[k].name = exports[from[k].at].name
                /\ world.interfaces[k].name \in Wit!ToSet(world.exports)
  <2>1. CASE from[k].list = "import"
    <3>1. /\ from[k].at \in DOMAIN imports /\ imports[from[k].at].external = Wit!Absent
          /\ world.interfaces[k].name = imports[from[k].at].name
      BY <1>4, <2>1
    <3> QED BY <1>5, <2>1, <3>1
  <2>2. CASE from[k].list = "export"
    <3>1. /\ from[k].at \in DOMAIN exports
          /\ world.interfaces[k].name = exports[from[k].at].name
      BY <1>4, <2>2
    <3> QED BY <1>5, <2>2, <3>1
  <2> QED BY <1>4, <2>1, <2>2
<1> HIDE DEF names
<1>9. Wit!InterfacesDefined(world)
  <2>1. Wit!ToSet(world.exports) \subseteq names
    BY <1>5, <1>7
  <2>2. Wit!ToSet(world.imports) \subseteq names \cup ImportPaths
    BY <1>3, <1>5, <1>6
  <2>3. names \subseteq Wit!ToSet(world.imports) \cup Wit!ToSet(world.exports)
    BY <1>5, <1>8
  <2> QED BY <2>1, <2>2, <2>3 DEF Wit!InterfacesDefined, names
<1>10. ASSUME NEW k \in DOMAIN world.interfaces, NEW l \in DOMAIN world.interfaces,
              k # l, world.interfaces[k].name = world.interfaces[l].name
       PROVE  /\ world.interfaces[k].name \in Wit!ToSet(world.imports)
              /\ world.interfaces[k].name \in Wit!ToSet(world.exports)
  <2>1. from[k].list # from[l].list
    <3> SUFFICES ASSUME from[k].list = from[l].list PROVE FALSE
      OBVIOUS
    <3>1. from[k].at = from[l].at
      BY <1>3, <1>8, <1>10 DEF Wit!NamesApart
    <3> QED BY <1>4, <1>10, <3>1
  <2> QED BY <1>8, <1>10, <2>1
<1>11. Wit!DefinedOnce(world)
  BY <1>10 DEF Wit!DefinedOnce
<1> QED BY <1>9, <1>11 DEF world

\* contract.rs: of any component, the world defines the interfaces it exports and
\* those it imports that are no paths, and defines a name twice only if an import and
\* an export have it.
THEOREM InterfacesDefined == CSpec => []InterfacesAreDefined
<1>1. CInit => InterfacesAreDefined
  BY DEF CInit, Idle, InterfacesAreDefined
<1>2. InterfacesAreDefined /\ [CNext]_cvars => InterfacesAreDefined'
  <2> SUFFICES ASSUME InterfacesAreDefined, [CNext]_cvars PROVE InterfacesAreDefined'
    OBVIOUS
  <2>1. CASE CNext
    <3> SUFFICES ASSUME Render, answer'.ok PROVE InterfacesAreDefined'
      BY <2>1, TheCall DEF InterfacesAreDefined
    <3>1. PICK component \in Components : answer' = Wit!RenderWitWorld(component)
      BY DEF Render, Calls
    <3> QED BY <3>1, WorldIsGood DEF InterfacesAreDefined
  <2>2. CASE UNCHANGED cvars
    BY <2>2 DEF cvars, InterfacesAreDefined
  <2> QED BY <2>1, <2>2
<1> QED BY <1>1, <1>2, PTL DEF CSpec

-----------------------------------------------------------------------------
(* Conversions: objects put together *)

\* The fields of one object over another.
LEMMA MergedIs ==
  ASSUME NEW a, NEW b
  PROVE  /\ \A k : k \in DOMAIN (a ++ b) <=> k \in DOMAIN a \/ k \in DOMAIN b
         /\ \A k \in DOMAIN a : (a ++ b)[k] = a[k]
         /\ \A k \in DOMAIN b : k \notin DOMAIN a => (a ++ b)[k] = b[k]
BY DEF ++

\* The fields of an object under other names.
LEMMA RenamedIs ==
  ASSUME NEW table, NEW o
  PROVE  /\ \A k : k \in DOMAIN Proxy!Rename(table, o)
                     <=> k \in DOMAIN table /\ table[k] \in DOMAIN o
         /\ \A k \in DOMAIN table : table[k] \in DOMAIN o
              => Proxy!Rename(table, o)[k] = o[table[k]]
BY DEF Proxy!Rename

\* The fields of an object that is there under a condition.
LEMMA WhenIs ==
  ASSUME NEW condition, NEW object
  PROVE  /\ \A k : k \in DOMAIN Proxy!When(condition, object)
                     <=> condition /\ k \in DOMAIN object
         /\ condition => Proxy!When(condition, object) = object
BY DEF Proxy!When

\* The projections put objects over one another in the same way.
LEMMA SameMerge ==
  ASSUME NEW o, NEW sni
  PROVE  Proxy!TlsBlock(sni, o)
           = ([enabled |-> TRUE] ++ Proxy!Rename([server_name |-> sni, alpn |-> "alpn"], o))
             ++ Proxy!When(Proxy!Wants(o, "skip_cert_verify"), [insecure |-> TRUE])
BY DEF Proxy!TlsBlock, Proxy!++, ++

\* The tls block of sing-box takes the name of the server, the protocols and the
\* leave to skip the certificate from the outbound.
IsTls(tls, sni, o) ==
  /\ Proxy!SameOption(tls, "server_name", o, sni)
  /\ Proxy!SameOption(tls, "alpn", o, "alpn")
  /\ "insecure" \in DOMAIN tls <=> Proxy!Wants(o, "skip_cert_verify")
  /\ "insecure" \in DOMAIN tls => tls.insecure = TRUE

\* Every tls block does, and none has reality options of its own.
LEMMA TlsBlockIs ==
  ASSUME NEW o, NEW sni
  PROVE  IsTls(Proxy!TlsBlock(sni, o), sni, o) /\ "reality" \notin DOMAIN Proxy!TlsBlock(sni, o)
<1> DEFINE fixed == [enabled |-> TRUE]
           named == Proxy!Rename([server_name |-> sni, alpn |-> "alpn"], o)
           skip == Proxy!When(Proxy!Wants(o, "skip_cert_verify"), [insecure |-> TRUE])
<1>1. DOMAIN fixed = {"enabled"}
  OBVIOUS
<1>2. /\ DOMAIN named \subseteq {"server_name", "alpn"}
      /\ Proxy!SameOption(named, "server_name", o, sni)
      /\ Proxy!SameOption(named, "alpn", o, "alpn")
  BY RenamedIs DEF Proxy!SameOption
<1>3. /\ DOMAIN skip \subseteq {"insecure"}
      /\ "insecure" \in DOMAIN skip <=> Proxy!Wants(o, "skip_cert_verify")
      /\ "insecure" \in DOMAIN skip => skip.insecure = TRUE
  BY WhenIs
<1>4. Proxy!TlsBlock(sni, o) = (fixed ++ named) ++ skip
  BY SameMerge
<1> HIDE DEF fixed, named, skip
<1> QED BY <1>1, <1>2, <1>3, <1>4, MergedIs DEF IsTls, Proxy!SameOption

\* The tls block of vless has the reality options and the fingerprint besides.
LEMMA VlessTlsIs ==
  ASSUME NEW o
  PROVE  LET tls == Proxy!VlessTls(o)
         IN  /\ IsTls(tls, "server_name", o)
             /\ "reality" \in DOMAIN tls <=> "reality_opts" \in DOMAIN o
             /\ "reality" \in DOMAIN tls
                  => Proxy!SameOption(tls.reality, "public_key", o.reality_opts, "public_key")
<1> DEFINE block == Proxy!TlsBlock("server_name", o)
           options == [enabled |-> TRUE] ++ o.reality_opts
           reality == Proxy!When("reality_opts" \in DOMAIN o, [reality |-> options])
           utls == Proxy!When("client_fingerprint" \in DOMAIN o,
                              [utls |-> [enabled |-> TRUE, fingerprint |-> o.client_fingerprint]])
           tls == Proxy!VlessTls(o)
<1>1. tls = (block ++ reality) ++ utls
  BY DEF Proxy!VlessTls, Proxy!++, ++
<1>2. IsTls(block, "server_name", o) /\ "reality" \notin DOMAIN block
  BY TlsBlockIs
<1>3. Proxy!SameOption(options, "public_key", o.reality_opts, "public_key")
  BY MergedIs DEF Proxy!SameOption
<1> HIDE DEF block, options
<1>4. /\ DOMAIN reality \subseteq {"reality"}
      /\ "reality" \in DOMAIN reality <=> "reality_opts" \in DOMAIN o
      /\ "reality" \in DOMAIN reality => reality.reality = options
  BY DEF Proxy!When
<1>5. DOMAIN utls \subseteq {"utls"}
  BY WhenIs
<1> HIDE DEF reality, utls, tls
<1>6. IsTls(tls, "server_name", o)
  BY <1>1, <1>2, <1>4, <1>5, MergedIs DEF IsTls, Proxy!SameOption
<1>7. /\ "reality" \in DOMAIN tls <=> "reality" \in DOMAIN reality
      /\ "reality" \in DOMAIN tls => tls.reality = reality.reality
  BY <1>1, <1>2, <1>4, <1>5, MergedIs
<1>8. "reality" \in DOMAIN tls
        => Proxy!SameOption(tls.reality, "public_key", o.reality_opts, "public_key")
  BY <1>3, <1>4, <1>7
<1> QED BY <1>4, <1>6, <1>7, <1>8 DEF tls

\* The stream settings of Xray: which protection, and where its parts come from.
StreamFrom(stream, tls, sni, o) ==
  LET network == Proxy!XrayNetwork(Proxy!UnwrapOr(o, "network", "tcp"))
  IN  /\ stream.network = network
      /\ stream.security = IF "reality_opts" \in DOMAIN o THEN "reality"
                           ELSE IF tls THEN "tls" ELSE "none"
      /\ stream.security = "tls" =>
           /\ Proxy!SameOption(stream.tlsSettings, "serverName", o, sni)
           /\ Proxy!SameOption(stream.tlsSettings, "alpn", o, "alpn")
           /\ "allowInsecure" \in DOMAIN stream.tlsSettings <=> Proxy!Wants(o, "skip_cert_verify")
           /\ "allowInsecure" \in DOMAIN stream.tlsSettings
                => stream.tlsSettings.allowInsecure = TRUE
      /\ stream.security = "reality" =>
           /\ Proxy!SameOption(stream.realitySettings, "serverName", o, sni)
           /\ Proxy!SameOption(stream.realitySettings, "publicKey", o.reality_opts, "public_key")
      /\ \A k \in {"wsSettings", "grpcSettings", "httpSettings"} :
           Proxy!SameOption(stream, k, Proxy!XraySettings(network, o), k)

\* The stream settings of every outbound are of that form.
LEMMA StreamIs ==
  ASSUME NEW o, NEW tls, NEW sni
  PROVE  StreamFrom(Proxy!XrayStreamSettings(tls, sni, o), tls, sni, o)
<1> DEFINE security == IF "reality_opts" \in DOMAIN o THEN "reality"
                       ELSE IF tls THEN "tls" ELSE "none"
           network == Proxy!XrayNetwork(Proxy!UnwrapOr(o, "network", "tcp"))
           named == Proxy!Rename([serverName |-> sni, fingerprint |-> "client_fingerprint"], o)
           alpn == Proxy!Rename([alpn |-> "alpn"], o)
           skip == Proxy!When(Proxy!Wants(o, "skip_cert_verify"), [allowInsecure |-> TRUE])
           tlsSettings == (named ++ alpn) ++ skip
           keys == Proxy!Rename([publicKey |-> "public_key", shortId |-> "short_id"],
                                Proxy!UnwrapOr(o, "reality_opts", <<>>))
           realitySettings == named ++ keys
           fixed == [network |-> network, security |-> security]
           t == Proxy!When(security = "tls", [tlsSettings |-> tlsSettings])
           r == Proxy!When(security = "reality", [realitySettings |-> realitySettings])
           settings == Proxy!XraySettings(network, o)
           stream == Proxy!XrayStreamSettings(tls, sni, o)
<1>1. stream = ((fixed ++ t) ++ r) ++ settings
  BY DEF Proxy!XrayStreamSettings, Proxy!++, ++
<1>2. /\ DOMAIN named \subseteq {"serverName", "fingerprint"}
      /\ Proxy!SameOption(named, "serverName", o, sni)
  BY RenamedIs DEF Proxy!SameOption
<1>3. DOMAIN alpn \subseteq {"alpn"} /\ Proxy!SameOption(alpn, "alpn", o, "alpn")
  BY RenamedIs DEF Proxy!SameOption
<1>4. /\ DOMAIN skip \subseteq {"allowInsecure"}
      /\ "allowInsecure" \in DOMAIN skip <=> Proxy!Wants(o, "skip_cert_verify")
      /\ "allowInsecure" \in DOMAIN skip => skip.allowInsecure = TRUE
  BY WhenIs
<1>5. /\ DOMAIN keys \subseteq {"publicKey", "shortId"}
      /\ "reality_opts" \in DOMAIN o
           => Proxy!SameOption(keys, "publicKey", o.reality_opts, "public_key")
  BY RenamedIs DEF Proxy!SameOption, Proxy!UnwrapOr
<1>6. DOMAIN settings \subseteq {"wsSettings", "grpcSettings", "httpSettings"}
  <2> HIDE DEF network
  <2> DEFINE a == Proxy!When(network = "ws" /\ "ws_opts" \in DOMAIN o,
               [wsSettings |-> Proxy!Rename([path |-> "path", headers |-> "headers"], o.ws_opts)])
             b == Proxy!When(network = "grpc" /\ "grpc_opts" \in DOMAIN o,
               [grpcSettings |->
                  [serviceName |-> Proxy!UnwrapOr(o.grpc_opts, "grpc_service_name", "")]])
             c == Proxy!When(network = "http" /\ "h2_opts" \in DOMAIN o,
                             [httpSettings |-> o.h2_opts])
  <2>1. settings = (a ++ b) ++ c
    BY DEF Proxy!XraySettings, Proxy!++, ++
  <2>2. DOMAIN a \subseteq {"wsSettings"}
    BY DEF Proxy!When
  <2>3. DOMAIN b \subseteq {"grpcSettings"}
    BY DEF Proxy!When
  <2>4. DOMAIN c \subseteq {"httpSettings"}
    BY DEF Proxy!When
  <2> HIDE DEF a, b, c, settings
  <2> QED BY <2>1, <2>2, <2>3, <2>4, MergedIs
<1> HIDE DEF named, alpn, skip, keys, settings
<1>7. /\ Proxy!SameOption(tlsSettings, "serverName", o, sni)
      /\ Proxy!SameOption(tlsSettings, "alpn", o, "alpn")
      /\ "allowInsecure" \in DOMAIN tlsSettings <=> Proxy!Wants(o, "skip_cert_verify")
      /\ "allowInsecure" \in DOMAIN tlsSettings => tlsSettings.allowInsecure = TRUE
  BY <1>2, <1>3, <1>4, MergedIs DEF Proxy!SameOption
<1>8. /\ Proxy!SameOption(realitySettings, "serverName", o, sni)
      /\ "reality_opts" \in DOMAIN o
           => Proxy!SameOption(realitySettings, "publicKey", o.reality_opts, "public_key")
  BY <1>2, <1>5, MergedIs DEF Proxy!SameOption
<1> HIDE DEF tlsSettings, realitySettings
<1>9. /\ DOMAIN t \subseteq {"tlsSettings"}
      /\ security = "tls" => "tlsSettings" \in DOMAIN t /\ t.tlsSettings = tlsSettings
  BY DEF Proxy!When
<1>10. /\ DOMAIN r \subseteq {"realitySettings"}
       /\ security = "reality"
            => "realitySettings" \in DOMAIN r /\ r.realitySettings = realitySettings
  BY DEF Proxy!When
<1>11. DOMAIN fixed = {"network", "security"} /\ fixed.network = network /\ fixed.security = security
  OBVIOUS
<1>12. security = "reality" => "reality_opts" \in DOMAIN o
  OBVIOUS
<1> HIDE DEF t, r, fixed, stream, security, network
<1>13. stream.network = network /\ stream.security = security
  BY <1>1, <1>11, MergedIs
<1>14. security = "tls" => stream.tlsSettings = tlsSettings
  BY <1>1, <1>9, <1>11, MergedIs
<1>15. security = "reality" => stream.realitySettings = realitySettings
  BY <1>1, <1>9, <1>10, <1>11, MergedIs
<1>16. \A k \in {"wsSettings", "grpcSettings", "httpSettings"} :
         Proxy!SameOption(stream, k, settings, k)
  BY <1>1, <1>9, <1>10, <1>11, MergedIs DEF Proxy!SameOption
<1> QED BY <1>7, <1>8, <1>12, <1>13, <1>14, <1>15, <1>16
           DEF StreamFrom, stream, security, network, settings

-----------------------------------------------------------------------------
(* Conversions: transports *)

\* Which transport an outbound has: one whose options it gives.
OverWs(o) ==
  /\ "network" \in DOMAIN o /\ "ws_opts" \in DOMAIN o /\ o.network \in {"ws", "websocket"}
OverGrpc(o) == "network" \in DOMAIN o /\ "grpc_opts" \in DOMAIN o /\ o.network = "grpc"
OverHttp(o) ==
  /\ "network" \in DOMAIN o /\ "h2_opts" \in DOMAIN o /\ o.network \in {"h2", "http", "http2"}

\* The service name both cores are given.
Grpc(o) == Proxy!UnwrapOr(o.grpc_opts, "grpc_service_name", "")

\* What sing-box is given for a transport.
LEMMA AttachIs ==
  ASSUME NEW o
  PROVE  LET attached == Proxy!AttachTransport(o)
         IN  /\ "transport" \in DOMAIN attached <=> OverWs(o) \/ OverGrpc(o) \/ OverHttp(o)
             /\ DOMAIN attached \subseteq {"transport"}
             /\ OverWs(o) => attached.transport = [type |-> "ws"] ++ o.ws_opts
             /\ OverGrpc(o) => attached.transport = [type |-> "grpc", service_name |-> Grpc(o)]
             /\ OverHttp(o) => attached.transport = [type |-> "http"] ++ o.h2_opts
<1> DEFINE network == Proxy!UnwrapOr(o, "network", "none")
           ws == [type |-> "ws"] ++ o.ws_opts
           grpc == [type |-> "grpc", service_name |-> Grpc(o)]
           http == [type |-> "http"] ++ o.h2_opts
           a == Proxy!When(Proxy!WebSocket(network) /\ "ws_opts" \in DOMAIN o, [transport |-> ws])
           b == Proxy!When(network = "grpc" /\ "grpc_opts" \in DOMAIN o, [transport |-> grpc])
           c == Proxy!When(Proxy!Http2(network) /\ "h2_opts" \in DOMAIN o, [transport |-> http])
           attached == Proxy!AttachTransport(o)
<1>1. attached = (a ++ b) ++ c
  BY DEF Proxy!AttachTransport, Proxy!++, ++, Grpc
<1>2. /\ OverWs(o) <=> Proxy!WebSocket(network) /\ "ws_opts" \in DOMAIN o
      /\ OverGrpc(o) <=> network = "grpc" /\ "grpc_opts" \in DOMAIN o
      /\ OverHttp(o) <=> Proxy!Http2(network) /\ "h2_opts" \in DOMAIN o
  BY DEF OverWs, OverGrpc, OverHttp, Proxy!WebSocket, Proxy!Http2, Proxy!UnwrapOr
<1>3. ~(OverWs(o) /\ OverGrpc(o)) /\ ~(OverWs(o) /\ OverHttp(o)) /\ ~(OverGrpc(o) /\ OverHttp(o))
  BY DEF OverWs, OverGrpc, OverHttp
<1> HIDE DEF ws, grpc, http, network
<1>4. DOMAIN a \subseteq {"transport"} /\ ("transport" \in DOMAIN a <=> OverWs(o))
      /\ (OverWs(o) => a.transport = ws)
  BY <1>2 DEF Proxy!When
<1>5. DOMAIN b \subseteq {"transport"} /\ ("transport" \in DOMAIN b <=> OverGrpc(o))
      /\ (OverGrpc(o) => b.transport = grpc)
  BY <1>2 DEF Proxy!When
<1>6. DOMAIN c \subseteq {"transport"} /\ ("transport" \in DOMAIN c <=> OverHttp(o))
      /\ (OverHttp(o) => c.transport = http)
  BY <1>2 DEF Proxy!When
<1> HIDE DEF a, b, c, attached
<1>7. "transport" \in DOMAIN attached <=> OverWs(o) \/ OverGrpc(o) \/ OverHttp(o)
  BY <1>1, <1>4, <1>5, <1>6, MergedIs
<1>8. DOMAIN attached \subseteq {"transport"}
  BY <1>1, <1>4, <1>5, <1>6, MergedIs
<1>9. /\ OverWs(o) => attached.transport = ws
      /\ OverGrpc(o) => attached.transport = grpc
      /\ OverHttp(o) => attached.transport = http
  BY <1>1, <1>3, <1>4, <1>5, <1>6, MergedIs
<1> QED BY <1>7, <1>8, <1>9 DEF attached, ws, grpc, http

\* What Xray is given for a transport.
LEMMA SettingsAre ==
  ASSUME NEW o
  PROVE  LET network == Proxy!XrayNetwork(Proxy!UnwrapOr(o, "network", "tcp"))
             settings == Proxy!XraySettings(network, o)
         IN  /\ "wsSettings" \in DOMAIN settings <=> OverWs(o)
             /\ "grpcSettings" \in DOMAIN settings <=> OverGrpc(o)
             /\ "httpSettings" \in DOMAIN settings <=> OverHttp(o)
             /\ OverWs(o) =>
                  /\ network = "ws"
                  /\ Proxy!SameOption(settings.wsSettings, "path", o.ws_opts, "path")
                  /\ "serviceName" \notin DOMAIN settings.wsSettings
             /\ OverGrpc(o) => network = "grpc" /\ settings.grpcSettings = [serviceName |-> Grpc(o)]
             /\ OverHttp(o) => network = "http" /\ settings.httpSettings = o.h2_opts
<1> DEFINE network == Proxy!XrayNetwork(Proxy!UnwrapOr(o, "network", "tcp"))
           ws == Proxy!Rename([path |-> "path", headers |-> "headers"], o.ws_opts)
           grpc == [serviceName |-> Grpc(o)]
           a == Proxy!When(network = "ws" /\ "ws_opts" \in DOMAIN o, [wsSettings |-> ws])
           b == Proxy!When(network = "grpc" /\ "grpc_opts" \in DOMAIN o, [grpcSettings |-> grpc])
           c == Proxy!When(network = "http" /\ "h2_opts" \in DOMAIN o, [httpSettings |-> o.h2_opts])
           settings == Proxy!XraySettings(network, o)
<1>1. settings = (a ++ b) ++ c
  BY DEF Proxy!XraySettings, Proxy!++, ++, Grpc
<1>2. /\ OverWs(o) <=> network = "ws" /\ "ws_opts" \in DOMAIN o
      /\ OverGrpc(o) <=> network = "grpc" /\ "grpc_opts" \in DOMAIN o
      /\ OverHttp(o) <=> network = "http" /\ "h2_opts" \in DOMAIN o
  BY DEF OverWs, OverGrpc, OverHttp, Proxy!WebSocket, Proxy!XrayNetwork, Proxy!UnwrapOr
<1>3. /\ Proxy!SameOption(ws, "path", o.ws_opts, "path")
      /\ "serviceName" \notin DOMAIN ws
  BY RenamedIs DEF Proxy!SameOption
<1> HIDE DEF ws, grpc, network
<1>4. DOMAIN a \subseteq {"wsSettings"} /\ ("wsSettings" \in DOMAIN a <=> OverWs(o))
      /\ (OverWs(o) => a.wsSettings = ws)
  BY <1>2 DEF Proxy!When
<1>5. DOMAIN b \subseteq {"grpcSettings"} /\ ("grpcSettings" \in DOMAIN b <=> OverGrpc(o))
      /\ (OverGrpc(o) => b.grpcSettings = grpc)
  BY <1>2 DEF Proxy!When
<1>6. DOMAIN c \subseteq {"httpSettings"} /\ ("httpSettings" \in DOMAIN c <=> OverHttp(o))
      /\ (OverHttp(o) => c.httpSettings = o.h2_opts)
  BY <1>2 DEF Proxy!When
<1> HIDE DEF a, b, c, settings
<1>7. /\ "wsSettings" \in DOMAIN settings <=> OverWs(o)
      /\ "grpcSettings" \in DOMAIN settings <=> OverGrpc(o)
      /\ "httpSettings" \in DOMAIN settings <=> OverHttp(o)
  BY <1>1, <1>4, <1>5, <1>6, MergedIs
<1>8. /\ OverWs(o) => settings.wsSettings = ws
      /\ OverGrpc(o) => settings.grpcSettings = grpc
      /\ OverHttp(o) => settings.httpSettings = o.h2_opts
  BY <1>1, <1>4, <1>5, <1>6, MergedIs
<1> QED BY <1>2, <1>3, <1>7, <1>8 DEF settings, network, grpc

\* Both cores are given the transport the outbound has, with the same options.
LEMMA TransportsAgree ==
  ASSUME NEW o, Proxy!IsOutbound(o), NEW singbox, NEW xray,
         Proxy!SameOption(singbox, "transport", Proxy!AttachTransport(o), "transport"),
         LET network == Proxy!XrayNetwork(Proxy!UnwrapOr(o, "network", "tcp"))
         IN  /\ xray.streamSettings.network = network
             /\ \A k \in {"wsSettings", "grpcSettings", "httpSettings"} :
                  Proxy!SameOption(xray.streamSettings, k, Proxy!XraySettings(network, o), k)
  PROVE  Proxy!SameTransport(singbox, xray)
<1> DEFINE stream == xray.streamSettings
           network == Proxy!XrayNetwork(Proxy!UnwrapOr(o, "network", "tcp"))
           settings == Proxy!XraySettings(network, o)
           attached == Proxy!AttachTransport(o)
           all == Proxy!XrayTransport(stream)
           transport == singbox.transport
<1>1. /\ "ws" \in DOMAIN all <=> "wsSettings" \in DOMAIN stream
      /\ "grpc" \in DOMAIN all <=> "grpcSettings" \in DOMAIN stream
      /\ "http" \in DOMAIN all <=> "httpSettings" \in DOMAIN stream
      /\ DOMAIN all \subseteq {"ws", "grpc", "http"}
      /\ "ws" \in DOMAIN all => all["ws"] = stream.wsSettings
      /\ "grpc" \in DOMAIN all => all["grpc"] = stream.grpcSettings
      /\ "http" \in DOMAIN all => all["http"] = stream.httpSettings
  BY DEF Proxy!XrayTransport
<1>2. /\ "ws" \in DOMAIN all <=> OverWs(o)
      /\ "grpc" \in DOMAIN all <=> OverGrpc(o)
      /\ "http" \in DOMAIN all <=> OverHttp(o)
      /\ OverWs(o) =>
           /\ stream.network = "ws"
           /\ Proxy!SameOption(all["ws"], "path", o.ws_opts, "path")
           /\ "serviceName" \notin DOMAIN all["ws"]
      /\ OverGrpc(o) => stream.network = "grpc" /\ all["grpc"] = [serviceName |-> Grpc(o)]
      /\ OverHttp(o) => stream.network = "http" /\ all["http"] = o.h2_opts
  <2> HIDE DEF all
  <2>1. /\ Proxy!SameOption(stream, "wsSettings", settings, "wsSettings")
        /\ Proxy!SameOption(stream, "grpcSettings", settings, "grpcSettings")
        /\ Proxy!SameOption(stream, "httpSettings", settings, "httpSettings")
        /\ stream.network = network
    OBVIOUS
  <2>2. /\ "wsSettings" \in DOMAIN settings <=> OverWs(o)
        /\ "grpcSettings" \in DOMAIN settings <=> OverGrpc(o)
        /\ "httpSettings" \in DOMAIN settings <=> OverHttp(o)
        /\ OverWs(o) =>
             /\ network = "ws"
             /\ Proxy!SameOption(settings.wsSettings, "path", o.ws_opts, "path")
             /\ "serviceName" \notin DOMAIN settings.wsSettings
        /\ OverGrpc(o) => network = "grpc" /\ settings.grpcSettings = [serviceName |-> Grpc(o)]
        /\ OverHttp(o) => network = "http" /\ settings.httpSettings = o.h2_opts
    BY SettingsAre
  <2> HIDE DEF stream, settings, network
  <2> QED BY <1>1, <2>1, <2>2 DEF Proxy!SameOption
<1>3. ~(OverWs(o) /\ OverGrpc(o)) /\ ~(OverWs(o) /\ OverHttp(o)) /\ ~(OverGrpc(o) /\ OverHttp(o))
  BY DEF OverWs, OverGrpc, OverHttp
<1>4. /\ "transport" \in DOMAIN singbox <=> OverWs(o) \/ OverGrpc(o) \/ OverHttp(o)
      /\ OverWs(o) => transport = [type |-> "ws"] ++ o.ws_opts
      /\ OverGrpc(o) => transport = [type |-> "grpc", service_name |-> Grpc(o)]
      /\ OverHttp(o) => transport = [type |-> "http"] ++ o.h2_opts
  <2>1. /\ "transport" \in DOMAIN attached <=> OverWs(o) \/ OverGrpc(o) \/ OverHttp(o)
        /\ OverWs(o) => attached.transport = [type |-> "ws"] ++ o.ws_opts
        /\ OverGrpc(o) => attached.transport = [type |-> "grpc", service_name |-> Grpc(o)]
        /\ OverHttp(o) => attached.transport = [type |-> "http"] ++ o.h2_opts
    BY AttachIs
  <2>2. Proxy!SameOption(singbox, "transport", attached, "transport")
    OBVIOUS
  <2> HIDE DEF attached
  <2> QED BY <2>1, <2>2 DEF Proxy!SameOption
<1> DEFINE Same(type) ==
      /\ DOMAIN all = {type} /\ stream.network = type /\ transport.type = type
      /\ Proxy!SameOption(transport, "path", all[type], "path")
      /\ Proxy!SameOption(transport, "service_name", all[type], "serviceName")
<1> HIDE DEF all, stream, transport
<1>5. CASE OverWs(o)
  <2>1. "ws_opts" \in DOMAIN o /\ "service_name" \notin DOMAIN o.ws_opts
    BY <1>5 DEF OverWs, Proxy!IsOutbound, Proxy!WsOpt
  <2>2. /\ transport.type = "ws"
        /\ Proxy!SameOption(transport, "path", o.ws_opts, "path")
        /\ "service_name" \notin DOMAIN transport
    BY <1>4, <1>5, <2>1, MergedIs DEF Proxy!SameOption
  <2>3. DOMAIN all = {"ws"}
    BY <1>1, <1>2, <1>3, <1>5
  <2>4. Same("ws")
    BY <1>2, <1>5, <2>2, <2>3 DEF Proxy!SameOption
  <2> QED BY <1>4, <1>5, <2>4 DEF Proxy!SameTransport, all, stream, transport
<1>6. CASE OverGrpc(o)
  <2>1. DOMAIN all = {"grpc"}
    BY <1>1, <1>2, <1>3, <1>6
  <2>2. Same("grpc")
    BY <1>2, <1>4, <1>6, <2>1 DEF Proxy!SameOption
  <2> QED BY <1>4, <1>6, <2>2 DEF Proxy!SameTransport, all, stream, transport
<1>7. CASE OverHttp(o)
  <2>1. /\ "service_name" \notin DOMAIN o.h2_opts /\ "serviceName" \notin DOMAIN o.h2_opts
    BY <1>7 DEF OverHttp, Proxy!IsOutbound, Proxy!H2Opt
  <2>2. /\ transport.type = "http"
        /\ Proxy!SameOption(transport, "path", o.h2_opts, "path")
        /\ "service_name" \notin DOMAIN transport
    BY <1>4, <1>7, <2>1, MergedIs DEF Proxy!SameOption
  <2>3. DOMAIN all = {"http"}
    BY <1>1, <1>2, <1>3, <1>7
  <2>4. Same("http")
    BY <1>2, <1>7, <2>1, <2>2, <2>3 DEF Proxy!SameOption
  <2> QED BY <1>4, <1>7, <2>4 DEF Proxy!SameTransport, all, stream, transport
<1> QED BY <1>1, <1>2, <1>4, <1>5, <1>6, <1>7 DEF Proxy!SameTransport, all, stream, transport

-----------------------------------------------------------------------------
(* Conversions: the projections, kind by kind *)

\* What the kind of an outbound says of its fields.
LEMMA OutboundIs ==
  ASSUME NEW o \in Outbounds
  PROVE  /\ o.kind \in {"direct", "reject", "ss", "socks5", "trojan", "vmess", "vless",
                        "wireguard", "tuic", "hysteria2"}
         /\ o.kind \in {"ss", "trojan", "vmess", "vless"}
              => {"name", "server", "port"} \subseteq DOMAIN o
         /\ "tls" \in DOMAIN o => o.kind \in {"socks5", "vmess", "vless"}
         /\ "reality_opts" \in DOMAIN o => o.kind = "vless"
         /\ o.kind \in {"ss", "trojan"} => "uuid" \notin DOMAIN o
         /\ o.kind \in {"vmess", "vless"} => "password" \notin DOMAIN o
<1>1. PICK v \in Proxy!Variants :
        /\ o.kind = v.kind /\ v.required \cup {"kind"} \subseteq DOMAIN o
        /\ DOMAIN o \subseteq v.required \cup v.optional \cup {"kind"}
  BY InputsAssumption DEF Proxy!IsOutbound
<1>2. DOMAIN Proxy!CommonOptions = {"name", "server", "port"}
  BY DEF Proxy!CommonOptions
<1>3. CASE v = Proxy!OutboundDirect
  BY <1>1, <1>3 DEF Proxy!OutboundDirect, Proxy!Variant
<1>4. CASE v = Proxy!OutboundReject
  BY <1>1, <1>4 DEF Proxy!OutboundReject, Proxy!Variant
<1>5. CASE v = Proxy!OutboundShadowsocks
  BY <1>1, <1>2, <1>5 DEF Proxy!OutboundShadowsocks, Proxy!CommonOptional, Proxy!Variant
<1>6. CASE v = Proxy!OutboundSocks5
  BY <1>1, <1>2, <1>6 DEF Proxy!OutboundSocks5, Proxy!CommonOptional, Proxy!Variant
<1>7. CASE v = Proxy!OutboundTrojan
  BY <1>1, <1>2, <1>7 DEF Proxy!OutboundTrojan, Proxy!CommonOptional, Proxy!Variant
<1>8. CASE v = Proxy!OutboundVmess
  BY <1>1, <1>2, <1>8 DEF Proxy!OutboundVmess, Proxy!CommonOptional, Proxy!Variant
<1>9. CASE v = Proxy!OutboundVless
  BY <1>1, <1>2, <1>9 DEF Proxy!OutboundVless, Proxy!CommonOptional, Proxy!Variant
<1>10. CASE v = Proxy!OutboundWireguard
  BY <1>1, <1>2, <1>10 DEF Proxy!OutboundWireguard, Proxy!CommonOptional, Proxy!Variant
<1>11. CASE v = Proxy!OutboundTuic
  BY <1>1, <1>2, <1>11 DEF Proxy!OutboundTuic, Proxy!CommonOptional, Proxy!Variant
<1>12. CASE v = Proxy!OutboundHysteria2
  BY <1>1, <1>2, <1>12 DEF Proxy!OutboundHysteria2, Proxy!CommonOptional, Proxy!Variant
<1> QED BY <1>1, <1>3, <1>4, <1>5, <1>6, <1>7, <1>8, <1>9, <1>10, <1>11, <1>12
        DEF Proxy!Variants

\* Where the address and the credentials of an object come from.
FromEndpoint(s, o) ==
  /\ {"tag", "server", "server_port"} \subseteq DOMAIN s
  /\ s.tag = o.name /\ s.server = o.server /\ s.server_port = o.port
  /\ Proxy!SameOption(s, "uuid", o, "uuid") /\ Proxy!SameOption(s, "password", o, "password")

\* The field under which an outbound names the server of its tls.
Sni(o) == IF o.kind = "trojan" THEN "sni" ELSE "server_name"

\* The sing-box projection of the kinds with a transport: its tls and transport.
SingboxParts(s, o) ==
  /\ "tls" \in DOMAIN s <=> Proxy!DemandsTls(o)
  /\ "tls" \in DOMAIN s =>
       /\ IsTls(s.tls, Sni(o), o)
       /\ "reality" \in DOMAIN s.tls <=> "reality_opts" \in DOMAIN o
       /\ "reality" \in DOMAIN s.tls
            => Proxy!SameOption(s.tls.reality, "public_key", o.reality_opts, "public_key")
  /\ Proxy!SameOption(s, "transport", Proxy!AttachTransport(o), "transport")

\* The fields that SingboxEndpoint and a kind's own table rename.
LEMMA EndpointIs ==
  ASSUME NEW o, NEW own, {"name", "server", "port"} \subseteq DOMAIN o,
         DOMAIN own \subseteq {"uuid", "alter_id", "password", "method", "flow"},
         "uuid" \in DOMAIN own => own["uuid"] = "uuid",
         "password" \in DOMAIN own => own["password"] = "password",
         "uuid" \notin DOMAIN own => "uuid" \notin DOMAIN o,
         "password" \notin DOMAIN own => "password" \notin DOMAIN o
  PROVE  LET s == Proxy!Rename(Proxy!SingboxEndpoint ++ own, o)
         IN  /\ FromEndpoint(s, o)
             /\ "tls" \notin DOMAIN s /\ "transport" \notin DOMAIN s
<1> DEFINE table == Proxy!SingboxEndpoint ++ own
           s == Proxy!Rename(table, o)
<1>1. /\ {"tag", "server", "server_port"} \subseteq DOMAIN table
      /\ DOMAIN table = {"tag", "server", "server_port"} \cup DOMAIN own
      /\ table["tag"] = "name" /\ table["server"] = "server" /\ table["server_port"] = "port"
      /\ "uuid" \in DOMAIN own => table["uuid"] = "uuid"
      /\ "password" \in DOMAIN own => table["password"] = "password"
  <2>1. /\ DOMAIN Proxy!SingboxEndpoint = {"tag", "server", "server_port"}
        /\ Proxy!SingboxEndpoint["tag"] = "name" /\ Proxy!SingboxEndpoint["server"] = "server"
        /\ Proxy!SingboxEndpoint["server_port"] = "port"
    BY DEF Proxy!SingboxEndpoint
  <2> QED BY <2>1, MergedIs
<1> HIDE DEF table
<1>2. /\ \A k : k \in DOMAIN s <=> k \in DOMAIN table /\ table[k] \in DOMAIN o
      /\ \A k \in DOMAIN table : table[k] \in DOMAIN o => s[k] = o[table[k]]
  BY RenamedIs
<1> HIDE DEF s
<1>3. FromEndpoint(s, o)
  <2>1. {"tag", "server", "server_port"} \subseteq DOMAIN s
    BY <1>1, <1>2
  <2>2. s.tag = o.name /\ s.server = o.server /\ s.server_port = o.port
    BY <1>1, <1>2
  <2>3. Proxy!SameOption(s, "uuid", o, "uuid")
    BY <1>1, <1>2 DEF Proxy!SameOption
  <2>4. Proxy!SameOption(s, "password", o, "password")
    BY <1>1, <1>2 DEF Proxy!SameOption
  <2> QED BY <2>1, <2>2, <2>3, <2>4 DEF FromEndpoint
<1>4. "tls" \notin DOMAIN s /\ "transport" \notin DOMAIN s
  BY <1>1, <1>2
<1> QED BY <1>3, <1>4 DEF s, table

\* A projection made of a head, the endpoint, the tls and the transport: each part
\* is there as it was.
LEMMA PartsJoin ==
  ASSUME NEW head, NEW endpoint, NEW tls, NEW attached,
         "tls" \notin DOMAIN endpoint, "transport" \notin DOMAIN endpoint,
         DOMAIN head \subseteq {"type", "security", "tls"},
         DOMAIN tls \subseteq {"tls"},
         DOMAIN attached \subseteq {"transport"}
  PROVE  LET s == ((head ++ endpoint) ++ tls) ++ attached
         IN  /\ \A k \in DOMAIN endpoint \ {"type", "security"} :
                  k \in DOMAIN s /\ s[k] = endpoint[k]
             /\ \A k \in DOMAIN s :
                  k \in DOMAIN endpoint \cup {"type", "security", "tls", "transport"}
             /\ "tls" \in DOMAIN s <=> "tls" \in DOMAIN head \/ "tls" \in DOMAIN tls
             /\ "tls" \in DOMAIN head => s.tls = head.tls
             /\ "tls" \notin DOMAIN head /\ "tls" \in DOMAIN tls => s.tls = tls.tls
             /\ Proxy!SameOption(s, "transport", attached, "transport")
<1> DEFINE s == ((head ++ endpoint) ++ tls) ++ attached
<1>1. /\ \A k : k \in DOMAIN s <=> \/ k \in DOMAIN head \/ k \in DOMAIN endpoint
                                    \/ k \in DOMAIN tls \/ k \in DOMAIN attached
      /\ \A k \in DOMAIN head : s[k] = head[k]
      /\ \A k \in DOMAIN endpoint : k \notin DOMAIN head => s[k] = endpoint[k]
      /\ \A k \in DOMAIN tls :
           k \notin DOMAIN head /\ k \notin DOMAIN endpoint => s[k] = tls[k]
      /\ \A k \in DOMAIN attached :
           k \notin DOMAIN head /\ k \notin DOMAIN endpoint /\ k \notin DOMAIN tls
             => s[k] = attached[k]
  BY MergedIs
<1> HIDE DEF s
<1> QED BY <1>1 DEF Proxy!SameOption, s

\* The endpoint stays where it came from in such a projection.
LEMMA EndpointStays ==
  ASSUME NEW o, NEW endpoint, NEW s, FromEndpoint(endpoint, o),
         \A k \in DOMAIN endpoint \ {"type", "security"} : k \in DOMAIN s /\ s[k] = endpoint[k],
         \A k \in DOMAIN s : k \in DOMAIN endpoint \cup {"type", "security", "tls", "transport"}
  PROVE  FromEndpoint(s, o)
BY DEF FromEndpoint, Proxy!SameOption

\* The projection of trojan for sing-box always has tls.
LEMMA TrojanSingbox ==
  ASSUME NEW o \in Outbounds, o.kind = "trojan"
  PROVE  FromEndpoint(Proxy!ToSingBoxJson(o), o) /\ SingboxParts(Proxy!ToSingBoxJson(o), o)
<1> DEFINE block == Proxy!TlsBlock("sni", o)
           head == [type |-> "trojan", tls |-> block]
           own == [password |-> "password"]
           endpoint == Proxy!Rename(Proxy!SingboxEndpoint ++ own, o)
           none == <<>>
           attached == Proxy!AttachTransport(o)
           s == Proxy!ToSingBoxJson(o)
<1>1. s = (head ++ endpoint) ++ attached
  BY DEF Proxy!ToSingBoxJson, Proxy!TrojanToSingbox, Proxy!++, ++
<1>2. s = ((head ++ endpoint) ++ none) ++ attached
  <2>1. (head ++ endpoint) ++ none = head ++ endpoint
    <3> HIDE DEF head, endpoint
    <3> QED BY DEF ++
  <2> QED BY <1>1, <2>1
<1>3. /\ FromEndpoint(endpoint, o)
      /\ "tls" \notin DOMAIN endpoint /\ "transport" \notin DOMAIN endpoint
  BY OutboundIs, EndpointIs
<1>4. IsTls(block, "sni", o) /\ "reality" \notin DOMAIN block
  BY TlsBlockIs
<1> HIDE DEF block, endpoint, s
<1>5. /\ DOMAIN head = {"type", "tls"} /\ head.tls = block
      /\ DOMAIN none \subseteq {"tls"}
  OBVIOUS
<1>6. DOMAIN attached \subseteq {"transport"}
  BY AttachIs
<1> HIDE DEF head, none, attached
<1>7. /\ FromEndpoint(s, o) /\ "tls" \in DOMAIN s /\ s.tls = block
      /\ Proxy!SameOption(s, "transport", attached, "transport")
  <2>1. DOMAIN head \subseteq {"type", "security", "tls"}
    BY <1>5
  <2>2. DOMAIN none \subseteq {"tls"}
    BY <1>5
  <2>3. /\ \A k \in DOMAIN endpoint \ {"type", "security"} :
             k \in DOMAIN s /\ s[k] = endpoint[k]
        /\ \A k \in DOMAIN s :
             k \in DOMAIN endpoint \cup {"type", "security", "tls", "transport"}
        /\ "tls" \in DOMAIN s <=> "tls" \in DOMAIN head \/ "tls" \in DOMAIN none
        /\ "tls" \in DOMAIN head => s.tls = head.tls
        /\ "tls" \notin DOMAIN head /\ "tls" \in DOMAIN none => s.tls = none.tls
        /\ Proxy!SameOption(s, "transport", attached, "transport")
    BY <1>2, <1>3, <1>6, <2>1, <2>2, PartsJoin
  <2>4. FromEndpoint(s, o)
    BY <1>3, <2>3, EndpointStays
  <2> QED BY <1>5, <2>3, <2>4
<1>8. Proxy!DemandsTls(o) /\ Sni(o) = "sni" /\ "reality_opts" \notin DOMAIN o
  BY OutboundIs DEF Proxy!DemandsTls, Sni
<1> QED BY <1>4, <1>7, <1>8 DEF SingboxParts, s, attached

\* That of vmess has it if the outbound asks for it.
LEMMA VmessSingbox ==
  ASSUME NEW o \in Outbounds, o.kind = "vmess"
  PROVE  FromEndpoint(Proxy!ToSingBoxJson(o), o) /\ SingboxParts(Proxy!ToSingBoxJson(o), o)
<1> DEFINE block == Proxy!TlsBlock("server_name", o)
           head == [type |-> "vmess", security |-> Proxy!UnwrapOr(o, "cipher", "auto")]
           own == [uuid |-> "uuid", alter_id |-> "alter_id"]
           endpoint == Proxy!Rename(Proxy!SingboxEndpoint ++ own, o)
           tls == Proxy!When(Proxy!Wants(o, "tls"), [tls |-> block])
           attached == Proxy!AttachTransport(o)
           s == Proxy!ToSingBoxJson(o)
<1>1. s = ((head ++ endpoint) ++ tls) ++ attached
  BY DEF Proxy!ToSingBoxJson, Proxy!VmessToSingbox, Proxy!++, ++
<1>2. /\ FromEndpoint(endpoint, o)
      /\ "tls" \notin DOMAIN endpoint /\ "transport" \notin DOMAIN endpoint
  BY OutboundIs, EndpointIs
<1>3. IsTls(block, "server_name", o) /\ "reality" \notin DOMAIN block
  BY TlsBlockIs
<1> HIDE DEF block, endpoint, s
<1>4. DOMAIN head = {"type", "security"}
  OBVIOUS
<1>5. /\ DOMAIN tls \subseteq {"tls"} /\ ("tls" \in DOMAIN tls <=> Proxy!Wants(o, "tls"))
      /\ "tls" \in DOMAIN tls => tls.tls = block
  BY DEF Proxy!When
<1>6. DOMAIN attached \subseteq {"transport"}
  BY AttachIs
<1> HIDE DEF head, tls, attached
<1>7. /\ FromEndpoint(s, o) /\ ("tls" \in DOMAIN s <=> Proxy!Wants(o, "tls"))
      /\ "tls" \in DOMAIN s => s.tls = block
      /\ Proxy!SameOption(s, "transport", attached, "transport")
  <2>1. DOMAIN head \subseteq {"type", "security", "tls"}
    BY <1>4
  <2>2. DOMAIN tls \subseteq {"tls"}
    BY <1>5
  <2>3. /\ \A k \in DOMAIN endpoint \ {"type", "security"} :
             k \in DOMAIN s /\ s[k] = endpoint[k]
        /\ \A k \in DOMAIN s :
             k \in DOMAIN endpoint \cup {"type", "security", "tls", "transport"}
        /\ "tls" \in DOMAIN s <=> "tls" \in DOMAIN head \/ "tls" \in DOMAIN tls
        /\ "tls" \in DOMAIN head => s.tls = head.tls
        /\ "tls" \notin DOMAIN head /\ "tls" \in DOMAIN tls => s.tls = tls.tls
        /\ Proxy!SameOption(s, "transport", attached, "transport")
    BY <1>1, <1>2, <1>6, <2>1, <2>2, PartsJoin
  <2>4. FromEndpoint(s, o)
    BY <1>2, <2>3, EndpointStays
  <2> QED BY <1>4, <1>5, <2>3, <2>4
<1>8. /\ Proxy!DemandsTls(o) <=> Proxy!Wants(o, "tls")
      /\ Sni(o) = "server_name" /\ "reality_opts" \notin DOMAIN o
  BY OutboundIs DEF Proxy!DemandsTls, Sni
<1> QED BY <1>3, <1>7, <1>8 DEF SingboxParts, s, attached

\* So has that of vless, and its reality options are a part of its tls.
LEMMA VlessSingbox ==
  ASSUME NEW o \in Outbounds, o.kind = "vless"
  PROVE  FromEndpoint(Proxy!ToSingBoxJson(o), o) /\ SingboxParts(Proxy!ToSingBoxJson(o), o)
<1> DEFINE block == Proxy!VlessTls(o)
           head == [type |-> "vless"]
           own == [uuid |-> "uuid", flow |-> "flow"]
           endpoint == Proxy!Rename(Proxy!SingboxEndpoint ++ own, o)
           tls == Proxy!When(Proxy!Wants(o, "tls"), [tls |-> block])
           attached == Proxy!AttachTransport(o)
           s == Proxy!ToSingBoxJson(o)
<1>1. s = ((head ++ endpoint) ++ tls) ++ attached
  BY DEF Proxy!ToSingBoxJson, Proxy!VlessToSingbox, Proxy!++, ++
<1>2. /\ FromEndpoint(endpoint, o)
      /\ "tls" \notin DOMAIN endpoint /\ "transport" \notin DOMAIN endpoint
  BY OutboundIs, EndpointIs
<1>3. /\ IsTls(block, "server_name", o)
      /\ "reality" \in DOMAIN block <=> "reality_opts" \in DOMAIN o
      /\ "reality" \in DOMAIN block
           => Proxy!SameOption(block.reality, "public_key", o.reality_opts, "public_key")
  BY VlessTlsIs
<1> HIDE DEF block, endpoint, s
<1>4. DOMAIN head = {"type"}
  OBVIOUS
<1>5. /\ DOMAIN tls \subseteq {"tls"} /\ ("tls" \in DOMAIN tls <=> Proxy!Wants(o, "tls"))
      /\ "tls" \in DOMAIN tls => tls.tls = block
  BY DEF Proxy!When
<1>6. DOMAIN attached \subseteq {"transport"}
  BY AttachIs
<1> HIDE DEF head, tls, attached
<1>7. /\ FromEndpoint(s, o) /\ ("tls" \in DOMAIN s <=> Proxy!Wants(o, "tls"))
      /\ "tls" \in DOMAIN s => s.tls = block
      /\ Proxy!SameOption(s, "transport", attached, "transport")
  <2>1. DOMAIN head \subseteq {"type", "security", "tls"}
    BY <1>4
  <2>2. DOMAIN tls \subseteq {"tls"}
    BY <1>5
  <2>3. /\ \A k \in DOMAIN endpoint \ {"type", "security"} :
             k \in DOMAIN s /\ s[k] = endpoint[k]
        /\ \A k \in DOMAIN s :
             k \in DOMAIN endpoint \cup {"type", "security", "tls", "transport"}
        /\ "tls" \in DOMAIN s <=> "tls" \in DOMAIN head \/ "tls" \in DOMAIN tls
        /\ "tls" \in DOMAIN head => s.tls = head.tls
        /\ "tls" \notin DOMAIN head /\ "tls" \in DOMAIN tls => s.tls = tls.tls
        /\ Proxy!SameOption(s, "transport", attached, "transport")
    BY <1>1, <1>2, <1>6, <2>1, <2>2, PartsJoin
  <2>4. FromEndpoint(s, o)
    BY <1>2, <2>3, EndpointStays
  <2> QED BY <1>4, <1>5, <2>3, <2>4
<1>8. (Proxy!DemandsTls(o) <=> Proxy!Wants(o, "tls")) /\ Sni(o) = "server_name"
  BY DEF Proxy!DemandsTls, Sni
<1> QED BY <1>3, <1>7, <1>8 DEF SingboxParts, s, attached

\* The projection of shadowsocks for sing-box.
LEMMA ShadowsocksSingbox ==
  ASSUME NEW o \in Outbounds, o.kind = "ss"
  PROVE  FromEndpoint(Proxy!ToSingBoxJson(o), o) /\ "tls" \notin DOMAIN Proxy!ToSingBoxJson(o)
<1> DEFINE head == [type |-> "shadowsocks", udp_over_tcp |-> ~o.udp]
           own == [method |-> "cipher", password |-> "password"]
           endpoint == Proxy!Rename(Proxy!SingboxEndpoint ++ own, o)
           s == Proxy!ToSingBoxJson(o)
<1>1. s = head ++ endpoint
  BY DEF Proxy!ToSingBoxJson, Proxy!ShadowsocksToSingbox, Proxy!++, ++
<1>2. FromEndpoint(endpoint, o) /\ "tls" \notin DOMAIN endpoint
  BY OutboundIs, EndpointIs
<1>3. DOMAIN head = {"type", "udp_over_tcp"}
  OBVIOUS
<1> HIDE DEF head, endpoint, s
<1>4. /\ \A k : k \in DOMAIN s <=> k \in DOMAIN head \/ k \in DOMAIN endpoint
      /\ \A k \in DOMAIN endpoint : k \notin DOMAIN head => s[k] = endpoint[k]
  BY <1>1, MergedIs
<1>5. FromEndpoint(s, o)
  BY <1>2, <1>3, <1>4 DEF FromEndpoint, Proxy!SameOption
<1> QED BY <1>2, <1>3, <1>4, <1>5 DEF s

\* The projections for sing-box that have no tls.
LEMMA NoTls ==
  ASSUME NEW o \in Outbounds, o.kind \in {"direct", "reject", "socks5", "wireguard"}
  PROVE  "tls" \notin DOMAIN Proxy!ToSingBoxJson(o)
<1>1. CASE o.kind \in {"direct", "reject"}
  BY <1>1 DEF Proxy!ToSingBoxJson, Proxy!DirectToSingbox, Proxy!RejectToSingbox, Proxy!Rename,
              Proxy!++
<1>2. CASE o.kind = "socks5"
  BY <1>2 DEF Proxy!ToSingBoxJson, Proxy!Socks5ToSingbox, Proxy!SingboxEndpoint, Proxy!Rename,
              Proxy!++
<1>3. CASE o.kind = "wireguard"
  BY <1>3 DEF Proxy!ToSingBoxJson, Proxy!WireguardToSingbox, Proxy!SingboxEndpoint, Proxy!Rename,
              Proxy!++
<1> QED BY <1>1, <1>2, <1>3

\* The projections for sing-box that always have tls.
LEMMA AlwaysTls ==
  ASSUME NEW o \in Outbounds, o.kind \in {"tuic", "hysteria2"}
  PROVE  LET s == Proxy!ToSingBoxJson(o)
         IN  "tls" \in DOMAIN s /\ IsTls(s.tls, "sni", o) /\ "reality" \notin DOMAIN s.tls
<1> DEFINE s == Proxy!ToSingBoxJson(o)
           block == Proxy!TlsBlock("sni", o)
<1>1. "tls" \in DOMAIN s /\ s.tls = block
  <2> HIDE DEF block
  <2>1. CASE o.kind = "tuic"
    BY <2>1 DEF block, Proxy!ToSingBoxJson, Proxy!TuicToSingbox, Proxy!++
  <2>2. CASE o.kind = "hysteria2"
    BY <2>2 DEF block, Proxy!ToSingBoxJson, Proxy!Hysteria2ToSingbox, Proxy!++
  <2> QED BY <2>1, <2>2
<1>2. IsTls(block, "sni", o) /\ "reality" \notin DOMAIN block
  BY TlsBlockIs
<1> QED BY <1>1, <1>2

\* The server and the credentials of a projection for Xray.
FromServer(x, o) ==
  /\ x.tag = o.name /\ x.settings.address = o.server /\ x.settings.port = o.port
  /\ Proxy!SameOption(x.settings, "id", o, "uuid")
  /\ Proxy!SameOption(x.settings, "password", o, "password")

\* The fields that XrayServer and a kind's own table rename, before those that are
\* given besides.
LEMMA ServerIs ==
  ASSUME NEW o, NEW own, NEW besides, {"server", "port"} \subseteq DOMAIN o,
         DOMAIN own \subseteq {"id", "alterId", "password", "method"},
         DOMAIN besides \cap {"id", "password"} = {},
         "id" \in DOMAIN own => own["id"] = "uuid",
         "password" \in DOMAIN own => own["password"] = "password",
         "id" \notin DOMAIN own => "uuid" \notin DOMAIN o,
         "password" \notin DOMAIN own => "password" \notin DOMAIN o
  PROVE  LET settings == Proxy!Rename(Proxy!XrayServer ++ own, o) ++ besides
         IN  /\ settings.address = o.server /\ settings.port = o.port
             /\ Proxy!SameOption(settings, "id", o, "uuid")
             /\ Proxy!SameOption(settings, "password", o, "password")
<1> DEFINE table == Proxy!XrayServer ++ own
           renamed == Proxy!Rename(table, o)
           settings == renamed ++ besides
<1>1. /\ DOMAIN table = {"address", "port"} \cup DOMAIN own
      /\ table["address"] = "server" /\ table["port"] = "port"
      /\ "id" \in DOMAIN own => table["id"] = "uuid"
      /\ "password" \in DOMAIN own => table["password"] = "password"
  <2>1. /\ DOMAIN Proxy!XrayServer = {"address", "port"}
        /\ Proxy!XrayServer["address"] = "server" /\ Proxy!XrayServer["port"] = "port"
    BY DEF Proxy!XrayServer
  <2>2. /\ \A k : k \in DOMAIN table <=> k \in DOMAIN Proxy!XrayServer \/ k \in DOMAIN own
        /\ \A k \in DOMAIN Proxy!XrayServer : table[k] = Proxy!XrayServer[k]
        /\ \A k \in DOMAIN own : k \notin DOMAIN Proxy!XrayServer => table[k] = own[k]
    BY MergedIs
  <2> HIDE DEF table
  <2>3. DOMAIN table = {"address", "port"} \cup DOMAIN own
    BY <2>1, <2>2
  <2>4. table["address"] = "server" /\ table["port"] = "port"
    BY <2>1, <2>2
  <2>5. /\ "id" \in DOMAIN own => table["id"] = "uuid"
        /\ "password" \in DOMAIN own => table["password"] = "password"
    BY <2>1, <2>2
  <2> QED BY <2>3, <2>4, <2>5
<1> HIDE DEF table
<1>2. /\ \A k : k \in DOMAIN renamed <=> k \in DOMAIN table /\ table[k] \in DOMAIN o
      /\ \A k \in DOMAIN table : table[k] \in DOMAIN o => renamed[k] = o[table[k]]
  BY RenamedIs
<1> HIDE DEF renamed
<1>3. /\ \A k : k \in DOMAIN settings <=> k \in DOMAIN renamed \/ k \in DOMAIN besides
      /\ \A k \in DOMAIN renamed : settings[k] = renamed[k]
  BY MergedIs
<1> HIDE DEF settings
<1>4. settings.address = o.server /\ settings.port = o.port
  BY <1>1, <1>2, <1>3
<1>5. Proxy!SameOption(settings, "id", o, "uuid")
  BY <1>1, <1>2, <1>3 DEF Proxy!SameOption
<1>6. Proxy!SameOption(settings, "password", o, "password")
  BY <1>1, <1>2, <1>3 DEF Proxy!SameOption
<1> QED BY <1>4, <1>5, <1>6 DEF settings, renamed, table

\* The projections for Xray of the kinds with a transport.
XrayParts(x, tls, o) ==
  /\ FromServer(x, o) /\ x.protocol # "unsupported"
  /\ x.streamSettings = Proxy!XrayStreamSettings(tls, Sni(o), o)

\* The projection of each kind that Xray supports.
LEMMA XrayIs ==
  ASSUME NEW o \in Outbounds
  PROVE  LET x == Proxy!ToXrayJson(o)
         IN  /\ o.kind = "ss" => FromServer(x, o)
             /\ o.kind = "trojan" => XrayParts(x, TRUE, o)
             /\ o.kind \in {"vmess", "vless"} => XrayParts(x, Proxy!Wants(o, "tls"), o)
<1> DEFINE x == Proxy!ToXrayJson(o)
           SettingsFrom(settings) ==
             /\ settings.address = o.server /\ settings.port = o.port
             /\ Proxy!SameOption(settings, "id", o, "uuid")
             /\ Proxy!SameOption(settings, "password", o, "password")
<1>1. CASE o.kind = "ss"
  <2> DEFINE own == [method |-> "cipher", password |-> "password"]
             none == [k \in {} |-> k]
             settings == Proxy!Rename(Proxy!XrayServer ++ own, o)
  <2>1. settings ++ none = settings
    <3> HIDE DEF own
    <3> QED BY DEF ++, Proxy!Rename
  <2>2. SettingsFrom(settings ++ none)
    BY <1>1, OutboundIs, ServerIs
  <2>3. x = [tag |-> o.name, protocol |-> "shadowsocks", settings |-> settings]
    BY <1>1 DEF Proxy!ToXrayJson, Proxy!ShadowsocksToXray, Proxy!Xray, Proxy!++, ++
  <2>4. SettingsFrom(settings)
    BY <2>1, <2>2
  <2> HIDE DEF settings, SettingsFrom, x
  <2>5. x.tag = o.name /\ x.settings = settings
    BY <2>3
  <2> QED BY <1>1, <2>4, <2>5 DEF FromServer, SettingsFrom, x
<1>2. CASE o.kind = "trojan"
  <2> DEFINE own == [password |-> "password"]
             none == [k \in {} |-> k]
             settings == Proxy!Rename(Proxy!XrayServer ++ own, o)
             stream == Proxy!XrayStreamSettings(TRUE, "sni", o)
  <2>1. settings ++ none = settings
    <3> HIDE DEF own
    <3> QED BY DEF ++, Proxy!Rename
  <2>2. SettingsFrom(settings ++ none)
    BY <1>2, OutboundIs, ServerIs
  <2>3. x = [tag |-> o.name, protocol |-> "trojan", settings |-> settings]
            ++ [streamSettings |-> stream]
    BY <1>2 DEF Proxy!ToXrayJson, Proxy!TrojanToXray, Proxy!Xray, Proxy!++, ++
  <2>4. SettingsFrom(settings)
    BY <2>1, <2>2
  <2> HIDE DEF settings, stream, SettingsFrom, x
  <2>5. /\ x.tag = o.name /\ x.protocol = "trojan" /\ x.settings = settings
        /\ x.streamSettings = stream
    BY <2>3, MergedIs
  <2> QED BY <1>2, <2>4, <2>5 DEF XrayParts, FromServer, Sni, SettingsFrom, stream, x
<1>3. CASE o.kind = "vmess"
  <2> DEFINE own == [id |-> "uuid", alterId |-> "alter_id"]
             besides == [security |-> Proxy!UnwrapOr(o, "cipher", "auto")]
             settings == Proxy!Rename(Proxy!XrayServer ++ own, o) ++ besides
             stream == Proxy!XrayStreamSettings(Proxy!Wants(o, "tls"), "server_name", o)
  <2>1. SettingsFrom(settings)
    BY <1>3, OutboundIs, ServerIs
  <2>2. x = [tag |-> o.name, protocol |-> "vmess", settings |-> settings]
            ++ [streamSettings |-> stream]
    BY <1>3 DEF Proxy!ToXrayJson, Proxy!VmessToXray, Proxy!Xray, Proxy!++, ++
  <2> HIDE DEF settings, stream, SettingsFrom, x
  <2>3. /\ x.tag = o.name /\ x.protocol = "vmess" /\ x.settings = settings
        /\ x.streamSettings = stream
    BY <2>2, MergedIs
  <2> QED BY <1>3, <2>1, <2>3 DEF XrayParts, FromServer, Sni, SettingsFrom, stream, x
<1>4. CASE o.kind = "vless"
  <2> DEFINE own == [id |-> "uuid"]
             besides == [flow |-> Proxy!UnwrapOr(o, "flow", ""), encryption |-> "none"]
             settings == Proxy!Rename(Proxy!XrayServer ++ own, o) ++ besides
             stream == Proxy!XrayStreamSettings(Proxy!Wants(o, "tls"), "server_name", o)
  <2>1. SettingsFrom(settings)
    BY <1>4, OutboundIs, ServerIs
  <2>2. x = [tag |-> o.name, protocol |-> "vless", settings |-> settings]
            ++ [streamSettings |-> stream]
    BY <1>4 DEF Proxy!ToXrayJson, Proxy!VlessToXray, Proxy!Xray, Proxy!++, ++
  <2> HIDE DEF settings, stream, SettingsFrom, x
  <2>3. /\ x.tag = o.name /\ x.protocol = "vless" /\ x.settings = settings
        /\ x.streamSettings = stream
    BY <2>2, MergedIs
  <2> QED BY <1>4, <2>1, <2>3 DEF XrayParts, FromServer, Sni, SettingsFrom, stream, x
<1> QED BY <1>1, <1>2, <1>3, <1>4

\* Xray is told that it does not support the kinds that are for sing-box only.
LEMMA UnsupportedIs ==
  ASSUME NEW o \in Outbounds
  PROVE  Proxy!ToXrayJson(o).protocol = "unsupported" <=> o.kind \in Proxy!SingboxOnly
<1>1. CASE o.kind \in {"trojan", "vmess", "vless"}
  BY <1>1, XrayIs DEF XrayParts, Proxy!SingboxOnly
<1>2. CASE o.kind \in {"direct", "reject", "ss"}
  BY <1>2 DEF Proxy!ToXrayJson, Proxy!DirectToXray, Proxy!RejectToXray,
              Proxy!ShadowsocksToXray, Proxy!Xray, Proxy!SingboxOnly
<1>3. CASE o.kind \in {"socks5", "wireguard", "tuic", "hysteria2"}
  BY <1>3 DEF Proxy!ToXrayJson, Proxy!Unsupported, Proxy!SingboxOnly
<1> QED BY <1>1, <1>2, <1>3, OutboundIs

\* Both projections of a kind with a transport: the flag that asks Xray for tls is
\* the demand of the outbound.
LEMMA BothParts ==
  ASSUME NEW o \in Outbounds, o.kind \in Proxy!TransportKinds
  PROVE  /\ FromEndpoint(Proxy!ToSingBoxJson(o), o) /\ SingboxParts(Proxy!ToSingBoxJson(o), o)
         /\ \E tls : (tls <=> Proxy!DemandsTls(o)) /\ XrayParts(Proxy!ToXrayJson(o), tls, o)
<1>1. CASE o.kind = "trojan"
  <2>1. Proxy!DemandsTls(o) /\ XrayParts(Proxy!ToXrayJson(o), TRUE, o)
    BY <1>1, XrayIs DEF Proxy!DemandsTls
  <2> QED BY <1>1, <2>1, TrojanSingbox
<1>2. CASE o.kind \in {"vmess", "vless"}
  <2>1. /\ Proxy!Wants(o, "tls") <=> Proxy!DemandsTls(o)
        /\ XrayParts(Proxy!ToXrayJson(o), Proxy!Wants(o, "tls"), o)
    BY <1>2, XrayIs DEF Proxy!DemandsTls
  <2> QED BY <1>2, <2>1, VmessSingbox, VlessSingbox
<1> QED BY <1>1, <1>2 DEF Proxy!TransportKinds

\* What an object for sing-box and one for Xray say of the protection when each of
\* its parts comes from the outbound.
LEMMA SecurityAgrees ==
  ASSUME NEW o, NEW s, NEW x, NEW tls, tls <=> Proxy!DemandsTls(o),
         SingboxParts(s, o), x.streamSettings = Proxy!XrayStreamSettings(tls, Sni(o), o)
  PROVE  /\ ("reality_opts" \in DOMAIN o => Proxy!DemandsTls(o)) => Proxy!SameSecurity(s, x)
         /\ "reality_opts" \in DOMAIN o => Proxy!XraySecurity(x) = "reality"
         /\ Proxy!SingboxSecurity(s) # "none" <=> Proxy!DemandsTls(o)
         /\ Proxy!XraySecurity(x) # "none" <=> Proxy!DemandsTls(o) \/ "reality_opts" \in DOMAIN o
         /\ (Proxy!XraySecurity(x) = "tls"
               /\ "allowInsecure" \in DOMAIN x.streamSettings.tlsSettings)
              => Proxy!Wants(o, "skip_cert_verify")
<1> DEFINE stream == Proxy!XrayStreamSettings(tls, Sni(o), o)
           demands == Proxy!DemandsTls(o)
           real == "reality_opts" \in DOMAIN o
           skip == Proxy!Wants(o, "skip_cert_verify")
<1>1. /\ stream.security = IF real THEN "reality" ELSE IF tls THEN "tls" ELSE "none"
      /\ stream.security = "tls" =>
           /\ Proxy!SameOption(stream.tlsSettings, "serverName", o, Sni(o))
           /\ Proxy!SameOption(stream.tlsSettings, "alpn", o, "alpn")
           /\ "allowInsecure" \in DOMAIN stream.tlsSettings <=> skip
           /\ "allowInsecure" \in DOMAIN stream.tlsSettings
                => stream.tlsSettings.allowInsecure = TRUE
      /\ stream.security = "reality" =>
           /\ Proxy!SameOption(stream.realitySettings, "serverName", o, Sni(o))
           /\ Proxy!SameOption(stream.realitySettings, "publicKey", o.reality_opts, "public_key")
  <2>1. StreamFrom(stream, tls, Sni(o), o)
    BY StreamIs
  <2> QED BY <2>1 DEF StreamFrom
<1>2. /\ "tls" \in DOMAIN s <=> demands
      /\ "tls" \in DOMAIN s =>
           /\ Proxy!SameOption(s.tls, "server_name", o, Sni(o))
           /\ Proxy!SameOption(s.tls, "alpn", o, "alpn")
           /\ "insecure" \in DOMAIN s.tls <=> skip
           /\ "insecure" \in DOMAIN s.tls => s.tls.insecure = TRUE
           /\ "reality" \in DOMAIN s.tls <=> real
           /\ "reality" \in DOMAIN s.tls
                => Proxy!SameOption(s.tls.reality, "public_key", o.reality_opts, "public_key")
  BY DEF SingboxParts, IsTls
<1>3. (tls <=> demands) /\ x.streamSettings = stream
  OBVIOUS
<1> HIDE DEF stream, demands, real, skip
<1>4. Proxy!SingboxSecurity(s) = IF ~demands THEN "none" ELSE IF real THEN "reality" ELSE "tls"
  BY <1>2 DEF Proxy!SingboxSecurity
<1>5. Proxy!XraySecurity(x) = stream.security
  BY <1>3 DEF Proxy!XraySecurity
<1>6. ASSUME real => demands
      PROVE  Proxy!SameSecurity(s, x)
  <2>1. Proxy!SingboxSecurity(s) = stream.security
    BY <1>1, <1>3, <1>4, <1>6
  <2>2. ASSUME stream.security = "tls"
        PROVE  /\ Proxy!SameOption(s.tls, "server_name", stream.tlsSettings, "serverName")
               /\ Proxy!SameOption(s.tls, "insecure", stream.tlsSettings, "allowInsecure")
               /\ Proxy!SameOption(s.tls, "alpn", stream.tlsSettings, "alpn")
    <3>1. "tls" \in DOMAIN s
      BY <1>2, <1>4, <2>1, <2>2
    <3> QED BY <1>1, <1>2, <2>2, <3>1 DEF Proxy!SameOption
  <2>3. ASSUME stream.security = "reality"
        PROVE  /\ Proxy!SameOption(s.tls, "server_name", stream.realitySettings, "serverName")
               /\ Proxy!SameOption(s.tls.reality, "public_key", stream.realitySettings, "publicKey")
    <3>1. "tls" \in DOMAIN s /\ "reality" \in DOMAIN s.tls
      BY <1>2, <1>4, <2>1, <2>3
    <3> QED BY <1>1, <1>2, <2>3, <3>1 DEF Proxy!SameOption
  <2> QED BY <1>3, <1>5, <2>1, <2>2, <2>3 DEF Proxy!SameSecurity
<1>7. /\ real => Proxy!XraySecurity(x) = "reality"
      /\ Proxy!SingboxSecurity(s) # "none" <=> demands
      /\ Proxy!XraySecurity(x) # "none" <=> demands \/ real
  <2>1. real => Proxy!XraySecurity(x) = "reality"
    BY <1>1, <1>5
  <2>2. Proxy!SingboxSecurity(s) # "none" <=> demands
    BY <1>4
  <2>3. Proxy!XraySecurity(x) # "none" <=> demands \/ real
    BY <1>1, <1>3, <1>5
  <2> QED BY <2>1, <2>2, <2>3
<1>8. Proxy!XraySecurity(x) = "tls" /\ "allowInsecure" \in DOMAIN stream.tlsSettings => skip
  BY <1>1, <1>5
<1> QED BY <1>3, <1>6, <1>7, <1>8 DEF demands, real, skip

\* An endpoint and a server that come from one outbound are the same.
LEMMA EndpointsAgree ==
  ASSUME NEW o, NEW s, NEW x, FromEndpoint(s, o), FromServer(x, o)
  PROVE  Proxy!SameEndpoint(s, x)
BY DEF FromEndpoint, FromServer, Proxy!SameEndpoint, Proxy!SameOption

\* Where the transport has settings on one side it has them on the other, and its
\* type is the network: an outbound that gives the options of its network gets it
\* from both cores, another gets TCP from sing-box.
LEMMA NetworksAgree ==
  ASSUME NEW o, NEW s, NEW x, Proxy!SameTransport(s, x),
         Proxy!SameOption(s, "transport", Proxy!AttachTransport(o), "transport"),
         x.streamSettings.network = Proxy!XrayNetwork(Proxy!UnwrapOr(o, "network", "tcp"))
  PROVE  IF Proxy!NetworkIsGiven(o) THEN Proxy!SingboxNetwork(s) = x.streamSettings.network
                                    ELSE Proxy!SingboxNetwork(s) = "tcp"
<1>1. Proxy!NetworkIsGiven(o)
        <=> Proxy!UnwrapOr(o, "network", "tcp") = "tcp" \/ OverWs(o) \/ OverGrpc(o) \/ OverHttp(o)
  BY DEF Proxy!NetworkIsGiven, OverWs, OverGrpc, OverHttp, Proxy!UnwrapOr,
         Proxy!WebSocket, Proxy!Http2
<1>2. "transport" \in DOMAIN s <=> OverWs(o) \/ OverGrpc(o) \/ OverHttp(o)
  BY AttachIs DEF Proxy!SameOption
<1>3. CASE "transport" \in DOMAIN s
  <2>1. Proxy!SingboxNetwork(s) = x.streamSettings.network
    BY <1>3 DEF Proxy!SingboxNetwork, Proxy!SameTransport
  <2> QED BY <1>1, <1>2, <1>3, <2>1
<1>4. CASE "transport" \notin DOMAIN s
  <2>1. Proxy!SingboxNetwork(s) = "tcp"
    BY <1>4 DEF Proxy!SingboxNetwork
  <2>2. Proxy!NetworkIsGiven(o) => x.streamSettings.network = "tcp"
    BY <1>1, <1>2, <1>4 DEF Proxy!XrayNetwork, Proxy!WebSocket
  <2> QED BY <2>1, <2>2
<1> QED BY <1>3, <1>4

\* The projections of every outbound configure the two cores alike, as far as the
\* outbound gives its network and its protection in full.
LEMMA CoresDoAgree ==
  ASSUME NEW o \in Outbounds
  PROVE  Proxy!CoresAgree(o, Proxy!ToSingBoxJson(o), Proxy!ToXrayJson(o))
<1> DEFINE s == Proxy!ToSingBoxJson(o)
           x == Proxy!ToXrayJson(o)
<1>1. ASSUME o.kind \in Proxy!TransportKinds
      PROVE  /\ Proxy!SameEndpoint(s, x) /\ Proxy!SameTransport(s, x)
             /\ IF Proxy!NetworkIsGiven(o)
                THEN Proxy!SingboxNetwork(s) = x.streamSettings.network
                ELSE Proxy!SingboxNetwork(s) = "tcp"
             /\ IF Proxy!RealityIsOverTls(o)
                THEN Proxy!SameSecurity(s, x)
                ELSE Proxy!SingboxSecurity(s) = "none" /\ Proxy!XraySecurity(x) = "reality"
  <2>1. FromEndpoint(s, o) /\ SingboxParts(s, o)
    BY <1>1, BothParts
  <2>2. PICK tls : (tls <=> Proxy!DemandsTls(o)) /\ XrayParts(x, tls, o)
    BY <1>1, BothParts
  <2> HIDE DEF s, x
  <2>3. FromServer(x, o) /\ x.streamSettings = Proxy!XrayStreamSettings(tls, Sni(o), o)
    BY <2>2 DEF XrayParts
  <2>4. Proxy!SameEndpoint(s, x)
    BY <2>1, <2>3, EndpointsAgree
  <2>5. /\ Proxy!SameTransport(s, x)
        /\ IF Proxy!NetworkIsGiven(o) THEN Proxy!SingboxNetwork(s) = x.streamSettings.network
                                      ELSE Proxy!SingboxNetwork(s) = "tcp"
    <3>1. Proxy!SameOption(s, "transport", Proxy!AttachTransport(o), "transport")
      BY <2>1 DEF SingboxParts
    <3>2. LET network == Proxy!XrayNetwork(Proxy!UnwrapOr(o, "network", "tcp"))
          IN  /\ x.streamSettings.network = network
              /\ \A k \in {"wsSettings", "grpcSettings", "httpSettings"} :
                   Proxy!SameOption(x.streamSettings, k, Proxy!XraySettings(network, o), k)
      <4> DEFINE network == Proxy!XrayNetwork(Proxy!UnwrapOr(o, "network", "tcp"))
                 stream == Proxy!XrayStreamSettings(tls, Sni(o), o)
      <4>1. /\ stream.network = network
            /\ \A k \in {"wsSettings", "grpcSettings", "httpSettings"} :
                 Proxy!SameOption(stream, k, Proxy!XraySettings(network, o), k)
        <5>1. StreamFrom(stream, tls, Sni(o), o)
          BY StreamIs
        <5> QED BY <5>1 DEF StreamFrom
      <4>2. x.streamSettings = stream
        BY <2>3
      <4> HIDE DEF stream
      <4> QED BY <4>1, <4>2
    <3>3. Proxy!IsOutbound(o)
      BY InputsAssumption
    <3>4. Proxy!SameTransport(s, x)
      BY <3>1, <3>2, <3>3, TransportsAgree
    <3> QED BY <3>1, <3>2, <3>4, NetworksAgree
  <2>6. ASSUME Proxy!RealityIsOverTls(o)
        PROVE  Proxy!SameSecurity(s, x)
    <3>1. "reality_opts" \in DOMAIN o => Proxy!DemandsTls(o)
      BY <2>6 DEF Proxy!RealityIsOverTls, Proxy!DemandsTls
    <3> QED BY <2>1, <2>2, <2>3, <3>1, SecurityAgrees
  <2>7. ASSUME ~Proxy!RealityIsOverTls(o)
        PROVE  Proxy!SingboxSecurity(s) = "none" /\ Proxy!XraySecurity(x) = "reality"
    <3>1. "reality_opts" \in DOMAIN o /\ ~Proxy!Wants(o, "tls") /\ o.kind = "vless"
      BY <2>7, OutboundIs DEF Proxy!RealityIsOverTls
    <3>2. ~Proxy!DemandsTls(o)
      BY <3>1 DEF Proxy!DemandsTls
    <3> QED BY <2>1, <2>2, <2>3, <3>1, <3>2, SecurityAgrees
  <2> QED BY <2>4, <2>5, <2>6, <2>7
<1>2. ASSUME o.kind = "ss"
      PROVE  Proxy!SameEndpoint(s, x)
  <2>1. FromEndpoint(s, o) /\ FromServer(x, o)
    BY <1>2, ShadowsocksSingbox, XrayIs
  <2> QED BY <2>1, EndpointsAgree
<1>3. x.protocol = "unsupported" <=> o.kind \in Proxy!SingboxOnly
  BY UnsupportedIs
<1> HIDE DEF s, x
<1> QED BY <1>1, <1>2, <1>3 DEF Proxy!CoresAgree, s, x

\* Both projections of any outbound are protected exactly when NoWeaker says so.
LEMMA NoneIsWeaker ==
  ASSUME NEW o \in Outbounds
  PROVE  Proxy!NoWeaker(o, Proxy!ToSingBoxJson(o), Proxy!ToXrayJson(o))
<1> DEFINE s == Proxy!ToSingBoxJson(o)
           x == Proxy!ToXrayJson(o)
<1>1. CASE o.kind \in Proxy!TransportKinds
  <2>1. SingboxParts(s, o)
    BY <1>1, BothParts
  <2>2. PICK tls : (tls <=> Proxy!DemandsTls(o)) /\ XrayParts(x, tls, o)
    BY <1>1, BothParts
  <2> HIDE DEF s, x
  <2>3. x.streamSettings = Proxy!XrayStreamSettings(tls, Sni(o), o)
    BY <2>2 DEF XrayParts
  <2>4. /\ Proxy!SingboxSecurity(s) # "none" <=> Proxy!DemandsTls(o)
        /\ Proxy!XraySecurity(x) # "none" <=> Proxy!DemandsTls(o) \/ "reality_opts" \in DOMAIN o
        /\ (Proxy!XraySecurity(x) = "tls"
              /\ "allowInsecure" \in DOMAIN x.streamSettings.tlsSettings)
             => Proxy!Wants(o, "skip_cert_verify")
    BY <2>1, <2>2, <2>3, SecurityAgrees
  <2>5. Proxy!SingboxSecurity(s) # "none" /\ "insecure" \in DOMAIN s.tls
          => Proxy!Wants(o, "skip_cert_verify")
    BY <2>1 DEF SingboxParts, IsTls, Proxy!SingboxSecurity
  <2>6. o.kind # "socks5"
    BY <1>1 DEF Proxy!TransportKinds
  <2> QED BY <1>1, <2>4, <2>5, <2>6 DEF Proxy!NoWeaker, s, x
<1>2. CASE o.kind \in {"tuic", "hysteria2"}
  <2>1. "tls" \in DOMAIN s /\ IsTls(s.tls, "sni", o)
    BY <1>2, AlwaysTls
  <2> HIDE DEF s, x
  <2>2. Proxy!SingboxSecurity(s) # "none"
    BY <2>1 DEF Proxy!SingboxSecurity
  <2>3. "insecure" \in DOMAIN s.tls => Proxy!Wants(o, "skip_cert_verify")
    BY <2>1 DEF IsTls
  <2>4. o.kind \notin Proxy!TransportKinds
    BY <1>2 DEF Proxy!TransportKinds
  <2>5. Proxy!DemandsTls(o) /\ o.kind # "socks5"
    BY <1>2 DEF Proxy!DemandsTls
  <2> QED BY <2>2, <2>3, <2>4, <2>5 DEF Proxy!NoWeaker, s, x
<1>3. CASE o.kind \in {"direct", "reject", "ss", "socks5", "wireguard"}
  <2>1. "tls" \notin DOMAIN s
    BY <1>3, NoTls, ShadowsocksSingbox
  <2> HIDE DEF s, x
  <2>2. Proxy!SingboxSecurity(s) = "none"
    BY <2>1 DEF Proxy!SingboxSecurity
  <2>3. Proxy!DemandsTls(o) => o.kind = "socks5"
    BY <1>3, OutboundIs DEF Proxy!DemandsTls, Proxy!Wants, Proxy!UnwrapOr
  <2>4. o.kind \notin Proxy!TransportKinds
    BY <1>3 DEF Proxy!TransportKinds
  <2> QED BY <2>2, <2>3, <2>4 DEF Proxy!NoWeaker, s, x
<1>4. o.kind \in {"direct", "reject", "ss", "socks5", "wireguard", "tuic", "hysteria2"}
        \/ o.kind \in Proxy!TransportKinds
  BY OutboundIs DEF Proxy!TransportKinds
<1> QED BY <1>1, <1>2, <1>3, <1>4

\* project.rs: whatever the outbounds are, as long as they have the fields of their
\* kinds, sing-box and Xray are given the same server, credentials and settings of
\* the transport with each of them; the same network if its options are given, and
\* the same protection if reality comes with tls, else what CoresAgree says.
THEOREM ProjectionsMatch == CSpec => []ProjectionsAgree
<1>1. CInit => ProjectionsAgree
  BY DEF CInit, Idle, ProjectionsAgree
<1>2. ProjectionsAgree /\ [CNext]_cvars => ProjectionsAgree'
  <2> SUFFICES ASSUME ProjectionsAgree, [CNext]_cvars PROVE ProjectionsAgree'
    OBVIOUS
  <2>1. CASE CNext
    <3> SUFFICES ASSUME Project PROVE ProjectionsAgree'
      BY <2>1, TheCall DEF ProjectionsAgree
    <3>1. PICK o \in Outbounds :
            /\ request'.input = o /\ answer'.singbox = Proxy!ToSingBoxJson(o)
            /\ answer'.xray = Proxy!ToXrayJson(o)
      BY DEF Project, Calls
    <3> QED BY <3>1, CoresDoAgree DEF ProjectionsAgree
  <2>2. CASE UNCHANGED cvars
    BY <2>2 DEF cvars, ProjectionsAgree
  <2> QED BY <2>1, <2>2
<1> QED BY <1>1, <1>2, PTL DEF CSpec

\* project.rs: of any outbounds, sing-box is given protection for exactly those that
\* demand tls and are not socks5, Xray for exactly those it supports that demand tls
\* or have reality options; and no certificate goes unchecked that the outbound does
\* not say to skip.
THEOREM ProtectionKept == CSpec => []ProjectionsAreNoWeaker
<1>1. CInit => ProjectionsAreNoWeaker
  BY DEF CInit, Idle, ProjectionsAreNoWeaker
<1>2. ProjectionsAreNoWeaker /\ [CNext]_cvars => ProjectionsAreNoWeaker'
  <2> SUFFICES ASSUME ProjectionsAreNoWeaker, [CNext]_cvars PROVE ProjectionsAreNoWeaker'
    OBVIOUS
  <2>1. CASE CNext
    <3> SUFFICES ASSUME Project PROVE ProjectionsAreNoWeaker'
      BY <2>1, TheCall DEF ProjectionsAreNoWeaker
    <3>1. PICK o \in Outbounds :
            /\ request'.input = o /\ answer'.singbox = Proxy!ToSingBoxJson(o)
            /\ answer'.xray = Proxy!ToXrayJson(o)
      BY DEF Project, Calls
    <3> QED BY <3>1, NoneIsWeaker DEF ProjectionsAreNoWeaker
  <2>2. CASE UNCHANGED cvars
    BY <2>2 DEF cvars, ProjectionsAreNoWeaker
  <2> QED BY <2>1, <2>2
<1> QED BY <1>1, <1>2, PTL DEF CSpec

=============================================================================
