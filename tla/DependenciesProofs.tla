------------------------- MODULE DependenciesProofs -------------------------
(***************************************************************************)
(* What every behaviour of Dependencies does, for every set of sources and *)
(* files and every event limit: while an event is pending no report that   *)
(* observes its file is accepted, a completed event reaches every result   *)
(* it outdates, and, where a file has one reader and nothing was trimmed,  *)
(* no displayed result is stale unnoticed.  First the lemmas about the     *)
(* list of events (withdraw, reserve with trim, complete), then the types, *)
(* then the inductive invariant, one lemma per conjunct, then the theorems.*)
(***************************************************************************)
EXTENDS Dependencies, FiniteSetTheorems, TLAPS

\* RemoveAt takes one element out and keeps the order of the others.
LEMMA RemoveAtFacts ==
  ASSUME NEW S, NEW list \in Seq(S), NEW i \in DOMAIN list
  PROVE  /\ RemoveAt(list, i) \in Seq(S)
         /\ Len(RemoveAt(list, i)) = Len(list) - 1
         /\ \A j \in DOMAIN RemoveAt(list, i) :
              /\ j < i => RemoveAt(list, i)[j] = list[j]
              /\ j >= i => RemoveAt(list, i)[j] = list[j + 1]
<1>1. /\ SubSeq(list, 1, i - 1) \in Seq(S)
      /\ Len(SubSeq(list, 1, i - 1)) = i - 1
      /\ \A j \in 1..i - 1 : SubSeq(list, 1, i - 1)[j] = list[j]
  OBVIOUS
<1>2. /\ SubSeq(list, i + 1, Len(list)) \in Seq(S)
      /\ Len(SubSeq(list, i + 1, Len(list))) = Len(list) - i
      /\ \A j \in 1..Len(list) - i : SubSeq(list, i + 1, Len(list))[j] = list[i + j]
  OBVIOUS
<1> DEFINE front == SubSeq(list, 1, i - 1)
           back == SubSeq(list, i + 1, Len(list))
<1>3. RemoveAt(list, i) = front \o back
  BY DEF RemoveAt
<1> HIDE DEF front, back
<1>4a. front \in Seq(S) /\ back \in Seq(S)
  BY <1>1, <1>2 DEF front, back
<1>4. /\ front \o back \in Seq(S)
      /\ Len(front \o back) = Len(front) + Len(back)
      /\ \A j \in 1..Len(front) + Len(back) :
           (front \o back)[j] = IF j <= Len(front) THEN front[j] ELSE back[j - Len(front)]
  BY <1>4a
<1>5. Len(front) = i - 1 /\ Len(back) = Len(list) - i
  BY <1>1, <1>2 DEF front, back
<1>6. i \in 1..Len(list) /\ Len(list) \in Nat
  OBVIOUS
<1>7. DOMAIN (front \o back) = 1..Len(list) - 1
  BY <1>4, <1>5, <1>6
<1>8. ASSUME NEW j \in 1..Len(list) - 1, j < i PROVE (front \o back)[j] = list[j]
  <2>1. j \in 1..i - 1 /\ j \in 1..Len(front) + Len(back) /\ j <= Len(front)
    BY <1>5, <1>6, <1>8
  <2> QED BY <2>1, <1>4, <1>1 DEF front
<1>9. ASSUME NEW j \in 1..Len(list) - 1, j >= i PROVE (front \o back)[j] = list[j + 1]
  <2>1. /\ j - (i - 1) \in 1..Len(list) - i /\ j \in 1..Len(front) + Len(back)
        /\ ~(j <= Len(front)) /\ i + (j - (i - 1)) = j + 1
    BY <1>5, <1>6, <1>9
  <2>2. (front \o back)[j] = back[j - (i - 1)]
    BY <2>1, <1>4, <1>5
  <2> QED BY <2>1, <2>2, <1>2 DEF back
<1>10. Len(front \o back) = Len(list) - 1
  BY <1>4, <1>5, <1>6
<1> QED BY <1>3, <1>4, <1>7, <1>8, <1>9, <1>10

\* withdraw takes out an event of its fence, if there is one, and keeps the order of
\* the others.
LEMMA WithoutFacts ==
  ASSUME NEW S, NEW list \in Seq(S), NEW fence
  PROVE  /\ Without(list, fence) \in Seq(S)
         /\ \A j \in DOMAIN Without(list, fence) :
              \E i \in DOMAIN list : Without(list, fence)[j] = list[i]
         /\ \A j, k \in DOMAIN Without(list, fence) : j < k =>
              \E a, b \in DOMAIN list : /\ a < b
                                        /\ Without(list, fence)[j] = list[a]
                                        /\ Without(list, fence)[k] = list[b]
         /\ \A i \in DOMAIN list : list[i].fence # fence =>
              \E j \in DOMAIN Without(list, fence) : Without(list, fence)[j] = list[i]
<1> DEFINE at == {i \in DOMAIN list : list[i].fence = fence}
<1>1. CASE at = {}
  BY <1>1 DEF Without
<1>2. CASE at # {}
  <2> DEFINE i == CHOOSE i \in at : TRUE
             less == RemoveAt(list, i)
  <2>1. i \in at
    BY <1>2
  <2>2. Without(list, fence) = less
    BY <1>2 DEF Without
  <2> HIDE DEF i
  <2>3. /\ less \in Seq(S) /\ Len(less) = Len(list) - 1
        /\ \A j \in DOMAIN less : /\ j < i => less[j] = list[j]
                                  /\ j >= i => less[j] = list[j + 1]
    BY <2>1, RemoveAtFacts
  <2> HIDE DEF less
  <2>4. i \in 1..Len(list) /\ DOMAIN less = 1..Len(list) - 1 /\ Len(list) \in Nat
    BY <2>1, <2>3
  <2>5. ASSUME NEW j \in DOMAIN less, NEW k \in DOMAIN less, j < k
        PROVE  \E a, b \in DOMAIN list : a < b /\ less[j] = list[a] /\ less[k] = list[b]
    <3>1. CASE k < i
      BY <2>5, <2>3, <2>4, <3>1
    <3>2. CASE j < i /\ k >= i
      BY <2>5, <2>3, <2>4, <3>2
    <3>3. CASE j >= i
      BY <2>5, <2>3, <2>4, <3>3
    <3> QED BY <3>1, <3>2, <3>3, <2>4, <2>5
  <2>6. ASSUME NEW j \in DOMAIN less PROVE \E a \in DOMAIN list : less[j] = list[a]
    BY <2>3, <2>4
  <2>7. ASSUME NEW k \in DOMAIN list, list[k].fence # fence
        PROVE  \E j \in DOMAIN less : less[j] = list[k]
    <3>1. k # i
      BY <2>1, <2>7
    <3>2. CASE k < i
      BY <2>3, <2>4, <3>2
    <3>3. CASE k > i
      <4>1. k - 1 \in DOMAIN less /\ k - 1 >= i
        BY <2>4, <3>3
      <4> QED BY <4>1, <2>3, <2>4
    <3> QED BY <3>1, <3>2, <3>3, <2>4
  <2> QED BY <2>2, <2>3, <2>5, <2>6, <2>7
<1> QED BY <1>1, <1>2

\* The events of a list when n fences were reserved and next is m.
EventsUpTo(n, m) == [fence : 1..n, path : Files, revision : 1..2 * m + 1,
                     seen : 0..MaxVersion]

\* Nothing behind a pending event has an older revision.
PendingOrdered(list) ==
  \A j, k \in DOMAIN list :
    j < k /\ list[j].seen = 0 => list[j].revision <= list[k].revision

\* The event of a ticket is still in the list, and pending.
Holds(list, ticket) ==
  \E j \in DOMAIN list : /\ list[j].fence = ticket.fence /\ list[j].path = ticket.path
                         /\ list[j].seen = 0

\* Every event of the list is newer than the token.
AllLater(list, token) == \A j \in DOMAIN list : list[j].revision > token

\* A report with this token is rejected because of the ticket: its event is there and
\* newer, or it was trimmed and raised the floor above the token.
Fencing(list, low, ticket, token) ==
  \/ \E j \in DOMAIN list :
       /\ list[j].fence = ticket.fence /\ list[j].path = ticket.path
       /\ list[j].seen = 0 /\ list[j].revision > token
  \/ low > token /\ AllLater(list, token)

\* What trim leaves of a list.
LEMMA CutFacts ==
  ASSUME NEW S, NEW list \in Seq(S), NEW cut \in 0..Len(list)
  PROVE  /\ SubSeq(list, cut + 1, Len(list)) \in Seq(S)
         /\ Len(SubSeq(list, cut + 1, Len(list))) = Len(list) - cut
         /\ \A j \in 1..Len(list) - cut :
              SubSeq(list, cut + 1, Len(list))[j] = list[cut + j]
OBVIOUS

\* Reserving the paths appends their fences to the events and cuts the list.
ReservedAs(paths, all, cut) ==
  /\ all \in Seq(EventsUpTo(fences + Len(paths), next))
  /\ cut \in 0..Len(all)
  /\ Len(all) = Len(events) + Len(paths)
  /\ \A j \in DOMAIN events : all[j] = events[j]
  /\ \A i \in DOMAIN paths : all[Len(events) + i] = Fence(i, paths[i])
  /\ cut # 0 => cut < Len(all)
  /\ Reserved(paths).events \in Seq(EventsUpTo(fences + Len(paths), next))
  /\ Len(Reserved(paths).events) = Len(all) - cut
  /\ \A j \in 1..Len(all) - cut : Reserved(paths).events[j] = all[cut + j]
  /\ Reserved(paths).floor = IF cut = 0 THEN floor ELSE all[cut].revision

\* reserve appends one pending event per file and trims from the front.
LEMMA ReservedFacts ==
  ASSUME TypeOK, NEW paths \in Seq(Files)
  PROVE  \E all, cut : ReservedAs(paths, all, cut)
<1> DEFINE news == [i \in DOMAIN paths |-> Fence(i, paths[i])]
           all == events \o news
           cut == IF Len(all) > EventLimit THEN Len(all) - EventLimit ELSE 0
           S == EventsUpTo(fences + Len(paths), next)
<1>1. Len(paths) \in Nat /\ DOMAIN paths = 1..Len(paths)
  OBVIOUS
<1>2. ASSUME NEW i \in DOMAIN paths PROVE Fence(i, paths[i]) \in S
  <2>1. fences + i \in 1..fences + Len(paths) /\ 0 \in 0..MaxVersion
    BY <1>1, GraphAssumption DEF TypeOK
  <2>2. 2 * next + 1 \in 1..2 * next + 1 /\ paths[i] \in Files
    BY <1>1 DEF TypeOK
  <2> QED BY <2>1, <2>2 DEF Fence, Pending, EventsUpTo
<1>3. news \in Seq(S) /\ Len(news) = Len(paths)
  BY <1>1, <1>2
<1>4. events \in Seq(S)
  <2>1. ASSUME NEW j \in DOMAIN events PROVE events[j] \in S
    <3>1. events[j] \in EventsUpTo(fences, next)
      <4>1. events \in Seq(EventsUpTo(fences, next))
        BY DEF TypeOK, EventsUpTo
      <4> QED BY <4>1
    <3>2. 1..fences \subseteq 1..fences + Len(paths)
      BY <1>1 DEF TypeOK
    <3> QED BY <3>1, <3>2 DEF EventsUpTo
  <2> QED BY <2>1 DEF TypeOK
<1>5. /\ all \in Seq(S) /\ Len(all) = Len(events) + Len(paths)
      /\ \A j \in DOMAIN events : all[j] = events[j]
      /\ \A i \in DOMAIN paths : all[Len(events) + i] = Fence(i, paths[i])
  <2> HIDE DEF news, S
  <2>1. all \in Seq(S) /\ Len(all) = Len(events) + Len(news)
    BY <1>3, <1>4
  <2>2. \A j \in 1..Len(events) + Len(news) :
          all[j] = IF j <= Len(events) THEN events[j] ELSE news[j - Len(events)]
    BY <1>3, <1>4
  <2>3. Len(events) \in Nat /\ DOMAIN events = 1..Len(events)
    BY <1>4
  <2>4. ASSUME NEW j \in DOMAIN events PROVE all[j] = events[j]
    BY <2>2, <2>3, <1>1, <1>3
  <2>5. ASSUME NEW i \in DOMAIN paths PROVE all[Len(events) + i] = Fence(i, paths[i])
    <3>1. /\ Len(events) + i \in 1..Len(events) + Len(news)
          /\ ~(Len(events) + i <= Len(events))
          /\ Len(events) + i - Len(events) = i
      BY <2>3, <1>1, <1>3
    <3>2. all[Len(events) + i] = news[i]
      BY <3>1, <2>2
    <3> QED BY <3>2 DEF news
  <2> QED BY <2>1, <2>4, <2>5, <1>3
<1>6. cut \in 0..Len(all) /\ (cut # 0 => cut < Len(all))
  <2> HIDE DEF all
  <2>1. Len(all) \in Nat
    BY <1>5
  <2> QED BY <2>1, GraphAssumption
<1>7. /\ Reserved(paths).events = SubSeq(all, cut + 1, Len(all))
      /\ Reserved(paths).floor = IF cut = 0 THEN floor ELSE all[cut].revision
  BY DEF Reserved
<1> HIDE DEF all, cut, S, news
<1>8. /\ SubSeq(all, cut + 1, Len(all)) \in Seq(S)
      /\ Len(SubSeq(all, cut + 1, Len(all))) = Len(all) - cut
      /\ \A j \in 1..Len(all) - cut : SubSeq(all, cut + 1, Len(all))[j] = all[cut + j]
  BY <1>5, <1>6, CutFacts
<1> QED BY <1>5, <1>6, <1>7, <1>8 DEF S, ReservedAs

\* The untrimmed list: the old events, then the new ones.
LEMMA AllFacts ==
  ASSUME TypeOK, NEW paths \in Seq(Files), NEW all, NEW cut, ReservedAs(paths, all, cut)
  PROVE  /\ Len(all) \in Nat /\ Len(events) \in Nat /\ Len(paths) \in Nat
         /\ DOMAIN events = 1..Len(events) /\ DOMAIN paths = 1..Len(paths)
         /\ DOMAIN all = 1..Len(all) /\ next \in Nat
         /\ cut \in 0..Len(all) /\ Len(all) = Len(events) + Len(paths)
         /\ \A i \in DOMAIN all :
              /\ all[i] \in EventsUpTo(fences + Len(paths), next)
              /\ i <= Len(events) => i \in DOMAIN events /\ all[i] = events[i]
              /\ i > Len(events) =>
                   /\ i - Len(events) \in DOMAIN paths
                   /\ all[i] = Fence(i - Len(events), paths[i - Len(events)])
         /\ DOMAIN Reserved(paths).events = 1..Len(all) - cut
<1>1. /\ Len(all) \in Nat /\ Len(events) \in Nat /\ Len(paths) \in Nat
      /\ DOMAIN events = 1..Len(events) /\ DOMAIN paths = 1..Len(paths)
      /\ DOMAIN all = 1..Len(all) /\ next \in Nat
      /\ cut \in 0..Len(all) /\ Len(all) = Len(events) + Len(paths)
  BY DEF TypeOK, ReservedAs
<1>2. ASSUME NEW i \in DOMAIN all
      PROVE  all[i] \in EventsUpTo(fences + Len(paths), next)
  BY DEF ReservedAs
<1>3. ASSUME NEW i \in DOMAIN all, i <= Len(events)
      PROVE  i \in DOMAIN events /\ all[i] = events[i]
  <2>1. i \in DOMAIN events
    BY <1>1, <1>3
  <2> QED BY <2>1 DEF ReservedAs
<1>4. ASSUME NEW i \in DOMAIN all, i > Len(events)
      PROVE  /\ i - Len(events) \in DOMAIN paths
             /\ all[i] = Fence(i - Len(events), paths[i - Len(events)])
  <2>1. i - Len(events) \in DOMAIN paths /\ Len(events) + (i - Len(events)) = i
    BY <1>1, <1>4
  <2> QED BY <2>1 DEF ReservedAs
<1>5. DOMAIN Reserved(paths).events = 1..Len(all) - cut
  <2>1. /\ Reserved(paths).events \in Seq(EventsUpTo(fences + Len(paths), next))
        /\ Len(Reserved(paths).events) = Len(all) - cut
    BY DEF ReservedAs
  <2> QED BY <2>1
<1> QED BY <1>1, <1>2, <1>3, <1>4, <1>5

\* Appending pending events keeps the list ordered from every pending event on.
LEMMA AllOrdered ==
  ASSUME TypeOK, PendingOrdered(events), NEW paths \in Seq(Files),
         NEW all, NEW cut, ReservedAs(paths, all, cut)
  PROVE  PendingOrdered(all)
<1>1. ASSUME NEW i \in DOMAIN all PROVE all[i].revision \in 1..2 * next + 1
  BY AllFacts DEF EventsUpTo
<1> SUFFICES ASSUME NEW i \in DOMAIN all, NEW k \in DOMAIN all, i < k, all[i].seen = 0
             PROVE  all[i].revision <= all[k].revision
  BY DEF PendingOrdered
<1>2. CASE k > Len(events)
  <2>1. all[k].revision = 2 * next + 1
    BY <1>2, AllFacts DEF Fence, Pending
  <2> QED BY <2>1, <1>1, AllFacts
<1>3. CASE k <= Len(events)
  <2>1. /\ i \in DOMAIN events /\ k \in DOMAIN events
        /\ all[i] = events[i] /\ all[k] = events[k]
    BY <1>3, AllFacts
  <2> QED BY <2>1 DEF PendingOrdered
<1> QED BY <1>2, <1>3, AllFacts

\* So does reserve, trimming included.
LEMMA ReservedOrdered ==
  ASSUME TypeOK, PendingOrdered(events), NEW paths \in Seq(Files)
  PROVE  PendingOrdered(Reserved(paths).events)
<1> PICK all, cut : ReservedAs(paths, all, cut)
  BY ReservedFacts
<1> DEFINE R == Reserved(paths).events
<1>1. PendingOrdered(all)
  BY AllOrdered
<1>2. ASSUME NEW j \in DOMAIN R PROVE R[j] = all[cut + j] /\ cut + j \in DOMAIN all
  <2>1. j \in 1..Len(all) - cut
    BY AllFacts
  <2> QED BY <2>1, AllFacts DEF ReservedAs
<1>3. ASSUME NEW j \in DOMAIN R, NEW k \in DOMAIN R, j < k
      PROVE  cut + j < cut + k
  BY AllFacts, <1>3
<1> QED BY <1>1, <1>2, <1>3 DEF PendingOrdered

\* A pending fence is kept, or the floor is raised above every token it rejects and
\* so are all the events that are left.
LEMMA KeptOrRaised ==
  ASSUME TypeOK, PendingOrdered(events), NEW paths \in Seq(Files),
         NEW all, NEW cut, ReservedAs(paths, all, cut), NEW token \in Nat,
         NEW n \in DOMAIN all, all[n].seen = 0, all[n].revision > token
  PROVE  Fencing(Reserved(paths).events, Reserved(paths).floor, all[n], token)
<1> DEFINE R == Reserved(paths).events
<1>1. ASSUME NEW k \in DOMAIN all, k >= n PROVE all[k].revision > token
  <2>1. /\ all[k].revision \in Nat /\ all[n].revision \in Nat
        /\ k \in Nat /\ n \in Nat
    BY AllFacts DEF EventsUpTo
  <2>2. all[n].revision <= all[k].revision
    BY AllOrdered, <1>1, <2>1 DEF PendingOrdered
  <2> QED BY <2>1, <2>2
<1>2. ASSUME NEW j \in DOMAIN R PROVE R[j] = all[cut + j] /\ cut + j \in DOMAIN all
  <2>1. j \in 1..Len(all) - cut
    BY AllFacts
  <2> QED BY <2>1, AllFacts DEF ReservedAs
<1>3. CASE n > cut
  <2>1. n - cut \in 1..Len(all) - cut /\ cut + (n - cut) = n
    BY <1>3, AllFacts
  <2>2. n - cut \in DOMAIN R /\ R[n - cut] = all[n]
    BY <2>1, AllFacts DEF ReservedAs
  <2> QED BY <2>2 DEF Fencing
<1>4. CASE n <= cut
  <2>1. cut \in DOMAIN all /\ cut # 0
    BY <1>4, AllFacts
  <2>2. Reserved(paths).floor > token
    BY <2>1, <1>1, <1>4 DEF ReservedAs
  <2>3. ASSUME NEW j \in DOMAIN R PROVE R[j].revision > token
    <3>1. cut + j >= n
      BY <1>4, AllFacts
    <3> QED BY <3>1, <1>1, <1>2
  <2> QED BY <2>2, <2>3 DEF Fencing, AllLater
<1> QED BY <1>3, <1>4, AllFacts

\* A fence reserved now rejects every token issued so far.
LEMMA ReservedFences ==
  ASSUME TypeOK, PendingOrdered(events), NEW paths \in Seq(Files),
         NEW token \in 0..2 * next, NEW i \in DOMAIN paths
  PROVE  Fencing(Reserved(paths).events, Reserved(paths).floor, Ticket(i, paths[i]), token)
<1> PICK all, cut : ReservedAs(paths, all, cut)
  BY ReservedFacts
<1> DEFINE n == Len(events) + i
<1>1. n \in DOMAIN all
  BY AllFacts
<1>2. all[n] = Fence(i, paths[i])
  BY DEF ReservedAs
<1>3. all[n].seen = 0 /\ all[n].revision > token /\ token \in Nat
  BY <1>2, AllFacts DEF Fence, Pending
<1>4. Fencing(Reserved(paths).events, Reserved(paths).floor, all[n], token)
  BY <1>1, <1>3, KeptOrRaised
<1>5. all[n].fence = Ticket(i, paths[i]).fence /\ all[n].path = Ticket(i, paths[i]).path
  BY <1>2 DEF Fence, Ticket
<1> QED BY <1>4, <1>5 DEF Fencing

\* Reserving keeps every fence that rejects a token issued before.
LEMMA ReservedKeepsFences ==
  ASSUME TypeOK, PendingOrdered(events), NEW paths \in Seq(Files),
         NEW token \in 0..2 * next, NEW ticket, Fencing(events, floor, ticket, token)
  PROVE  Fencing(Reserved(paths).events, Reserved(paths).floor, ticket, token)
<1> PICK all, cut : ReservedAs(paths, all, cut)
  BY ReservedFacts
<1> DEFINE R == Reserved(paths).events
<1>1. CASE \E j \in DOMAIN events :
             /\ events[j].fence = ticket.fence /\ events[j].path = ticket.path
             /\ events[j].seen = 0 /\ events[j].revision > token
  <2> PICK j \in DOMAIN events :
             /\ events[j].fence = ticket.fence /\ events[j].path = ticket.path
             /\ events[j].seen = 0 /\ events[j].revision > token
    BY <1>1
  <2>1. j \in DOMAIN all /\ all[j] = events[j] /\ token \in Nat
    BY AllFacts DEF ReservedAs
  <2>2. Fencing(R, Reserved(paths).floor, all[j], token)
    BY <2>1, KeptOrRaised
  <2> QED BY <2>1, <2>2 DEF Fencing
<1>2. CASE floor > token /\ AllLater(events, token)
  <2>1. ASSUME NEW k \in DOMAIN all PROVE all[k].revision > token
    <3>1. CASE k <= Len(events)
      BY <3>1, <1>2, AllFacts DEF AllLater
    <3>2. CASE k > Len(events)
      BY <3>2, AllFacts DEF Fence, Pending
    <3> QED BY <3>1, <3>2, AllFacts
  <2>2. Reserved(paths).floor > token
    <3>1. cut # 0 => cut \in DOMAIN all
      BY AllFacts
    <3> QED BY <3>1, <2>1, <1>2 DEF ReservedAs
  <2>3. ASSUME NEW j \in DOMAIN R PROVE R[j].revision > token
    <3>1. j \in 1..Len(all) - cut
      BY AllFacts
    <3>2. R[j] = all[cut + j] /\ cut + j \in DOMAIN all
      BY <3>1, AllFacts DEF ReservedAs
    <3> QED BY <3>2, <2>1
  <2> QED BY <2>2, <2>3 DEF Fencing, AllLater
<1> QED BY <1>1, <1>2 DEF Fencing

\* Nothing trimmed: every fence and every event is still there.
LEMMA ReservedUntrimmed ==
  ASSUME TypeOK, NEW paths \in Seq(Files), Reserved(paths).floor = 0
  PROVE  /\ floor = 0
         /\ \A j \in DOMAIN events : \E k \in DOMAIN Reserved(paths).events :
              Reserved(paths).events[k] = events[j]
         /\ \A i \in DOMAIN paths : \E k \in DOMAIN Reserved(paths).events :
              Reserved(paths).events[k] = Fence(i, paths[i])
<1> PICK all, cut : ReservedAs(paths, all, cut)
  BY ReservedFacts
<1> DEFINE R == Reserved(paths).events
<1>1. cut = 0
  <2> SUFFICES ASSUME cut # 0 PROVE FALSE
    OBVIOUS
  <2>1. cut \in DOMAIN all
    BY AllFacts
  <2>2. all[cut].revision \in 1..2 * next + 1
    BY <2>1, AllFacts DEF EventsUpTo
  <2> QED BY <2>2, AllFacts DEF ReservedAs
<1>2. ASSUME NEW k \in DOMAIN all PROVE k \in DOMAIN R /\ R[k] = all[k]
  <2>1. k \in 1..Len(all) - cut /\ cut + k = k
    BY <1>1, AllFacts
  <2> QED BY <2>1, AllFacts DEF ReservedAs
<1>3. ASSUME NEW j \in DOMAIN events PROVE j \in DOMAIN all /\ all[j] = events[j]
  <2>1. j \in DOMAIN all
    BY AllFacts
  <2> QED BY <2>1 DEF ReservedAs
<1>4. ASSUME NEW i \in DOMAIN paths
      PROVE  Len(events) + i \in DOMAIN all /\ all[Len(events) + i] = Fence(i, paths[i])
  BY AllFacts DEF ReservedAs
<1>5. floor = 0
  BY <1>1 DEF ReservedAs
<1> QED BY <1>2, <1>3, <1>4, <1>5

\* What is left after reserving was there before, or is new and pending.
LEMMA ReservedIsOldOrNew ==
  ASSUME TypeOK, NEW paths \in Seq(Files), NEW k \in DOMAIN Reserved(paths).events
  PROVE  \/ \E j \in DOMAIN events : Reserved(paths).events[k] = events[j]
         \/ \E i \in DOMAIN paths : Reserved(paths).events[k] = Fence(i, paths[i])
<1> PICK all, cut : ReservedAs(paths, all, cut)
  BY ReservedFacts
<1>1. k \in 1..Len(all) - cut
  BY AllFacts
<1>2. cut + k \in DOMAIN all /\ Reserved(paths).events[k] = all[cut + k]
  BY <1>1, AllFacts DEF ReservedAs
<1>3. CASE cut + k <= Len(events)
  BY <1>2, <1>3, AllFacts
<1>4. CASE cut + k > Len(events)
  BY <1>2, <1>4, AllFacts
<1> QED BY <1>2, <1>3, <1>4, AllFacts

-----------------------------------------------------------------------------

\* complete marks the event of a fence with its revision and fingerprint.
Marked(list, fence, rev, seen) ==
  [i \in DOMAIN list |-> IF list[i].fence # fence THEN list[i]
                         ELSE [list[i] EXCEPT !.revision = rev, !.seen = seen]]

\* Taking out the event of one fence keeps the order and all the others.
LEMMA WithoutKeeps ==
  ASSUME NEW S, NEW list \in Seq(S), NEW fence
  PROVE  /\ PendingOrdered(list) => PendingOrdered(Without(list, fence))
         /\ \A low, ticket, token :
              Fencing(list, low, ticket, token) /\ ticket.fence # fence =>
                Fencing(Without(list, fence), low, ticket, token)
         /\ \A ticket : Holds(list, ticket) /\ ticket.fence # fence =>
                          Holds(Without(list, fence), ticket)
<1> DEFINE W == Without(list, fence)
<1>1. /\ \A j \in DOMAIN W : \E i \in DOMAIN list : W[j] = list[i]
      /\ \A j, k \in DOMAIN W : j < k =>
           \E a, b \in DOMAIN list : a < b /\ W[j] = list[a] /\ W[k] = list[b]
      /\ \A i \in DOMAIN list : list[i].fence # fence =>
           \E j \in DOMAIN W : W[j] = list[i]
  BY WithoutFacts
<1> HIDE DEF W
<1>2. PendingOrdered(list) => PendingOrdered(W)
  <2> SUFFICES ASSUME PendingOrdered(list), NEW j \in DOMAIN W, NEW k \in DOMAIN W,
                      j < k, W[j].seen = 0
               PROVE  W[j].revision <= W[k].revision
    BY DEF PendingOrdered
  <2> PICK a \in DOMAIN list, b \in DOMAIN list :
             a < b /\ W[j] = list[a] /\ W[k] = list[b]
    BY <1>1
  <2> QED BY DEF PendingOrdered
<1>3. ASSUME NEW low, NEW ticket, NEW token, Fencing(list, low, ticket, token),
             ticket.fence # fence
      PROVE  Fencing(W, low, ticket, token)
  <2>1. CASE low > token /\ AllLater(list, token)
    BY <2>1, <1>1 DEF Fencing, AllLater
  <2>2. CASE \E j \in DOMAIN list :
               /\ list[j].fence = ticket.fence /\ list[j].path = ticket.path
               /\ list[j].seen = 0 /\ list[j].revision > token
    <3> PICK j \in DOMAIN list :
               /\ list[j].fence = ticket.fence /\ list[j].path = ticket.path
               /\ list[j].seen = 0 /\ list[j].revision > token
      BY <2>2
    <3> PICK k \in DOMAIN W : W[k] = list[j]
      BY <1>1, <1>3
    <3> QED BY DEF Fencing
  <2> QED BY <1>3, <2>1, <2>2 DEF Fencing
<1>4. ASSUME NEW ticket, Holds(list, ticket), ticket.fence # fence
      PROVE  Holds(W, ticket)
  <2> PICK j \in DOMAIN list :
             /\ list[j].fence = ticket.fence /\ list[j].path = ticket.path
             /\ list[j].seen = 0
    BY <1>4 DEF Holds
  <2> PICK k \in DOMAIN W : W[k] = list[j]
    BY <1>1, <1>4
  <2> QED BY DEF Holds
<1> QED BY <1>2, <1>3, <1>4 DEF W

\* Completing the event of one fence with the newest revision keeps the order and all
\* the others.
LEMMA MarkedKeeps ==
  ASSUME NEW n \in Nat, NEW m \in Nat, NEW list \in Seq(EventsUpTo(n, m)),
         NEW fence, NEW rev \in Nat, rev > 2 * m + 1, NEW seen, seen # 0
  PROVE  /\ PendingOrdered(list) => PendingOrdered(Marked(list, fence, rev, seen))
         /\ \A low, ticket : \A token \in 0..2 * m :
              Fencing(list, low, ticket, token) /\ ticket.fence # fence =>
                Fencing(Marked(list, fence, rev, seen), low, ticket, token)
         /\ \A ticket : Holds(list, ticket) /\ ticket.fence # fence =>
                          Holds(Marked(list, fence, rev, seen), ticket)
<1> DEFINE W == Marked(list, fence, rev, seen)
<1>1. /\ DOMAIN W = DOMAIN list
      /\ \A j \in DOMAIN list :
           /\ list[j].revision \in Nat /\ list[j].revision <= rev
           /\ list[j].fence # fence => W[j] = list[j]
           /\ list[j].fence = fence => W[j].revision = rev /\ W[j].seen = seen
  <2>1. DOMAIN W = DOMAIN list
    BY DEF Marked
  <2>2. ASSUME NEW j \in DOMAIN list
        PROVE  /\ list[j].revision \in Nat /\ list[j].revision <= rev
               /\ list[j].fence # fence => W[j] = list[j]
               /\ list[j].fence = fence => W[j].revision = rev /\ W[j].seen = seen
    <3>1. list[j] \in EventsUpTo(n, m)
      OBVIOUS
    <3> QED BY <3>1 DEF Marked, EventsUpTo
  <2> QED BY <2>1, <2>2
<1> HIDE DEF W
<1>2. PendingOrdered(list) => PendingOrdered(W)
  <2> SUFFICES ASSUME PendingOrdered(list), NEW j \in DOMAIN W, NEW k \in DOMAIN W,
                      j < k, W[j].seen = 0
               PROVE  W[j].revision <= W[k].revision
    BY DEF PendingOrdered
  <2>1. list[j].fence # fence /\ W[j] = list[j]
    BY <1>1
  <2>2. CASE list[k].fence = fence
    BY <2>1, <2>2, <1>1
  <2>3. CASE list[k].fence # fence
    BY <2>1, <2>3, <1>1 DEF PendingOrdered
  <2> QED BY <2>2, <2>3
<1>3. ASSUME NEW low, NEW ticket, NEW token \in 0..2 * m,
             Fencing(list, low, ticket, token), ticket.fence # fence
      PROVE  Fencing(W, low, ticket, token)
  <2>1. CASE low > token /\ AllLater(list, token)
    BY <2>1, <1>1 DEF Fencing, AllLater
  <2>2. CASE \E j \in DOMAIN list :
               /\ list[j].fence = ticket.fence /\ list[j].path = ticket.path
               /\ list[j].seen = 0 /\ list[j].revision > token
    BY <2>2, <1>1, <1>3 DEF Fencing
  <2> QED BY <1>3, <2>1, <2>2 DEF Fencing
<1>4. ASSUME NEW ticket, Holds(list, ticket), ticket.fence # fence
      PROVE  Holds(W, ticket)
  BY <1>4, <1>1 DEF Holds
<1> QED BY <1>2, <1>3, <1>4 DEF W

-----------------------------------------------------------------------------

\* The queue when n fences were reserved and g graphs existed.
TicketsUpTo(n, g) == [fence : 1..n, path : Files, graph : 0..g, seen : 0..MaxVersion]

\* The checks when next is m and the queue holds l events.
Checks(m, l) ==
  [phase : {"idle", "submitted", "running", "observing", "waiting"},
   token : 0..2 * m, revision : 0..m, read : [Files -> 0..MaxVersion],
   left : SUBSET Files, changed : SUBSET Files, ahead : 0..l]

\* The bounds of the types only grow.
LEMMA EventsGrow ==
  ASSUME NEW n \in Nat, NEW m \in Nat, NEW n2 \in Nat, NEW m2 \in Nat, n <= n2, m <= m2,
         NEW list \in Seq(EventsUpTo(n, m))
  PROVE  list \in Seq(EventsUpTo(n2, m2))
<1>1. 1..n \subseteq 1..n2 /\ 1..2 * m + 1 \subseteq 1..2 * m2 + 1
  OBVIOUS
<1>2. EventsUpTo(n, m) \subseteq EventsUpTo(n2, m2)
  BY <1>1 DEF EventsUpTo
<1> QED BY <1>2

\* Likewise for the queue.
LEMMA TicketsGrow ==
  ASSUME NEW n \in Nat, NEW g \in Nat, NEW n2 \in Nat, NEW g2 \in Nat, n <= n2, g <= g2,
         NEW list \in Seq(TicketsUpTo(n, g))
  PROVE  list \in Seq(TicketsUpTo(n2, g2))
<1>1. 1..n \subseteq 1..n2 /\ 0..g \subseteq 0..g2
  OBVIOUS
<1>2. TicketsUpTo(n, g) \subseteq TicketsUpTo(n2, g2)
  BY <1>1 DEF TicketsUpTo
<1> QED BY <1>2

\* Likewise for the checks.
LEMMA ChecksGrow ==
  ASSUME NEW m \in Nat, NEW l \in Nat, NEW m2 \in Nat, NEW l2 \in Nat, m <= m2, l <= l2
  PROVE  Checks(m, l) \subseteq Checks(m2, l2)
<1>1. 0..2 * m \subseteq 0..2 * m2 /\ 0..m \subseteq 0..m2 /\ 0..l \subseteq 0..l2
  OBVIOUS
<1> QED BY <1>1 DEF Checks

\* The changed files of a check become a sequence of files.
LEMMA SetToSeqType ==
  ASSUME NEW S \in SUBSET Files
  PROVE  SetToSeq(S) \in Seq(Files)
<1>1. IsFiniteSet(S)
  BY GraphAssumption, FS_Subset
<1>2. Cardinality(S) \in Nat /\ Bijection(1..Cardinality(S), S) # {}
  BY <1>1, FS_CardinalityType DEF ExistsBijection
<1>3. \E f \in [1..Cardinality(S) -> S] : IsInjective(f)
  BY <1>2 DEF Bijection, Injection
<1>4. SetToSeq(S) \in [1..Cardinality(S) -> S]
  BY <1>3 DEF SetToSeq
<1> QED BY <1>2, <1>4

\* TypeOK, variable by variable.
LEMMA Types ==
  TypeOK =>
    /\ disk \in [Files -> Versions] /\ undelivered \subseteq Files /\ active \in BOOLEAN
    /\ moves \in Nat /\ graph \in Nat /\ next \in Nat /\ fences \in Nat /\ floor \in Nat
    /\ events \in Seq(EventsUpTo(fences, next)) /\ queue \in Seq(TicketsUpTo(fences, graph))
    /\ Len(events) \in Nat /\ DOMAIN events = 1..Len(events)
    /\ Len(queue) \in Nat /\ DOMAIN queue = 1..Len(queue)
    /\ folderSeen \in [Files -> 0..MaxVersion] /\ known \subseteq Sources
    /\ sourceSeen \in [Sources -> [Files -> 0..MaxVersion]]
    /\ revision \in [Sources -> 0..next]
    /\ check \in [Sources -> Checks(next, Len(queue))]
    /\ wanted \subseteq Sources
    /\ result \in [Sources -> [Files -> 0..MaxVersion]]
    /\ observed \in [Files -> 0..MaxVersion]
BY DEF TypeOK, EventsUpTo, TicketsUpTo, Checks

\* The queue after the given files are queued.
LEMMA QueuedFacts ==
  ASSUME TypeOK, NEW paths \in Seq(Files), ContextEvents(paths)
  PROVE  /\ Len(paths) \in Nat /\ DOMAIN paths = 1..Len(paths)
         /\ fences' = fences + Len(paths)
         /\ queue' \in Seq(TicketsUpTo(fences', graph))
         /\ Len(queue') = Len(queue) + Len(paths)
         /\ DOMAIN queue' = 1..Len(queue')
         /\ \A i \in DOMAIN queue : i \in DOMAIN queue' /\ queue'[i] = queue[i]
         /\ \A i \in DOMAIN queue' :
              /\ i \notin DOMAIN queue => /\ i > Len(queue)
                                          /\ i - Len(queue) \in DOMAIN paths
                                          /\ queue'[i] = Ticket(i - Len(queue),
                                                                paths[i - Len(queue)])
         /\ events' \in Seq(EventsUpTo(fences', next))
         /\ floor' \in Nat
<1> DEFINE news == [i \in DOMAIN paths |-> Ticket(i, paths[i])]
           S == TicketsUpTo(fences + Len(paths), graph)
<1>1. Len(paths) \in Nat /\ DOMAIN paths = 1..Len(paths)
  OBVIOUS
<1>2. ASSUME NEW i \in DOMAIN paths PROVE Ticket(i, paths[i]) \in S
  <2>1. fences + i \in 1..fences + Len(paths) /\ 0 \in 0..MaxVersion /\ graph \in 0..graph
    BY <1>1, GraphAssumption, Types
  <2>2. paths[i] \in Files
    BY <1>1
  <2> QED BY <2>1, <2>2 DEF Ticket, TicketsUpTo
<1>3. news \in Seq(S) /\ Len(news) = Len(paths)
  BY <1>1, <1>2
<1>4. queue \in Seq(S)
  <2>1. /\ fences \in Nat /\ graph \in Nat /\ fences + Len(paths) \in Nat
        /\ fences <= fences + Len(paths) /\ graph <= graph
    BY <1>1, Types
  <2> QED BY <2>1, Types, TicketsGrow
<1> HIDE DEF news, S
<1>5. /\ queue' = queue \o news /\ fences' = fences + Len(paths)
      /\ events' = Reserved(paths).events /\ floor' = Reserved(paths).floor
  BY DEF ContextEvents, news
<1>6. /\ queue \o news \in Seq(S) /\ Len(queue \o news) = Len(queue) + Len(news)
      /\ \A j \in 1..Len(queue) + Len(news) :
           (queue \o news)[j] = IF j <= Len(queue) THEN queue[j] ELSE news[j - Len(queue)]
  BY <1>3, <1>4
<1>7. DOMAIN queue' = 1..Len(queue) + Len(paths)
  BY <1>3, <1>5, <1>6
<1>8. ASSUME NEW i \in DOMAIN queue PROVE i \in DOMAIN queue' /\ queue'[i] = queue[i]
  BY <1>1, <1>3, <1>5, <1>6, <1>7, Types
<1>9. ASSUME NEW i \in DOMAIN queue', i \notin DOMAIN queue
      PROVE  /\ i > Len(queue)
             /\ i - Len(queue) \in DOMAIN paths
             /\ queue'[i] = Ticket(i - Len(queue), paths[i - Len(queue)])
  <2>1. i > Len(queue) /\ i - Len(queue) \in DOMAIN paths
    BY <1>1, <1>7, <1>9, Types
  <2>2. queue'[i] = news[i - Len(queue)]
    BY <1>1, <1>3, <1>5, <1>6, <1>7, <2>1, Types
  <2> QED BY <2>1, <2>2 DEF news
<1>10. events' \in Seq(EventsUpTo(fences', next)) /\ floor' \in Nat
  <2> PICK all, cut : ReservedAs(paths, all, cut)
    BY ReservedFacts
  <2>1. events' \in Seq(EventsUpTo(fences', next))
    BY <1>5 DEF ReservedAs
  <2>2. cut # 0 => all[cut].revision \in 1..2 * next + 1
    <3> SUFFICES ASSUME cut # 0 PROVE all[cut].revision \in 1..2 * next + 1
      OBVIOUS
    <3>1. cut \in DOMAIN all
      BY AllFacts
    <3> QED BY <3>1, AllFacts DEF EventsUpTo
  <2>3. floor' \in Nat
    <3>1. floor' = IF cut = 0 THEN floor ELSE all[cut].revision
      BY <1>5 DEF ReservedAs
    <3> QED BY <3>1, <2>2, Types
  <2> QED BY <2>1, <2>3
<1> QED BY <1>1, <1>3, <1>5, <1>6, <1>7, <1>8, <1>9, <1>10 DEF S

\* And back again, for the next state.
LEMMA TypesBack ==
  ASSUME disk' \in [Files -> Versions], undelivered' \subseteq Files, active' \in BOOLEAN,
         moves' \in Nat, graph' \in Nat, next' \in Nat, fences' \in Nat, floor' \in Nat,
         events' \in Seq(EventsUpTo(fences', next')),
         queue' \in Seq(TicketsUpTo(fences', graph')),
         folderSeen' \in [Files -> 0..MaxVersion], known' \subseteq Sources,
         sourceSeen' \in [Sources -> [Files -> 0..MaxVersion]],
         revision' \in [Sources -> 0..next'],
         check' \in [Sources -> Checks(next', Len(queue'))],
         wanted' \subseteq Sources,
         result' \in [Sources -> [Files -> 0..MaxVersion]],
         observed' \in [Files -> 0..MaxVersion]
  PROVE  TypeOK'
BY DEF TypeOK, EventsUpTo, TicketsUpTo, Checks

\* The initial state has its types.
LEMMA InitTypes == Init => TypeOK
<1> SUFFICES ASSUME Init PROVE TypeOK
  OBVIOUS
<1>1. 1 \in Versions /\ 0 \in 0..MaxVersion /\ 0 \in 0..next /\ 0 \in 0..2 * next
      /\ 0 \in 0..Len(queue)
  BY GraphAssumption DEF Init, Versions
<1>2. Idle \in Checks(next, Len(queue)) /\ NoFiles \in [Files -> 0..MaxVersion]
  BY <1>1 DEF Idle, Checks, NoFiles
<1>3. /\ events \in Seq(EventsUpTo(fences, next))
      /\ queue \in Seq(TicketsUpTo(fences, graph))
  BY DEF Init
<1> QED BY <1>1, <1>2, <1>3 DEF Init, TypeOK, EventsUpTo, TicketsUpTo, Checks

\* Steps that queue events of the given files and touch nothing else but the disk,
\* the deliveries and one check.
LEMMA QueuedTypes ==
  ASSUME TypeOK, NEW paths \in Seq(Files), ContextEvents(paths),
         disk' \in [Files -> Versions], undelivered' \subseteq Files,
         wanted' \subseteq Sources, check' \in [Sources -> Checks(next, Len(queue))],
         UNCHANGED <<active, moves, graph, next, folderSeen, known, sourceSeen, revision,
                     result, observed>>
  PROVE  TypeOK'
<1>1. /\ Len(queue) \in Nat /\ Len(queue') \in Nat /\ Len(queue) <= Len(queue')
      /\ next \in Nat /\ next <= next /\ fences' \in Nat
  BY QueuedFacts, Types
<1>2. Checks(next, Len(queue)) \subseteq Checks(next, Len(queue'))
  BY <1>1, ChecksGrow
<1>3. check' \in [Sources -> Checks(next', Len(queue'))]
  BY <1>2
<1> QED BY <1>1, <1>3, QueuedFacts, Types, TypesBack

\* A step that moves one check and the queued sources keeps the types.
LEMMA CheckTypes ==
  ASSUME TypeOK, NEW s \in Sources, NEW c \in Checks(next, Len(queue)), Step(s, c),
         OnlyCheck, wanted' \subseteq Sources
  PROVE  TypeOK'
<1>1. check' \in [Sources -> Checks(next, Len(queue))]
  BY Types DEF Step
<1> QED BY <1>1, Types, TypesBack DEF OnlyCheck

\* The event at the head leaves: everything behind it moves up.
LEMMA DequeueFacts ==
  ASSUME TypeOK, queue # <<>>, Dequeue
  PROVE  /\ 1 \in DOMAIN queue /\ Head(queue) = queue[1]
         /\ queue' \in Seq(TicketsUpTo(fences, graph))
         /\ Len(queue') = Len(queue) - 1 /\ Len(queue) >= 1
         /\ DOMAIN queue' = 1..Len(queue')
         /\ \A i \in DOMAIN queue' : i + 1 \in DOMAIN queue /\ queue'[i] = queue[i + 1]
         /\ \A i \in DOMAIN queue : i # 1 => i - 1 \in DOMAIN queue' /\ queue'[i - 1] = queue[i]
         /\ check' \in [Sources -> Checks(next, Len(queue'))]
         /\ \A s \in Sources :
              /\ check'[s].phase = check[s].phase /\ check'[s].token = check[s].token
              /\ check'[s].revision = check[s].revision /\ check'[s].read = check[s].read
              /\ check'[s].left = check[s].left /\ check'[s].changed = check[s].changed
              /\ check'[s].ahead = IF check[s].ahead > 0 THEN check[s].ahead - 1 ELSE 0
              /\ check[s] = Idle => check'[s] = Idle
<1>1. /\ queue \in Seq(TicketsUpTo(fences, graph)) /\ queue' = Tail(queue)
      /\ Len(queue) \in Nat /\ DOMAIN queue = 1..Len(queue)
  BY Types DEF Dequeue
<1>2. /\ Len(queue) >= 1 /\ 1 \in DOMAIN queue /\ Head(queue) = queue[1]
      /\ queue' \in Seq(TicketsUpTo(fences, graph)) /\ Len(queue') = Len(queue) - 1
      /\ DOMAIN queue' = 1..Len(queue')
  BY <1>1
<1>3. ASSUME NEW i \in DOMAIN queue'
      PROVE  i + 1 \in DOMAIN queue /\ queue'[i] = queue[i + 1]
  BY <1>1, <1>2
<1>4. ASSUME NEW i \in DOMAIN queue, i # 1
      PROVE  i - 1 \in DOMAIN queue' /\ queue'[i - 1] = queue[i]
  <2>1. i - 1 \in DOMAIN queue' /\ i - 1 + 1 = i
    BY <1>1, <1>2, <1>4
  <2> QED BY <2>1, <1>3
<1>5. ASSUME NEW s \in Sources
      PROVE  /\ check'[s] \in Checks(next, Len(queue'))
             /\ check'[s].phase = check[s].phase /\ check'[s].token = check[s].token
             /\ check'[s].revision = check[s].revision /\ check'[s].read = check[s].read
             /\ check'[s].left = check[s].left /\ check'[s].changed = check[s].changed
             /\ check'[s].ahead = IF check[s].ahead > 0 THEN check[s].ahead - 1 ELSE 0
  <2>1. check[s] \in Checks(next, Len(queue))
    BY Types
  <2>2. check'[s] = [check[s] EXCEPT !.ahead = IF @ > 0 THEN @ - 1 ELSE 0]
    BY DEF Dequeue
  <2>3. (IF check[s].ahead > 0 THEN check[s].ahead - 1 ELSE 0) \in 0..Len(queue')
    BY <2>1, <1>2, <1>1 DEF Checks
  <2> QED BY <2>1, <2>2, <2>3 DEF Checks
<1>6. ASSUME NEW s \in Sources, check[s] = Idle PROVE check'[s] = Idle
  <2>1. check'[s] = [check[s] EXCEPT !.ahead = IF @ > 0 THEN @ - 1 ELSE 0]
    BY DEF Dequeue
  <2>2. Idle.ahead = 0 /\ [Idle EXCEPT !.ahead = 0] = Idle
    <3>1. Idle.ahead = 0
      BY DEF Idle
    <3>2. Idle \in [{"phase", "token", "revision", "read", "left", "changed", "ahead"} ->
                      {Idle[k] : k \in DOMAIN Idle}]
      BY Zenon DEF Idle
    <3> QED BY <3>1, <3>2
  <2>3. check'[s] = [check[s] EXCEPT !.ahead = 0]
    BY <2>1, <2>2, <1>6
  <2> QED BY <2>2, <2>3, <1>6
<1>7. DOMAIN check' = Sources /\ check' \in [Sources -> Checks(next, Len(queue'))]
  <2>1. check' = [s \in Sources |-> [check[s] EXCEPT !.ahead = IF @ > 0 THEN @ - 1 ELSE 0]]
    BY DEF Dequeue
  <2> QED BY <2>1, <1>5
<1> QED BY <1>2, <1>3, <1>4, <1>5, <1>6, <1>7

\* Edits, saves and watcher events keep the types.
LEMMA EventTypes ==
  ASSUME TypeOK, NEW f \in Files, Edit(f) \/ Save(f) \/ Deliver(f)
  PROVE  TypeOK'
<1>1. <<f>> \in Seq(Files)
  OBVIOUS
<1>2. ASSUME disk[f] < MaxVersion
      PROVE  [disk EXCEPT ![f] = @ + 1] \in [Files -> Versions]
  <2>1. disk[f] \in 1..MaxVersion
    BY Types DEF Versions
  <2>2. disk[f] + 1 \in 1..MaxVersion
    BY <2>1, <1>2, GraphAssumption
  <2> QED BY <2>2, Types DEF Versions
<1>3. CASE Edit(f)
  BY <1>2, <1>3, Types, TypesBack DEF Edit
<1>4. CASE Save(f)
  <2>1. /\ ContextEvents(<<f>>) /\ disk' \in [Files -> Versions]
        /\ undelivered' \subseteq Files /\ wanted' \subseteq Sources
        /\ check' \in [Sources -> Checks(next, Len(queue))]
        /\ UNCHANGED <<active, moves, graph, next, folderSeen, known, sourceSeen,
                       revision, result, observed>>
    BY <1>2, <1>4, Types DEF Save
  <2> QED BY <2>1, <1>1, QueuedTypes
<1>5. CASE Deliver(f)
  <2>1. CASE active
    <3>1. /\ ContextEvents(<<f>>) /\ disk' \in [Files -> Versions]
          /\ undelivered' \subseteq Files /\ wanted' \subseteq Sources
          /\ check' \in [Sources -> Checks(next, Len(queue))]
          /\ UNCHANGED <<active, moves, graph, next, folderSeen, known, sourceSeen,
                         revision, result, observed>>
      BY <1>5, <2>1, Types DEF Deliver
    <3> QED BY <3>1, <1>1, QueuedTypes
  <2>2. CASE ~active
    BY <1>5, <2>2, Types, TypesBack DEF Deliver
  <2> QED BY <2>1, <2>2
<1> QED BY <1>3, <1>4, <1>5

\* contextFingerprint sets the fingerprint of the head of the queue and nothing else.
LEMMA FingerprintFacts ==
  ASSUME TypeOK, Fingerprint
  PROVE  /\ 1 \in DOMAIN queue /\ Head(queue) = queue[1] /\ queue[1].seen = 0
         /\ queue' \in Seq(TicketsUpTo(fences, graph))
         /\ DOMAIN queue' = DOMAIN queue /\ Len(queue') = Len(queue)
         /\ \A i \in DOMAIN queue :
              /\ queue'[i].fence = queue[i].fence /\ queue'[i].path = queue[i].path
              /\ queue'[i].graph = queue[i].graph
              /\ queue'[i].seen = IF i = 1 THEN disk[queue[1].path] ELSE queue[i].seen
<1>1. /\ queue \in Seq(TicketsUpTo(fences, graph)) /\ Len(queue) \in Nat
      /\ DOMAIN queue = 1..Len(queue) /\ queue # <<>>
  BY Types DEF Fingerprint
<1>2. 1 \in DOMAIN queue /\ Head(queue) = queue[1]
  BY <1>1
<1>3. queue[1] \in TicketsUpTo(fences, graph)
  BY <1>1, <1>2
<1>4. queue[1].seen = 0 /\ queue' = [queue EXCEPT ![1].seen = disk[queue[1].path]]
  BY <1>2 DEF Fingerprint
<1>5. disk[queue[1].path] \in 0..MaxVersion
  BY <1>3, Types, GraphAssumption DEF TicketsUpTo, Versions
<1>6. [queue[1] EXCEPT !.seen = disk[queue[1].path]] \in TicketsUpTo(fences, graph)
  BY <1>3, <1>5 DEF TicketsUpTo
<1>7. queue' = [queue EXCEPT ![1] = [queue[1] EXCEPT !.seen = disk[queue[1].path]]]
  BY <1>1, <1>2, <1>4
<1>8. queue' \in Seq(TicketsUpTo(fences, graph)) /\ Len(queue') = Len(queue)
      /\ DOMAIN queue' = DOMAIN queue
  BY <1>1, <1>6, <1>7
<1>9. ASSUME NEW i \in DOMAIN queue
      PROVE  /\ queue'[i].fence = queue[i].fence /\ queue'[i].path = queue[i].path
             /\ queue'[i].graph = queue[i].graph
             /\ queue'[i].seen = IF i = 1 THEN disk[queue[1].path] ELSE queue[i].seen
  BY <1>1, <1>2, <1>3, <1>7 DEF TicketsUpTo
<1> QED BY <1>2, <1>4, <1>8, <1>9

-----------------------------------------------------------------------------

\* What complete starts from: the events as they are, or with the event reserved
\* again when the folder's graph was replaced.
SameGraph == Head(queue).graph = graph
Target == IF SameGraph THEN Head(queue).fence ELSE fences + 1
Start == IF SameGraph THEN [events |-> events, floor |-> floor]
         ELSE Reserved(<<Head(queue).path>>)

\* complete, field by field.
LEMMA CompleteParts ==
  ASSUME TypeOK, Complete
  PROVE  /\ 1 \in DOMAIN queue /\ Head(queue) = queue[1]
         /\ queue[1].path \in Files /\ queue[1].seen \in 1..MaxVersion
         /\ queue[1].fence \in 1..fences
         /\ fences' = IF SameGraph THEN fences ELSE fences + 1
         /\ floor' = Start.floor
         /\ IF Echo(queue[1].path, queue[1].seen)
            THEN /\ events' = Without(Start.events, Target)
                 /\ UNCHANGED <<next, folderSeen, revision, wanted>>
            ELSE /\ next' = next + 1
                 /\ events' = Marked(Start.events, Target, 2 * next', queue[1].seen)
                 /\ folderSeen' = [folderSeen EXCEPT ![queue[1].path] = queue[1].seen]
                 /\ revision' = [s \in Sources |->
                      IF s \in Affected(queue[1].path, queue[1].seen) THEN next'
                      ELSE revision[s]]
                 /\ wanted' = wanted \cup Affected(queue[1].path, queue[1].seen)
         /\ sourceSeen' = [s \in Sources |->
              IF s \in Observers(queue[1].path)
              THEN [sourceSeen[s] EXCEPT ![queue[1].path] = queue[1].seen]
              ELSE sourceSeen[s]]
         /\ observed' = [observed EXCEPT ![queue[1].path] = queue[1].seen]
         /\ Dequeue /\ queue # <<>> /\ active
         /\ UNCHANGED <<disk, undelivered, active, moves, graph, known, result>>
<1>1. /\ queue \in Seq(TicketsUpTo(fences, graph)) /\ queue # <<>> /\ Dequeue /\ active
      /\ Head(queue).seen # 0
      /\ UNCHANGED <<disk, undelivered, active, moves, graph, known, result>>
  BY Types DEF Complete
<1>2. 1 \in DOMAIN queue /\ Head(queue) = queue[1]
  BY <1>1
<1>3. queue[1] \in TicketsUpTo(fences, graph)
  BY <1>1, <1>2
<1>4. /\ queue[1].path \in Files /\ queue[1].seen \in 1..MaxVersion
      /\ queue[1].fence \in 1..fences
  BY <1>1, <1>2, <1>3, GraphAssumption DEF TicketsUpTo
<1>5. /\ fences' = IF SameGraph THEN fences ELSE fences + 1
      /\ floor' = Start.floor
      /\ sourceSeen' = [s \in Sources |->
              IF s \in Observers(queue[1].path)
              THEN [sourceSeen[s] EXCEPT ![queue[1].path] = queue[1].seen]
              ELSE sourceSeen[s]]
      /\ observed' = [observed EXCEPT ![queue[1].path] = queue[1].seen]
  BY <1>2 DEF Complete, SameGraph, Start
<1>6. CASE Echo(queue[1].path, queue[1].seen)
  <2>1. /\ events' = Without(Start.events, Target)
        /\ UNCHANGED <<next, folderSeen, revision, wanted>>
    BY <1>2, <1>6 DEF Complete, SameGraph, Start, Target
  <2> QED BY <1>1, <1>2, <1>4, <1>5, <1>6, <2>1
<1>7. CASE ~Echo(queue[1].path, queue[1].seen)
  <2>1. /\ next' = next + 1
        /\ folderSeen' = [folderSeen EXCEPT ![queue[1].path] = queue[1].seen]
        /\ revision' = [s \in Sources |->
             IF s \in Affected(queue[1].path, queue[1].seen) THEN next' ELSE revision[s]]
        /\ wanted' = wanted \cup Affected(queue[1].path, queue[1].seen)
    BY <1>2, <1>7 DEF Complete
  <2>2. events' = Marked(Start.events, Target, 2 * next', queue[1].seen)
    BY <1>2, <1>7 DEF Complete, SameGraph, Start, Target, Marked
  <2> QED BY <1>1, <1>2, <1>4, <1>5, <1>7, <2>1, <2>2
<1> QED BY <1>6, <1>7

\* A completed event keeps the type of the list, one revision further.
LEMMA MarkedType ==
  ASSUME NEW n \in Nat, NEW m \in Nat, NEW list \in Seq(EventsUpTo(n, m)), NEW fence,
         NEW seen \in 0..MaxVersion
  PROVE  Marked(list, fence, 2 * (m + 1), seen) \in Seq(EventsUpTo(n, m + 1))
<1> DEFINE W == Marked(list, fence, 2 * (m + 1), seen)
<1>1. list \in Seq(EventsUpTo(n, m + 1))
  BY EventsGrow
<1>2. DOMAIN W = DOMAIN list /\ DOMAIN list = 1..Len(list) /\ Len(list) \in Nat
  BY DEF Marked
<1>3. ASSUME NEW i \in DOMAIN list PROVE W[i] \in EventsUpTo(n, m + 1)
  <2>1. list[i] \in EventsUpTo(n, m + 1)
    BY <1>1
  <2>2. 2 * (m + 1) \in 1..2 * (m + 1) + 1
    OBVIOUS
  <2>3. W[i] = IF list[i].fence # fence THEN list[i]
               ELSE [list[i] EXCEPT !.revision = 2 * (m + 1), !.seen = seen]
    BY DEF Marked
  <2> QED BY <2>1, <2>2, <2>3 DEF EventsUpTo
<1>4. W = [i \in 1..Len(list) |-> W[i]]
  BY <1>2 DEF Marked
<1> HIDE DEF W
<1>5. W \in Seq(EventsUpTo(n, m + 1))
  BY <1>2, <1>3, <1>4
<1> QED BY <1>5 DEF W

\* What complete starts from holds everything the list held, or rejects for it.
LEMMA StartFacts ==
  ASSUME TypeOK, Complete
  PROVE  /\ fences' \in Nat /\ fences <= fences' /\ Target \in 1..fences'
         /\ Start.events \in Seq(EventsUpTo(fences', next)) /\ Start.floor \in Nat
         /\ PendingOrdered(events) => PendingOrdered(Start.events)
         /\ PendingOrdered(events) =>
              \A ticket : \A token \in 0..2 * next : Fencing(events, floor, ticket, token)
                => Fencing(Start.events, Start.floor, ticket, token)
         /\ Start.floor = 0 => floor = 0
         /\ Start.floor = 0 => \A j \in DOMAIN events :
              \E k \in DOMAIN Start.events : Start.events[k] = events[j]
         /\ Start.floor = 0 /\ ~SameGraph => \E k \in DOMAIN Start.events :
              Start.events[k] = Fence(1, queue[1].path)
         /\ \A k \in DOMAIN Start.events :
              \/ \E j \in DOMAIN events : Start.events[k] = events[j]
              \/ ~SameGraph /\ Start.events[k] = Fence(1, queue[1].path)
<1> DEFINE paths == <<queue[1].path>>
<1>1. /\ paths \in Seq(Files) /\ Len(paths) = 1 /\ DOMAIN paths = {1}
      /\ paths[1] = queue[1].path /\ Head(queue) = queue[1]
  BY CompleteParts
<1> HIDE DEF paths
<1>2. CASE SameGraph
  <2>1. Start.events = events /\ Start.floor = floor /\ fences' = fences
        /\ Target = queue[1].fence
    BY <1>1, <1>2, CompleteParts DEF Start, Target
  <2> QED BY <1>2, <2>1, CompleteParts, Types
<1>3. CASE ~SameGraph
  <2>1. Start = Reserved(paths) /\ fences' = fences + Len(paths) /\ Target = fences + 1
    BY <1>1, <1>3, CompleteParts DEF Start, Target, paths
  <2>2. Start.events \in Seq(EventsUpTo(fences', next)) /\ Start.floor \in Nat
    <3> PICK all, cut : ReservedAs(paths, all, cut)
      BY <1>1, ReservedFacts
    <3>1. Start.events \in Seq(EventsUpTo(fences', next))
      BY <2>1 DEF ReservedAs
    <3>2. cut # 0 => all[cut].revision \in 1..2 * next + 1
      <4> SUFFICES ASSUME cut # 0 PROVE all[cut].revision \in 1..2 * next + 1
        OBVIOUS
      <4>1. cut \in DOMAIN all
        BY <1>1, AllFacts
      <4> QED BY <4>1, <1>1, AllFacts DEF EventsUpTo
    <3>3. Start.floor = IF cut = 0 THEN floor ELSE all[cut].revision
      BY <2>1 DEF ReservedAs
    <3> QED BY <3>1, <3>2, <3>3, Types
  <2>3. fences' \in Nat /\ fences <= fences' /\ Target \in 1..fences'
    BY <1>1, <2>1, Types
  <2>4. PendingOrdered(events) => PendingOrdered(Start.events)
    BY <1>1, <2>1, ReservedOrdered
  <2>5. ASSUME PendingOrdered(events), NEW ticket, NEW token \in 0..2 * next,
               Fencing(events, floor, ticket, token)
        PROVE  Fencing(Start.events, Start.floor, ticket, token)
    BY <1>1, <2>1, <2>5, ReservedKeepsFences
  <2>6. Start.floor = 0 =>
          /\ floor = 0
          /\ \A j \in DOMAIN events :
               \E k \in DOMAIN Start.events : Start.events[k] = events[j]
          /\ \E k \in DOMAIN Start.events : Start.events[k] = Fence(1, queue[1].path)
    BY <1>1, <2>1, ReservedUntrimmed
  <2>7. \A k \in DOMAIN Start.events :
          \/ \E j \in DOMAIN events : Start.events[k] = events[j]
          \/ Start.events[k] = Fence(1, queue[1].path)
    BY <1>1, <2>1, ReservedIsOldOrNew
  <2> QED BY <1>3, <2>2, <2>3, <2>4, <2>5, <2>6, <2>7
<1> QED BY <1>2, <1>3

\* complete keeps the types.
LEMMA CompleteTypes ==
  ASSUME TypeOK, Complete
  PROVE  TypeOK'
<1> DEFINE f == queue[1].path
           seen == queue[1].seen
<1>1. f \in Files /\ seen \in 1..MaxVersion /\ seen \in 0..MaxVersion
  BY CompleteParts
<1>2. next \in Nat /\ next' \in Nat /\ next <= next' /\ Len(queue) \in Nat
      /\ (next' = next \/ next' = next + 1)
  BY CompleteParts, Types
<1>3. /\ queue' \in Seq(TicketsUpTo(fences, graph)) /\ Len(queue') \in Nat
      /\ check' \in [Sources -> Checks(next, Len(queue'))]
  BY CompleteParts, DequeueFacts
<1>4. queue' \in Seq(TicketsUpTo(fences', graph'))
  BY <1>3, TicketsGrow, StartFacts, CompleteParts, Types
<1>5. check' \in [Sources -> Checks(next', Len(queue'))]
  <2>1. Checks(next, Len(queue')) \subseteq Checks(next', Len(queue'))
    BY <1>2, <1>3, ChecksGrow
  <2> QED BY <2>1, <1>3
<1>6. events' \in Seq(EventsUpTo(fences', next'))
  <2>1. CASE Echo(f, seen)
    BY <2>1, CompleteParts, StartFacts, WithoutFacts
  <2>2. CASE ~Echo(f, seen)
    <3>1. events' = Marked(Start.events, Target, 2 * (next + 1), seen) /\ next' = next + 1
      BY <2>2, CompleteParts
    <3> QED BY <3>1, <1>1, <1>2, StartFacts, MarkedType
  <2> QED BY <2>1, <2>2
<1>7. folderSeen' \in [Files -> 0..MaxVersion] /\ observed' \in [Files -> 0..MaxVersion]
  BY <1>1, CompleteParts, Types
<1>8. sourceSeen' \in [Sources -> [Files -> 0..MaxVersion]]
  <2>1. sourceSeen \in [Sources -> [Files -> 0..MaxVersion]]
    BY Types
  <2>2. \A s \in Sources : [sourceSeen[s] EXCEPT ![f] = seen] \in [Files -> 0..MaxVersion]
    BY <1>1, <2>1
  <2>3. sourceSeen' = [s \in Sources |-> IF s \in Observers(f)
                         THEN [sourceSeen[s] EXCEPT ![f] = seen] ELSE sourceSeen[s]]
    BY CompleteParts
  <2> QED BY <2>1, <2>2, <2>3
<1>9. revision' \in [Sources -> 0..next']
  <2>1. next' \in 0..next' /\ 0..next \subseteq 0..next'
    BY <1>2
  <2>2. revision \in [Sources -> 0..next']
    BY <2>1, Types
  <2>3. CASE Echo(f, seen)
    BY <2>2, <2>3, CompleteParts
  <2>4. CASE ~Echo(f, seen)
    <3>1. revision' = [s \in Sources |-> IF s \in Affected(f, seen) THEN next'
                                         ELSE revision[s]]
      BY <2>4, CompleteParts
    <3> QED BY <2>1, <2>2, <3>1
  <2> QED BY <2>3, <2>4
<1>10. wanted' \subseteq Sources
  BY CompleteParts, Types DEF Affected, Observers
<1>11. floor' \in Nat /\ fences' \in Nat
  BY CompleteParts, StartFacts
<1>12. /\ disk' \in [Files -> Versions] /\ undelivered' \subseteq Files /\ active' \in BOOLEAN
       /\ moves' \in Nat /\ graph' \in Nat /\ known' \subseteq Sources
       /\ result' \in [Sources -> [Files -> 0..MaxVersion]]
  BY CompleteParts, Types
<1> QED BY <1>2, <1>4, <1>5, <1>6, <1>7, <1>8, <1>9, <1>10, <1>11, <1>12, TypesBack

\* Idle is a check in every state.
LEMMA IdleType ==
  ASSUME NEW m \in Nat, NEW l \in Nat
  PROVE  Idle \in Checks(m, l) /\ NoFiles \in [Files -> 0..MaxVersion]
<1>1. 0 \in 0..2 * m /\ 0 \in 0..m /\ 0 \in 0..l /\ 0 \in 0..MaxVersion
  BY GraphAssumption
<1>2. NoFiles \in [Files -> 0..MaxVersion]
  BY <1>1 DEF NoFiles
<1> QED BY <1>1, <1>2 DEF Idle, Checks

\* Fingerprints, releases and the folder's own steps keep the types.
LEMMA FolderTypes ==
  ASSUME TypeOK,
         Refresh \/ Fingerprint \/ Release \/ \E s \in Sources : Withdraw(s) \/ Open(s)
  PROVE  TypeOK'
<1>1. /\ Idle \in Checks(next, Len(queue)) /\ NoFiles \in [Files -> 0..MaxVersion]
      /\ 0 \in 0..next
  BY IdleType, Types
<1>2. CASE Refresh
  <2>1. /\ graph' \in Nat /\ graph <= graph' /\ graph \in Nat /\ fences \in Nat
        /\ moves' \in Nat /\ queue' = queue /\ fences' = fences
    BY <1>2, Types DEF Refresh
  <2>2. queue' \in Seq(TicketsUpTo(fences', graph'))
    BY <2>1, Types, TicketsGrow
  <2>3. /\ check' \in [Sources -> Checks(next', Len(queue'))]
        /\ revision' \in [Sources -> 0..next']
        /\ sourceSeen' \in [Sources -> [Files -> 0..MaxVersion]]
        /\ result' \in [Sources -> [Files -> 0..MaxVersion]]
        /\ folderSeen' \in [Files -> 0..MaxVersion]
        /\ events' \in Seq(EventsUpTo(fences', next')) /\ floor' \in Nat
    BY <1>1, <1>2 DEF Refresh
  <2> QED BY <1>2, <2>1, <2>2, <2>3, Types, TypesBack DEF Refresh
<1>3. CASE Fingerprint
  <2>1. /\ queue' \in Seq(TicketsUpTo(fences', graph')) /\ Len(queue') = Len(queue)
    BY <1>3, FingerprintFacts DEF Fingerprint
  <2> QED BY <1>3, <2>1, Types, TypesBack DEF Fingerprint
<1>4. CASE Release
  <2>1. events' \in Seq(EventsUpTo(fences', next'))
    BY <1>4, Types, WithoutFacts DEF Release
  <2>2. /\ queue' \in Seq(TicketsUpTo(fences', graph'))
        /\ check' \in [Sources -> Checks(next', Len(queue'))]
    BY <1>4, DequeueFacts DEF Release
  <2> QED BY <1>4, <2>1, <2>2, Types, TypesBack DEF Release
<1>5. ASSUME NEW s \in Sources, Withdraw(s) PROVE TypeOK'
  <2>1. /\ check' \in [Sources -> Checks(next', Len(queue'))]
        /\ revision' \in [Sources -> 0..next']
        /\ sourceSeen' \in [Sources -> [Files -> 0..MaxVersion]]
        /\ result' \in [Sources -> [Files -> 0..MaxVersion]]
    BY <1>1, <1>5, Types DEF Withdraw
  <2> QED BY <1>5, <2>1, Types, TypesBack DEF Withdraw
<1>6. ASSUME NEW s \in Sources, Open(s) PROVE TypeOK'
  BY <1>6, Types, TypesBack DEF Open
<1> QED BY <1>2, <1>3, <1>4, <1>5, <1>6

\* The steps of a check keep the types.
LEMMA EditorTypes ==
  ASSUME TypeOK, NEW s \in Sources, Editor(s)
  PROVE  TypeOK'
<1>1. Idle \in Checks(next, Len(queue)) /\ check[s] \in Checks(next, Len(queue))
  BY IdleType, Types
<1>2. Reads[s] \subseteq Files
  BY GraphAssumption
<1>3. CASE Begin(s)
  <2>1. 2 * next \in 0..2 * next
    BY Types
  <2>2. [Idle EXCEPT !.phase = "submitted", !.token = 2 * next] \in Checks(next, Len(queue))
    BY <1>1, <2>1 DEF Checks
  <2>3. wanted' \subseteq Sources
    BY <1>3, Types DEF Begin
  <2> QED BY <1>3, <2>2, <2>3, CheckTypes DEF Begin
<1>4. CASE Launch(s)
  <2>1. revision[s] \in 0..next
    BY Types
  <2>2. [check[s] EXCEPT !.phase = "running", !.revision = revision[s], !.left = Reads[s]]
          \in Checks(next, Len(queue))
    BY <1>1, <1>2, <2>1 DEF Checks
  <2> QED BY <1>4, <2>2, CheckTypes, Types DEF Launch
<1>5. ASSUME NEW f \in Reads[s], Analyze(s, f) PROVE TypeOK'
  <2> DEFINE left == check[s].left \ {f}
             c == [check[s] EXCEPT !.read[f] = disk[f],
            !.phase = IF left = {} THEN "observing" ELSE "running",
            !.left = IF left = {} THEN Reads[s] ELSE left]
  <2>1. disk[f] \in 0..MaxVersion
    BY <1>2, Types, GraphAssumption DEF Versions
  <2>2. [check[s].read EXCEPT ![f] = disk[f]] \in [Files -> 0..MaxVersion]
    BY <1>1, <2>1 DEF Checks
  <2>3. c \in Checks(next, Len(queue))
    BY <1>1, <1>2, <2>2 DEF Checks
  <2> QED BY <1>5, <2>3, CheckTypes, Types DEF Analyze
<1>6. ASSUME NEW f \in Reads[s], Observe(s, f) PROVE TypeOK'
  <2>1. [check[s] EXCEPT !.left = @ \ {f},
                         !.changed = IF disk[f] = check[s].read[f] THEN @
                                     ELSE @ \cup {f}] \in Checks(next, Len(queue))
    BY <1>1, <1>2 DEF Checks
  <2> QED BY <1>6, <2>1, CheckTypes, Types DEF Observe
<1>7. CASE ReportChanged(s)
  <2>1. check[s].changed \in SUBSET Files
    BY <1>1 DEF Checks
  <2>2. SetToSeq(check[s].changed) \in Seq(Files)
    BY <2>1, SetToSeqType
  <2>3. /\ check' \in [Sources -> Checks(next, Len(queue))] /\ wanted' \subseteq Sources
        /\ disk' \in [Files -> Versions] /\ undelivered' \subseteq Files
        /\ UNCHANGED <<active, moves, graph, next, folderSeen, known, sourceSeen,
                       revision, result, observed>>
    BY <1>1, <1>7, Types DEF ReportChanged, Retry, Step
  <2>4. CASE Current(s)
    BY <1>7, <2>2, <2>3, <2>4, QueuedTypes DEF ReportChanged
  <2>5. CASE ~Current(s)
    BY <1>7, <2>3, <2>5, Types, TypesBack DEF ReportChanged
  <2> QED BY <2>4, <2>5
<1>8. CASE AwaitContext(s)
  <2>1. Len(queue) \in 0..Len(queue)
    BY Types
  <2>2. [check[s] EXCEPT !.phase = "waiting", !.ahead = Len(queue)] \in Checks(next, Len(queue))
    BY <1>1, <2>1 DEF Checks
  <2> QED BY <1>8, <2>2, CheckTypes, Types DEF AwaitContext
<1>9. CASE Reject(s)
  <2>1. wanted' \subseteq Sources
    BY <1>9, Types DEF Reject, Retry
  <2> QED BY <1>1, <1>9, <2>1, CheckTypes DEF Reject, Retry
<1>10. CASE Accept(s)
  <2>1. check[s].read \in [Files -> 0..MaxVersion]
    BY <1>1 DEF Checks
  <2>2. /\ check' \in [Sources -> Checks(next, Len(queue))]
        /\ result' \in [Sources -> [Files -> 0..MaxVersion]]
        /\ folderSeen' \in [Files -> 0..MaxVersion] /\ known' \subseteq Sources
    BY <1>1, <1>10, <2>1, Types DEF Accept, Step
  <2>3. sourceSeen' \in [Sources -> [Files -> 0..MaxVersion]]
    <3>1. [f \in Files |-> IF sourceSeen[s][f] # 0 THEN sourceSeen[s][f]
                           ELSE check[s].read[f]] \in [Files -> 0..MaxVersion]
      BY <2>1, Types
    <3> QED BY <1>10, <3>1, Types DEF Accept
  <2> QED BY <1>10, <2>2, <2>3, Types, TypesBack DEF Accept
<1> QED BY <1>3, <1>4, <1>5, <1>6, <1>7, <1>8, <1>9, <1>10 DEF Editor

\* Every step keeps the types.
LEMMA TypeStep == TypeOK /\ [Next]_vars => TypeOK'
<1> SUFFICES ASSUME TypeOK, [Next]_vars PROVE TypeOK'
  OBVIOUS
<1>1. CASE UNCHANGED vars
  BY <1>1, Types, TypesBack DEF vars
<1>2. CASE Next
  BY <1>2, EventTypes, CompleteTypes, FolderTypes, EditorTypes DEF Next, Context
<1> QED BY <1>1, <1>2

-----------------------------------------------------------------------------

\* A folder without a root shows nothing and checks nothing.
AtRest ==
  ~active => wanted = {} /\ known = {} /\ \A s \in Sources : check[s] = Idle

\* A check that is over is forgotten, and one that was not launched has read nothing.
PhasesOK ==
  \A s \in Sources : /\ check[s].phase = "idle" => check[s] = Idle
                     /\ check[s].phase = "submitted" => check[s].read = NoFiles
                     /\ check[s].left \subseteq Reads[s]

\* Only files of its own are read for a source, and only a known one has a result.
OnlyReads ==
  \A s \in Sources, f \in Files :
    /\ check[s].read[f] # 0 => f \in Reads[s]
    /\ result[s][f] # 0 => f \in Reads[s] /\ s \in known
    /\ sourceSeen[s][f] # 0 => s \in known

\* Nobody has seen a version that is not on disk yet.
Past ==
  \A f \in Files :
    /\ folderSeen[f] <= disk[f]
    /\ \A s \in Sources : /\ sourceSeen[s][f] <= disk[f] /\ result[s][f] <= disk[f]
                          /\ check[s].read[f] <= disk[f]
    /\ \A i \in DOMAIN queue : queue[i].path = f => queue[i].seen <= disk[f]

\* A fence has one owner in the queue, and a completed event none.
FencesOK ==
  /\ \A i, j \in DOMAIN queue : i # j => queue[i].fence # queue[j].fence
  /\ \A i \in DOMAIN queue, j \in DOMAIN events :
       events[j].seen # 0 => queue[i].fence # events[j].fence

\* Everything queued behind a waiting report still rejects it.
Fenced ==
  \A s \in Sources : check[s].phase = "waiting" =>
    \A i \in DOMAIN queue : i > check[s].ahead =>
      queue[i].graph = graph /\ Fencing(events, floor, queue[i], check[s].token)

\* A check that may still be accepted read nothing older than what the graph saw
\* for its source.
ReadsAreNew ==
  \A s \in Sources, f \in Files :
    Current(s) /\ check[s].read[f] # 0 => sourceSeen[s][f] <= check[s].read[f]

AtEase(s) == check[s] = Idle /\ s \notin wanted

\* Nothing older than a displayed result is seen after it, for a source that
\* nobody checks.
ResultsAreNew ==
  \A s \in Sources, f \in Files : AtEase(s) /\ result[s][f] # 0 =>
    /\ sourceSeen[s][f] <= result[s][f]
    /\ \A i \in DOMAIN queue :
         queue[i].path = f /\ queue[i].seen # 0 => queue[i].seen >= result[s][f]

\* The inductive invariant.
IInv ==
  /\ TypeOK
  /\ AtRest
  /\ PhasesOK
  /\ OnlyReads
  /\ Past
  /\ FencesOK
  /\ PendingOrdered(events)
  /\ Fenced
  /\ ReadsAreNew
  /\ ResultsAreNew

\* The initial state satisfies the invariant.
LEMMA InitInvariant == Init => IInv
<1> SUFFICES ASSUME Init PROVE IInv
  OBVIOUS
<1>1. TypeOK
  BY InitTypes
<1>2. /\ Idle.phase = "idle" /\ Idle.read = NoFiles /\ Idle.left = {}
      /\ \A f \in Files : NoFiles[f] = 0
  BY DEF Idle, NoFiles
<1>3. AtRest /\ PhasesOK
  BY <1>2 DEF Init, AtRest, PhasesOK
<1>4. OnlyReads /\ Past
  BY <1>2 DEF Init, OnlyReads, Past
<1>5. FencesOK /\ PendingOrdered(events) /\ Fenced
  BY <1>2 DEF Init, FencesOK, PendingOrdered, Fenced
<1>6. ReadsAreNew /\ ResultsAreNew
  BY <1>2 DEF Init, ReadsAreNew, ResultsAreNew
<1> QED BY <1>1, <1>3, <1>4, <1>5, <1>6 DEF IInv

\* Only a refresh takes the root away, and it leaves nothing behind.
LEMMA RestStep ==
  ASSUME IInv, Next
  PROVE  AtRest'
<1> USE DEF IInv, AtRest
<1>1. ASSUME NEW f \in Files, Edit(f) \/ Save(f) \/ Deliver(f) PROVE AtRest'
  BY <1>1 DEF Edit, Save, Deliver
<1>2. CASE Fingerprint
  BY <1>2 DEF Fingerprint
<1>3. CASE Release
  BY <1>3, DequeueFacts DEF Release
<1>4. CASE Complete
  BY <1>4 DEF Complete
<1>5. CASE Refresh
  BY <1>5 DEF Refresh
<1>6. ASSUME NEW s \in Sources, Withdraw(s) \/ Open(s) PROVE AtRest'
  BY <1>6 DEF Withdraw, Open
<1>7. ASSUME NEW s \in Sources, Editor(s) PROVE AtRest'
  <2>1. check[s] # Idle \/ s \in wanted
    <3>1. Idle.phase = "idle"
      BY DEF Idle
    <3> QED BY <1>7, <3>1 DEF Editor, Begin, Launch, Analyze, Observe, ReportChanged,
               AwaitContext, Reject, Accept, Ready, Observed
  <2>2. active' = active
    BY <1>7 DEF Editor, Begin, Launch, Analyze, Observe, ReportChanged, AwaitContext,
                Reject, Accept, OnlyCheck
  <2> QED BY <2>1, <2>2
<1> QED BY <1>1, <1>2, <1>3, <1>4, <1>5, <1>6, <1>7 DEF Next, Context

\* What one step of a check leaves behind.
LEMMA CheckMoves ==
  ASSUME TypeOK, NEW s \in Sources, Editor(s)
  PROVE  /\ \A t \in Sources : t # s => check'[t] = check[t]
         /\ UNCHANGED <<disk, undelivered, active, moves, graph, next, revision, observed>>
BY Types DEF Editor, Begin, Launch, Analyze, Observe, ReportChanged, AwaitContext,
   Reject, Accept, OnlyCheck, Step, Retry

\* A check holds files of its source only, and none before it runs.
LEMMA PhasesStep ==
  ASSUME IInv, Next
  PROVE  PhasesOK'
<1> USE DEF IInv, PhasesOK
<1>1. ASSUME NEW f \in Files, Edit(f) \/ Save(f) \/ Deliver(f) PROVE PhasesOK'
  BY <1>1 DEF Edit, Save, Deliver
<1>2. CASE Fingerprint \/ \E s \in Sources : Open(s)
  BY <1>2 DEF Fingerprint, Open
<1>3. CASE Release \/ Complete
  <2>1. queue # <<>> /\ Dequeue
    BY <1>3 DEF Release, Complete
  <2> QED BY <2>1, DequeueFacts
<1>4. Idle.phase = "idle" /\ Idle.read = NoFiles /\ Idle.left = {}
  BY DEF Idle
<1>5. CASE Refresh
  BY <1>4, <1>5 DEF Refresh
<1>6. ASSUME NEW s \in Sources, Withdraw(s) PROVE PhasesOK'
  BY <1>4, <1>6, Types DEF Withdraw
<1>7. ASSUME NEW s \in Sources, Editor(s) PROVE PhasesOK'
  <2>1. check[s] \in Checks(next, Len(queue)) /\ DOMAIN check = Sources
    BY Types
  <2>2. /\ check'[s].phase = "idle" => check'[s] = Idle
        /\ check'[s].phase = "submitted" => check'[s].read = NoFiles
        /\ check'[s].left \subseteq Reads[s]
    <3>1. CASE Begin(s)
      BY <1>4, <3>1, <2>1 DEF Begin, Step, Idle
    <3>2. CASE Launch(s)
      BY <3>2, <2>1 DEF Launch, Step, Checks
    <3>3. ASSUME NEW f \in Reads[s], Analyze(s, f) PROVE <2>2!:
      BY <3>3, <2>1 DEF Analyze, Step, Checks
    <3>4. ASSUME NEW f \in Reads[s], Observe(s, f) PROVE <2>2!:
      BY <3>4, <2>1 DEF Observe, Step, Checks
    <3>5. CASE AwaitContext(s)
      BY <3>5, <2>1 DEF AwaitContext, Step, Checks
    <3>6. CASE ReportChanged(s) \/ Reject(s) \/ Accept(s)
      <4>1. check'[s] = Idle
        BY <3>6, <2>1 DEF ReportChanged, Reject, Accept, Retry, Step
      <4> QED BY <4>1, <1>4
    <3> QED BY <1>7, <3>1, <3>2, <3>3, <3>4, <3>5, <3>6 DEF Editor
  <2> QED BY <2>2, <1>7, CheckMoves
<1> QED BY <1>1, <1>2, <1>3, <1>5, <1>6, <1>7 DEF Next, Context

\* The file versions a check, a result and the graph hold, after one step of a check.
LEMMA ReadMoves ==
  ASSUME TypeOK, NEW s \in Sources, Editor(s), NEW f \in Files
  PROVE  /\ \/ check'[s].read[f] = check[s].read[f]
            \/ check'[s].read[f] = 0
            \/ check'[s].read[f] = disk[f] /\ f \in Reads[s] /\ check[s].phase = "running"
         /\ \A t \in Sources : t # s =>
              result'[t] = result[t] /\ sourceSeen'[t] = sourceSeen[t]
         /\ \/ result'[s] = result[s] /\ sourceSeen'[s] = sourceSeen[s] /\ ~Accept(s)
            \/ /\ Accept(s) /\ result'[s] = check[s].read
               /\ sourceSeen'[s][f] = IF sourceSeen[s][f] # 0 THEN sourceSeen[s][f]
                                      ELSE check[s].read[f]
         /\ \/ folderSeen'[f] = folderSeen[f]
            \/ Accept(s) /\ f \in Reads[s] /\ folderSeen'[f] = check[s].read[f]
         /\ known' = known \/ (Accept(s) /\ known' = known \cup {s})
<1> DEFINE Moved == \/ check'[s].read[f] = check[s].read[f]
                    \/ check'[s].read[f] = 0
                    \/ /\ check'[s].read[f] = disk[f] /\ f \in Reads[s]
                       /\ check[s].phase = "running"
<1>1. check[s] \in Checks(next, Len(queue)) /\ DOMAIN check = Sources
      /\ DOMAIN result = Sources /\ DOMAIN sourceSeen = Sources
  BY Types
<1>2. Idle.read[f] = 0
  BY DEF Idle, NoFiles
<1>4. Moved
  <2>1. CASE Begin(s)
    <3>1. check'[s].read = Idle.read
      BY <1>1, <2>1 DEF Begin, Step, Idle
    <3> QED BY <1>2, <3>1
  <2>2. CASE Launch(s)
    <3>1. check'[s].read = check[s].read
      BY <1>1, <2>2 DEF Launch, Step, Checks
    <3> QED BY <3>1
  <2>3. ASSUME NEW g \in Reads[s], Analyze(s, g) PROVE Moved
    <3>1. check'[s].read = [check[s].read EXCEPT ![g] = disk[g]] /\ check[s].phase = "running"
      BY <1>1, <2>3 DEF Analyze, Step, Checks
    <3>2. check[s].read \in [Files -> 0..MaxVersion] /\ Reads[s] \subseteq Files
      BY <1>1, GraphAssumption DEF Checks
    <3> QED BY <3>1, <3>2
  <2>4. ASSUME NEW g \in Reads[s], Observe(s, g) PROVE Moved
    <3>1. check'[s].read = check[s].read
      BY <1>1, <2>4 DEF Observe, Step, Checks
    <3> QED BY <3>1
  <2>5. CASE AwaitContext(s)
    <3>1. check'[s].read = check[s].read
      BY <1>1, <2>5 DEF AwaitContext, Step, Checks
    <3> QED BY <3>1
  <2>6. CASE ReportChanged(s) \/ Reject(s) \/ Accept(s)
    <3>1. check'[s] = Idle
      BY <1>1, <2>6 DEF ReportChanged, Reject, Accept, Retry, Step
    <3> QED BY <1>2, <3>1
  <2> QED BY <2>1, <2>2, <2>3, <2>4, <2>5, <2>6 DEF Editor
<1>5. CASE Accept(s)
  <2>1. /\ result' = [result EXCEPT ![s] = check[s].read]
        /\ sourceSeen' = [sourceSeen EXCEPT ![s] = [g \in Files |->
                      IF sourceSeen[s][g] # 0 THEN sourceSeen[s][g]
                      ELSE check[s].read[g]]]
        /\ folderSeen' = [g \in Files |->
                      IF g \in Reads[s] THEN check[s].read[g] ELSE folderSeen[g]]
        /\ known' = known \cup {s}
    BY <1>5 DEF Accept
  <2> HIDE DEF Moved
  <2> QED BY <1>1, <1>4, <1>5, <2>1 DEF Moved
<1>6. CASE ~Accept(s)
  <2>1. /\ result' = result /\ sourceSeen' = sourceSeen /\ folderSeen' = folderSeen
        /\ known' = known
    BY <1>6 DEF Editor, Begin, Launch, Analyze, Observe, ReportChanged, AwaitContext,
               Reject, OnlyCheck
  <2> HIDE DEF Moved
  <2> QED BY <1>4, <1>6, <2>1 DEF Moved
<1> QED BY <1>5, <1>6

\* Results and fingerprints belong to known sources, also after a withdrawal.
LEMMA OnlyReadsStep ==
  ASSUME IInv, Next
  PROVE  OnlyReads'
<1> USE DEF IInv, OnlyReads
<1>1. ASSUME NEW f \in Files, Edit(f) \/ Save(f) \/ Deliver(f) PROVE OnlyReads'
  BY <1>1 DEF Edit, Save, Deliver
<1>2. CASE Fingerprint \/ \E s \in Sources : Open(s)
  BY <1>2 DEF Fingerprint, Open
<1>3. CASE Release
  BY <1>3, DequeueFacts DEF Release
<1>4. CASE Complete
  <2>1. \A s \in Sources, f \in Files :
          sourceSeen'[s][f] # 0 => sourceSeen[s][f] # 0 \/ s \in known
    BY <1>4, CompleteParts, Types DEF Observers
  <2> QED BY <1>4, <2>1, CompleteParts, DequeueFacts
<1>5. Idle.read = NoFiles /\ \A f \in Files : NoFiles[f] = 0
  BY DEF Idle, NoFiles
<1>6. CASE Refresh
  BY <1>5, <1>6 DEF Refresh
<1>7. ASSUME NEW s \in Sources, Withdraw(s) PROVE OnlyReads'
  BY <1>5, <1>7, Types DEF Withdraw
<1>8. ASSUME NEW s \in Sources, Editor(s) PROVE OnlyReads'
  <2> SUFFICES ASSUME NEW t \in Sources, NEW f \in Files
               PROVE  /\ check'[t].read[f] # 0 => f \in Reads[t]
                      /\ result'[t][f] # 0 => f \in Reads[t] /\ t \in known'
                      /\ sourceSeen'[t][f] # 0 => t \in known'
    OBVIOUS
  <2>1. known \subseteq known' /\ (Accept(s) => s \in known')
    BY <1>8, ReadMoves DEF Accept
  <2>2. CASE t # s
    BY <1>8, <2>1, <2>2, CheckMoves, ReadMoves
  <2>3. CASE t = s
    BY <1>8, <2>1, <2>3, ReadMoves
  <2> QED BY <2>2, <2>3
<1> QED BY <1>1, <1>2, <1>3, <1>4, <1>6, <1>7, <1>8 DEF Next, Context

\* What a completed event moves in the graph.
LEMMA CompleteMoves ==
  ASSUME TypeOK, Complete
  PROVE  /\ \A g \in Files :
              \/ folderSeen'[g] = folderSeen[g]
              \/ /\ g = queue[1].path /\ folderSeen'[g] = queue[1].seen
                 /\ ~Echo(queue[1].path, queue[1].seen)
         /\ \A s \in Sources, g \in Files :
              sourceSeen'[s][g] = IF g = queue[1].path /\ s \in Observers(g)
                                  THEN queue[1].seen ELSE sourceSeen[s][g]
         /\ \A s \in Sources :
              \/ revision'[s] = revision[s] /\ s \notin Affected(queue[1].path, queue[1].seen)
              \/ /\ revision'[s] = next + 1 /\ s \in wanted'
                 /\ s \in Affected(queue[1].path, queue[1].seen)
         /\ wanted \subseteq wanted'
<1> DEFINE f == queue[1].path
           seen == queue[1].seen
<1>1. f \in Files
  BY CompleteParts
<1>2. ASSUME NEW g \in Files
      PROVE  \/ folderSeen'[g] = folderSeen[g]
             \/ g = f /\ folderSeen'[g] = seen /\ ~Echo(f, seen)
  <2>1. CASE Echo(f, seen)
    BY <2>1, CompleteParts
  <2>2. CASE ~Echo(f, seen)
    <3>1. folderSeen' = [folderSeen EXCEPT ![f] = seen]
      BY <2>2, CompleteParts
    <3> QED BY <2>2, <3>1, Types
  <2> QED BY <2>1, <2>2
<1>3. ASSUME NEW s \in Sources, NEW g \in Files
      PROVE  sourceSeen'[s][g] = IF g = f /\ s \in Observers(g) THEN seen ELSE sourceSeen[s][g]
  <2>1. sourceSeen'[s] = IF s \in Observers(f) THEN [sourceSeen[s] EXCEPT ![f] = seen]
                         ELSE sourceSeen[s]
    BY CompleteParts
  <2>2. sourceSeen[s] \in [Files -> 0..MaxVersion]
    BY Types
  <2> QED BY <1>1, <2>1, <2>2
<1>4. ASSUME NEW s \in Sources
      PROVE  \/ revision'[s] = revision[s] /\ s \notin Affected(f, seen)
             \/ revision'[s] = next + 1 /\ s \in wanted' /\ s \in Affected(f, seen)
  <2>1. CASE Echo(f, seen)
    <3>1. Affected(f, seen) = {} /\ revision' = revision
      BY <2>1, CompleteParts DEF Echo
    <3> QED BY <3>1
  <2>2. CASE ~Echo(f, seen)
    BY <2>2, CompleteParts
  <2> QED BY <2>1, <2>2
<1>5. wanted \subseteq wanted'
  BY CompleteParts
<1> QED BY <1>2, <1>3, <1>4, <1>5

\* Versions are read from the disk, which only grows.
LEMMA PastStep ==
  ASSUME IInv, Next
  PROVE  Past'
<1> USE DEF IInv, Past
<1>1. \A f \in Files : disk[f] \in Nat
  BY Types DEF Versions
<1>2. ASSUME NEW f \in Files, Edit(f) \/ Save(f) \/ Deliver(f) PROVE Past'
  <2>1. \A g \in Files : disk'[g] >= disk[g] /\ disk'[g] \in Nat
    BY <1>1, <1>2, Types DEF Edit, Save, Deliver
  <2>2. UNCHANGED <<folderSeen, sourceSeen, result, check>>
    BY <1>2 DEF Edit, Save, Deliver
  <2>3. ASSUME NEW i \in DOMAIN queue'
        PROVE  \/ i \in DOMAIN queue /\ queue'[i] = queue[i]
               \/ queue'[i].seen = 0
    <3>1. CASE queue' = queue
      BY <3>1
    <3>2. ASSUME NEW paths \in Seq(Files), ContextEvents(paths)
          PROVE  \/ i \in DOMAIN queue /\ queue'[i] = queue[i]
                 \/ queue'[i].seen = 0
      BY <3>2, QueuedFacts DEF Ticket
    <3>3. <<f>> \in Seq(Files)
      OBVIOUS
    <3> QED BY <1>2, <3>1, <3>2, <3>3 DEF Edit, Save, Deliver
  <2>4. /\ \A s \in Sources, g \in Files :
             sourceSeen[s][g] \in Nat /\ result[s][g] \in Nat /\ check[s].read[g] \in Nat
        /\ \A g \in Files : folderSeen[g] \in Nat
    BY Types DEF Checks
  <2>5. \A i \in DOMAIN queue : queue[i].seen \in Nat
    <3>1. \A i \in DOMAIN queue : queue[i] \in TicketsUpTo(fences, graph)
      BY Types
    <3> QED BY <3>1 DEF TicketsUpTo
  <2>6. ASSUME NEW g \in Files, NEW i \in DOMAIN queue', queue'[i].path = g
        PROVE  queue'[i].seen <= disk'[g]
    BY <2>1, <2>3, <2>5, <2>6, <1>1
  <2>7. ASSUME NEW g \in Files
        PROVE  /\ folderSeen'[g] <= disk'[g]
               /\ \A s \in Sources : /\ sourceSeen'[s][g] <= disk'[g]
                                     /\ result'[s][g] <= disk'[g]
                                     /\ check'[s].read[g] <= disk'[g]
    BY <2>1, <2>2, <2>4, <1>1
  <2> QED BY <2>6, <2>7
<1>3. CASE Fingerprint
  <2>1. UNCHANGED <<disk, folderSeen, sourceSeen, result, check>>
    BY <1>3 DEF Fingerprint
  <2>2. ASSUME NEW g \in Files, NEW i \in DOMAIN queue', queue'[i].path = g
        PROVE  queue'[i].seen <= disk'[g]
    BY <1>1, <1>3, <2>1, <2>2, FingerprintFacts
  <2> QED BY <2>1, <2>2
<1>4. CASE Release
  BY <1>4, DequeueFacts DEF Release
<1>5. CASE Complete
  <2> DEFINE f == queue[1].path
             seen == queue[1].seen
  <2>1. f \in Files /\ seen <= disk[f] /\ disk' = disk /\ result' = result
    BY <1>5, CompleteParts
  <2>2. \A g \in Files : folderSeen'[g] = folderSeen[g] \/ (g = f /\ folderSeen'[g] = seen)
    BY <1>5, CompleteMoves
  <2>3. \A s \in Sources, g \in Files :
          sourceSeen'[s][g] = sourceSeen[s][g] \/ (g = f /\ sourceSeen'[s][g] = seen)
    BY <1>5, CompleteMoves
  <2>4. /\ \A s \in Sources : check'[s].read = check[s].read
        /\ \A i \in DOMAIN queue' : i + 1 \in DOMAIN queue /\ queue'[i] = queue[i + 1]
    BY <1>5, CompleteParts, DequeueFacts
  <2> QED BY <2>1, <2>2, <2>3, <2>4
<1>6. Idle.read = NoFiles /\ \A f \in Files : NoFiles[f] = 0
  BY DEF Idle, NoFiles
<1>7. CASE Refresh
  BY <1>1, <1>6, <1>7 DEF Refresh
<1>8. ASSUME NEW s \in Sources, Withdraw(s) PROVE Past'
  <2>1. \A t \in Sources, g \in Files :
          /\ sourceSeen'[t][g] = sourceSeen[t][g] \/ sourceSeen'[t][g] = 0
          /\ result'[t][g] = result[t][g] \/ result'[t][g] = 0
          /\ check'[t].read[g] = check[t].read[g] \/ check'[t].read[g] = 0
    BY <1>6, <1>8, Types DEF Withdraw
  <2> QED BY <1>1, <1>8, <2>1 DEF Withdraw
<1>9. ASSUME NEW s \in Sources, Open(s) PROVE Past'
  BY <1>9 DEF Open
<1>10. ASSUME NEW s \in Sources, Editor(s) PROVE Past'
  <2>1. disk' = disk
    BY <1>10, CheckMoves
  <2>2. ASSUME NEW g \in Files
        PROVE  /\ folderSeen'[g] <= disk[g]
               /\ \A t \in Sources : /\ sourceSeen'[t][g] <= disk[g]
                                     /\ result'[t][g] <= disk[g]
                                     /\ check'[t].read[g] <= disk[g]
    BY <1>1, <1>10, CheckMoves, ReadMoves
  <2>3. ASSUME NEW i \in DOMAIN queue'
        PROVE  \/ i \in DOMAIN queue /\ queue'[i] = queue[i]
               \/ queue'[i].seen = 0
    <3>1. CASE queue' = queue
      BY <3>1
    <3>2. CASE ContextEvents(SetToSeq(check[s].changed))
      <4>1. SetToSeq(check[s].changed) \in Seq(Files)
        BY Types, SetToSeqType DEF Checks
      <4> QED BY <3>2, <4>1, QueuedFacts DEF Ticket
    <3> QED BY <1>10, <3>1, <3>2 DEF Editor, Begin, Launch, Analyze, Observe,
                ReportChanged, AwaitContext, Reject, Accept, OnlyCheck
  <2>4. ASSUME NEW g \in Files, NEW i \in DOMAIN queue', queue'[i].path = g
        PROVE  queue'[i].seen <= disk[g]
    BY <1>1, <2>3, <2>4
  <2> QED BY <2>1, <2>2, <2>4
<1> QED BY <1>2, <1>3, <1>4, <1>5, <1>7, <1>8, <1>9, <1>10 DEF Next, Context

-----------------------------------------------------------------------------

\* Queueing events keeps the fences in order, and behind a waiting report the new
\* ones reject it.
LEMMA QueuedFences ==
  ASSUME IInv, NEW paths \in Seq(Files), ContextEvents(paths), graph' = graph,
         \A s \in Sources : check'[s] = check[s] \/ check'[s].phase # "waiting"
  PROVE  FencesOK' /\ PendingOrdered(events)' /\ Fenced'
<1> USE DEF IInv
<1>1. events' = Reserved(paths).events /\ floor' = Reserved(paths).floor
  BY DEF ContextEvents
<1>2. \A i \in DOMAIN queue : queue[i].fence \in 1..fences
  <2>1. \A i \in DOMAIN queue : queue[i] \in TicketsUpTo(fences, graph)
    BY Types
  <2> QED BY <2>1 DEF TicketsUpTo
<1>3. \A j \in DOMAIN events : events[j].fence \in 1..fences
  <2>1. \A j \in DOMAIN events : events[j] \in EventsUpTo(fences, next)
    BY Types
  <2> QED BY <2>1 DEF EventsUpTo
<1>4. \A i \in DOMAIN queue' :
        \/ i \in DOMAIN queue /\ queue'[i] = queue[i]
        \/ /\ i \notin DOMAIN queue /\ i \in Nat
           /\ i > Len(queue) /\ i - Len(queue) \in DOMAIN paths
           /\ queue'[i] = Ticket(i - Len(queue), paths[i - Len(queue)])
  BY QueuedFacts
<1>5. \A i \in DOMAIN queue' : i \notin DOMAIN queue =>
        /\ queue'[i].fence = fences + (i - Len(queue)) /\ queue'[i].graph = graph
        /\ queue'[i].fence > fences
  BY <1>4, Types DEF Ticket
<1>6. ASSUME NEW i \in DOMAIN queue', NEW j \in DOMAIN queue', i # j
      PROVE  queue'[i].fence # queue'[j].fence
  <2>1. CASE i \in DOMAIN queue /\ j \in DOMAIN queue
    BY <1>4, <1>6, <2>1 DEF FencesOK
  <2>2. CASE i \in DOMAIN queue /\ j \notin DOMAIN queue
    BY <1>2, <1>4, <1>5, <2>2, Types
  <2>3. CASE i \notin DOMAIN queue /\ j \in DOMAIN queue
    BY <1>2, <1>4, <1>5, <2>3, Types
  <2>4. CASE i \notin DOMAIN queue /\ j \notin DOMAIN queue
    <3>1. fences \in Nat /\ Len(queue) \in Nat /\ i \in Nat /\ j \in Nat
      BY <1>4, Types
    <3>2. /\ queue'[i].fence = fences + (i - Len(queue))
          /\ queue'[j].fence = fences + (j - Len(queue))
      BY <1>5, <2>4
    <3> QED BY <3>1, <3>2, <1>6
  <2> QED BY <2>1, <2>2, <2>3, <2>4
<1>7. ASSUME NEW i \in DOMAIN queue', NEW j \in DOMAIN events', events'[j].seen # 0
      PROVE  queue'[i].fence # events'[j].fence
  <2>1. PICK k \in DOMAIN events : events'[j] = events[k]
    <3>1. \A i2 \in DOMAIN paths : Fence(i2, paths[i2]).seen = 0
      BY DEF Fence
    <3>2. \/ \E k \in DOMAIN events : events'[j] = events[k]
          \/ \E i2 \in DOMAIN paths : events'[j] = Fence(i2, paths[i2])
      BY <1>1, ReservedIsOldOrNew
    <3> QED BY <1>7, <3>1, <3>2
  <2>2. CASE i \in DOMAIN queue
    BY <1>4, <1>7, <2>1, <2>2 DEF FencesOK
  <2>3. CASE i \notin DOMAIN queue
    BY <1>3, <1>5, <2>1, <2>3, Types
  <2> QED BY <2>2, <2>3
<1>8. PendingOrdered(events)'
  <2>1. PendingOrdered(events')
    BY <1>1, ReservedOrdered
  <2> QED BY <2>1 DEF PendingOrdered
<1>9. ASSUME NEW s \in Sources, check'[s].phase = "waiting",
             NEW i \in DOMAIN queue', i > check'[s].ahead
      PROVE  queue'[i].graph = graph /\ Fencing(events', floor', queue'[i], check'[s].token)
  <2>1. check'[s] = check[s]
    BY <1>9
  <2>2. check[s].token \in 0..2 * next
    BY Types DEF Checks
  <2>3. CASE i \in DOMAIN queue
    <3>1. queue'[i] = queue[i] /\ queue[i].graph = graph
          /\ Fencing(events, floor, queue[i], check[s].token)
      BY <1>4, <1>9, <2>1, <2>3 DEF Fenced
    <3> QED BY <3>1, <2>1, <2>2, <1>1, ReservedKeepsFences
  <2>4. CASE i \notin DOMAIN queue
    BY <2>1, <2>2, <2>4, <1>1, <1>4, <1>5, ReservedFences
  <2> QED BY <2>3, <2>4
<1>10. FencesOK'
  BY <1>6, <1>7 DEF FencesOK
<1>11. Fenced'
  BY <1>9 DEF Fenced
<1> QED BY <1>8, <1>10, <1>11

\* The head of the queue is done and its fence marked or withdrawn.
LEMMA DequeuedFences ==
  ASSUME IInv, queue # <<>>, Dequeue, graph' = graph, NEW target, NEW list, NEW low,
         \A i \in DOMAIN queue : i # 1 => queue[i].fence # target,
         \A ticket : \A token \in 0..2 * next :
           Fencing(events, floor, ticket, token) => Fencing(list, low, ticket, token),
         \A ticket : \A token \in 0..2 * next :
           Fencing(list, low, ticket, token) /\ ticket.fence # target =>
             Fencing(events', floor', ticket, token),
         \A j \in DOMAIN events' : events'[j].seen # 0 =>
           \/ \E k \in DOMAIN events : events[k] = events'[j]
           \/ events'[j].fence = target
  PROVE  FencesOK' /\ Fenced'
<1> USE DEF IInv
<1>1. \A i \in DOMAIN queue' : /\ i + 1 \in DOMAIN queue /\ queue'[i] = queue[i + 1]
                               /\ i + 1 # 1 /\ i \in Nat
  BY DequeueFacts
<1>2. ASSUME NEW i \in DOMAIN queue', NEW j \in DOMAIN queue', i # j
      PROVE  queue'[i].fence # queue'[j].fence
  <2>1. i + 1 # j + 1
    BY <1>1, <1>2
  <2> QED BY <1>1, <2>1 DEF FencesOK
<1>3. ASSUME NEW i \in DOMAIN queue', NEW j \in DOMAIN events', events'[j].seen # 0
      PROVE  queue'[i].fence # events'[j].fence
  <2>1. CASE \E k \in DOMAIN events : events[k] = events'[j]
    BY <1>1, <1>3, <2>1 DEF FencesOK
  <2>2. CASE events'[j].fence = target
    BY <1>1, <2>2
  <2> QED BY <1>3, <2>1, <2>2
<1>4. ASSUME NEW s \in Sources, check'[s].phase = "waiting",
             NEW i \in DOMAIN queue', i > check'[s].ahead
      PROVE  queue'[i].graph = graph /\ Fencing(events', floor', queue'[i], check'[s].token)
  <2>1. /\ check[s].phase = "waiting" /\ check'[s].token = check[s].token
        /\ check[s].token \in 0..2 * next /\ check[s].ahead \in Nat
        /\ check'[s].ahead = IF check[s].ahead > 0 THEN check[s].ahead - 1 ELSE 0
    BY <1>4, DequeueFacts, Types DEF Checks
  <2>2. i + 1 > check[s].ahead
    BY <1>1, <1>4, <2>1
  <2>3. queue[i + 1].graph = graph /\ Fencing(events, floor, queue[i + 1], check[s].token)
    BY <1>1, <2>1, <2>2 DEF Fenced
  <2>4. queue[i + 1].fence # target
    BY <1>1
  <2> QED BY <1>1, <2>1, <2>3, <2>4
<1> QED BY <1>2, <1>3, <1>4 DEF FencesOK, Fenced

\* complete keeps the fences of every other ticket.
LEMMA CompleteFences ==
  ASSUME IInv, Complete
  PROVE  FencesOK' /\ PendingOrdered(events)' /\ Fenced'
<1> USE DEF IInv
<1> DEFINE seen == queue[1].seen
           f == queue[1].path
<1>1. /\ queue # <<>> /\ Dequeue /\ graph' = graph /\ floor' = Start.floor
      /\ seen \in 1..MaxVersion /\ seen # 0
  BY CompleteParts, GraphAssumption
<1>2. ASSUME NEW i \in DOMAIN queue, i # 1 PROVE queue[i].fence # Target
  <2>1. queue[i].fence \in 1..fences
    <3>1. queue[i] \in TicketsUpTo(fences, graph)
      BY Types
    <3> QED BY <3>1 DEF TicketsUpTo
  <2>2. CASE SameGraph
    BY <1>2, <2>2, CompleteParts DEF Target, FencesOK
  <2>3. CASE ~SameGraph
    BY <2>1, <2>3, Types DEF Target
  <2> QED BY <2>2, <2>3
<1>3. /\ PendingOrdered(Start.events)
      /\ \A ticket : \A token \in 0..2 * next :
           Fencing(events, floor, ticket, token) =>
             Fencing(Start.events, Start.floor, ticket, token)
      /\ Start.events \in Seq(EventsUpTo(fences', next)) /\ fences' \in Nat /\ next \in Nat
  BY StartFacts, Types
<1>4. \A k \in DOMAIN Start.events : Start.events[k].seen # 0 =>
        \E j \in DOMAIN events : events[j] = Start.events[k]
  BY StartFacts DEF Fence
<1>5. CASE Echo(f, seen)
  <2>1. events' = Without(Start.events, Target)
    BY <1>5, CompleteParts
  <2>2. PendingOrdered(events') /\ \A ticket : \A token \in 0..2 * next :
          Fencing(Start.events, Start.floor, ticket, token) /\ ticket.fence # Target =>
            Fencing(events', floor', ticket, token)
    BY <1>1, <1>3, <2>1, WithoutKeeps
  <2>3. \A j \in DOMAIN events' : events'[j].seen # 0 =>
          \E k \in DOMAIN events : events[k] = events'[j]
    <3>1. \A j \in DOMAIN events' : \E k \in DOMAIN Start.events :
            events'[j] = Start.events[k]
      BY <1>3, <2>1, WithoutFacts
    <3> QED BY <3>1, <1>4
  <2>4. FencesOK' /\ Fenced'
    BY <1>1, <1>2, <1>3, <2>2, <2>3, DequeuedFences
  <2> QED BY <2>2, <2>4 DEF PendingOrdered
<1>6. CASE ~Echo(f, seen)
  <2>1. events' = Marked(Start.events, Target, 2 * (next + 1), seen)
    BY <1>6, CompleteParts
  <2>2. 2 * (next + 1) \in Nat /\ 2 * (next + 1) > 2 * next + 1
    BY <1>3
  <2>3. PendingOrdered(events') /\ \A ticket : \A token \in 0..2 * next :
          Fencing(Start.events, Start.floor, ticket, token) /\ ticket.fence # Target =>
            Fencing(events', floor', ticket, token)
    <3> DEFINE rev == 2 * (next + 1)
    <3>1. rev \in Nat /\ rev > 2 * next + 1
      BY <2>2
    <3>2. events' = Marked(Start.events, Target, rev, seen)
      BY <2>1
    <3> HIDE DEF rev, seen
    <3>3. /\ PendingOrdered(Start.events) =>
               PendingOrdered(Marked(Start.events, Target, rev, seen))
          /\ \A low, ticket : \A token \in 0..2 * next :
               Fencing(Start.events, low, ticket, token) /\ ticket.fence # Target =>
                 Fencing(Marked(Start.events, Target, rev, seen), low, ticket, token)
      BY <1>1, <1>3, <3>1, MarkedKeeps
    <3> QED BY <1>1, <1>3, <3>2, <3>3
  <2>4. \A j \in DOMAIN events' : events'[j].seen # 0 =>
          \/ \E k \in DOMAIN events : events[k] = events'[j]
          \/ events'[j].fence = Target
    <3> SUFFICES ASSUME NEW j \in DOMAIN events', events'[j].seen # 0,
                        events'[j].fence # Target
                 PROVE  \E k \in DOMAIN events : events[k] = events'[j]
      OBVIOUS
    <3>1. j \in DOMAIN Start.events
          /\ events'[j] = IF Start.events[j].fence # Target THEN Start.events[j]
               ELSE [Start.events[j] EXCEPT !.revision = 2 * (next + 1), !.seen = seen]
      BY <2>1 DEF Marked
    <3>2. Start.events[j] \in EventsUpTo(fences', next)
      BY <3>1, <1>3
    <3>3. Start.events[j].fence # Target
      BY <3>1, <3>2 DEF EventsUpTo
    <3> QED BY <3>1, <3>3, <1>4
  <2>5. FencesOK' /\ Fenced'
    BY <1>1, <1>2, <1>3, <2>3, <2>4, DequeuedFences
  <2> QED BY <2>3, <2>5 DEF PendingOrdered
<1> QED BY <1>5, <1>6

\* How a check goes on: what it read belongs to the revision it started from, it waits
\* for the whole queue, and only an accepted one leaves its source at ease.
LEMMA CheckGoesOn ==
  ASSUME TypeOK, PhasesOK, NEW s \in Sources, Editor(s)
  PROVE  /\ \A f \in Files : check'[s].read[f] # 0 => /\ check'[s].revision = check[s].revision
                                                       /\ check'[s].token = check[s].token
         /\ check'[s].phase = "waiting" => check'[s].ahead = Len(queue)
         /\ AtEase(s)' => Accept(s)
         /\ \A t \in Sources : t # s => (t \in wanted' <=> t \in wanted)
         /\ \/ UNCHANGED <<queue, events, floor>>
            \/ /\ check'[s].phase # "waiting"
               /\ \E paths \in Seq(Files) : ContextEvents(paths)
<1>1. check[s] \in Checks(next, Len(queue)) /\ DOMAIN check = Sources
  BY Types
<1>2. Idle.phase = "idle" /\ \A f \in Files : Idle.read[f] = 0 /\ NoFiles[f] = 0
  BY DEF Idle, NoFiles
<1>3. CASE Begin(s)
  <2>1. check'[s] = [Idle EXCEPT !.phase = "submitted", !.token = 2 * next]
    BY <1>1, <1>3 DEF Begin, Step
  <2>2. check'[s].phase = "submitted" /\ check'[s].read = Idle.read
    BY <2>1 DEF Idle
  <2>3. check'[s] # Idle
    BY <1>2, <2>2
  <2>4. \A t \in Sources : t # s => (t \in wanted' <=> t \in wanted)
    BY <1>3 DEF Begin
  <2>5. UNCHANGED <<queue, events, floor>>
    BY <1>3 DEF Begin, OnlyCheck
  <2> QED BY <1>2, <2>2, <2>3, <2>4, <2>5 DEF AtEase
<1>4. CASE Launch(s)
  <2>1. check'[s].phase = "running" /\ check'[s].read = check[s].read
    BY <1>1, <1>4 DEF Launch, Step, Checks
  <2>2. check[s].read = NoFiles
    BY <1>4 DEF Launch, PhasesOK
  <2>3. UNCHANGED <<wanted, queue, events, floor>>
    BY <1>4 DEF Launch, OnlyCheck
  <2> QED BY <1>2, <2>1, <2>2, <2>3 DEF AtEase
<1>5. ASSUME NEW g \in Reads[s], Analyze(s, g) \/ Observe(s, g)
      PROVE  /\ check'[s].revision = check[s].revision /\ check'[s].token = check[s].token
             /\ check'[s].phase \in {"running", "observing"}
             /\ UNCHANGED <<wanted, queue, events, floor>>
  BY <1>1, <1>5 DEF Analyze, Observe, Step, Checks, OnlyCheck
<1>6. ASSUME NEW g \in Reads[s], Analyze(s, g) \/ Observe(s, g)
      PROVE  ~AtEase(s)'
  BY <1>2, <1>5, <1>6 DEF AtEase
<1>7. CASE ReportChanged(s)
  <2>1. check'[s] = Idle /\ wanted' = wanted \cup {s}
    BY <1>1, <1>7 DEF ReportChanged, Retry, Step
  <2>2. SetToSeq(check[s].changed) \in Seq(Files)
    BY <1>1, SetToSeqType DEF Checks
  <2>3. UNCHANGED <<queue, events, floor>> \/ ContextEvents(SetToSeq(check[s].changed))
    BY <1>7 DEF ReportChanged
  <2> QED BY <1>2, <2>1, <2>2, <2>3 DEF AtEase
<1>8. CASE AwaitContext(s)
  <2>1. /\ check'[s].revision = check[s].revision /\ check'[s].token = check[s].token
        /\ check'[s].phase = "waiting" /\ check'[s].ahead = Len(queue)
        /\ UNCHANGED <<wanted, queue, events, floor>>
    BY <1>1, <1>8 DEF AwaitContext, Step, Checks, OnlyCheck
  <2> QED BY <1>2, <2>1 DEF AtEase
<1>9. CASE Reject(s)
  <2>1. /\ check'[s] = Idle /\ wanted' = wanted \cup {s}
        /\ UNCHANGED <<queue, events, floor>>
    BY <1>1, <1>9 DEF Reject, Retry, Step, OnlyCheck
  <2> QED BY <1>2, <2>1 DEF AtEase
<1>10. CASE Accept(s)
  <2>1. check'[s] = Idle /\ UNCHANGED <<wanted, queue, events, floor>>
    BY <1>1, <1>10 DEF Accept, Step
  <2> QED BY <1>2, <1>10, <2>1
<1>11. CASE \E g \in Reads[s] : Analyze(s, g) \/ Observe(s, g)
  BY <1>5, <1>6, <1>11
<1> QED BY <1>3, <1>4, <1>7, <1>8, <1>9, <1>10, <1>11 DEF Editor

\* Every step keeps the fences in order and the waiting reports fenced.
LEMMA FencesStep ==
  ASSUME IInv, Next
  PROVE  FencesOK' /\ PendingOrdered(events)' /\ Fenced'
<1> USE DEF IInv
<1>1. Idle.phase = "idle"
  BY DEF Idle
<1>2. ASSUME UNCHANGED <<queue, events, floor, graph>>,
             \A s \in Sources : \/ check'[s] = check[s]
                                \/ check'[s].phase = "waiting" => check'[s].ahead = Len(queue)
      PROVE  FencesOK' /\ PendingOrdered(events)' /\ Fenced'
  <2>1. FencesOK' /\ PendingOrdered(events)'
    BY <1>2 DEF FencesOK, PendingOrdered
  <2>2. \A i \in DOMAIN queue : ~(i > Len(queue))
    BY Types
  <2>3. ASSUME NEW s \in Sources, check'[s].phase = "waiting",
               NEW i \in DOMAIN queue, i > check'[s].ahead
        PROVE  queue[i].graph = graph /\ Fencing(events, floor, queue[i], check'[s].token)
    BY <1>2, <2>2, <2>3 DEF Fenced
  <2> QED BY <1>2, <2>1, <2>3 DEF Fenced
<1>3. ASSUME NEW f \in Files, Edit(f) \/ Save(f) \/ Deliver(f)
      PROVE  FencesOK' /\ PendingOrdered(events)' /\ Fenced'
  <2>1. <<f>> \in Seq(Files)
    OBVIOUS
  <2>2. check' = check /\ graph' = graph
    BY <1>3 DEF Edit, Save, Deliver
  <2>3. CASE ContextEvents(<<f>>)
    BY <2>1, <2>2, <2>3, QueuedFences
  <2>4. CASE UNCHANGED <<queue, events, floor>>
    BY <1>2, <2>2, <2>4
  <2> QED BY <1>3, <2>3, <2>4 DEF Edit, Save, Deliver
<1>4. CASE Fingerprint
  <2>1. UNCHANGED <<events, floor, graph, check>>
    BY <1>4 DEF Fingerprint
  <2>2. FencesOK' /\ PendingOrdered(events)'
    BY <1>4, <2>1, FingerprintFacts DEF FencesOK, PendingOrdered
  <2>3. ASSUME NEW s \in Sources, check[s].phase = "waiting",
               NEW i \in DOMAIN queue, i > check[s].ahead
        PROVE  queue'[i].graph = graph /\ Fencing(events, floor, queue'[i], check[s].token)
    <3>1. queue[i].graph = graph /\ Fencing(events, floor, queue[i], check[s].token)
      BY <2>3 DEF Fenced
    <3>2. /\ queue'[i].fence = queue[i].fence /\ queue'[i].path = queue[i].path
          /\ queue'[i].graph = queue[i].graph
      BY <1>4, FingerprintFacts
    <3> QED BY <3>1, <3>2 DEF Fencing
  <2>4. Fenced'
    BY <1>4, <2>1, <2>3, FingerprintFacts DEF Fenced
  <2> QED BY <2>2, <2>4
<1>5. CASE Release
  <2>1. /\ queue # <<>> /\ Dequeue /\ graph' = graph /\ floor' = floor
        /\ events' = Without(events, queue[1].fence)
    BY <1>5, DequeueFacts DEF Release
  <2>2. \A i \in DOMAIN queue : i # 1 => queue[i].fence # queue[1].fence
    BY <2>1, DequeueFacts DEF FencesOK
  <2>3. events \in Seq(EventsUpTo(fences, next))
    BY Types
  <2>4. PendingOrdered(events') /\ \A ticket : \A token \in 0..2 * next :
          Fencing(events, floor, ticket, token) /\ ticket.fence # queue[1].fence =>
            Fencing(events', floor', ticket, token)
    BY <2>1, <2>3, WithoutKeeps
  <2>5. \A j \in DOMAIN events' : \E k \in DOMAIN events : events[k] = events'[j]
    BY <2>1, <2>3, WithoutFacts
  <2>6. FencesOK' /\ Fenced'
    <3> DEFINE target == queue[1].fence
    <3>1. \A i \in DOMAIN queue : i # 1 => queue[i].fence # target
      BY <2>2
    <3>2. \A ticket : \A token \in 0..2 * next :
            Fencing(events, floor, ticket, token) => Fencing(events, floor, ticket, token)
      OBVIOUS
    <3>3. \A ticket : \A token \in 0..2 * next :
            Fencing(events, floor, ticket, token) /\ ticket.fence # target =>
              Fencing(events', floor', ticket, token)
      BY <2>4
    <3>4. \A j \in DOMAIN events' : events'[j].seen # 0 =>
            \/ \E k \in DOMAIN events : events[k] = events'[j]
            \/ events'[j].fence = target
      BY <2>5
    <3> HIDE DEF target
    <3>5. queue # <<>> /\ Dequeue /\ graph' = graph
      BY <2>1
    <3> HIDE DEF IInv
    <3> QED BY <3>1, <3>2, <3>3, <3>4, <3>5, DequeuedFences
  <2> QED BY <2>4, <2>6 DEF PendingOrdered
<1>6. CASE Complete
  BY <1>6, CompleteFences
<1>7. CASE Refresh
  BY <1>1, <1>7 DEF Refresh, FencesOK, PendingOrdered, Fenced
<1>8. ASSUME NEW s \in Sources, Withdraw(s) \/ Open(s)
      PROVE  FencesOK' /\ PendingOrdered(events)' /\ Fenced'
  <2>1. UNCHANGED <<queue, events, floor, graph>>
    BY <1>8 DEF Withdraw, Open
  <2>2. \A t \in Sources : check'[t] = check[t] \/ check'[t].phase # "waiting"
    BY <1>1, <1>8, Types DEF Withdraw, Open
  <2> QED BY <1>2, <2>1, <2>2
<1>9. ASSUME NEW s \in Sources, Editor(s)
      PROVE  FencesOK' /\ PendingOrdered(events)' /\ Fenced'
  <2>1. graph' = graph /\ \A t \in Sources : t # s => check'[t] = check[t]
    BY <1>9, CheckMoves
  <2>2. CASE UNCHANGED <<queue, events, floor>>
    BY <1>2, <1>9, <2>1, <2>2, CheckGoesOn
  <2>3. ASSUME NEW paths \in Seq(Files), ContextEvents(paths), check'[s].phase # "waiting"
        PROVE  FencesOK' /\ PendingOrdered(events)' /\ Fenced'
    BY <2>1, <2>3, QueuedFences
  <2> QED BY <1>9, <2>2, <2>3, CheckGoesOn
<1> QED BY <1>3, <1>4, <1>5, <1>6, <1>7, <1>8, <1>9 DEF Next, Context

-----------------------------------------------------------------------------

\* A report that accept lets through has no event of its files ahead or behind it.
LEMMA NothingPending ==
  ASSUME IInv, NEW s \in Sources, Ready(s), ~Rejected(s), NEW i \in DOMAIN queue
  PROVE  queue[i].path \notin Reads[s]
<1>1. CASE queue = <<>>
  BY <1>1
<1>2. CASE check[s].phase = "waiting" /\ check[s].ahead = 0
  <2>1. i > check[s].ahead
    BY <1>2, Types DEF IInv
  <2>2. Fencing(events, floor, queue[i], check[s].token)
    BY <1>2, <2>1 DEF IInv, Fenced
  <2>3. ~(check[s].token < floor)
    BY DEF Rejected
  <2>4. ~(floor > check[s].token)
    <3>1. floor \in Nat /\ check[s].token \in 0..2 * next /\ next \in Nat
      BY Types DEF IInv, Checks
    <3> QED BY <2>3, <3>1
  <2>5. PICK j \in DOMAIN events :
          /\ events[j].path = queue[i].path
          /\ events[j].seen = 0 /\ events[j].revision > check[s].token
    BY <2>2, <2>4 DEF Fencing
  <2> QED BY <2>5 DEF Rejected
<1> QED BY <1>1, <1>2 DEF Ready

\* Tickets that join the queue hold no fingerprint yet.
LEMMA NewTicketsAreBlank ==
  ASSUME TypeOK, \/ queue' = queue
                 \/ \E paths \in Seq(Files) : ContextEvents(paths),
         NEW i \in DOMAIN queue'
  PROVE  \/ i \in DOMAIN queue /\ queue'[i] = queue[i]
         \/ queue'[i].seen = 0
<1>1. CASE queue' = queue
  BY <1>1
<1>2. ASSUME NEW paths \in Seq(Files), ContextEvents(paths)
      PROVE  \/ i \in DOMAIN queue /\ queue'[i] = queue[i]
             \/ queue'[i].seen = 0
  BY <1>2, QueuedFacts DEF Ticket
<1> QED BY <1>1, <1>2

\* Events of an external program, of the editor and of the watcher only queue.
LEMMA FileEvents ==
  ASSUME TypeOK, NEW f \in Files, Edit(f) \/ Save(f) \/ Deliver(f)
  PROVE  /\ UNCHANGED <<active, graph, next, folderSeen, known, sourceSeen, revision, check,
                        wanted, result>>
         /\ \/ UNCHANGED <<queue, events, floor>>
            \/ \E paths \in Seq(Files) : ContextEvents(paths)
<1>1. <<f>> \in Seq(Files)
  OBVIOUS
<1>2. /\ UNCHANGED <<active, graph, next, folderSeen, known, sourceSeen, revision, check,
                     wanted, result>>
      /\ UNCHANGED <<queue, events, floor>> \/ ContextEvents(<<f>>)
  BY DEF Edit, Save, Deliver
<1> QED BY <1>1, <1>2

\* The graph moves on for a source only together with the source's revision.
LEMMA ReadsStep ==
  ASSUME IInv, Next
  PROVE  ReadsAreNew'
<1> USE DEF IInv, ReadsAreNew
<1>1. ASSUME UNCHANGED <<sourceSeen, revision, check>>
      PROVE  ReadsAreNew'
  BY <1>1 DEF Current
<1>2. ASSUME NEW f \in Files, Edit(f) \/ Save(f) \/ Deliver(f) PROVE ReadsAreNew'
  BY <1>1, <1>2, FileEvents
<1>3. CASE Fingerprint \/ \E s \in Sources : Open(s)
  BY <1>1, <1>3 DEF Fingerprint, Open
<1>4. CASE Release
  BY <1>4, DequeueFacts DEF Release, Current
<1>5. CASE Complete
  <2> SUFFICES ASSUME NEW s \in Sources, NEW g \in Files,
                      check'[s].revision = revision'[s], check'[s].read[g] # 0
               PROVE  sourceSeen'[s][g] <= check'[s].read[g]
    BY DEF Current
  <2>1. /\ check'[s].read = check[s].read /\ check'[s].revision = check[s].revision
        /\ check[s].revision \in 0..next /\ next \in Nat
    BY <1>5, CompleteParts, DequeueFacts, Types DEF Checks
  <2>2. revision'[s] = revision[s] /\ s \notin Affected(queue[1].path, queue[1].seen)
    <3>1. revision'[s] # next + 1
      BY <2>1
    <3> HIDE DEF ReadsAreNew
    <3> QED BY <1>5, <3>1, CompleteMoves
  <2>3. sourceSeen'[s][g] = sourceSeen[s][g]
    BY <1>5, <2>2, CompleteMoves DEF Affected
  <2> QED BY <2>1, <2>2, <2>3 DEF Current
<1>6. Idle.read = NoFiles /\ \A f \in Files : NoFiles[f] = 0
  BY DEF Idle, NoFiles
<1>7. CASE Refresh
  BY <1>6, <1>7 DEF Refresh
<1>8. ASSUME NEW s \in Sources, Withdraw(s) PROVE ReadsAreNew'
  BY <1>6, <1>8, Types DEF Withdraw, Current
<1>9. ASSUME NEW s \in Sources, Editor(s) PROVE ReadsAreNew'
  <2> SUFFICES ASSUME NEW t \in Sources, NEW g \in Files,
                      check'[t].revision = revision'[t], check'[t].read[g] # 0
               PROVE  sourceSeen'[t][g] <= check'[t].read[g]
    BY DEF Current
  <2>1. revision' = revision
    BY <1>9, CheckMoves
  <2>2. CASE t # s
    BY <1>9, <2>1, <2>2, CheckMoves, ReadMoves DEF Current
  <2>3. CASE t = s
    <3>1. ~Accept(s)
      BY <1>6, <2>3, Types DEF Accept, Step
    <3>2. sourceSeen'[s] = sourceSeen[s]
      BY <1>9, <3>1, ReadMoves
    <3>3. check[s].revision = revision[s]
      BY <1>9, <2>1, <2>3, CheckGoesOn
    <3>4. CASE check'[s].read[g] = check[s].read[g]
      BY <2>3, <3>2, <3>3, <3>4 DEF Current
    <3>5. CASE check'[s].read[g] = disk[g]
      BY <2>3, <3>2, <3>5 DEF Past
    <3> QED BY <1>9, <2>3, <3>4, <3>5, ReadMoves
  <2> QED BY <2>2, <2>3
<1> QED BY <1>2, <1>3, <1>4, <1>5, <1>7, <1>8, <1>9 DEF Next, Context

\* A result is displayed only when nothing that is pending can be older than it.
LEMMA ResultsStep ==
  ASSUME IInv, Next
  PROVE  ResultsAreNew'
<1> USE DEF IInv
<1>1. ASSUME NEW s \in Sources, NEW f \in Files, AtEase(s), result[s][f] # 0,
             result'[s] = result[s], sourceSeen'[s][f] = sourceSeen[s][f],
             \A i \in DOMAIN queue' : \/ \E j \in DOMAIN queue : queue'[i] = queue[j]
                                      \/ queue'[i].seen = 0
      PROVE  /\ sourceSeen'[s][f] <= result'[s][f]
             /\ \A i \in DOMAIN queue' : queue'[i].path = f /\ queue'[i].seen # 0 =>
                  queue'[i].seen >= result'[s][f]
  BY <1>1 DEF ResultsAreNew
<1>2. ASSUME NEW f \in Files, Edit(f) \/ Save(f) \/ Deliver(f) PROVE ResultsAreNew'
  <2>1. UNCHANGED <<check, wanted, result, sourceSeen>>
    BY <1>2, FileEvents
  <2>2. \A i \in DOMAIN queue' : \/ \E j \in DOMAIN queue : queue'[i] = queue[j]
                                 \/ queue'[i].seen = 0
    BY <1>2, FileEvents, NewTicketsAreBlank
  <2> QED BY <1>1, <2>1, <2>2 DEF ResultsAreNew, AtEase
<1>3. CASE Fingerprint
  <2>1. UNCHANGED <<check, wanted, result, sourceSeen>>
    BY <1>3 DEF Fingerprint
  <2> SUFFICES ASSUME NEW s \in Sources, NEW f \in Files, AtEase(s), result[s][f] # 0,
                      NEW i \in DOMAIN queue, queue'[i].path = f, queue'[i].seen # 0
               PROVE  queue'[i].seen >= result[s][f]
    BY <1>3, <2>1, FingerprintFacts DEF ResultsAreNew, AtEase
  <2>2. result[s][f] \in Nat /\ disk[f] \in Nat /\ result[s][f] <= disk[f]
    BY Types DEF Past, Versions
  <2>3. queue'[i].path = queue[i].path
        /\ queue'[i].seen = IF i = 1 THEN disk[queue[1].path] ELSE queue[i].seen
    BY <1>3, FingerprintFacts
  <2>4. CASE i = 1
    BY <2>2, <2>3, <2>4
  <2>5. CASE i # 1
    BY <2>3, <2>5 DEF ResultsAreNew
  <2> QED BY <2>4, <2>5
<1>4. ASSUME queue # <<>>, Dequeue
      PROVE  /\ \A i \in DOMAIN queue' : \E j \in DOMAIN queue : queue'[i] = queue[j]
             /\ \A s \in Sources : check'[s] = Idle => check[s] = Idle
  <2>1. Idle.phase = "idle"
    BY DEF Idle
  <2> QED BY <1>4, <2>1, DequeueFacts DEF PhasesOK
<1>5. CASE Release
  <2>1. UNCHANGED <<wanted, result, sourceSeen>> /\ queue # <<>> /\ Dequeue
    BY <1>5 DEF Release
  <2> QED BY <1>1, <1>4, <2>1 DEF ResultsAreNew, AtEase
<1>6. CASE Complete
  <2> SUFFICES ASSUME NEW s \in Sources, NEW f \in Files, check'[s] = Idle, s \notin wanted',
                      result'[s][f] # 0
               PROVE  /\ sourceSeen'[s][f] <= result'[s][f]
                      /\ \A i \in DOMAIN queue' : queue'[i].path = f /\ queue'[i].seen # 0 =>
                           queue'[i].seen >= result'[s][f]
    BY DEF ResultsAreNew, AtEase
  <2>1. result' = result /\ queue # <<>> /\ Dequeue
    BY <1>6, CompleteParts
  <2>2. AtEase(s) /\ s \notin Affected(queue[1].path, queue[1].seen)
    BY <1>4, <1>6, <2>1, CompleteMoves DEF AtEase
  <2>3. sourceSeen'[s][f] = sourceSeen[s][f]
    BY <1>6, <2>2, CompleteMoves DEF Affected
  <2> QED BY <1>1, <1>4, <2>1, <2>2, <2>3
<1>7. \A f \in Files : NoFiles[f] = 0
  BY DEF NoFiles
<1>8. CASE Refresh
  BY <1>7, <1>8 DEF Refresh, ResultsAreNew
<1>9. ASSUME NEW s \in Sources, Withdraw(s) PROVE ResultsAreNew'
  <2>1. /\ queue' = queue /\ result'[s] = NoFiles
        /\ \A t \in Sources : t # s =>
             /\ result'[t] = result[t] /\ sourceSeen'[t] = sourceSeen[t]
             /\ check'[t] = check[t] /\ (t \in wanted' <=> t \in wanted)
    BY <1>9, Types DEF Withdraw
  <2> QED BY <1>1, <1>7, <2>1 DEF ResultsAreNew, AtEase
<1>10. ASSUME NEW s \in Sources, Open(s) PROVE ResultsAreNew'
  <2>1. UNCHANGED <<check, result, sourceSeen, queue>> /\ wanted \subseteq wanted'
    BY <1>10 DEF Open
  <2> QED BY <1>1, <2>1 DEF ResultsAreNew, AtEase
<1>11. ASSUME NEW s \in Sources, Editor(s) PROVE ResultsAreNew'
  <2> SUFFICES ASSUME NEW t \in Sources, NEW f \in Files, AtEase(t)', result'[t][f] # 0
               PROVE  /\ sourceSeen'[t][f] <= result'[t][f]
                      /\ \A i \in DOMAIN queue' : queue'[i].path = f /\ queue'[i].seen # 0 =>
                           queue'[i].seen >= result'[t][f]
    BY DEF ResultsAreNew
  <2>1. \A i \in DOMAIN queue' : \/ \E j \in DOMAIN queue : queue'[i] = queue[j]
                                 \/ queue'[i].seen = 0
    BY <1>11, CheckGoesOn, NewTicketsAreBlank
  <2>2. CASE t # s
    <3>1. AtEase(t) /\ result'[t] = result[t] /\ sourceSeen'[t] = sourceSeen[t]
      BY <1>11, <2>2, CheckGoesOn, CheckMoves, ReadMoves DEF AtEase
    <3> QED BY <1>1, <2>1, <3>1
  <2>3. CASE t = s
    <3>1. Accept(s)
      BY <1>11, <2>3, CheckGoesOn
    <3>2. /\ result'[s] = check[s].read
          /\ sourceSeen'[s][f] = IF sourceSeen[s][f] # 0 THEN sourceSeen[s][f]
                                 ELSE check[s].read[f]
      BY <1>11, <3>1, ReadMoves
    <3>3. check[s].read[f] \in 0..MaxVersion /\ sourceSeen[s][f] \in 0..MaxVersion
      BY Types DEF Checks
    <3>4. sourceSeen[s][f] <= check[s].read[f] /\ f \in Reads[s]
      BY <2>3, <3>1, <3>2 DEF ReadsAreNew, OnlyReads, Accept
    <3>5. queue' = queue /\ \A i \in DOMAIN queue : queue[i].path \notin Reads[s]
      BY <3>1, NothingPending DEF Accept
    <3> QED BY <2>3, <3>2, <3>3, <3>4, <3>5, GraphAssumption
  <2> QED BY <2>2, <2>3
<1> QED BY <1>2, <1>3, <1>5, <1>6, <1>8, <1>9, <1>10, <1>11 DEF Next, Context

\* Every step keeps the invariant.
LEMMA StepInvariant == IInv /\ [Next]_vars => IInv'
<1> SUFFICES ASSUME IInv, [Next]_vars PROVE IInv'
  OBVIOUS
<1>1. TypeOK'
  BY TypeStep DEF IInv
<1>2. CASE Next
  BY <1>1, <1>2, RestStep, PhasesStep, OnlyReadsStep, PastStep, FencesStep, ReadsStep,
     ResultsStep DEF IInv
<1>3. CASE UNCHANGED vars
  <2> USE <1>3 DEF vars
  <2>1. AtRest' /\ PhasesOK' /\ OnlyReads' /\ Past'
    BY DEF IInv, AtRest, PhasesOK, OnlyReads, Past
  <2>2. FencesOK' /\ PendingOrdered(events)' /\ Fenced'
    BY DEF IInv, FencesOK, PendingOrdered, Fenced
  <2>3. ReadsAreNew' /\ ResultsAreNew'
    BY DEF IInv, ReadsAreNew, ResultsAreNew, Current, AtEase
  <2> QED BY <1>1, <2>1, <2>2, <2>3 DEF IInv
<1> QED BY <1>2, <1>3

\* The variables of a folder keep their types, for every set of sources and files and
\* every event limit: tokens and revisions never pass next, tickets and events carry
\* fences that were reserved, and no report waits for more events than are queued.
THEOREM TypeCorrect == Spec => []TypeOK
<1>1. IInv => TypeOK
  BY DEF IInv
<1> QED BY <1>1, InitInvariant, StepInvariant, PTL DEF Spec

\* Only accept displays a report.
LEMMA OnlyAcceptDisplays ==
  ASSUME TypeOK, [Next]_vars, NEW s \in Sources, result'[s] # result[s], result'[s] # NoFiles
  PROVE  Accept(s)
<1>1. CASE UNCHANGED vars
  BY <1>1 DEF vars
<1>2. ASSUME NEW f \in Files, Edit(f) \/ Save(f) \/ Deliver(f) PROVE FALSE
  BY <1>2, FileEvents
<1>3. CASE Fingerprint \/ Release \/ \E t \in Sources : Open(t)
  BY <1>3 DEF Fingerprint, Release, Open
<1>4. CASE Complete
  BY <1>4, CompleteParts
<1>5. CASE Refresh
  BY <1>5 DEF Refresh
<1>6. ASSUME NEW t \in Sources, Withdraw(t) PROVE FALSE
  BY <1>6, Types DEF Withdraw
<1>7. ASSUME NEW t \in Sources, Editor(t) PROVE Accept(s)
  <2>1. t = s
    <3>1. \A u \in Sources : u # t => result'[u] = result[u]
      <4>1. CASE Files = {}
        BY <1>7, <4>1, Types DEF Editor, Begin, Launch, Analyze, Observe, ReportChanged,
           AwaitContext, Reject, Accept, OnlyCheck
      <4>2. CASE Files # {}
        BY <1>7, <4>2, ReadMoves
      <4> QED BY <4>1, <4>2
    <3> QED BY <3>1
  <2>2. CASE ~Accept(s)
    BY <1>7, <2>1, <2>2 DEF Editor, Begin, Launch, Analyze, Observe, ReportChanged,
       AwaitContext, Reject, OnlyCheck
  <2> QED BY <2>2
<1> QED BY <1>1, <1>2, <1>3, <1>4, <1>5, <1>6, <1>7 DEF Next, Context

\* No step displays a report that a pending event of its files could outdate.
LEMMA NoPendingStep == IInv /\ [Next]_vars => AcceptsNoPending
<1> SUFFICES ASSUME IInv, [Next]_vars, NEW s \in Sources, result'[s] # result[s],
                    result'[s] # NoFiles, NEW i \in DOMAIN queue
             PROVE  queue[i].path \notin Reads[s]
  BY DEF AcceptsNoPending
<1>1. Accept(s)
  BY OnlyAcceptDisplays DEF IInv
<1> QED BY <1>1, NothingPending DEF Accept

\* Only a completed event leaves the queue of a folder with a root.
LEMMA OnlyCompleteDequeues ==
  ASSUME TypeOK, [Next]_vars, queue # <<>>, queue' = Tail(queue), active
  PROVE  Complete
<1>1. Len(queue') < Len(queue) /\ Len(queue) \in Nat
  BY Types
<1>2. queue' # queue
  BY <1>1
<1>3. ~ \E paths \in Seq(Files) : ContextEvents(paths)
  BY <1>1, QueuedFacts
<1>4. CASE UNCHANGED vars
  BY <1>2, <1>4 DEF vars
<1>5. ASSUME NEW f \in Files, Edit(f) \/ Save(f) \/ Deliver(f) PROVE FALSE
  BY <1>2, <1>3, <1>5, FileEvents
<1>6. CASE Fingerprint
  BY <1>1, <1>6, FingerprintFacts
<1>7. CASE Release \/ Complete
  BY <1>7 DEF Release
<1>8. CASE Refresh \/ \E s \in Sources : Withdraw(s) \/ Open(s)
  BY <1>2, <1>8 DEF Refresh, Withdraw, Open
<1>9. ASSUME NEW s \in Sources, Editor(s) PROVE FALSE
  <2>1. CASE UNCHANGED <<queue, events, floor>>
    BY <1>2, <2>1
  <2>2. CASE ReportChanged(s)
    <3>1. check[s].changed \in SUBSET Files
      BY Types DEF Checks
    <3>2. SetToSeq(check[s].changed) \in Seq(Files)
      BY <3>1, SetToSeqType
    <3> QED BY <1>2, <1>3, <2>2, <3>2 DEF ReportChanged
  <2> QED BY <1>9, <2>1, <2>2 DEF Editor, Begin, Launch, Analyze, Observe, AwaitContext,
             Reject, Accept, OnlyCheck
<1> QED BY <1>4, <1>5, <1>6, <1>7, <1>8, <1>9 DEF Next, Context

\* No step completes an event and forgets a result it outdates.
LEMMA ReachStep == IInv /\ [Next]_vars => CompletionAsksForChecks
<1> SUFFICES ASSUME IInv, [Next]_vars, NEW f \in Files, NEW s \in Sources,
                    queue # <<>>, queue' = Tail(queue), Head(queue).path = f, active,
                    result[s][f] \notin {0, Head(queue).seen}, check[s] = Idle
             PROVE  s \in wanted'
  BY DEF CompletionAsksForChecks
<1>1. Complete
  BY OnlyCompleteDequeues DEF IInv
<1>2. /\ Head(queue) = queue[1] /\ 1 \in DOMAIN queue /\ queue[1].path = f
      /\ queue[1].seen \in 1..MaxVersion
  BY <1>1, CompleteParts DEF IInv
<1>3. CASE s \in wanted
  BY <1>1, <1>3, CompleteMoves DEF IInv
<1>4. CASE s \notin wanted
  <2>1. sourceSeen[s][f] <= result[s][f] /\ queue[1].seen >= result[s][f]
    <3>1. queue[1].seen # 0
      BY <1>2, GraphAssumption
    <3> QED BY <1>2, <1>4, <3>1 DEF IInv, ResultsAreNew, AtEase
  <2>2. sourceSeen[s][f] \in Nat /\ result[s][f] \in Nat /\ queue[1].seen \in Nat
    BY <1>2, Types, GraphAssumption DEF IInv
  <2>3. sourceSeen[s][f] # queue[1].seen
    BY <1>2, <2>1, <2>2
  <2>4. s \in known /\ f \in Reads[s]
    BY DEF IInv, OnlyReads
  <2>5. s \in Affected(f, queue[1].seen)
    BY <2>3, <2>4 DEF Affected, Observers
  <2> QED BY <1>1, <1>2, <2>5, CompleteMoves DEF IInv
<1> QED BY <1>3, <1>4

\* While an event is pending no report that observes its file is accepted, whatever
\* was reserved, withdrawn or trimmed since the report was requested (lines 188-193).
THEOREM PendingIsFenced == Spec => PendingEventFences
<1> QED BY InitInvariant, StepInvariant, NoPendingStep, PTL DEF Spec, PendingEventFences

\* A completed event asks for a check of every displayed result it outdates, also when
\* another result of the file already took its version (lines 142-144).
THEOREM EventsReach == Spec => EventsReachResults
<1> QED BY InitInvariant, StepInvariant, ReachStep, PTL DEF Spec, EventsReachResults

-----------------------------------------------------------------------------
(* StaleIsNoticed, where every file has one reader and as long as no event  *)
(* of the folder was trimmed.                                              *)

\* Every file is read for one source only.
OneReader == \A s, t \in Sources : s # t => Reads[s] \cap Reads[t] = {}

\* Every event that waits for this folder is still in its list.
AllReserved == \A i \in DOMAIN queue : queue[i].graph = graph => Holds(events, queue[i])

\* Somebody will still report the version of f that is on disk.
Announced(f) ==
  \/ f \in undelivered
  \/ \E i \in DOMAIN queue : queue[i].path = f /\ queue[i].seen \in {0, disk[f]}

\* A completed event rejects the check of s for what it read of f.
Outdated(s, f) ==
  \E j \in DOMAIN events : /\ events[j].path = f /\ events[j].revision > check[s].token
                           /\ events[j].seen \notin {0, check[s].read[f]}

\* What a source displays without being checked is current, or the version on disk is
\* announced.
StaleAnnounced == \A s \in Sources, f \in Files : Stale(s, f) /\ AtEase(s) => Announced(f)

\* A current check that read something else than the disk holds will be rejected, or
\* the event to come asks for another; and the graph never knows better than both.
Overtaken ==
  \A s \in Sources, f \in Files : Current(s) /\ check[s].read[f] # 0 =>
    /\ check[s].read[f] # disk[f] => Announced(f) \/ Outdated(s, f)
    /\ folderSeen[f] > check[s].read[f] => Outdated(s, f)

\* Until the first event of the folder is trimmed, which raises the floor.
Untrimmed == floor = 0 => AllReserved /\ StaleAnnounced /\ Overtaken

\* Nothing trimmed: queueing keeps every event and every announcement.
LEMMA EventsKept ==
  ASSUME TypeOK, floor' = 0, graph' = graph,
         \/ UNCHANGED <<queue, events, floor>>
         \/ \E paths \in Seq(Files) : ContextEvents(paths)
  PROVE  /\ floor = 0
         /\ \A j \in DOMAIN events : \E k \in DOMAIN events' : events'[k] = events[j]
         /\ \A i \in DOMAIN queue : i \in DOMAIN queue' /\ queue'[i] = queue[i]
         /\ AllReserved => AllReserved'
<1>1. CASE UNCHANGED <<queue, events, floor>>
  BY <1>1 DEF AllReserved
<1>2. ASSUME NEW paths \in Seq(Files), ContextEvents(paths)
      PROVE  /\ floor = 0
             /\ \A j \in DOMAIN events : \E k \in DOMAIN events' : events'[k] = events[j]
             /\ \A i \in DOMAIN queue : i \in DOMAIN queue' /\ queue'[i] = queue[i]
             /\ AllReserved => AllReserved'
  <2>1. events' = Reserved(paths).events /\ floor' = Reserved(paths).floor
    BY <1>2 DEF ContextEvents
  <2>2. /\ floor = 0
        /\ \A j \in DOMAIN events : \E k \in DOMAIN events' : events'[k] = events[j]
        /\ \A i \in DOMAIN paths : \E k \in DOMAIN events' : events'[k] = Fence(i, paths[i])
    BY <2>1, ReservedUntrimmed
  <2>3. /\ \A i \in DOMAIN queue : i \in DOMAIN queue' /\ queue'[i] = queue[i]
        /\ \A i \in DOMAIN queue' : i \notin DOMAIN queue =>
             /\ i - Len(queue) \in DOMAIN paths
             /\ queue'[i] = Ticket(i - Len(queue), paths[i - Len(queue)])
    BY <1>2, QueuedFacts
  <2>4. ASSUME AllReserved, NEW i \in DOMAIN queue', queue'[i].graph = graph
        PROVE  Holds(events', queue'[i])
    <3>1. CASE i \in DOMAIN queue
      BY <2>2, <2>3, <2>4, <3>1 DEF AllReserved, Holds
    <3>2. CASE i \notin DOMAIN queue
      <4> DEFINE n == i - Len(queue)
      <4>1. n \in DOMAIN paths /\ queue'[i] = Ticket(n, paths[n])
        BY <2>3, <3>2
      <4> HIDE DEF n
      <4>2. PICK k \in DOMAIN events' : events'[k] = Fence(n, paths[n])
        BY <2>2, <4>1
      <4> QED BY <4>1, <4>2 DEF Holds, Fence, Ticket
    <3> QED BY <3>1, <3>2
  <2>5. AllReserved => AllReserved'
    BY <2>4 DEF AllReserved
  <2> QED BY <2>2, <2>3, <2>5
<1> QED BY <1>1, <1>2

\* Nothing trimmed: a completed event keeps the tickets behind it reserved and every
\* event completed before, and it leaves its own mark.
LEMMA CompletedEvents ==
  ASSUME IInv, Complete, floor' = 0, floor = 0 => AllReserved
  PROVE  /\ floor = 0
         /\ AllReserved'
         /\ \A j \in DOMAIN events : events[j].seen # 0 =>
              \E k \in DOMAIN events' : events'[k] = events[j]
         /\ ~Echo(queue[1].path, queue[1].seen) =>
              \E k \in DOMAIN events' : /\ events'[k].path = queue[1].path
                                        /\ events'[k].revision = 2 * (next + 1)
                                        /\ events'[k].seen = queue[1].seen
<1> USE DEF IInv
<1> DEFINE seen == queue[1].seen
           f == queue[1].path
<1>1. /\ queue # <<>> /\ Dequeue /\ graph' = graph /\ floor' = Start.floor
      /\ seen \in 1..MaxVersion /\ seen # 0 /\ 1 \in DOMAIN queue /\ Head(queue) = queue[1]
  BY CompleteParts, GraphAssumption
<1>2. /\ floor = 0
      /\ \A j \in DOMAIN events : \E k \in DOMAIN Start.events : Start.events[k] = events[j]
      /\ ~SameGraph => \E k \in DOMAIN Start.events : Start.events[k] = Fence(1, f)
      /\ Start.events \in Seq(EventsUpTo(fences', next)) /\ fences' \in Nat /\ next \in Nat
  BY <1>1, StartFacts, Types
<1>3. AllReserved
  BY <1>2
<1>4. \A i \in DOMAIN queue : queue[i].fence \in 1..fences
  <2>1. \A i \in DOMAIN queue : queue[i] \in TicketsUpTo(fences, graph)
    BY Types
  <2> QED BY <2>1 DEF TicketsUpTo
<1>5. \A j \in DOMAIN events : events[j].fence \in 1..fences
  <2>1. \A j \in DOMAIN events : events[j] \in EventsUpTo(fences, next)
    BY Types
  <2> QED BY <2>1 DEF EventsUpTo
<1>6. ASSUME NEW i \in DOMAIN queue, i # 1 PROVE queue[i].fence # Target
  <2>1. CASE SameGraph
    BY <1>1, <1>6, <2>1 DEF Target, FencesOK
  <2>2. CASE ~SameGraph
    BY <1>4, <2>2, Types DEF Target
  <2> QED BY <2>1, <2>2
<1>7. ASSUME NEW j \in DOMAIN events, events[j].seen # 0 PROVE events[j].fence # Target
  <2>1. CASE SameGraph
    BY <1>1, <1>7, <2>1 DEF Target, FencesOK
  <2>2. CASE ~SameGraph
    BY <1>5, <2>2, Types DEF Target
  <2> QED BY <2>1, <2>2
\* The list of events afterwards: only the event of the target differs.
<1>8. /\ \A ticket : Holds(Start.events, ticket) /\ ticket.fence # Target =>
           Holds(events', ticket)
      /\ \A k \in DOMAIN Start.events : Start.events[k].fence # Target =>
           \E j \in DOMAIN events' : events'[j] = Start.events[k]
  <2>1. CASE Echo(f, seen)
    <3>1. events' = Without(Start.events, Target)
      BY <2>1, CompleteParts
    <3> QED BY <1>2, <3>1, WithoutKeeps, WithoutFacts
  <2>2. CASE ~Echo(f, seen)
    <3> DEFINE rev == 2 * (next + 1)
    <3>1. rev \in Nat /\ rev > 2 * next + 1
      BY <1>2
    <3>2. events' = Marked(Start.events, Target, rev, seen)
      BY <2>2, CompleteParts
    <3> HIDE DEF rev, seen
    <3>3. \A ticket : Holds(Start.events, ticket) /\ ticket.fence # Target =>
            Holds(Marked(Start.events, Target, rev, seen), ticket)
      <4>1. /\ fences' \in Nat /\ next \in Nat /\ seen # 0
            /\ Start.events \in Seq(EventsUpTo(fences', next))
        BY <1>1, <1>2
      <4> HIDE DEF IInv
      <4> QED BY <3>1, <4>1, MarkedKeeps
    <3>4. ASSUME NEW k \in DOMAIN Start.events, Start.events[k].fence # Target
          PROVE  \E j \in DOMAIN events' : events'[j] = Start.events[k]
      BY <3>2, <3>4 DEF Marked
    <3> QED BY <3>2, <3>3, <3>4
  <2> QED BY <2>1, <2>2
<1>9. ASSUME NEW i \in DOMAIN queue', queue'[i].graph = graph PROVE Holds(events', queue'[i])
  <2>1. i + 1 \in DOMAIN queue /\ queue'[i] = queue[i + 1] /\ i + 1 # 1
    BY <1>1, DequeueFacts
  <2>2. Holds(events, queue[i + 1]) /\ queue[i + 1].fence # Target
    BY <1>3, <1>6, <1>9, <2>1 DEF AllReserved
  <2>3. Holds(Start.events, queue[i + 1])
    BY <1>2, <2>2 DEF Holds
  <2> QED BY <1>8, <2>1, <2>2, <2>3
<1>10. ASSUME NEW j \in DOMAIN events, events[j].seen # 0
       PROVE  \E k \in DOMAIN events' : events'[k] = events[j]
  BY <1>2, <1>7, <1>8, <1>10
<1>11. ASSUME ~Echo(f, seen)
       PROVE  \E k \in DOMAIN events' : /\ events'[k].path = f /\ events'[k].seen = seen
                                        /\ events'[k].revision = 2 * (next + 1)
  <2>1. events' = Marked(Start.events, Target, 2 * (next + 1), seen)
    BY <1>11, CompleteParts
  <2>2. PICK k \in DOMAIN Start.events :
          Start.events[k].fence = Target /\ Start.events[k].path = f
    <3>1. CASE SameGraph
      <4>1. Holds(events, queue[1]) /\ Target = queue[1].fence
        BY <1>1, <1>3, <3>1 DEF AllReserved, SameGraph, Target
      <4>2. Start.events = events
        BY <3>1 DEF Start
      <4> QED BY <4>1, <4>2 DEF Holds
    <3>2. CASE ~SameGraph
      <4>1. PICK k \in DOMAIN Start.events : Start.events[k] = Fence(1, f)
        BY <1>2, <3>2
      <4>2. Fence(1, f).fence = Target /\ Fence(1, f).path = f
        BY <3>2 DEF Fence, Target
      <4> QED BY <4>1, <4>2
    <3> QED BY <3>1, <3>2
  <2>3. Start.events[k] \in EventsUpTo(fences', next)
    BY <1>2
  <2>4. k \in DOMAIN events'
        /\ events'[k] = [Start.events[k] EXCEPT !.revision = 2 * (next + 1), !.seen = seen]
    BY <2>1, <2>2 DEF Marked
  <2>5. events'[k].path = f /\ events'[k].seen = seen /\ events'[k].revision = 2 * (next + 1)
    BY <2>2, <2>3, <2>4 DEF EventsUpTo
  <2> QED BY <2>4, <2>5
<1> QED BY <1>1, <1>2, <1>9, <1>10, <1>11 DEF AllReserved

\* What announces a file's version stays when its ticket does.
LEMMA AnnouncedStays ==
  ASSUME NEW f \in Files, Announced(f), disk'[f] = disk[f],
         f \in undelivered => f \in undelivered',
         \A i \in DOMAIN queue : queue[i].path = f =>
           \E k \in DOMAIN queue' : queue'[k] = queue[i]
  PROVE  Announced(f)'
BY DEF Announced

\* What rejects a check stays when the completed events do.
LEMMA OutdatedStays ==
  ASSUME NEW s \in Sources, NEW f \in Files, Outdated(s, f),
         check'[s].token = check[s].token, check'[s].read[f] = check[s].read[f],
         \A j \in DOMAIN events : events[j].seen # 0 =>
           \E k \in DOMAIN events' : events'[k] = events[j]
  PROVE  Outdated(s, f)'
BY DEF Outdated

\* A folder without a root has nothing to lose.
LEMMA RestIsUntrimmed ==
  ASSUME AtRest, OnlyReads, ~active
  PROVE  \A s \in Sources, f \in Files : result[s][f] = 0 /\ check[s].read[f] = 0
BY DEF AtRest, OnlyReads, Idle, NoFiles

\* A file that changes is announced by its watcher event, which becomes a ticket.
LEMMA FilesUntrimmed ==
  ASSUME IInv, Untrimmed, NEW f \in Files, Edit(f) \/ Save(f) \/ Deliver(f)
  PROVE  Untrimmed'
<1> SUFFICES ASSUME floor' = 0 PROVE AllReserved' /\ StaleAnnounced' /\ Overtaken'
  BY DEF Untrimmed
<1> USE DEF IInv
<1>1. /\ UNCHANGED <<active, graph, next, folderSeen, known, sourceSeen, revision, check,
                     wanted, result>>
      /\ \/ UNCHANGED <<queue, events, floor>>
         \/ \E paths \in Seq(Files) : ContextEvents(paths)
  BY FileEvents
<1>2. /\ floor = 0
      /\ \A j \in DOMAIN events : \E k \in DOMAIN events' : events'[k] = events[j]
      /\ \A i \in DOMAIN queue : i \in DOMAIN queue' /\ queue'[i] = queue[i]
      /\ AllReserved => AllReserved'
  BY <1>1, EventsKept
<1>3. AllReserved /\ StaleAnnounced /\ Overtaken
  BY <1>2 DEF Untrimmed
<1>4. CASE ~active
  <2>1. \A s \in Sources, g \in Files : result'[s][g] = 0 /\ check'[s].read[g] = 0
    BY <1>1, <1>4, RestIsUntrimmed
  <2>2. StaleAnnounced' /\ Overtaken'
    BY <2>1 DEF StaleAnnounced, Overtaken, Stale
  <2> QED BY <1>2, <1>3, <2>2
<1>5. CASE active
  <2>1. Announced(f)'
    <3>1. CASE Edit(f) \/ Save(f)
      BY <3>1 DEF Edit, Save, Announced
    <3>2. CASE Deliver(f)
      <4> DEFINE paths == <<f>>
                 n == Len(queue) + 1
      <4>1. paths \in Seq(Files) /\ Len(paths) = 1 /\ paths[1] = f
        OBVIOUS
      <4>2. ContextEvents(paths)
        BY <1>5, <3>2 DEF Deliver
      <4> HIDE DEF paths
      <4>3. n \in DOMAIN queue' /\ n \notin DOMAIN queue /\ n - Len(queue) = 1
        <5>1. /\ Len(queue') = Len(queue) + 1 /\ DOMAIN queue' = 1..Len(queue')
              /\ Len(queue) \in Nat /\ DOMAIN queue = 1..Len(queue)
          BY <4>1, <4>2, QueuedFacts, Types
        <5> QED BY <5>1
      <4> HIDE DEF n
      <4>4. queue'[n] = Ticket(1, f)
        BY <4>1, <4>2, <4>3, QueuedFacts
      <4> QED BY <4>3, <4>4 DEF Announced, Ticket
    <3> QED BY <3>1, <3>2
  <2>2. ASSUME NEW g \in Files, Announced(g) PROVE Announced(g)'
    <3>1. CASE g = f
      BY <2>1, <3>1
    <3>2. CASE g # f
      <4>1. disk'[g] = disk[g] /\ (g \in undelivered => g \in undelivered')
        BY <3>2, Types DEF Edit, Save, Deliver
      <4> QED BY <1>2, <2>2, <4>1, AnnouncedStays
    <3> QED BY <3>1, <3>2
  <2>3. ASSUME NEW s \in Sources, NEW g \in Files, Outdated(s, g) PROVE Outdated(s, g)'
    BY <1>1, <1>2, <2>3, OutdatedStays
  <2>4. \A g \in Files : g # f => disk'[g] = disk[g]
    BY Types DEF Edit, Save, Deliver
  <2>5. StaleAnnounced'
    <3> SUFFICES ASSUME NEW s \in Sources, NEW g \in Files, Stale(s, g)', AtEase(s)'
                 PROVE  Announced(g)'
      BY DEF StaleAnnounced
    <3>1. CASE g = f
      BY <2>1, <3>1
    <3>2. CASE g # f
      BY <1>1, <1>3, <2>2, <2>4, <3>2 DEF StaleAnnounced, Stale, AtEase
    <3> QED BY <3>1, <3>2
  <2>6. Overtaken'
    <3> SUFFICES ASSUME NEW s \in Sources, NEW g \in Files, Current(s)',
                        check'[s].read[g] # 0
                 PROVE  /\ check'[s].read[g] # disk'[g] => Announced(g)' \/ Outdated(s, g)'
                        /\ folderSeen'[g] > check'[s].read[g] => Outdated(s, g)'
      BY DEF Overtaken
    <3>1. Current(s) /\ check[s].read[g] # 0
      BY <1>1 DEF Current
    <3>2. folderSeen'[g] > check'[s].read[g] => Outdated(s, g)'
      BY <1>1, <1>3, <2>3, <3>1 DEF Overtaken
    <3>3. CASE g = f
      BY <2>1, <3>2, <3>3
    <3>4. CASE g # f
      BY <1>1, <1>3, <2>2, <2>3, <2>4, <3>1, <3>2, <3>4 DEF Overtaken
    <3> QED BY <3>3, <3>4
  <2> QED BY <1>2, <1>3, <2>5, <2>6
<1> QED BY <1>4, <1>5

\* A refreshed folder and a withdrawn source display nothing.
LEMMA FolderUntrimmed ==
  ASSUME IInv, Untrimmed, Refresh \/ \E s \in Sources : Withdraw(s) \/ Open(s)
  PROVE  Untrimmed'
<1> USE DEF IInv
<1>1. \A f \in Files : Idle.read[f] = 0 /\ NoFiles[f] = 0
  BY DEF Idle, NoFiles
<1>2. CASE Refresh
  <2>1. StaleAnnounced' /\ Overtaken'
    BY <1>1, <1>2 DEF Refresh, StaleAnnounced, Overtaken, Stale
  <2>2. \A i \in DOMAIN queue' : queue'[i].graph # graph'
    <3>1. \A i \in DOMAIN queue : queue[i] \in TicketsUpTo(fences, graph)
      BY Types
    <3>2. queue' = queue /\ graph' = graph + 1 /\ graph \in Nat
      BY <1>2, Types DEF Refresh
    <3> QED BY <3>1, <3>2 DEF TicketsUpTo
  <2> QED BY <2>1, <2>2 DEF Untrimmed, AllReserved
<1>3. ASSUME NEW s \in Sources, Withdraw(s) \/ Open(s) PROVE Untrimmed'
  <2>1. UNCHANGED <<disk, undelivered, active, graph, floor, events, folderSeen, queue>>
    BY <1>3 DEF Withdraw, Open
  <2>2. \A t \in Sources :
          \/ /\ result'[t] = result[t] /\ revision'[t] = revision[t] /\ check'[t] = check[t]
             /\ t \in wanted => t \in wanted'
          \/ result'[t] = NoFiles /\ check'[t] = Idle
    BY <1>3, Types DEF Withdraw, Open
  <2>3. \A f \in Files : Announced(f) => Announced(f)'
    BY <2>1 DEF Announced
  <2>4. ASSUME NEW t \in Sources, NEW f \in Files, check'[t] = check[t], Outdated(t, f)
        PROVE  Outdated(t, f)'
    BY <2>1, <2>4 DEF Outdated
  <2>5. ASSUME StaleAnnounced, NEW t \in Sources, NEW f \in Files, Stale(t, f)', AtEase(t)'
        PROVE  Announced(f)'
    BY <1>1, <2>1, <2>2, <2>3, <2>5 DEF StaleAnnounced, Stale, AtEase
  <2>6. ASSUME Overtaken, NEW t \in Sources, NEW f \in Files, Current(t)',
               check'[t].read[f] # 0
        PROVE  /\ check'[t].read[f] # disk'[f] => Announced(f)' \/ Outdated(t, f)'
               /\ folderSeen'[f] > check'[t].read[f] => Outdated(t, f)'
    <3>1. check'[t] = check[t] /\ revision'[t] = revision[t]
      BY <1>1, <2>2, <2>6
    <3> QED BY <2>1, <2>3, <2>4, <2>6, <3>1 DEF Overtaken, Current
  <2>7. AllReserved => AllReserved'
    BY <2>1 DEF AllReserved
  <2>8. /\ StaleAnnounced => StaleAnnounced'
        /\ Overtaken => Overtaken'
    BY <2>5, <2>6 DEF StaleAnnounced, Overtaken
  <2> QED BY <2>1, <2>7, <2>8 DEF Untrimmed
<1> QED BY <1>2, <1>3

\* Where a file has one reader, only that reader's report moves what the graph holds of
\* it; a report that something outdates is rejected.
LEMMA EditorUntrimmed ==
  ASSUME IInv, Untrimmed, OneReader, NEW s \in Sources, Editor(s)
  PROVE  Untrimmed'
<1> SUFFICES ASSUME floor' = 0 PROVE AllReserved' /\ StaleAnnounced' /\ Overtaken'
  BY DEF Untrimmed
<1> USE DEF IInv
<1>1. /\ \A t \in Sources : t # s => check'[t] = check[t]
      /\ UNCHANGED <<disk, undelivered, graph, next, revision>>
  BY CheckMoves
<1>2. /\ floor = 0
      /\ \A j \in DOMAIN events : \E k \in DOMAIN events' : events'[k] = events[j]
      /\ \A i \in DOMAIN queue : i \in DOMAIN queue' /\ queue'[i] = queue[i]
      /\ AllReserved => AllReserved'
  BY <1>1, CheckGoesOn, EventsKept
<1>3. AllReserved /\ StaleAnnounced /\ Overtaken
  BY <1>2 DEF Untrimmed
<1>4. ASSUME NEW f \in Files, Announced(f) PROVE Announced(f)'
  BY <1>1, <1>2, <1>4, AnnouncedStays
<1>5. ASSUME NEW t \in Sources, NEW f \in Files, Outdated(t, f),
             check'[t].token = check[t].token, check'[t].read[f] = check[t].read[f]
      PROVE  Outdated(t, f)'
  BY <1>2, <1>5, OutdatedStays
<1>6. ASSUME NEW t \in Sources, NEW f \in Files, Stale(t, f)', AtEase(t)'
      PROVE  Announced(f)'
  <2>1. CASE t # s
    <3>1. AtEase(t) /\ result'[t] = result[t]
      BY <1>1, <1>6, <2>1, CheckGoesOn, ReadMoves DEF AtEase
    <3> QED BY <1>1, <1>3, <1>4, <1>6, <3>1 DEF StaleAnnounced, Stale
  <2>2. CASE t = s
    <3>1. Accept(s)
      BY <1>6, <2>2, CheckGoesOn
    <3>2. result'[s] = check[s].read
      BY <3>1, ReadMoves
    <3>3. Current(s) /\ check[s].read[f] # 0 /\ check[s].read[f] # disk[f]
      BY <1>1, <1>6, <2>2, <3>1, <3>2 DEF Accept, Stale
    <3>4. ~Outdated(s, f)
      <4>1. f \in Reads[s]
        BY <3>3 DEF OnlyReads
      <4> QED BY <3>1, <4>1 DEF Accept, Rejected, Outdated
    <3> QED BY <1>3, <1>4, <3>3, <3>4 DEF Overtaken
  <2> QED BY <2>1, <2>2
<1>7. ASSUME NEW t \in Sources, NEW f \in Files, Current(t)', check'[t].read[f] # 0
      PROVE  /\ check'[t].read[f] # disk'[f] => Announced(f)' \/ Outdated(t, f)'
             /\ folderSeen'[f] > check'[t].read[f] => Outdated(t, f)'
  <2>1. CASE t # s
    <3>1. check'[t] = check[t] /\ Current(t)
      BY <1>1, <1>7, <2>1 DEF Current
    <3>2. f \in Reads[t]
      BY <1>7, <3>1 DEF OnlyReads
    <3>3. f \notin Reads[s]
      BY <2>1, <3>2 DEF OneReader
    <3>4. folderSeen'[f] = folderSeen[f]
      BY <3>3, ReadMoves
    <3> QED BY <1>1, <1>3, <1>4, <1>5, <1>7, <3>1, <3>4 DEF Overtaken
  <2>2. CASE t = s
    <3>1. check'[s].revision = check[s].revision /\ check'[s].token = check[s].token
      BY <1>7, <2>2, CheckGoesOn
    <3>2. ~Accept(s)
      <4>1. Idle.read[f] = 0
        BY DEF Idle, NoFiles
      <4> QED BY <1>7, <2>2, <4>1, Types DEF Accept, Step
    <3>3. folderSeen'[f] = folderSeen[f]
      BY <3>2, ReadMoves
    <3>4. CASE check'[s].read[f] = check[s].read[f]
      <4>1. Current(s) /\ check[s].read[f] # 0
        BY <1>1, <1>7, <2>2, <3>1, <3>4 DEF Current
      <4> QED BY <1>1, <1>3, <1>4, <1>5, <2>2, <3>1, <3>3, <3>4, <4>1 DEF Overtaken
    <3>5. CASE check'[s].read[f] = disk[f]
      <4>1. folderSeen[f] <= disk[f] /\ folderSeen[f] \in Nat /\ disk[f] \in Nat
        BY Types DEF Past, Versions
      <4> QED BY <1>1, <2>2, <3>3, <3>5, <4>1
    <3> QED BY <1>7, <2>2, <3>4, <3>5, ReadMoves
  <2> QED BY <2>1, <2>2
<1> QED BY <1>2, <1>3, <1>6, <1>7 DEF StaleAnnounced, Overtaken

\* A fingerprint is what is on disk now; without a root nothing is displayed.
LEMMA ContextUntrimmed ==
  ASSUME IInv, Untrimmed, Fingerprint \/ Release
  PROVE  Untrimmed'
<1> USE DEF IInv
<1>1. CASE Fingerprint
  <2>1. UNCHANGED <<disk, undelivered, graph, floor, events, folderSeen, revision, check,
                    wanted, result>>
    BY <1>1 DEF Fingerprint
  <2>2. /\ DOMAIN queue' = DOMAIN queue
        /\ \A i \in DOMAIN queue :
             /\ queue'[i].fence = queue[i].fence /\ queue'[i].path = queue[i].path
             /\ queue'[i].graph = queue[i].graph
             /\ queue'[i].seen \in {queue[i].seen, disk[queue[i].path]}
    BY <1>1, FingerprintFacts
  <2>3. \A f \in Files : Announced(f) => Announced(f)'
    BY <2>1, <2>2 DEF Announced
  <2>4. \A s \in Sources, f \in Files : Outdated(s, f) => Outdated(s, f)'
    BY <2>1 DEF Outdated
  <2>5. AllReserved => AllReserved'
    BY <2>1, <2>2 DEF AllReserved, Holds
  <2>6. StaleAnnounced => StaleAnnounced'
    BY <2>1, <2>3 DEF StaleAnnounced, Stale, AtEase
  <2>7. Overtaken => Overtaken'
    BY <2>1, <2>3, <2>4 DEF Overtaken, Current
  <2> QED BY <2>1, <2>5, <2>6, <2>7 DEF Untrimmed
<1>2. CASE Release
  <2>1. /\ floor' = floor /\ graph' = graph /\ result' = result /\ queue # <<>> /\ Dequeue
        /\ events' = Without(events, queue[1].fence) /\ 1 \in DOMAIN queue /\ ~active
    BY <1>2, DequeueFacts DEF Release
  <2>2. \A s \in Sources, f \in Files : result'[s][f] = 0 /\ check'[s].read[f] = 0
    BY <2>1, RestIsUntrimmed, DequeueFacts
  <2>3. StaleAnnounced' /\ Overtaken'
    BY <2>2 DEF StaleAnnounced, Overtaken, Stale
  <2>4. ASSUME AllReserved, NEW i \in DOMAIN queue', queue'[i].graph = graph
        PROVE  Holds(events', queue'[i])
    <3>1. i + 1 \in DOMAIN queue /\ queue'[i] = queue[i + 1] /\ i + 1 # 1
      BY <2>1, DequeueFacts
    <3>2. Holds(events, queue[i + 1]) /\ queue[i + 1].fence # queue[1].fence
      BY <2>1, <2>4, <3>1 DEF AllReserved, FencesOK
    <3>3. events \in Seq(EventsUpTo(fences, next))
      BY Types
    <3> QED BY <2>1, <3>1, <3>2, <3>3, WithoutKeeps
  <2>5. AllReserved => AllReserved'
    BY <2>1, <2>4 DEF AllReserved
  <2> QED BY <2>1, <2>3, <2>5 DEF Untrimmed
<1> QED BY <1>1, <1>2

\* The completed event answers for everyone who read another version of its file.
LEMMA CompleteUntrimmed ==
  ASSUME IInv, Untrimmed, Complete
  PROVE  Untrimmed'
<1> SUFFICES ASSUME floor' = 0 PROVE AllReserved' /\ StaleAnnounced' /\ Overtaken'
  BY DEF Untrimmed
<1> USE DEF IInv
<1> DEFINE seen == queue[1].seen
           g == queue[1].path
<1>1. /\ UNCHANGED <<disk, undelivered, graph, result, known>> /\ queue # <<>> /\ Dequeue
      /\ seen \in Nat /\ seen # 0 /\ 1 \in DOMAIN queue
      /\ \A s \in Sources : /\ check'[s].read = check[s].read
                            /\ check'[s].revision = check[s].revision
                            /\ check'[s].token = check[s].token
  BY CompleteParts, DequeueFacts, GraphAssumption
<1>2. /\ floor = 0 /\ AllReserved'
      /\ \A j \in DOMAIN events : events[j].seen # 0 =>
           \E k \in DOMAIN events' : events'[k] = events[j]
      /\ ~Echo(g, seen) => \E k \in DOMAIN events' : /\ events'[k].path = g
                                                     /\ events'[k].revision = 2 * (next + 1)
                                                     /\ events'[k].seen = seen
  BY CompletedEvents DEF Untrimmed
<1>3. AllReserved /\ StaleAnnounced /\ Overtaken
  BY <1>2 DEF Untrimmed
<1>4. \A i \in DOMAIN queue : i # 1 => i - 1 \in DOMAIN queue' /\ queue'[i - 1] = queue[i]
  BY <1>1, DequeueFacts
\* Only the announcement of the head itself goes away.
<1>5. ASSUME NEW f \in Files, Announced(f), f # g \/ seen # disk[f] PROVE Announced(f)'
  <2>1. CASE f \in undelivered
    BY <1>1, <2>1 DEF Announced
  <2>2. CASE \E i \in DOMAIN queue : queue[i].path = f /\ queue[i].seen \in {0, disk[f]}
    <3>1. PICK i \in DOMAIN queue : queue[i].path = f /\ queue[i].seen \in {0, disk[f]}
      BY <2>2
    <3>2. i # 1
      BY <1>1, <1>5, <3>1
    <3> QED BY <1>1, <1>4, <3>1, <3>2 DEF Announced
  <2> QED BY <1>5, <2>1, <2>2 DEF Announced
<1>6. ASSUME NEW s \in Sources, NEW f \in Files, Outdated(s, f) PROVE Outdated(s, f)'
  BY <1>1, <1>2, <1>6, OutdatedStays
<1>7. \A f \in Files, s \in Sources :
        /\ disk[f] \in Nat /\ result[s][f] \in Nat /\ sourceSeen[s][f] \in Nat
        /\ folderSeen[f] \in Nat /\ check[s].read[f] \in Nat
        /\ check[s].token \in Nat /\ check[s].token <= 2 * next /\ next \in Nat
  BY Types DEF Versions, Checks
<1>8. ASSUME NEW s \in Sources, NEW f \in Files, Stale(s, f)', AtEase(s)'
      PROVE  Announced(f)'
  <2>1. AtEase(s)
    <3>1. check[s].phase = "idle"
      <4>1. Idle.phase = "idle"
        BY DEF Idle
      <4> QED BY <1>1, <1>8, <4>1, DequeueFacts DEF AtEase
    <3> QED BY <1>8, <3>1, CompleteMoves DEF AtEase, PhasesOK
  <2>2. result[s][f] # 0 /\ result[s][f] # disk[f] /\ result[s][f] <= disk[f]
        /\ sourceSeen[s][f] <= result[s][f]
    BY <1>1, <1>8, <2>1 DEF Stale, Past, ResultsAreNew
  <2>3. Announced(f)
    BY <1>3, <2>1, <2>2 DEF StaleAnnounced, Stale
  <2>4. f # g \/ seen # disk[f]
    <3> SUFFICES ASSUME f = g, seen = disk[f] PROVE FALSE
      OBVIOUS
    <3>1. sourceSeen[s][f] # seen
      BY <1>7, <2>2
    <3>2. s \in Affected(g, seen)
      BY <2>2, <3>1 DEF Affected, Observers, OnlyReads
    <3> QED BY <1>8, <3>2, CompleteMoves DEF AtEase
  <2> QED BY <1>5, <2>3, <2>4
<1>9. ASSUME NEW s \in Sources, NEW f \in Files, Current(s)', check'[s].read[f] # 0
      PROVE  /\ check[s].read[f] # disk[f] => Announced(f)' \/ Outdated(s, f)'
             /\ folderSeen'[f] > check[s].read[f] => Outdated(s, f)'
  <2> DEFINE read == check[s].read[f]
  <2>1. Current(s) /\ read # 0
    <3>1. check[s].revision \in 0..next
      BY Types DEF Checks
    <3>2. check[s].revision # next + 1
      BY <1>7, <3>1
    <3> QED BY <1>1, <1>9, <3>2, CompleteMoves DEF Current
  <2>2. /\ read # disk[f] => Announced(f) \/ Outdated(s, f)
        /\ folderSeen[f] > read => Outdated(s, f)
    BY <1>3, <2>1 DEF Overtaken
  <2>3. read <= disk[f] /\ (f = g => seen <= disk[f])
    BY <1>1 DEF Past
  <2>4. \/ folderSeen'[f] = folderSeen[f]
        \/ f = g /\ folderSeen'[f] = seen /\ ~Echo(g, seen)
    BY CompleteMoves
  <2>5. ASSUME f = g, ~Echo(g, seen), read # seen PROVE Outdated(s, f)'
    <3>1. PICK k \in DOMAIN events' : /\ events'[k].path = g /\ events'[k].seen = seen
                                      /\ events'[k].revision = 2 * (next + 1)
      BY <1>2, <2>5
    <3>2. 2 * (next + 1) > check'[s].token
      BY <1>1, <1>7
    <3>3. events'[k].seen \notin {0, check'[s].read[f]}
      BY <1>1, <2>5, <3>1
    <3> QED BY <2>5, <3>1, <3>2, <3>3 DEF Outdated
  <2>6. CASE f # g
    BY <1>5, <1>6, <2>2, <2>4, <2>6
  <2>7. CASE f = g /\ read = seen
    BY <1>1, <1>5, <1>6, <1>7, <2>2, <2>4, <2>7
  <2>8. CASE f = g /\ read # seen /\ ~Echo(g, seen)
    BY <2>5, <2>8
  <2>9. CASE f = g /\ read # seen /\ Echo(g, seen)
    <3>1. folderSeen'[f] = seen /\ folderSeen[f] = seen
      BY <2>4, <2>9 DEF Echo
    <3>2. CASE seen > read
      BY <1>6, <2>2, <3>1, <3>2
    <3>3. CASE ~(seen > read)
      <4>1. seen # disk[f] /\ ~(folderSeen'[f] > read)
        BY <1>1, <1>7, <2>3, <2>9, <3>1, <3>3
      <4> QED BY <1>5, <1>6, <2>2, <4>1
    <3> QED BY <3>2, <3>3
  <2> QED BY <2>6, <2>7, <2>8, <2>9
<1> QED BY <1>1, <1>2, <1>8, <1>9 DEF StaleAnnounced, Overtaken

\* Every step keeps what is said of an untrimmed folder.
LEMMA UntrimmedStep ==
  ASSUME OneReader, IInv, Untrimmed, [Next]_vars
  PROVE  Untrimmed'
<1>1. CASE Next
  BY <1>1, FilesUntrimmed, ContextUntrimmed, CompleteUntrimmed, FolderUntrimmed,
     EditorUntrimmed DEF Next, Context
<1>2. CASE UNCHANGED vars
  BY <1>2 DEF vars, Untrimmed, AllReserved, StaleAnnounced, Overtaken, Announced, Outdated,
     Holds, Stale, Current, AtEase
<1> QED BY <1>1, <1>2

\* At first nothing is displayed and nothing read.
LEMMA InitUntrimmed == Init => Untrimmed
BY DEF Init, Untrimmed, AllReserved, StaleAnnounced, Overtaken, Stale, Idle, NoFiles

\* Whoever displays what the disk no longer holds hears of it.
LEMMA AnnouncedIsNoticed == Untrimmed /\ floor = 0 => StaleIsNoticed
BY DEF Untrimmed, StaleAnnounced, Announced, AtEase, StaleIsNoticed, Queued

\* Where every file has one reader, a displayed result that no longer matches the disk
\* never goes unnoticed, as long as the folder's events were never trimmed
\* (dependencies.ts:188-196, editor.ts applyContextEvent).
THEOREM StaleNeverUnnoticed ==
  ASSUME OneReader
  PROVE  Spec => [](floor = 0 => StaleIsNoticed)
<1>1. Init => IInv /\ Untrimmed
  BY InitInvariant, InitUntrimmed
<1>2. IInv /\ Untrimmed /\ [Next]_vars => IInv' /\ Untrimmed'
  BY OneReader, StepInvariant, UntrimmedStep
<1>3. IInv /\ Untrimmed => (floor = 0 => StaleIsNoticed)
  BY AnnouncedIsNoticed
<1> QED BY <1>1, <1>2, <1>3, PTL DEF Spec

=============================================================================
