------------------------ MODULE MCFolderRefreshProofs ------------------------
(***************************************************************************)
(* The properties of the run `folders'.  The first part is about           *)
(* MarkedRoots, for every finite set of folders, every set of directories  *)
(* and documents, and every number of inputs.  The second is about the two *)
(* instances of FolderRefresh, whose invariant is that of                  *)
(* FolderRefreshProofs.                                                    *)
(***************************************************************************)
EXTENDS MCFolderRefresh, FiniteSetTheorems, SequenceTheorems, TLAPS

Probes == [folder : Folders, invalidate : BOOLEAN, found : 0..version,
           stage : {"stat", "read", "path", "settled"}]

\* The latest probe of a root is a probe of that root's folder.
ProbesOwned ==
  \A f \in Folders : revision[f] # 0 => probes[revision[f]].folder = f

\* What is eligible is eligible under the canonical name of its source.
CanonicalOK ==
  \A f \in Folders :
    canonical[f] # None => source[f] # None /\ canonical[f] = Realpath[source[f]]

\* A probe on its way found the marker now on disk, if no event is about to say
\* otherwise, or if the root is eligible for that very marker: an event that is
\* ignored must not leave an older probe behind.
FoundCurrent ==
  \A f \in Folders :
    revision[f] # 0 /\ probes[revision[f]].stage \in {"read", "path"} =>
      \/ f \in events /\ (identity[f] = 0 \/ identity[f] # Marker(f))
      \/ probes[revision[f]].found = Marker(f)

\* A probe resolves its root only when it found a marker.
PathFound ==
  \A f \in Folders :
    revision[f] # 0 /\ probes[revision[f]].stage = "path" =>
      probes[revision[f]].found # 0

\* Disposal leaves no root.
DisposedOK == disposed => \A f \in Folders : source[f] = None

IInv ==
  /\ TypeOK
  /\ ProbesOwned
  /\ CanonicalOK
  /\ FoundCurrent
  /\ PathFound
  /\ DisposedOK
  /\ EligibilityIsCurrent
  /\ WatchersFollowRoots
  /\ EditorIsTold

-----------------------------------------------------------------------------
(* The operators the handlers share.                                       *)

\* A finite set, as a sequence, is a function onto the set.
LEMMA SetToSeqOnto ==
  ASSUME NEW S, IsFiniteSet(S)
  PROVE  /\ Cardinality(S) \in Nat
         /\ SetToSeq(S) \in [1..Cardinality(S) -> S]
         /\ \A x \in S : \E i \in 1..Cardinality(S) : SetToSeq(S)[i] = x
<1> DEFINE n == Cardinality(S)
<1>1. n \in Nat /\ ExistsBijection(1..n, S)
  BY FS_CardinalityType
<1>2. PICK b : b \in Bijection(1..n, S)
  BY <1>1 DEF ExistsBijection
<1>3. b \in [1..n -> S] /\ IsInjective(b)
  BY <1>2 DEF Bijection, Injection
<1>4. SetToSeq(S) \in [1..n -> S] /\ IsInjective(SetToSeq(S))
  BY <1>3 DEF SetToSeq
<1>5. SetToSeq(S) \in Injection(1..n, S)
  BY <1>4 DEF Injection
<1>6. IsFiniteSet(1..n) /\ Cardinality(1..n) = n
  BY <1>1, FS_Interval
<1>7. SetToSeq(S) \in Surjection(1..n, S)
  BY <1>5, <1>6, FS_Injection
<1> QED BY <1>1, <1>4, <1>7 DEF Surjection

\* Starting probes for a set of folders extends the probes, and gives exactly the
\* roots among those folders a new latest probe that has seen nothing yet.
LEMMA StartedEffect ==
  ASSUME RootsAssumption, TypeOK, NEW S \in SUBSET Folders, NEW invalidate \in BOOLEAN,
         source' \in [Folders -> Sources \cup {None}], version' = version,
         Started(S, invalidate)
  PROVE  /\ probes' \in Seq(Probes')
         /\ Len(probes) \in Nat /\ Len(probes') \in Nat /\ Len(probes) <= Len(probes')
         /\ \A p \in 1..Len(probes) : probes'[p] = probes[p]
         /\ revision' \in [Folders -> 0..Len(probes')]
         /\ \A f \in Folders : source'[f] = None => revision'[f] = 0
         /\ \A f \in Folders \ S : source'[f] # None => revision'[f] = revision[f]
         /\ \A f \in S : source'[f] # None =>
              /\ revision'[f] # 0
              /\ probes'[revision'[f]].folder = f
              /\ probes'[revision'[f]].stage = "stat"
<1> DEFINE order == SetToSeq(S)
           n == Cardinality(S)
           fresh == [i \in 1..n |-> [folder |-> order[i], invalidate |-> invalidate,
                                     found |-> 0, stage |-> "stat"]]
           place(f) == CHOOSE i \in 1..n : order[i] = f
<1>1. IsFiniteSet(S)
  BY FS_Subset DEF RootsAssumption
<1>2. /\ n \in Nat /\ order \in [1..n -> S] /\ DOMAIN order = 1..n
      /\ \A x \in S : \E i \in 1..n : order[i] = x
  BY <1>1, SetToSeqOnto
<1>3. /\ probes' = probes \o fresh
      /\ revision' = [f \in Folders |->
                        IF source'[f] = None THEN 0
                        ELSE IF f \notin S THEN revision[f]
                        ELSE Len(probes) + place(f)]
  BY <1>2 DEF Started
<1> HIDE DEF order, n
<1>4. probes \in Seq(Probes) /\ Probes' = Probes
  BY DEF TypeOK, Probes
<1>5. \A i \in 1..n : fresh[i] \in Probes
  BY <1>2 DEF Probes, TypeOK
<1>6. fresh \in Seq(Probes) /\ Len(fresh) = n
  BY <1>2, <1>5
<1> HIDE DEF fresh
<1>7. /\ probes' \in Seq(Probes)
      /\ Len(probes) \in Nat /\ Len(probes') = Len(probes) + n
      /\ \A i \in 1..Len(probes) + n :
           probes'[i] = IF i <= Len(probes) THEN probes[i] ELSE fresh[i - Len(probes)]
  BY <1>3, <1>4, <1>6, ConcatProperties, LenProperties
<1>8. ASSUME NEW f \in S
      PROVE  place(f) \in 1..n /\ order[place(f)] = f
  BY <1>2
<1> HIDE DEF place
<1>9. revision' \in [Folders -> 0..Len(probes')]
  <2>1. ASSUME NEW f \in Folders
        PROVE  (IF source'[f] = None THEN 0
                ELSE IF f \notin S THEN revision[f]
                ELSE Len(probes) + place(f)) \in 0..Len(probes')
    <3>1. revision[f] \in 0..Len(probes)
      BY DEF TypeOK
    <3>2. f \in S => place(f) \in 1..n
      BY <1>8
    <3> QED BY <1>2, <1>7, <3>1, <3>2
  <2> QED BY <1>3, <2>1
<1>10. ASSUME NEW f \in S, source'[f] # None
       PROVE  /\ revision'[f] # 0
              /\ probes'[revision'[f]].folder = f
              /\ probes'[revision'[f]].stage = "stat"
  <2>1. revision'[f] = Len(probes) + place(f)
    BY <1>3, <1>10
  <2>2. /\ revision'[f] \in 1..Len(probes) + n /\ ~(revision'[f] <= Len(probes))
        /\ revision'[f] - Len(probes) = place(f)
    BY <1>2, <1>7, <1>8, <2>1
  <2>3. probes'[revision'[f]] = fresh[place(f)]
    BY <1>7, <2>2
  <2>4. fresh[place(f)].folder = f /\ fresh[place(f)].stage = "stat"
    BY <1>8 DEF fresh
  <2> QED BY <2>2, <2>3, <2>4
<1>11. \A f \in Folders :
         /\ source'[f] = None => revision'[f] = 0
         /\ f \notin S /\ source'[f] # None => revision'[f] = revision[f]
  BY <1>3
<1>12. /\ probes' \in Seq(Probes')
       /\ Len(probes) \in Nat /\ Len(probes') \in Nat /\ Len(probes) <= Len(probes')
       /\ \A p \in 1..Len(probes) : probes'[p] = probes[p]
  BY <1>2, <1>4, <1>7
<1> QED BY <1>9, <1>10, <1>11, <1>12

\* synchronizeFileWatchers makes the watchers follow the roots it is given.
LEMMA SynchronizedEffect ==
  ASSUME RootsAssumption, TypeOK,
         source' \in [Folders -> Sources \cup {None}],
         canonical' \in [Folders -> Sources \cup {None}],
         \A f \in Folders : canonical'[f] # None => source'[f] # None,
         Synchronized(source', canonical')
  PROVE  /\ watched' \subseteq Sources
         /\ follows' \in [Documents -> Sources \cup {None}]
         /\ WatchersFollowRoots'
<1>1. watched' = {s \in Sources : \E f \in Folders :
                    canonical'[f] # None /\ s \in {source'[f], canonical'[f]}}
  BY DEF Synchronized, RootsAssumption
<1>2. follows' \in [Documents -> Sources \cup {None}]
  BY DEF Synchronized, TypeOK
<1>3. \A d \in Documents :
        follows'[d] # None => \E f \in Folders : canonical'[f] = follows'[d]
  BY DEF Synchronized
<1> QED BY <1>1, <1>2, <1>3 DEF WatchersFollowRoots

\* Replacing one probe changes nothing about the others.
LEMMA ReplacedEffect ==
  ASSUME TypeOK, NEW p \in DOMAIN probes, NEW probe \in Probes,
         probes' = [probes EXCEPT ![p] = probe]
  PROVE  /\ probes' \in Seq(Probes) /\ Len(probes') = Len(probes)
         /\ p \in 1..Len(probes) /\ probes'[p] = probe
         /\ \A q \in 1..Len(probes) : q # p => probes'[q] = probes[q]
<1>1. probes \in Seq(Probes) /\ p \in 1..Len(probes)
  BY LenProperties DEF TypeOK, Probes
<1> QED BY <1>1, ExceptSeq

\* Settling a probe changes nothing about the others and not whose it is.
LEMMA SettleEffect ==
  ASSUME TypeOK, NEW p \in DOMAIN probes, probes' = Settle(p), version' = version
  PROVE  /\ probes' \in Seq(Probes') /\ Len(probes') = Len(probes)
         /\ p \in 1..Len(probes)
         /\ probes'[p].folder = probes[p].folder /\ probes'[p].stage = "settled"
         /\ \A q \in 1..Len(probes) : q # p => probes'[q] = probes[q]
<1> DEFINE changed == [probes[p] EXCEPT !.stage = "settled", !.found = 0, !.invalidate = FALSE]
<1>1. /\ probes \in Seq(Probes) /\ Probes' = Probes
      /\ p \in 1..Len(probes) /\ 0 \in 0..version
  BY LenProperties DEF TypeOK, Probes
<1>2. probes[p] \in Probes
  BY <1>1, ElementOfSeq
<1>3. changed \in Probes /\ changed.folder = probes[p].folder /\ changed.stage = "settled"
  BY <1>1, <1>2 DEF Probes
<1>4. probes' = [probes EXCEPT ![p] = changed]
  BY <1>1 DEF Settle
<1> HIDE DEF changed
<1> QED BY <1>1, <1>3, <1>4, ReplacedEffect

\* Moving a probe to its next stage changes nothing about the others.
LEMMA StageEffect ==
  ASSUME TypeOK, NEW p \in DOMAIN probes, version' = version,
         NEW stage \in {"read", "path"}, NEW found \in 0..version,
         probes' = [probes EXCEPT ![p].stage = stage, ![p].found = found]
  PROVE  /\ probes' \in Seq(Probes') /\ Len(probes') = Len(probes)
         /\ p \in 1..Len(probes)
         /\ probes'[p].folder = probes[p].folder /\ probes'[p].stage = stage
         /\ probes'[p].found = found
         /\ \A q \in 1..Len(probes) : q # p => probes'[q] = probes[q]
<1> DEFINE changed == [probes[p] EXCEPT !.stage = stage, !.found = found]
<1>1. probes \in Seq(Probes) /\ Probes' = Probes /\ p \in 1..Len(probes)
  BY LenProperties DEF TypeOK, Probes
<1>2. probes[p] \in Probes
  BY <1>1, ElementOfSeq
<1>3. changed \in Probes /\ changed.folder = probes[p].folder /\ changed.stage = stage /\ changed.found = found
  BY <1>2 DEF Probes
<1>4. probes' = [probes EXCEPT ![p] = changed]
  BY <1>1
<1> HIDE DEF changed
<1> QED BY <1>1, <1>3, <1>4, ReplacedEffect

\* What a settling probe applies leaves the watchers and the editor in step with
\* the roots, and touches no other folder.
LEMMA AppliedEffect ==
  ASSUME RootsAssumption, IInv, NEW f \in Folders, source[f] # None, source' = source,
         disposed' = disposed,
         NEW name, NEW found \in 0..version, NEW invalidate \in BOOLEAN,
         name = IF found = 0 THEN None ELSE Realpath[source[f]],
         Applied(f, name, found, invalidate)
  PROVE  /\ canonical' \in [Folders -> Sources \cup {None}]
         /\ identity' \in [Folders -> 0..version]
         /\ watched' \subseteq Sources
         /\ follows' \in [Documents -> Sources \cup {None}]
         /\ told' \in [Folders -> Sources \cup {None}]
         /\ CanonicalOK' /\ WatchersFollowRoots' /\ EditorIsTold'
<1> USE DEF IInv
<1>1. name \in Sources \cup {None} /\ (name = None <=> found = 0)
  BY DEF RootsAssumption, TypeOK
<1>2. CASE invalidate \/ canonical[f] # name \/ identity[f] # found
  <2>1. /\ canonical' = [canonical EXCEPT ![f] = name]
        /\ identity' = [identity EXCEPT ![f] = found]
        /\ Synchronized(source, canonical')
        /\ told' = Fired({f}, canonical')
    BY <1>2 DEF Applied
  <2>2. /\ canonical' \in [Folders -> Sources \cup {None}]
        /\ identity' \in [Folders -> 0..version]
    BY <1>1, <2>1 DEF TypeOK
  <2>3. CanonicalOK'
    BY <1>1, <2>1 DEF CanonicalOK, TypeOK
  <2>4. /\ watched' \subseteq Sources
        /\ follows' \in [Documents -> Sources \cup {None}]
        /\ WatchersFollowRoots'
    BY <2>1, <2>2, <2>3, SynchronizedEffect DEF CanonicalOK, TypeOK
  <2>5. told' \in [Folders -> Sources \cup {None}] /\ EditorIsTold'
    BY <2>1, <2>2 DEF Fired, EditorIsTold, TypeOK
  <2> QED BY <2>2, <2>3, <2>4, <2>5
<1>3. CASE ~(invalidate \/ canonical[f] # name \/ identity[f] # found)
  <2>1. /\ canonical[f] = name /\ identity[f] = found
        /\ UNCHANGED <<canonical, identity, watched, follows, told>>
    BY <1>3 DEF Applied, watches
  <2>2. CanonicalOK'
    BY <2>1 DEF CanonicalOK
  <2>3. WatchersFollowRoots'
    BY <2>1 DEF WatchersFollowRoots
  <2>4. EditorIsTold'
    BY <2>1 DEF EditorIsTold
  <2> QED BY <2>1, <2>2, <2>3, <2>4 DEF TypeOK
<1> QED BY <1>2, <1>3

-----------------------------------------------------------------------------
(* The invariant.                                                          *)

\* Before the first configuration there is no root.
LEMMA InitInvariant == ASSUME RootsAssumption PROVE Init => IInv
<1> SUFFICES ASSUME Init PROVE IInv
  OBVIOUS
<1> USE DEF Init
<1>1. TypeOK
  <2>1. marker \in [Directories -> 0..version] /\ version \in Nat
    OBVIOUS
  <2>2. probes \in Seq(Probes) /\ Len(probes) = 0
    BY EmptySeq
  <2>3. /\ revision \in [Folders -> 0..Len(probes)]
        /\ identity \in [Folders -> 0..version]
        /\ inputs \in 0..MaxInputs
    BY <2>1, <2>2 DEF RootsAssumption
  <2>4. \A f \in Folders : /\ source[f] = None <=> revision[f] = 0
                           /\ canonical[f] = None <=> identity[f] = 0
    OBVIOUS
  <2> QED BY <2>1, <2>2, <2>3, <2>4 DEF TypeOK, Probes
<1>2. ProbesOwned /\ CanonicalOK /\ FoundCurrent /\ PathFound /\ DisposedOK
  BY DEF ProbesOwned, CanonicalOK, FoundCurrent, PathFound, DisposedOK
<1>3. EligibilityIsCurrent /\ WatchersFollowRoots /\ EditorIsTold
  BY DEF EligibilityIsCurrent, WatchersFollowRoots, EditorIsTold
<1> QED BY <1>1, <1>2, <1>3 DEF IInv

\* Starting probes keeps what is known of the folders that start none: the roots
\* among the others begin anew, and a folder without a source has no root.
LEMMA StartedInvariant ==
  ASSUME RootsAssumption, IInv, NEW S \in SUBSET Folders, NEW invalidate \in BOOLEAN,
         source' \in [Folders -> Sources \cup {None}], UNCHANGED disk,
         Started(S, invalidate),
         \A f \in Folders \ S : source'[f] # None =>
           /\ source'[f] = source[f]
           /\ canonical'[f] = canonical[f] /\ identity'[f] = identity[f]
           /\ f \in events' <=> f \in events
  PROVE  /\ probes' \in Seq(Probes')
         /\ Len(probes) \in Nat /\ Len(probes') \in Nat /\ Len(probes) <= Len(probes')
         /\ revision' \in [Folders -> 0..Len(probes')]
         /\ \A f \in Folders : source'[f] = None <=> revision'[f] = 0
         /\ ProbesOwned' /\ FoundCurrent' /\ PathFound' /\ EligibilityIsCurrent'
<1> USE DEF IInv
<1>1. version' = version /\ marker' = marker
  BY DEF disk
<1>2. /\ probes' \in Seq(Probes')
      /\ Len(probes) \in Nat /\ Len(probes') \in Nat /\ Len(probes) <= Len(probes')
      /\ \A p \in 1..Len(probes) : probes'[p] = probes[p]
      /\ revision' \in [Folders -> 0..Len(probes')]
      /\ \A f \in Folders : source'[f] = None => revision'[f] = 0
      /\ \A f \in Folders \ S : source'[f] # None => revision'[f] = revision[f]
      /\ \A f \in S : source'[f] # None =>
           /\ revision'[f] # 0
           /\ probes'[revision'[f]].folder = f
           /\ probes'[revision'[f]].stage = "stat"
  BY <1>1, StartedEffect
<1>3. ASSUME NEW f \in Folders \ S, source'[f] # None
      PROVE  /\ source[f] # None /\ revision[f] # 0
             /\ revision'[f] = revision[f]
             /\ probes'[revision'[f]] = probes[revision[f]]
             /\ source'[f] = source[f]
             /\ canonical'[f] = canonical[f] /\ identity'[f] = identity[f]
             /\ f \in events' <=> f \in events
             /\ Marker(f)' = Marker(f)
  <2>1. source'[f] = source[f] /\ source[f] # None /\ revision'[f] = revision[f]
    BY <1>2, <1>3
  <2>2. revision[f] \in 1..Len(probes)
    BY <1>2, <2>1 DEF TypeOK
  <2>3. Marker(f)' = Marker(f)
    BY <1>1, <2>1 DEF Marker
  <2> QED BY <1>2, <1>3, <2>1, <2>2, <2>3
<1>4. \A f \in Folders : source'[f] = None <=> revision'[f] = 0
  BY <1>2, <1>3
<1>5. ProbesOwned'
  BY <1>2, <1>3, <1>4 DEF ProbesOwned
<1>6. FoundCurrent'
  BY <1>2, <1>3, <1>4 DEF FoundCurrent
<1>7. PathFound'
  BY <1>2, <1>3, <1>4 DEF PathFound
<1>8. EligibilityIsCurrent'
  <2> SUFFICES ASSUME NEW f \in Folders,
                      revision'[f] # 0, Settled(revision[f])', f \notin events'
               PROVE  /\ identity'[f] = Marker(f)'
                      /\ canonical'[f] = IF Marker(f)' = 0 THEN None
                                         ELSE Realpath[source'[f]]
    BY DEF EligibilityIsCurrent
  <2>1. source'[f] # None /\ f \notin S
    BY <1>2, <1>4 DEF Settled
  <2> QED BY <1>3, <2>1 DEF EligibilityIsCurrent, Settled
<1> QED BY <1>2, <1>4, <1>5, <1>6, <1>7, <1>8

\* The bound on inputs is kept.
LEMMA InputEffect ==
  ASSUME RootsAssumption, TypeOK, Input
  PROVE  inputs' \in 0..MaxInputs
  BY DEF RootsAssumption, TypeOK, Input

\* configure keeps the invariant.
LEMMA ConfigureInvariant ==
  ASSUME RootsAssumption, IInv, NEW configured \in Configurations, Configure(configured)
  PROVE  IInv'
<1> DEFINE changed == {f \in Folders : source[f] # configured[f]}
           S == {f \in changed : configured[f] # None}
<1> USE DEF IInv
<1>1. /\ source' = configured /\ events' = events \ changed
      /\ canonical' = [f \in Folders |-> IF f \in changed THEN None ELSE canonical[f]]
      /\ identity' = [f \in Folders |-> IF f \in changed THEN 0 ELSE identity[f]]
      /\ told' = Fired(changed, canonical')
      /\ changed = {} => UNCHANGED <<watched, follows>>
      /\ changed # {} => Synchronized(configured, canonical')
      /\ Started(S, TRUE)
      /\ UNCHANGED disk /\ disposed' = disposed /\ waiting' = waiting /\ ~disposed
      /\ inputs' \in 0..MaxInputs
  BY InputEffect DEF Configure, Configured
<1>2. /\ source' \in [Folders -> Sources \cup {None}]
      /\ canonical' \in [Folders -> Sources \cup {None}]
      /\ version' = version /\ marker' = marker
  BY <1>1 DEF Configurations, TypeOK, disk
<1>3. identity' \in [Folders -> 0..version']
  BY <1>1, <1>2 DEF TypeOK
<1>4. /\ probes' \in Seq(Probes')
      /\ Len(probes) \in Nat /\ Len(probes') \in Nat /\ Len(probes) <= Len(probes')
      /\ revision' \in [Folders -> 0..Len(probes')]
      /\ \A f \in Folders : source'[f] = None <=> revision'[f] = 0
      /\ ProbesOwned' /\ FoundCurrent' /\ PathFound' /\ EligibilityIsCurrent'
  BY <1>1, <1>2, StartedInvariant
<1>5. CanonicalOK'
  BY <1>1 DEF CanonicalOK
<1>6. /\ watched' \subseteq Sources
      /\ follows' \in [Documents -> Sources \cup {None}]
      /\ WatchersFollowRoots'
  <2>1. CASE changed # {}
    BY <1>1, <1>2, <1>5, <2>1, SynchronizedEffect DEF CanonicalOK
  <2>2. CASE changed = {}
    <3>1. \A f \in Folders : source'[f] = source[f] /\ canonical'[f] = canonical[f]
      BY <1>1, <2>2
    <3>2. watched' = watched /\ follows' = follows
      BY <1>1, <2>2
    <3> QED BY <3>1, <3>2 DEF WatchersFollowRoots, TypeOK
  <2> QED BY <2>1, <2>2
<1>7. told' \in [Folders -> Sources \cup {None}] /\ EditorIsTold'
  BY <1>1, <1>2 DEF Fired, EditorIsTold, TypeOK
<1>8. TypeOK'
  <2>1. waiting' = <<>> \/ waiting' \in [Folders -> 0..Len(probes')]
    BY <1>1, <1>4 DEF TypeOK
  <2>2. \A f \in Folders : canonical'[f] = None <=> identity'[f] = 0
    BY <1>1 DEF TypeOK
  <2>3. /\ events' \subseteq Folders
        /\ marker' \in [Directories -> 0..version'] /\ version' \in Nat
    BY <1>1, <1>2 DEF TypeOK
  <2> QED BY <1>1, <1>2, <1>3, <1>4, <1>6, <1>7, <2>1, <2>2, <2>3 DEF TypeOK, Probes
<1> QED BY <1>1, <1>4, <1>5, <1>6, <1>7, <1>8 DEF DisposedOK

\* A watcher event that is no news changes nothing; any other revokes the marker
\* and starts a probe.
LEMMA NoticeInvariant ==
  ASSUME RootsAssumption, IInv, NEW f \in Folders, Notice(f)
  PROVE  IInv'
<1> USE DEF IInv
<1>1. /\ f \in events /\ ~disposed /\ events' = events \ {f}
      /\ UNCHANGED disk /\ version' = version /\ marker' = marker
      /\ disposed' = disposed /\ waiting' = waiting /\ inputs' = inputs
  BY DEF Notice, disk
<1>2. CASE Unchanged(f)
  <2>1. UNCHANGED <<owners, probes, watches>>
    BY <1>2 DEF Notice
  <2> USE DEF owners, watches
  <2>2. TypeOK'
    BY <1>1, <2>1 DEF TypeOK
  <2>3. (ProbesOwned /\ CanonicalOK /\ PathFound /\ DisposedOK)'
    BY <1>1, <2>1 DEF ProbesOwned, CanonicalOK, PathFound, DisposedOK
  <2>4. (WatchersFollowRoots /\ EditorIsTold)'
    BY <1>1, <2>1 DEF WatchersFollowRoots, EditorIsTold
  <2>5. \A g \in Folders : Marker(g)' = Marker(g)
    BY <1>1, <2>1 DEF Marker
  <2>6. /\ identity[f] = Marker(f) /\ Marker(f) # 0
        /\ canonical[f] = Realpath[source[f]]
    BY <1>2 DEF Unchanged, CanonicalOK, TypeOK
  <2>7. FoundCurrent'
    BY <1>1, <2>1, <2>5, <2>6 DEF FoundCurrent
  <2>8. EligibilityIsCurrent'
    BY <1>1, <2>1, <2>5, <2>6 DEF EligibilityIsCurrent, Settled
  <2> QED BY <2>2, <2>3, <2>4, <2>7, <2>8
<1>3. CASE ~Unchanged(f)
  <2>1. /\ source' = source
        /\ canonical' = [g \in Folders |-> IF g \in {f} THEN None ELSE canonical[g]]
        /\ identity' = [g \in Folders |-> IF g \in {f} THEN 0 ELSE identity[g]]
        /\ Synchronized(source, canonical')
        /\ told' = Fired({f}, canonical')
        /\ Started({f}, TRUE)
    BY <1>3 DEF Notice, StartProbe
  <2>2. /\ source' \in [Folders -> Sources \cup {None}]
        /\ canonical' \in [Folders -> Sources \cup {None}]
        /\ identity' \in [Folders -> 0..version']
    BY <1>1, <2>1 DEF TypeOK
  <2>3. /\ probes' \in Seq(Probes')
        /\ Len(probes) \in Nat /\ Len(probes') \in Nat /\ Len(probes) <= Len(probes')
        /\ revision' \in [Folders -> 0..Len(probes')]
        /\ \A g \in Folders : source'[g] = None <=> revision'[g] = 0
        /\ ProbesOwned' /\ FoundCurrent' /\ PathFound' /\ EligibilityIsCurrent'
    BY <1>1, <2>1, <2>2, StartedInvariant
  <2>4. CanonicalOK'
    BY <2>1 DEF CanonicalOK
  <2>5. /\ watched' \subseteq Sources
        /\ follows' \in [Documents -> Sources \cup {None}]
        /\ WatchersFollowRoots'
    BY <2>1, <2>2, <2>4, SynchronizedEffect DEF CanonicalOK
  <2>6. told' \in [Folders -> Sources \cup {None}] /\ EditorIsTold'
    BY <1>1, <2>1, <2>2 DEF Fired, EditorIsTold, TypeOK
  <2>7. TypeOK'
    <3>1. waiting' = <<>> \/ waiting' \in [Folders -> 0..Len(probes')]
      BY <1>1, <2>3 DEF TypeOK
    <3>2. \A g \in Folders : canonical'[g] = None <=> identity'[g] = 0
      BY <2>1 DEF TypeOK
    <3>3. /\ events' \subseteq Folders /\ inputs' \in 0..MaxInputs
          /\ marker' \in [Directories -> 0..version'] /\ version' \in Nat
      BY <1>1 DEF TypeOK
    <3> QED BY <1>1, <2>2, <2>3, <2>5, <2>6, <3>1, <3>2, <3>3 DEF TypeOK, Probes
  <2> QED BY <1>1, <2>1, <2>3, <2>4, <2>5, <2>6, <2>7 DEF DisposedOK
<1> QED BY <1>2, <1>3

\* A manual command probes roots that stay eligible meanwhile.
LEMMA RefreshInvariant ==
  ASSUME RootsAssumption, IInv, NEW S \in SUBSET Folders, Refresh(S)
  PROVE  IInv'
<1> DEFINE R == {f \in S : source[f] # None}
<1> USE DEF IInv
<1>1. /\ UNCHANGED <<source, canonical, identity, watched, follows, told>>
      /\ Started(R, FALSE) /\ ~disposed /\ inputs' \in 0..MaxInputs
      /\ UNCHANGED <<disk, marker, version, events, disposed, waiting>>
  BY InputEffect DEF Refresh, disk, watches
<1>2. /\ probes' \in Seq(Probes')
      /\ Len(probes) \in Nat /\ Len(probes') \in Nat /\ Len(probes) <= Len(probes')
      /\ revision' \in [Folders -> 0..Len(probes')]
      /\ \A g \in Folders : source'[g] = None <=> revision'[g] = 0
      /\ ProbesOwned' /\ FoundCurrent' /\ PathFound' /\ EligibilityIsCurrent'
  <2>1. source' \in [Folders -> Sources \cup {None}]
    BY <1>1 DEF TypeOK
  <2> QED BY <1>1, <2>1, StartedInvariant
<1>3. TypeOK'
  <2>1. waiting' = <<>> \/ waiting' \in [Folders -> 0..Len(probes')]
    BY <1>1, <1>2 DEF TypeOK
  <2> QED BY <1>1, <1>2, <2>1 DEF TypeOK, Probes
<1>4. (CanonicalOK /\ DisposedOK)'
  BY <1>1 DEF CanonicalOK, DisposedOK
<1>5. (WatchersFollowRoots /\ EditorIsTold)'
  BY <1>1 DEF WatchersFollowRoots, EditorIsTold
<1> QED BY <1>2, <1>3, <1>4, <1>5

\* A marker that changes is announced to every root it belongs to.
LEMMA ChangeInvariant ==
  ASSUME RootsAssumption, IInv, NEW s \in Directories, Change(s)
  PROVE  IInv'
<1> USE DEF IInv
<1>1. /\ UNCHANGED <<source, revision, canonical, identity, probes, watched, follows, told,
                     disposed, waiting>>
      /\ inputs' \in 0..MaxInputs
      /\ events' = events \cup {f \in Folders : Real(source[f]) = s}
  BY InputEffect DEF Change, owners, watches
<1>2. /\ version \in Nat /\ version' \in {version, version + 1}
      /\ marker' \in [Directories -> 0..version']
      /\ marker'[s] = 0 \/ marker'[s] = version + 1
      /\ \A t \in Directories \ {s} : marker'[t] = marker[t]
  <2>1. version \in Nat /\ marker \in [Directories -> 0..version]
    BY DEF TypeOK
  <2>2. CASE marker' = [marker EXCEPT ![s] = 0] /\ version' = version
    BY <2>1, <2>2
  <2>3. CASE version' = version + 1 /\ marker' = [marker EXCEPT ![s] = version + 1]
    <3>1. \A t \in Directories : marker'[t] \in 0..version'
      BY <2>1, <2>3
    <3>2. marker' \in [Directories -> 0..version']
      BY <2>1, <2>3, <3>1
    <3> QED BY <2>1, <2>3, <3>2
  <2> QED BY <2>2, <2>3 DEF Change
<1>3. TypeOK'
  <2>1. /\ events' \subseteq Folders /\ version' \in Nat
        /\ identity' \in [Folders -> 0..version']
    BY <1>1, <1>2 DEF TypeOK
  <2>2. probes' \in Seq(Probes')
    <3>1. Probes \subseteq Probes'
      BY <1>2 DEF Probes
    <3>2. probes \in Seq(Probes)
      BY DEF TypeOK, Probes
    <3> QED BY <1>1, <3>1, <3>2, SeqMonotonic
  <2> QED BY <1>1, <1>2, <2>1, <2>2 DEF TypeOK, Probes
<1>4. (ProbesOwned /\ CanonicalOK /\ PathFound /\ DisposedOK)'
  BY <1>1 DEF ProbesOwned, CanonicalOK, PathFound, DisposedOK
<1>5. (WatchersFollowRoots /\ EditorIsTold)'
  BY <1>1 DEF WatchersFollowRoots, EditorIsTold
<1>6. ASSUME NEW f \in Folders, revision[f] # 0
      PROVE  \/ f \notin events' /\ f \notin events /\ Marker(f)' = Marker(f)
             \/ f \in events' /\ f \in events /\ Marker(f)' = Marker(f)
             \/ f \in events' /\ (identity[f] = 0 \/ identity[f] # Marker(f)')
  <2>1. source[f] \in Sources /\ source[f] # None
    BY <1>6 DEF TypeOK
  <2>2. CASE Realpath[source[f]] = s
    <3>1. f \in events'
      BY <1>1, <2>1, <2>2 DEF Real
    <3>2. Marker(f)' \in {0, version + 1}
      BY <1>1, <1>2, <2>2 DEF Marker
    <3>3. identity[f] \in 0..version
      BY DEF TypeOK
    <3> QED BY <1>2, <3>1, <3>2, <3>3
  <2>3. CASE Realpath[source[f]] # s
    <3>1. Realpath[source[f]] \in Directories
      BY <2>1 DEF Directories
    <3>2. Marker(f)' = Marker(f)
      BY <1>1, <1>2, <2>3, <3>1 DEF Marker
    <3>3. f \in events' <=> f \in events
      BY <1>1, <2>1, <2>3 DEF Real
    <3> QED BY <3>2, <3>3
  <2> QED BY <2>2, <2>3
<1>7. FoundCurrent'
  BY <1>1, <1>6 DEF FoundCurrent
<1>8. EligibilityIsCurrent'
  BY <1>1, <1>6 DEF EligibilityIsCurrent, Settled
<1> QED BY <1>3, <1>4, <1>5, <1>7, <1>8

\* The file system's look at the marker is current when it is taken.
LEMMA LstatInvariant ==
  ASSUME RootsAssumption, IInv, NEW p \in DOMAIN probes, Lstat(p)
  PROVE  IInv'
<1> PICK f : f = probes[p].folder
  OBVIOUS
<1> USE DEF IInv
<1>1. /\ UNCHANGED <<marker, version, events, source, revision, canonical, identity,
                     watched, follows, told, disposed, waiting, inputs>>
      /\ revision[f] = p /\ probes[p].stage = "stat"
  BY DEF Lstat, Current, disk, owners, watches
<1>2. p \in 1..Len(probes) /\ f \in Folders /\ p # 0
  <2>1. probes \in Seq(Probes)
    BY DEF TypeOK, Probes
  <2>2. p \in 1..Len(probes) /\ probes[p] \in Probes
    BY <2>1, LenProperties, ElementOfSeq
  <2> QED BY <2>2 DEF Probes
<1>3. Marker(f) \in 0..version
  <2>1. source[f] \in Sources
    BY <1>1, <1>2 DEF TypeOK
  <2> QED BY <2>1 DEF TypeOK, Marker, Directories
<1>4. /\ probes' \in Seq(Probes') /\ Len(probes') = Len(probes)
      /\ probes'[p].folder = probes[p].folder /\ probes'[p].stage = "read"
      /\ probes'[p].found = Marker(f)
      /\ \A q \in 1..Len(probes) : q # p => probes'[q] = probes[q]
  <2>1. probes' = [probes EXCEPT ![p].stage = "read", ![p].found = Marker(f)]
    BY DEF Lstat
  <2> QED BY <1>1, <1>3, <2>1, StageEffect
<1>5. ASSUME NEW g \in Folders, revision[g] # 0
      PROVE  \/ g = f /\ revision[g] = p
             \/ revision[g] # p /\ probes'[revision[g]] = probes[revision[g]]
  <2>1. revision[g] \in 1..Len(probes)
    BY <1>5 DEF TypeOK
  <2> QED BY <1>4, <1>5, <2>1 DEF ProbesOwned
<1>6. \A g \in Folders : Marker(g)' = Marker(g)
  BY <1>1 DEF Marker
<1>7. TypeOK'
  BY <1>1, <1>4 DEF TypeOK, Probes
<1>8. ProbesOwned'
  BY <1>1, <1>4, <1>5 DEF ProbesOwned
<1>9. FoundCurrent'
  BY <1>1, <1>4, <1>5, <1>6 DEF FoundCurrent
<1>10. PathFound'
  BY <1>1, <1>4, <1>5 DEF PathFound
<1>11. EligibilityIsCurrent'
  BY <1>1, <1>4, <1>5, <1>6 DEF EligibilityIsCurrent, Settled
<1>12. (CanonicalOK /\ DisposedOK /\ WatchersFollowRoots /\ EditorIsTold)'
  BY <1>1 DEF CanonicalOK, DisposedOK, WatchersFollowRoots, EditorIsTold
<1> QED BY <1>7, <1>8, <1>9, <1>10, <1>11, <1>12

\* A probe that ends keeps the invariant: one that still speaks for its root tells
\* what it found, any other changes nothing.
LEMMA SettleInvariant ==
  ASSUME RootsAssumption, IInv, NEW p \in DOMAIN probes, NEW f, f = probes[p].folder,
         UNCHANGED <<disk, events, source, revision, disposed, waiting, inputs>>,
         probes' = Settle(p),
         \/ ~Current(p) /\ UNCHANGED <<canonical, identity, watches>>
         \/ /\ Current(p)
            /\ probes[p].stage \in {"read", "path"}
            /\ Applied(f, IF probes[p].found = 0 THEN None ELSE Realpath[source[f]],
                       probes[p].found, probes[p].invalidate)
  PROVE  IInv'
<1> USE DEF IInv
<1>1. UNCHANGED <<marker, version, events, source, revision, disposed, waiting, inputs>>
  BY DEF disk
<1>2. /\ p \in 1..Len(probes) /\ p # 0
      /\ f \in Folders /\ probes[p].found \in 0..version
      /\ probes[p].invalidate \in BOOLEAN
  <2>1. probes \in Seq(Probes)
    BY DEF TypeOK, Probes
  <2>2. p \in 1..Len(probes) /\ probes[p] \in Probes
    BY <2>1, LenProperties, ElementOfSeq
  <2> QED BY <2>2 DEF Probes
<1>3. /\ probes' \in Seq(Probes') /\ Len(probes') = Len(probes)
      /\ probes'[p].folder = f /\ probes'[p].stage = "settled"
      /\ \A q \in 1..Len(probes) : q # p => probes'[q] = probes[q]
  BY <1>1, SettleEffect
<1>4. \A g \in Folders : Marker(g)' = Marker(g)
  BY <1>1 DEF Marker
<1>5. ASSUME NEW g \in Folders, revision[g] # 0
      PROVE  \/ g = f /\ revision[g] = p
             \/ revision[g] # p /\ probes'[revision[g]] = probes[revision[g]]
  <2>1. revision[g] \in 1..Len(probes)
    BY <1>5 DEF TypeOK
  <2> QED BY <1>3, <1>5, <2>1 DEF ProbesOwned
<1>6. ProbesOwned'
  BY <1>1, <1>3, <1>5 DEF ProbesOwned
<1>7. DisposedOK'
  BY <1>1 DEF DisposedOK
<1>8. CASE ~Current(p) /\ UNCHANGED <<canonical, identity, watches>>
  <2>1. UNCHANGED <<canonical, identity, watched, follows, told>>
    BY <1>8 DEF watches
  <2>2. \A g \in Folders : revision[g] # 0 =>
          revision[g] # p /\ probes'[revision[g]] = probes[revision[g]]
    BY <1>5, <1>8 DEF Current
  <2>3. TypeOK'
    BY <1>1, <1>3, <2>1 DEF TypeOK, Probes
  <2>4. FoundCurrent' /\ PathFound'
    BY <1>1, <1>4, <2>1, <2>2 DEF FoundCurrent, PathFound
  <2>5. EligibilityIsCurrent'
    BY <1>1, <1>4, <2>1, <2>2 DEF EligibilityIsCurrent, Settled
  <2>6. (CanonicalOK /\ WatchersFollowRoots /\ EditorIsTold)'
    BY <1>1, <2>1 DEF CanonicalOK, WatchersFollowRoots, EditorIsTold
  <2> QED BY <1>6, <1>7, <2>3, <2>4, <2>5, <2>6
<1>9. CASE /\ Current(p)
           /\ probes[p].stage \in {"read", "path"}
           /\ Applied(f, IF probes[p].found = 0 THEN None ELSE Realpath[source[f]],
                      probes[p].found, probes[p].invalidate)
  <2>0. PICK found, name, invalidate :
         /\ found = probes[p].found /\ invalidate = probes[p].invalidate
         /\ name = IF found = 0 THEN None ELSE Realpath[source[f]]
    OBVIOUS
  <2>1. revision[f] = p /\ source[f] # None
    BY <1>2, <1>9 DEF Current, TypeOK
  <2>2. /\ canonical'[f] = name /\ identity'[f] = found
        /\ \A g \in Folders \ {f} :
             canonical'[g] = canonical[g] /\ identity'[g] = identity[g]
        /\ canonical' \in [Folders -> Sources \cup {None}]
        /\ identity' \in [Folders -> 0..version]
        /\ watched' \subseteq Sources
        /\ follows' \in [Documents -> Sources \cup {None}]
        /\ told' \in [Folders -> Sources \cup {None}]
        /\ CanonicalOK' /\ WatchersFollowRoots' /\ EditorIsTold'
    <3>1. Applied(f, name, found, invalidate)
      BY <1>9, <2>0
    <3>2. found \in 0..version /\ invalidate \in BOOLEAN
      BY <1>2, <2>0
    <3> HIDE DEF IInv
    <3>3. source' = source /\ disposed' = disposed /\ source[f] # None
      BY <1>1, <2>1
    <3>4. name = IF found = 0 THEN None ELSE Realpath[source[f]]
      BY <2>0
    <3>5. f \in Folders
      BY <1>2
    <3>6. /\ canonical'[f] = name /\ identity'[f] = found
          /\ \A g \in Folders \ {f} :
               canonical'[g] = canonical[g] /\ identity'[g] = identity[g]
      BY <3>1, <3>5 DEF Applied, IInv, TypeOK
    <3>7. /\ canonical' \in [Folders -> Sources \cup {None}]
          /\ identity' \in [Folders -> 0..version]
          /\ watched' \subseteq Sources
          /\ follows' \in [Documents -> Sources \cup {None}]
          /\ told' \in [Folders -> Sources \cup {None}]
      BY <3>1, <3>2, <3>3, <3>4, <3>5, AppliedEffect
    <3>8. CanonicalOK' /\ WatchersFollowRoots' /\ EditorIsTold'
      BY <3>1, <3>2, <3>3, <3>4, <3>5, AppliedEffect
    <3> QED BY <3>6, <3>7, <3>8
  <2>3. name = None <=> found = 0
    BY <1>2, <2>0, <2>1 DEF RootsAssumption, TypeOK
  <2>4. \A g \in Folders : identity'[g] = 0 <=> canonical'[g] = None
    BY <2>2, <2>3 DEF TypeOK
  <2>5. TypeOK'
    <3>1. /\ revision' \in [Folders -> 0..Len(probes')]
          /\ waiting' = <<>> \/ waiting' \in [Folders -> 0..Len(probes')]
      BY <1>1, <1>3 DEF TypeOK
    <3>2. /\ canonical' \in [Folders -> Sources \cup {None}]
          /\ identity' \in [Folders -> 0..version]
          /\ watched' \subseteq Sources
          /\ follows' \in [Documents -> Sources \cup {None}]
          /\ told' \in [Folders -> Sources \cup {None}]
      BY <2>2
    <3> QED BY <1>1, <1>3, <2>4, <3>1, <3>2 DEF TypeOK, Probes
  <2>6. \A g \in Folders : revision[g] # 0 /\ probes'[revision[g]].stage # "settled" =>
          g # f /\ probes'[revision[g]] = probes[revision[g]]
    BY <1>3, <1>5, <2>1
  <2>7. FoundCurrent' /\ PathFound'
    BY <1>1, <1>4, <2>2, <2>6 DEF FoundCurrent, PathFound
  <2>8. EligibilityIsCurrent'
    <3> SUFFICES ASSUME NEW g \in Folders,
                        revision[g] # 0, Settled(revision[g])', g \notin events
                 PROVE  /\ identity'[g] = Marker(g)
                        /\ canonical'[g] = IF Marker(g) = 0 THEN None
                                           ELSE Realpath[source[g]]
      BY <1>1, <1>4 DEF EligibilityIsCurrent
    <3>1. CASE g = f
      <4>1. found = Marker(f)
        BY <1>2, <1>9, <2>0, <2>1, <3>1 DEF FoundCurrent
      <4> QED BY <2>0, <2>2, <3>1, <4>1
    <3>2. CASE g # f
      <4>1. Settled(revision[g])
        BY <1>5, <3>2 DEF Settled
      <4> QED BY <2>2, <3>2, <4>1 DEF EligibilityIsCurrent
    <3> QED BY <3>1, <3>2
  <2> QED BY <1>6, <1>7, <2>2, <2>5, <2>7, <2>8
<1> QED BY <1>8, <1>9

\* Every step of a probe keeps the invariant.
LEMMA ProbeInvariant ==
  ASSUME RootsAssumption, IInv, NEW p \in DOMAIN probes, Probe(p)
  PROVE  IInv'
<1> PICK f : f = probes[p].folder
  OBVIOUS
<1>1. /\ p \in 1..Len(probes) /\ p # 0
      /\ f \in Folders /\ probes[p].found \in 0..version
  <2>1. probes \in Seq(Probes)
    BY DEF IInv, TypeOK, Probes
  <2>2. p \in 1..Len(probes) /\ probes[p] \in Probes
    BY <2>1, LenProperties, ElementOfSeq
  <2> QED BY <2>2 DEF Probes
<1>2. CASE Lstat(p)
  BY <1>2, LstatInvariant
<1>3. CASE LstatReturns(p) /\ ~Current(p)
  <2>1. /\ UNCHANGED <<disk, events, source, revision, disposed, waiting, inputs>>
        /\ UNCHANGED <<canonical, identity, watches>>
        /\ probes' = Settle(p)
    BY <1>3 DEF LstatReturns
  <2> QED BY <1>3, <2>1, SettleInvariant
<1>4. CASE LstatReturns(p) /\ Current(p) /\ probes[p].found = 0
  <2>1. /\ UNCHANGED <<disk, events, source, revision, disposed, waiting, inputs>>
        /\ Applied(f, None, 0, probes[p].invalidate)
        /\ probes' = Settle(p) /\ probes[p].stage = "read"
    BY <1>4 DEF LstatReturns
  <2>2. Applied(f, IF probes[p].found = 0 THEN None ELSE Realpath[source[f]],
                probes[p].found, probes[p].invalidate)
    BY <1>4, <2>1
  <2> QED BY <1>4, <2>1, <2>2, SettleInvariant
<1>5. CASE LstatReturns(p) /\ Current(p) /\ probes[p].found # 0
  <2> USE DEF IInv
  <2>1. /\ UNCHANGED <<marker, version, events, source, revision, canonical, identity,
                       watched, follows, told, disposed, waiting, inputs>>
        /\ revision[f] = p /\ probes[p].stage = "read"
    BY <1>5 DEF LstatReturns, Current, disk, watches
  <2>2. /\ probes' \in Seq(Probes') /\ Len(probes') = Len(probes)
        /\ probes'[p].folder = probes[p].folder /\ probes'[p].stage = "path"
        /\ probes'[p].found = probes[p].found
        /\ \A q \in 1..Len(probes) : q # p => probes'[q] = probes[q]
    <3>1. probes' = [probes EXCEPT ![p].stage = "path"]
      BY <1>5 DEF LstatReturns
    <3>2. probes' = [probes EXCEPT ![p] = [probes[p] EXCEPT !.stage = "path"]]
      BY <3>1
    <3>3. probes[p] \in Probes /\ Probes' = Probes
      <4>1. probes \in Seq(Probes)
        BY DEF TypeOK, Probes
      <4> QED BY <1>1, <2>1, <4>1, ElementOfSeq DEF Probes
    <3>4. [probes[p] EXCEPT !.stage = "path"] \in Probes
      BY <3>3 DEF Probes
    <3>5. /\ probes' \in Seq(Probes) /\ Len(probes') = Len(probes)
          /\ probes'[p] = [probes[p] EXCEPT !.stage = "path"]
          /\ \A q \in 1..Len(probes) : q # p => probes'[q] = probes[q]
      BY <3>2, <3>4, ReplacedEffect
    <3> QED BY <3>3, <3>5 DEF Probes
  <2>3. ASSUME NEW g \in Folders, revision[g] # 0
        PROVE  \/ g = f /\ revision[g] = p
               \/ revision[g] # p /\ probes'[revision[g]] = probes[revision[g]]
    <3>1. revision[g] \in 1..Len(probes)
      BY <2>3 DEF TypeOK
    <3> QED BY <2>2, <2>3, <3>1 DEF ProbesOwned
  <2>4. \A g \in Folders : Marker(g)' = Marker(g)
    BY <2>1 DEF Marker
  <2>5. TypeOK'
    BY <2>1, <2>2 DEF TypeOK, Probes
  <2>6. ProbesOwned'
    BY <2>1, <2>2, <2>3 DEF ProbesOwned
  <2>7. FoundCurrent'
    BY <1>1, <2>1, <2>2, <2>3, <2>4 DEF FoundCurrent
  <2>8. PathFound'
    BY <1>5, <2>1, <2>2, <2>3 DEF PathFound
  <2>9. EligibilityIsCurrent'
    BY <2>1, <2>2, <2>3, <2>4 DEF EligibilityIsCurrent, Settled
  <2>10. (CanonicalOK /\ DisposedOK /\ WatchersFollowRoots /\ EditorIsTold)'
    BY <2>1 DEF CanonicalOK, DisposedOK, WatchersFollowRoots, EditorIsTold
  <2> QED BY <2>5, <2>6, <2>7, <2>8, <2>9, <2>10
<1>6. CASE RealpathReturns(p) /\ ~Current(p)
  <2>1. /\ UNCHANGED <<disk, events, source, revision, disposed, waiting, inputs>>
        /\ UNCHANGED <<canonical, identity, watches>>
        /\ probes' = Settle(p)
    BY <1>6 DEF RealpathReturns
  <2> QED BY <1>6, <2>1, SettleInvariant
<1>7. CASE RealpathReturns(p) /\ Current(p)
  <2>1. /\ UNCHANGED <<disk, events, source, revision, disposed, waiting, inputs>>
        /\ Applied(f, Real(source[f]), probes[p].found, probes[p].invalidate)
        /\ probes' = Settle(p) /\ probes[p].stage = "path"
    BY <1>7 DEF RealpathReturns
  <2>2. revision[f] = p /\ source[f] # None
    BY <1>1, <1>7 DEF Current, IInv, TypeOK
  <2>3. probes[p].found # 0
    BY <1>1, <2>1, <2>2 DEF IInv, PathFound
  <2>4. Applied(f, IF probes[p].found = 0 THEN None ELSE Realpath[source[f]],
                probes[p].found, probes[p].invalidate)
    BY <2>1, <2>2, <2>3 DEF Real
  <2> QED BY <1>7, <2>1, <2>4, SettleInvariant
<1> QED BY <1>2, <1>3, <1>4, <1>5, <1>6, <1>7 DEF Probe

\* A repeated event, the documents' watchers, ready() and disposal keep the invariant.
LEMMA OtherInvariant ==
  ASSUME RootsAssumption, IInv,
         \/ \E f \in Folders : Echo(f)
         \/ \E d \in Documents : ForgetSource(d) \/ \E s \in Sources : WatchSource(d, s)
         \/ ReadyCall \/ ReadyResume \/ Dispose
         \/ UNCHANGED vars
  PROVE  IInv'
<1> USE DEF IInv, disk, owners, watches
<1> DEFINE Parts == /\ ProbesOwned /\ CanonicalOK /\ FoundCurrent /\ PathFound
                    /\ EligibilityIsCurrent
<1>1. ASSUME UNCHANGED <<disk, owners, probes>>, events \subseteq events'
      PROVE  Parts'
  <2>1. \A g \in Folders : Marker(g)' = Marker(g)
    BY <1>1 DEF Marker
  <2>2. (ProbesOwned /\ CanonicalOK /\ PathFound)'
    BY <1>1 DEF ProbesOwned, CanonicalOK, PathFound
  <2>3. FoundCurrent'
    BY <1>1, <2>1 DEF FoundCurrent
  <2>4. EligibilityIsCurrent'
    BY <1>1, <2>1 DEF EligibilityIsCurrent, Settled
  <2> QED BY <2>2, <2>3, <2>4
<1> HIDE DEF Parts
<1>2. ASSUME NEW f \in Folders, Echo(f) PROVE IInv'
  <2>1. /\ UNCHANGED <<disk, owners, probes, watches, disposed, waiting>>
        /\ events' = events \cup {f} /\ inputs' \in 0..MaxInputs
    BY <1>2, InputEffect DEF Echo
  <2>2. Parts'
    BY <1>1, <2>1
  <2>3. TypeOK'
    BY <2>1 DEF TypeOK
  <2>4. (DisposedOK /\ WatchersFollowRoots /\ EditorIsTold)'
    BY <2>1 DEF DisposedOK, WatchersFollowRoots, EditorIsTold
  <2> QED BY <2>2, <2>3, <2>4 DEF Parts
<1>3. ASSUME NEW d \in Documents, ForgetSource(d) PROVE IInv'
  <2>1. /\ UNCHANGED <<disk, events, owners, probes, watched, told, disposed, waiting,
                       inputs>>
        /\ follows' = [follows EXCEPT ![d] = None]
    BY <1>3 DEF ForgetSource
  <2>2. Parts'
    BY <1>1, <2>1
  <2>3. TypeOK'
    BY <2>1 DEF TypeOK
  <2>4. (DisposedOK /\ WatchersFollowRoots /\ EditorIsTold)'
    BY <2>1 DEF DisposedOK, WatchersFollowRoots, EditorIsTold, TypeOK
  <2> QED BY <2>2, <2>3, <2>4 DEF Parts
<1>4. ASSUME NEW d \in Documents, NEW s \in Sources, WatchSource(d, s) PROVE IInv'
  <2>1. /\ UNCHANGED <<disk, events, owners, probes, watched, told, disposed, waiting,
                       inputs>>
        /\ follows' = [follows EXCEPT ![d] = s]
        /\ \E f \in Folders : canonical[f] = s
    BY <1>4 DEF WatchSource, Watchable
  <2>2. Parts'
    BY <1>1, <2>1
  <2>3. TypeOK'
    BY <2>1 DEF TypeOK
  <2>4. (DisposedOK /\ WatchersFollowRoots /\ EditorIsTold)'
    BY <2>1 DEF DisposedOK, WatchersFollowRoots, EditorIsTold, TypeOK
  <2> QED BY <2>2, <2>3, <2>4 DEF Parts
<1>5. ASSUME ReadyCall \/ ReadyResume PROVE IInv'
  <2>1. /\ UNCHANGED <<disk, events, owners, probes, watches, disposed>>
        /\ inputs' \in 0..MaxInputs
        /\ waiting' = <<>> \/ waiting' = revision
    BY <1>5, InputEffect DEF ReadyCall, ReadyResume, TypeOK
  <2>2. Parts'
    BY <1>1, <2>1
  <2>3. TypeOK'
    BY <2>1 DEF TypeOK
  <2>4. (DisposedOK /\ WatchersFollowRoots /\ EditorIsTold)'
    BY <2>1 DEF DisposedOK, WatchersFollowRoots, EditorIsTold
  <2> QED BY <2>2, <2>3, <2>4 DEF Parts
<1>6. ASSUME Dispose PROVE IInv'
  <2>1. /\ UNCHANGED <<marker, version, probes, told, waiting, inputs>>
        /\ disposed' /\ events' = {} /\ watched' = {}
        /\ source' = [f \in Folders |-> None] /\ revision' = [f \in Folders |-> 0]
        /\ canonical' = [f \in Folders |-> None] /\ identity' = [f \in Folders |-> 0]
        /\ follows' = [d \in Documents |-> None]
    BY <1>6 DEF Dispose
  <2>2. Len(probes) \in Nat /\ version \in Nat
    BY LenProperties DEF TypeOK
  <2>3. revision' \in [Folders -> 0..Len(probes')] /\ identity' \in [Folders -> 0..version']
    BY <2>1, <2>2
  <2>4. disposed' \in BOOLEAN
    BY <1>6 DEF Dispose
  <2>5. TypeOK'
    BY <2>1, <2>3, <2>4 DEF TypeOK
  <2>6. (ProbesOwned /\ CanonicalOK /\ FoundCurrent /\ PathFound /\ DisposedOK)'
    BY <2>1 DEF ProbesOwned, CanonicalOK, FoundCurrent, PathFound, DisposedOK
  <2>7. (EligibilityIsCurrent /\ WatchersFollowRoots /\ EditorIsTold)'
    BY <2>1 DEF EligibilityIsCurrent, WatchersFollowRoots, EditorIsTold
  <2> QED BY <2>5, <2>6, <2>7
<1>7. ASSUME UNCHANGED vars PROVE IInv'
  <2>1. UNCHANGED <<disk, events, owners, probes, watches, disposed, waiting, inputs>>
    BY <1>7 DEF vars
  <2>2. Parts'
    BY <1>1, <2>1
  <2>3. TypeOK'
    BY <2>1 DEF TypeOK
  <2>4. (DisposedOK /\ WatchersFollowRoots /\ EditorIsTold)'
    BY <2>1 DEF DisposedOK, WatchersFollowRoots, EditorIsTold
  <2> QED BY <2>2, <2>3, <2>4 DEF Parts
<1> QED BY <1>2, <1>3, <1>4, <1>5, <1>6, <1>7

\* Every step keeps the invariant.
LEMMA StepInvariant == ASSUME RootsAssumption PROVE IInv /\ [Next]_vars => IInv'
<1> SUFFICES ASSUME IInv, [Next]_vars PROVE IInv'
  OBVIOUS
<1>1. ASSUME NEW configured \in Configurations, Configure(configured) PROVE IInv'
  BY <1>1, ConfigureInvariant
<1>2. ASSUME NEW s \in Directories, Change(s) PROVE IInv'
  BY <1>2, ChangeInvariant
<1>3. ASSUME NEW f \in Folders, Notice(f) PROVE IInv'
  BY <1>3, NoticeInvariant
<1>4. ASSUME NEW S \in {Folders} \cup {{f} : f \in Folders}, Refresh(S) PROVE IInv'
  <2>1. S \in SUBSET Folders
    BY <1>4
  <2> QED BY <1>4, <2>1, RefreshInvariant
<1>5. ASSUME NEW p \in DOMAIN probes, Probe(p) PROVE IInv'
  BY <1>5, ProbeInvariant
<1>6. CASE \/ \E f \in Folders : Echo(f)
           \/ \E d \in Documents : ForgetSource(d) \/ \E s \in Sources : WatchSource(d, s)
           \/ ReadyCall \/ ReadyResume \/ Dispose
           \/ UNCHANGED vars
  BY <1>6, OtherInvariant
<1> QED BY <1>1, <1>2, <1>3, <1>4, <1>5, <1>6 DEF Next

\* Every behaviour of the roots keeps the invariant.
LEMMA RootsInvariant == ASSUME RootsAssumption PROVE Spec => []IInv
<1> QED BY InitInvariant, StepInvariant, PTL DEF Spec

-----------------------------------------------------------------------------
(* The results.                                                            *)

\* Roots, probes and watchers keep their types, and a folder has a root exactly
\* while it has a source.
THEOREM TypeCorrect == ASSUME RootsAssumption PROVE Spec => []TypeOK
<1>1. IInv => TypeOK
  BY DEF IInv
<1> QED BY <1>1, RootsInvariant, PTL

\* What is eligible, what is watched and what the editor was told agree with the
\* disk and with each other, whatever probes, events and configurations overtake
\* each other (roots.ts).
THEOREM RootsStayCurrent == ASSUME RootsAssumption PROVE Spec => []RootsAreCurrent
<1>1. IInv => RootsAreCurrent
  BY DEF IInv, RootsAreCurrent
<1> QED BY <1>1, RootsInvariant, PTL

\* ready() returns only when the latest probe of every root has settled.
THEOREM ReadyIsProbed == ASSUME RootsAssumption PROVE Spec => ReadyMeansProbed
<1>1. IInv /\ [Next]_vars => [ReturnsProbed]_vars
  <2> SUFFICES ASSUME IInv, Next, waiting # <<>>, waiting' = <<>>,
                      NEW f \in Folders, revision[f] # 0
               PROVE  Settled(revision[f])
    BY DEF ReturnsProbed
  <2>1. revision \in [Folders -> 0..Len(probes)] /\ DOMAIN revision # {}
    BY DEF IInv, TypeOK
  <2>2. revision # <<>>
    BY <2>1
  <2>3. ReadyResume
    BY <2>2 DEF Next, Configure, Change, Echo, Notice, Refresh, Probe, Lstat, LstatReturns,
       RealpathReturns, ForgetSource, WatchSource, ReadyCall, Dispose
  <2>4. CASE disposed
    BY <2>4 DEF IInv, DisposedOK, TypeOK
  <2>5. CASE ~disposed
    BY <2>2, <2>3, <2>5 DEF ReadyResume, StillAwaited
  <2> QED BY <2>4, <2>5
<1> QED BY <1>1, RootsInvariant, PTL DEF Spec, ReadyMeansProbed

-----------------------------------------------------------------------------
(* The instances of FolderRefresh.                                         *)

\* Whichever instance a behaviour looks at keeps the invariant of
\* FolderRefreshProofs; in Own, where files are closed, both of its invariants.
SettingInvariant ==
  /\ setting = "own" => /\ Own!Sound(e) /\ Own!Coverage(e) /\ Own!NothingGone /\ happened \in Nat
                        /\ Own!FilesInv
  /\ setting = "two" => Two!Sound(e) /\ Two!Coverage(e) /\ Two!NothingGone /\ happened \in Nat

\* Every setting starts with its invariant.
LEMMA InitSetting == ASSUME Vanishing = {} PROVE MCInit => SettingInvariant
<1>1. setting = "own" /\ Own!Init => Own!FilesInv
  BY SettingsAssumption, Own!InitFresh
<1> QED
  BY <1>1, Own!InitKept, Own!NothingGoes, Two!InitKept, Two!NothingGoes
     DEF MCInit, SettingInvariant

\* A step of the run is a step of its instance.
LEMMA SettingStep ==
  ASSUME [MCNext]_mcVars
  PROVE  /\ setting' = setting
         /\ setting = "own" => [Own!Next]_(Own!vars)
         /\ setting = "two" => [Two!Next]_(Two!vars)
BY DEF MCNext, mcVars, refreshVars, Own!vars, Two!vars

\* No step of a setting disturbs the others.
LEMMA SettingKept ==
  ASSUME Vanishing = {}, SettingInvariant, [MCNext]_mcVars
  PROVE  SettingInvariant'
<1>1. CASE setting = "own"
  <2>1. Own!FilesInv'
    BY <1>1, SettingStep, SettingsAssumption, Own!StepFresh DEF SettingInvariant
  <2> QED
    BY <1>1, <2>1, SettingStep, SettingsAssumption, Own!StepKept, Own!NothingGoes
       DEF SettingInvariant, Own!Kept
<1>2. CASE setting = "two"
  BY <1>2, SettingStep, SettingsAssumption, Two!StepKept, Two!NothingGoes
     DEF SettingInvariant, Two!Kept
<1>3. CASE setting \notin {"own", "two"}
  BY <1>3, SettingStep DEF SettingInvariant
<1> QED BY <1>1, <1>2, <1>3

\* While no file vanishes, no marked root without complete coverage is abandoned, and
\* what is pending has a timer or a flush that takes it (editor.ts).
THEOREM ScansStayOwed == ASSUME Vanishing = {} PROVE MCSpec => []OwedAndArmed
<1>1. SettingInvariant => OwedAndArmed
  BY Own!CoveredIsOwed, Own!SoundIsArmed, Two!CoveredIsOwed, Two!SoundIsArmed
     DEF SettingInvariant, OwedAndArmed
<1>2. MCInit => SettingInvariant
  BY InitSetting
<1>3. SettingInvariant /\ [MCNext]_mcVars => SettingInvariant'
  BY SettingKept
<1> QED BY <1>1, <1>2, <1>3, PTL DEF MCSpec

\* While no file vanishes, a quiet editor shows of every closed file of a covered root
\* what is on the disk (queueFile and flushFiles of editor.ts).
THEOREM ClosedFilesStaySettled == ASSUME Vanishing = {} PROVE MCSpec => []ClosedFilesSettle
<1>1. SettingInvariant => ClosedFilesSettle
  BY Own!FreshIsCurrent DEF SettingInvariant, ClosedFilesSettle
<1>2. MCInit => SettingInvariant
  BY InitSetting
<1>3. SettingInvariant /\ [MCNext]_mcVars => SettingInvariant'
  BY SettingKept
<1> QED BY <1>1, <1>2, <1>3, PTL DEF MCSpec

=============================================================================
