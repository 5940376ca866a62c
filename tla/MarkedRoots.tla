---------------------------- MODULE MarkedRoots ----------------------------
(***************************************************************************)
(* The eligible source roots of extension/src/roots.ts.  A workspace folder *)
(* names a source directory; the directory is eligible while it holds a     *)
(* regular `.saltbox-lint' file.  Watcher events, configuration changes and *)
(* manual commands probe the marker, and every probe may be overtaken by a  *)
(* later one, by a change of the folder's source, or by disposal.           *)
(*                                                                         *)
(* `roots.get(key) !== root' and `root.revision !== revision' are one       *)
(* comparison here: probes are numbered as they start, and a folder keeps   *)
(* the number of the latest probe of its root (0 without a root).           *)
(***************************************************************************)
EXTENDS Integers, FiniteSets, SequencesExt

CONSTANTS
  Folders,     \* the workspace folders
  Sources,     \* the directories a folder can be configured to
  Realpath,    \* [Sources -> Sources]: the canonical name of each
  Documents,   \* the documents with watchers of their own
  None,        \* no root, no canonical name
  MaxInputs    \* bound: changes, commands and events from outside, in all

\* Stated as an assumption by the modules that give these values.
RootsAssumption ==
  /\ IsFiniteSet(Folders) /\ None \notin Sources
  /\ Realpath \in [Sources -> Sources]
  /\ MaxInputs \in Nat

VARIABLES
  marker,     \* on disk: the identity of a directory's marker, 0 without one
  version,    \* the identities given so far; one never comes back, it has a ctime
  events,     \* folders whose root watcher has an event to deliver
  source,     \* Root.source
  revision,   \* Root.revision: the number of the root's latest probe
  canonical,  \* Root.canonical
  identity,   \* Root.markerIdentity
  probes,     \* the probes in the order they started
  watched,    \* the keys of fileWatchers
  follows,    \* the root of each document's sourceWatchers entry
  told,       \* history: canonical as of the last `changed' event of a folder
  disposed,
  waiting,    \* the probes a caller of ready() awaits, <<>> when nobody waits
  inputs      \* bound counter

disk == <<marker, version>>
owners == <<source, revision, canonical, identity>>
watches == <<watched, follows, told>>
vars == <<disk, events, owners, probes, watches, disposed, waiting, inputs>>

Directories == {Realpath[s] : s \in Sources}

Real(s) == IF s = None THEN None ELSE Realpath[s]

Settled(p) == probes[p].stage = "settled"

TypeOK ==
  /\ marker \in [Directories -> 0..version] /\ version \in Nat
  /\ events \subseteq Folders
  /\ source \in [Folders -> Sources \cup {None}]
  /\ revision \in [Folders -> 0..Len(probes)]
  /\ canonical \in [Folders -> Sources \cup {None}]
  /\ identity \in [Folders -> 0..version]
  /\ probes \in Seq([folder : Folders, invalidate : BOOLEAN, found : 0..version,
                     stage : {"stat", "read", "path", "settled"}])
  /\ watched \subseteq Sources
  /\ follows \in [Documents -> Sources \cup {None}]
  /\ told \in [Folders -> Sources \cup {None}]
  /\ disposed \in BOOLEAN
  /\ waiting = <<>> \/ waiting \in [Folders -> 0..Len(probes)]
  /\ inputs \in 0..MaxInputs
  /\ \A f \in Folders : /\ source[f] = None <=> revision[f] = 0
                        /\ canonical[f] = None <=> identity[f] = 0

Init ==
  /\ marker \in [Directories -> {0, 1}] /\ version = 1
  /\ events = {}
  /\ source = [f \in Folders |-> None]
  /\ revision = [f \in Folders |-> 0]
  /\ canonical = [f \in Folders |-> None]
  /\ identity = [f \in Folders |-> 0]
  /\ probes = <<>>
  /\ watched = {} /\ follows = [d \in Documents |-> None]
  /\ told = [f \in Folders |-> None]
  /\ disposed = FALSE /\ waiting = <<>> /\ inputs = 0

Input == inputs < MaxInputs /\ inputs' = inputs + 1

-----------------------------------------------------------------------------
(* The pieces the handlers share.                                          *)

\* The marker a folder's root is asked about.
Marker(f) == marker[Realpath[source[f]]]

\* synchronizeFileWatchers: both names of every eligible root are watched, and a
\* document keeps its watchers while its root is eligible.
Synchronized(owner, name) ==
  /\ watched' = UNION {{owner[f], name[f]} : f \in {g \in Folders : name[g] # None}}
  /\ follows' = [d \in Documents |->
                   IF \E f \in Folders : name[f] = follows[d] THEN follows[d] ELSE None]

\* changed.fire for the folders of S.
Fired(S, name) == [f \in Folders |-> IF f \in S THEN name[f] ELSE told[f]]

\* The folders of S start a probe; its number becomes the root's revision.
Started(S, invalidate) ==
  LET order == SetToSeq(S)
  IN  /\ probes' = probes \o [i \in DOMAIN order |->
                     [folder |-> order[i], invalidate |-> invalidate, found |-> 0,
                      stage |-> "stat"]]
      /\ revision' = [f \in Folders |->
                        IF source'[f] = None THEN 0
                        ELSE IF f \notin S THEN revision[f]
                        ELSE Len(probes)
                               + CHOOSE i \in DOMAIN order : order[i] = f]

\* startProbe: the marker is revoked before anything is awaited.
StartProbe(S) ==
  /\ UNCHANGED source
  /\ canonical' = [f \in Folders |-> IF f \in S THEN None ELSE canonical[f]]
  /\ identity' = [f \in Folders |-> IF f \in S THEN 0 ELSE identity[f]]
  /\ Synchronized(source, canonical')
  /\ told' = Fired(S, canonical')
  /\ Started(S, TRUE)

-----------------------------------------------------------------------------
(* The workspace.                                                          *)

\* configure with the sources the folders now have: the roots of the others are
\* removed, changed ones are replaced and probed.
MutConfigureKeepsWatchers(setting) ==
  LET changed == {f \in Folders : source[f] # setting[f]}
  IN  /\ source' = setting
      /\ canonical' = [f \in Folders |-> IF f \in changed THEN None ELSE canonical[f]]
      /\ identity' = [f \in Folders |-> IF f \in changed THEN 0 ELSE identity[f]]
      /\ told' = Fired(changed, canonical')
      /\ UNCHANGED <<watched, follows>>
      /\ events' = events \ changed
      /\ Started({f \in changed : setting[f] # None}, TRUE)

Configured(setting) ==
  LET changed == {f \in Folders : source[f] # setting[f]}
  IN  /\ source' = setting
      /\ canonical' = [f \in Folders |-> IF f \in changed THEN None ELSE canonical[f]]
      /\ identity' = [f \in Folders |-> IF f \in changed THEN 0 ELSE identity[f]]
      /\ told' = Fired(changed, canonical')
      /\ IF changed = {} THEN UNCHANGED <<watched, follows>>
         ELSE Synchronized(setting, canonical')
      /\ events' = events \ changed
      /\ Started({f \in changed : setting[f] # None}, TRUE)

Configure(setting) ==
  /\ Input /\ ~disposed
  /\ Configured(setting)
  /\ UNCHANGED <<disk, disposed, waiting>>

\* The marker is created, replaced or deleted; the watchers of its directory,
\* under either name, will say so.
Change(s) ==
  /\ Input
  /\ \/ marker[s] # 0 /\ marker' = [marker EXCEPT ![s] = 0] /\ UNCHANGED version
     \/ version' = version + 1 /\ marker' = [marker EXCEPT ![s] = version + 1]
  /\ events' = events \cup {f \in Folders : Real(source[f]) = s}
  /\ UNCHANGED <<owners, probes, watches, disposed, waiting>>

\* A watcher repeats itself.
Echo(f) ==
  /\ Input /\ source[f] # None /\ f \notin events
  /\ events' = events \cup {f}
  /\ UNCHANGED <<disk, owners, probes, watches, disposed, waiting>>

-----------------------------------------------------------------------------
(* Watcher events and manual commands.                                     *)

\* unchangedMarker
Unchanged(f) ==
  canonical[f] # None /\ identity[f] = Marker(f)

Notice(f) ==
  /\ f \in events /\ ~disposed
  /\ events' = events \ {f}
  /\ IF Unchanged(f) THEN UNCHANGED <<owners, probes, watches>>
                     ELSE StartProbe({f})
  /\ UNCHANGED <<disk, disposed, waiting, inputs>>

\* A manual command: the owners stay eligible while their markers are probed.
Refresh(S) ==
  /\ Input /\ ~disposed
  /\ UNCHANGED <<source, canonical, identity>>
  /\ Started({f \in S : source[f] # None}, FALSE)
  /\ UNCHANGED <<disk, events, watches, disposed, waiting>>

-----------------------------------------------------------------------------
(* A probe.                                                                *)

\* The probe still speaks for its root.
Current(p) == revision[probes[p].folder] = p

Settle(p) == [probes EXCEPT ![p].stage = "settled", ![p].found = 0,
                            ![p].invalidate = FALSE]

\* What the probe found, when that is news.
Applied(f, name, found, invalidate) ==
  IF invalidate \/ canonical[f] # name \/ identity[f] # found
  THEN /\ canonical' = [canonical EXCEPT ![f] = name]
       /\ identity' = [identity EXCEPT ![f] = found]
       /\ Synchronized(source, canonical')
       /\ told' = Fired({f}, canonical')
  ELSE UNCHANGED <<canonical, identity, watches>>

\* The file system looks at the marker.  What a superseded probe sees does not
\* matter: it goes from "stat" to the end.
Lstat(p) ==
  /\ probes[p].stage = "stat" /\ Current(p)
  /\ probes' = [probes EXCEPT ![p].stage = "read",
                              ![p].found = Marker(probes[p].folder)]
  /\ UNCHANGED <<disk, events, owners, watches, disposed, waiting, inputs>>

\* lstat answers: without a marker the probe is over, else its root is resolved.
LstatReturns(p) ==
  /\ \/ probes[p].stage = "read"
     \/ probes[p].stage = "stat" /\ ~Current(p)
  /\ IF Current(p) /\ probes[p].found # 0
     THEN /\ probes' = [probes EXCEPT ![p].stage = "path"]
          /\ UNCHANGED <<canonical, identity, watches>>
     ELSE /\ probes' = Settle(p)
          /\ IF Current(p)
             THEN Applied(probes[p].folder, None, 0, probes[p].invalidate)
             ELSE UNCHANGED <<canonical, identity, watches>>
  /\ UNCHANGED <<disk, events, source, revision, disposed, waiting, inputs>>

\* canonicalRoot answers.
RealpathReturns(p) ==
  /\ probes[p].stage = "path"
  /\ probes' = Settle(p)
  /\ LET f == probes[p].folder
     IN  IF Current(p)
         THEN Applied(f, Real(source[f]), probes[p].found, probes[p].invalidate)
         ELSE UNCHANGED <<canonical, identity, watches>>
  /\ UNCHANGED <<disk, events, source, revision, disposed, waiting, inputs>>

Probe(p) == Lstat(p) \/ LstatReturns(p) \/ RealpathReturns(p)

-----------------------------------------------------------------------------
(* Document watchers, readiness and disposal.                              *)

\* watchSource, for a root some check resolved earlier.
Watchable(d, name) ==
  name # follows[d] /\ \E f \in Folders : canonical[f] = name

WatchSource(d, name) ==
  /\ ~disposed /\ Watchable(d, name)
  /\ follows' = [follows EXCEPT ![d] = name]
  /\ UNCHANGED <<disk, events, owners, probes, watched, told, disposed, waiting, inputs>>

ForgetSource(d) ==
  /\ follows[d] # None
  /\ follows' = [follows EXCEPT ![d] = None]
  /\ UNCHANGED <<disk, events, owners, probes, watched, told, disposed, waiting, inputs>>

ReadyCall ==
  /\ Input /\ ~disposed /\ waiting = <<>>
  /\ waiting' = revision
  /\ UNCHANGED <<disk, events, owners, probes, watches, disposed>>

\* The awaited probes have settled: return, unless one was replaced meanwhile.
MutReadyOnce == TRUE

StillAwaited == waiting = revision

ReadyResume ==
  /\ waiting # <<>>
  /\ \A f \in Folders : waiting[f] # 0 => Settled(waiting[f])
  /\ waiting' = IF StillAwaited \/ disposed THEN <<>> ELSE revision
  /\ UNCHANGED <<disk, events, owners, probes, watches, disposed, inputs>>

Dispose ==
  /\ ~disposed /\ disposed' = TRUE
  /\ source' = [f \in Folders |-> None]
  /\ revision' = [f \in Folders |-> 0]
  /\ canonical' = [f \in Folders |-> None]
  /\ identity' = [f \in Folders |-> 0]
  /\ watched' = {} /\ follows' = [d \in Documents |-> None]
  /\ events' = {}
  /\ UNCHANGED <<disk, probes, told, waiting, inputs>>

-----------------------------------------------------------------------------

Configurations == [Folders -> Sources \cup {None}]

Next ==
  \/ \E setting \in Configurations : Configure(setting)
  \/ \E s \in Directories : Change(s)
  \/ \E f \in Folders : Echo(f) \/ Notice(f)
  \/ \E S \in {Folders} \cup {{f} : f \in Folders} : Refresh(S)
  \/ \E p \in DOMAIN probes : Probe(p)
  \/ \E d \in Documents : ForgetSource(d) \/ \E s \in Sources : WatchSource(d, s)
  \/ ReadyCall \/ ReadyResume \/ Dispose

\* File system calls answer and watchers report every change they cover.
Fairness ==
  /\ WF_vars(\E p \in DOMAIN probes : Probe(p))
  /\ WF_vars(\E f \in Folders : Notice(f))
  /\ WF_vars(ReadyResume)

Spec == Init /\ [][Next]_vars /\ Fairness

-----------------------------------------------------------------------------
(* Properties.                                                             *)

\* When a root's latest probe has settled and no event is undelivered, the root
\* is eligible exactly for the marker now on disk: no superseded probe restores a
\* root and no event is ignored that mattered (lines 219-224, 257-318).
EligibilityIsCurrent ==
  \A f \in Folders :
    revision[f] # 0 /\ Settled(revision[f]) /\ f \notin events =>
      /\ identity[f] = Marker(f)
      /\ canonical[f] = IF Marker(f) = 0 THEN None ELSE Realpath[source[f]]

\* What is watched follows the eligible roots through every probe, removal and
\* replacement, including two folders that share a directory (lines 147-193).
WatchersFollowRoots ==
  /\ watched = {s \in Sources : \E f \in Folders :
                  canonical[f] # None /\ s \in {source[f], canonical[f]}}
  /\ \A d \in Documents :
       follows[d] # None => \E f \in Folders : canonical[f] = follows[d]

\* The editor has been told of every change of a folder's root (lines 247, 282 and 316).
EditorIsTold == ~disposed => told = canonical

\* What is eligible, what is watched and what the editor was told agree with the
\* disk and with each other.
RootsAreCurrent == EligibilityIsCurrent /\ WatchersFollowRoots /\ EditorIsTold

\* ready() returns only when the latest probe of every root has settled, whatever
\* probes and roots were replaced while it waited (lines 347-366).
ReturnsProbed ==
  waiting # <<>> /\ waiting' = <<>> =>
    \A f \in Folders : revision[f] # 0 => Settled(revision[f])
ReadyMeansProbed == [][ReturnsProbed]_vars

=============================================================================
