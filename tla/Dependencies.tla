---------------------------- MODULE Dependencies ----------------------------
(***************************************************************************)
(* Dependency freshness of one workspace folder: the graph and event       *)
(* fences of extension/src/dependencies.ts, driven the way editor.ts       *)
(* drives them.  A file changes on disk; its watcher event arrives later,  *)
(* is fenced at once (reserve), observed in first-in first-out order       *)
(* (contextEvent) and then confirmed or withdrawn (complete).  Meanwhile   *)
(* checks of several sources read files, observe them again and ask the    *)
(* graph to accept their reports (accept).                                 *)
(*                                                                         *)
(* A file's fingerprint holds its change time, so no content comes back:   *)
(* fingerprints are version numbers, 0 is `no fingerprint'.  Revisions are *)
(* doubled, so the code's next + 0.5 is 2 * next + 1.                      *)
(***************************************************************************)
EXTENDS Integers, Sequences, FiniteSets, SequencesExt

CONSTANTS
  Sources,     \* YAML sources and templates with diagnostics
  Files,       \* everything a check may read
  Reads,       \* the files the analysis of a source observes
  MaxVersion,  \* bound: how often a file changes on disk
  MaxMoves,    \* bound: how often the root changes or a source is withdrawn
  EventLimit   \* the length of State.events before it is trimmed

ASSUME GraphAssumption ==
  /\ IsFiniteSet(Sources) /\ IsFiniteSet(Files)
  /\ Reads \in [Sources -> SUBSET Files]
  /\ MaxVersion \in Nat \ {0} /\ MaxMoves \in Nat /\ EventLimit \in Nat \ {0}

VARIABLES
  disk,         \* the version of every file
  undelivered,  \* files whose watcher event has not reached the extension
  active,       \* the folder has a ready marked root
  moves,        \* bound: root changes and withdrawals so far
  graph,        \* identity of the State object in Dependencies.states
  next,         \* Dependencies.next
  fences,       \* how many fences were reserved: their identity
  floor,        \* State.floor
  events,       \* State.events
  folderSeen,   \* State.fingerprints
  known,        \* the keys of State.sources
  sourceSeen,   \* Entry.fingerprints of every known source
  revision,     \* Entry.revision of every known source
  queue,        \* Editor.contextQueue with the fences it owns
  check,        \* one check per source: Editor.check and checkSnapshot
  wanted,       \* sources queued for a check: queueFile, retry, opening
  result,       \* the file versions each displayed result was computed from
  observed      \* history: the newest version a completed event reported

vars == <<disk, undelivered, active, moves, graph, next, fences, floor, events,
          folderSeen, known, sourceSeen, revision, queue, check, wanted, result,
          observed>>

Versions == 1..MaxVersion
NoFiles == [f \in Files |-> 0]
Idle == [phase |-> "idle", token |-> 0, revision |-> 0, read |-> NoFiles,
         left |-> {}, changed |-> {}, ahead |-> 0]

TypeOK ==
  /\ disk \in [Files -> Versions]
  /\ undelivered \subseteq Files
  /\ active \in BOOLEAN
  /\ {moves, graph, next, fences, floor} \subseteq Nat
  /\ events \in Seq([fence : 1..fences, path : Files, revision : 1..2 * next + 1,
                     seen : 0..MaxVersion])
  /\ folderSeen \in [Files -> 0..MaxVersion]
  /\ known \subseteq Sources
  /\ sourceSeen \in [Sources -> [Files -> 0..MaxVersion]]
  /\ revision \in [Sources -> 0..next]
  /\ queue \in Seq([fence : 1..fences, path : Files, graph : 0..graph,
                    seen : 0..MaxVersion])
  /\ check \in [Sources ->
       [phase : {"idle", "submitted", "running", "observing", "waiting"},
        token : 0..2 * next, revision : 0..next, read : [Files -> 0..MaxVersion],
        left : SUBSET Files, changed : SUBSET Files, ahead : 0..Len(queue)]]
  /\ wanted \subseteq Sources
  /\ result \in [Sources -> [Files -> 0..MaxVersion]]
  /\ observed \in [Files -> 0..MaxVersion]

Init ==
  /\ disk = [f \in Files |-> 1]
  /\ undelivered = {}
  /\ active = TRUE
  /\ moves = 0 /\ graph = 0 /\ next = 0 /\ fences = 0 /\ floor = 0
  /\ events = <<>>
  /\ folderSeen = NoFiles
  /\ known = {}
  /\ sourceSeen = [s \in Sources |-> NoFiles]
  /\ revision = [s \in Sources |-> 0]
  /\ queue = <<>>
  /\ check = [s \in Sources |-> Idle]
  /\ wanted = Sources
  /\ result = [s \in Sources |-> NoFiles]
  /\ observed = NoFiles

-----------------------------------------------------------------------------
(* Events.                                                                 *)

Pending == 2 * next + 1

Fence(i, f) == [fence |-> fences + i, path |-> f, revision |-> Pending, seen |-> 0]

Ticket(i, f) == [fence |-> fences + i, path |-> f, graph |-> graph, seen |-> 0]

\* reserve for the given files: trim keeps the newest events and raises the floor
\* to the last one it drops.
Reserved(paths) ==
  LET all == events \o [i \in DOMAIN paths |-> Fence(i, paths[i])]
      cut == IF Len(all) > EventLimit THEN Len(all) - EventLimit ELSE 0
  IN  [events |-> SubSeq(all, cut + 1, Len(all)),
       floor |-> IF cut = 0 THEN floor ELSE all[cut].revision]

\* contextEvent for the given files: fence them at once, then queue them.
ContextEvents(paths) ==
  /\ events' = Reserved(paths).events
  /\ floor' = Reserved(paths).floor
  /\ queue' = queue \o [i \in DOMAIN paths |-> Ticket(i, paths[i])]
  /\ fences' = fences + Len(paths)

\* An external program changes a file; the watcher will tell.
Edit(f) ==
  /\ disk[f] < MaxVersion
  /\ disk' = [disk EXCEPT ![f] = @ + 1]
  /\ undelivered' = undelivered \cup {f}
  /\ UNCHANGED <<active, moves, graph, next, fences, floor, events, folderSeen,
                 known, sourceSeen, revision, queue, check, wanted, result, observed>>

\* The editor saves a file: saved() raises the event itself, and the watcher
\* repeats it later.
Save(f) ==
  /\ active
  /\ disk[f] < MaxVersion
  /\ disk' = [disk EXCEPT ![f] = @ + 1]
  /\ undelivered' = undelivered \cup {f}
  /\ ContextEvents(<<f>>)
  /\ UNCHANGED <<active, moves, graph, next, folderSeen, known, sourceSeen,
                 revision, check, wanted, result, observed>>

\* A watcher event reaches contextEvent; without a root it has no target.
Deliver(f) ==
  /\ f \in undelivered
  /\ undelivered' = undelivered \ {f}
  /\ IF active THEN ContextEvents(<<f>>)
     ELSE UNCHANGED <<queue, events, fences, floor>>
  /\ UNCHANGED <<disk, active, moves, graph, next, folderSeen, known, sourceSeen,
                 revision, check, wanted, result, observed>>

\* contextFingerprint of the event at the head of the queue.
Fingerprint ==
  /\ queue # <<>> /\ Head(queue).seen = 0 /\ active
  /\ queue' = [queue EXCEPT ![1].seen = disk[Head(queue).path]]
  /\ UNCHANGED <<disk, undelivered, active, moves, graph, next, fences, floor,
                 events, folderSeen, known, sourceSeen, revision, check, wanted,
                 result, observed>>

MutDequeueAlone ==
  /\ queue' = Tail(queue)
  /\ UNCHANGED check

\* The event at the head is done: everyone behind it moves up.
Dequeue ==
  /\ queue' = Tail(queue)
  /\ check' = [s \in Sources |->
       [check[s] EXCEPT !.ahead = IF @ > 0 THEN @ - 1 ELSE 0]]

\* withdraw: the event of a fence leaves the list, unless it was trimmed already.
Without(list, fence) ==
  LET at == {i \in DOMAIN list : list[i].fence = fence}
  IN  IF at = {} THEN list ELSE RemoveAt(list, CHOOSE i \in at : TRUE)

\* release: the root went away while the event was pending.
Release ==
  /\ queue # <<>> /\ ~active
  /\ events' = Without(events, Head(queue).fence)
  /\ Dequeue
  /\ UNCHANGED <<disk, undelivered, active, moves, graph, next, fences, floor,
                 folderSeen, known, sourceSeen, revision, wanted, result, observed>>

Observers(f) == {s \in known : f \in Reads[s]}

MutAffectedOnce(f, seen) == {s \in Observers(f) : folderSeen[f] # seen}

Affected(f, seen) == {s \in Observers(f) : sourceSeen[s][f] # seen}

Echo(f, seen) == folderSeen[f] = seen /\ Affected(f, seen) = {}

\* complete.  When the folder's graph was replaced while the event was pending,
\* the event is reserved again on the current graph and completed there.
Complete ==
  /\ queue # <<>> /\ Head(queue).seen # 0 /\ active
  /\ LET f == Head(queue).path
         seen == Head(queue).seen
         own == Head(queue).graph = graph
         fence == IF own THEN Head(queue).fence ELSE fences + 1
         start == IF own THEN [events |-> events, floor |-> floor] ELSE Reserved(<<f>>)
     IN  /\ fences' = IF own THEN fences ELSE fences + 1
         /\ floor' = start.floor
         /\ IF Echo(f, seen)
            THEN /\ events' = Without(start.events, fence)
                 /\ UNCHANGED <<next, folderSeen, revision, wanted>>
            ELSE /\ next' = next + 1
                 /\ events' = [i \in DOMAIN start.events |->
                      IF start.events[i].fence # fence THEN start.events[i]
                      ELSE [start.events[i] EXCEPT !.revision = 2 * next', !.seen = seen]]
                 /\ folderSeen' = [folderSeen EXCEPT ![f] = seen]
                 /\ revision' = [s \in Sources |->
                      IF s \in Affected(f, seen) THEN next' ELSE revision[s]]
                 \* applyContextEvent queues every affected source again
                 /\ wanted' = wanted \cup Affected(f, seen)
         /\ sourceSeen' = [s \in Sources |->
              IF s \in Observers(f) THEN [sourceSeen[s] EXCEPT ![f] = seen]
              ELSE sourceSeen[s]]
         /\ observed' = [observed EXCEPT ![f] = seen]
  /\ Dequeue
  /\ UNCHANGED <<disk, undelivered, active, moves, graph, known, result>>

-----------------------------------------------------------------------------
(* The folder and its sources.                                             *)

\* refreshFolders: a root appears, disappears or is configured anew.  Results and
\* the graph are dropped, running checks are no longer current, and every source
\* of an active root is checked again.
Refresh ==
  /\ moves < MaxMoves
  /\ moves' = moves + 1
  /\ active' \in BOOLEAN
  /\ graph' = graph + 1
  /\ events' = <<>> /\ floor' = 0 /\ folderSeen' = NoFiles
  /\ known' = {}
  /\ sourceSeen' = [s \in Sources |-> NoFiles]
  /\ revision' = [s \in Sources |-> 0]
  /\ result' = [s \in Sources |-> NoFiles]
  /\ check' = [s \in Sources |-> Idle]
  /\ wanted' = IF active' THEN Sources ELSE {}
  /\ UNCHANGED <<disk, undelivered, next, fences, queue, observed>>

\* withdrawSource: the source is closed or no longer admitted.
Withdraw(s) ==
  /\ s \in known /\ moves < MaxMoves
  /\ moves' = moves + 1
  /\ known' = known \ {s}
  /\ sourceSeen' = [sourceSeen EXCEPT ![s] = NoFiles]
  /\ revision' = [revision EXCEPT ![s] = 0]
  /\ result' = [result EXCEPT ![s] = NoFiles]
  /\ check' = [check EXCEPT ![s] = Idle]
  /\ wanted' = wanted \ {s}
  /\ UNCHANGED <<disk, undelivered, active, graph, next, fences, floor, events,
                 folderSeen, queue, observed>>

\* The source is opened again.
Open(s) ==
  /\ active /\ s \notin known \cup wanted /\ check[s] = Idle
  /\ wanted' = wanted \cup {s}
  /\ UNCHANGED <<disk, undelivered, active, moves, graph, next, fences, floor,
                 events, folderSeen, known, sourceSeen, revision, queue, check,
                 result, observed>>

-----------------------------------------------------------------------------
(* A check.                                                                *)

Step(s, c) == check' = [check EXCEPT ![s] = c]

OnlyCheck == UNCHANGED <<disk, undelivered, active, moves, graph, next, fences,
  floor, events, folderSeen, known, sourceSeen, revision, queue, result, observed>>

\* checkSnapshot takes its token before anything else.
Begin(s) ==
  /\ s \in wanted /\ check[s] = Idle
  /\ wanted' = wanted \ {s}
  /\ Step(s, [Idle EXCEPT !.phase = "submitted", !.token = 2 * next])
  /\ OnlyCheck

\* The lane runs it: the snapshot captures the source's revision.
Launch(s) ==
  /\ check[s].phase = "submitted"
  /\ Step(s, [check[s] EXCEPT !.phase = "running", !.revision = revision[s],
                             !.left = Reads[s]])
  /\ UNCHANGED wanted
  /\ OnlyCheck

\* The process reads one file after another.
Analyze(s, f) ==
  /\ check[s].phase = "running" /\ f \in check[s].left
  /\ LET left == check[s].left \ {f}
     IN  Step(s, [check[s] EXCEPT !.read[f] = disk[f],
            !.phase = IF left = {} THEN "observing" ELSE "running",
            !.left = IF left = {} THEN Reads[s] ELSE left])
  /\ UNCHANGED wanted
  /\ OnlyCheck

\* observeAnalysis reads every file again.
Observe(s, f) ==
  /\ check[s].phase = "observing" /\ f \in check[s].left
  /\ Step(s, [check[s] EXCEPT !.left = @ \ {f},
                             !.changed = IF disk[f] = check[s].read[f] THEN @
                                         ELSE @ \cup {f}])
  /\ UNCHANGED wanted
  /\ OnlyCheck

Observed(s) == check[s].phase = "observing" /\ check[s].left = {}

Current(s) == check[s].revision = revision[s]

\* retry: the check ends without a result and is queued again.
Retry(s) ==
  /\ Step(s, Idle)
  /\ wanted' = wanted \cup {s}

\* Files that changed behind the analysis become events of their own.
ReportChanged(s) ==
  /\ Observed(s)
  /\ ~Current(s) \/ check[s].changed # {}
  /\ IF Current(s) THEN ContextEvents(SetToSeq(check[s].changed))
     ELSE UNCHANGED <<queue, events, fences, floor>>
  /\ Retry(s)
  /\ UNCHANGED <<disk, undelivered, active, moves, graph, next, folderSeen, known,
                 sourceSeen, revision, result, observed>>

\* The report waits for the events that are queued now.
AwaitContext(s) ==
  /\ Observed(s) /\ Current(s) /\ check[s].changed = {}
  /\ queue # <<>>
  /\ Step(s, [check[s] EXCEPT !.phase = "waiting", !.ahead = Len(queue)])
  /\ UNCHANGED wanted
  /\ OnlyCheck

\* The condition under which accept rejects a report.
MutIgnoresEvents(s) == check[s].token < floor

Rejected(s) ==
  \/ check[s].token < floor
  \/ \E i \in DOMAIN events :
       /\ events[i].path \in Reads[s] /\ events[i].revision > check[s].token
       /\ events[i].seen = 0 \/ events[i].seen # check[s].read[events[i].path]

\* Ready to accept: at once when no event is queued, else after the wait.
Ready(s) ==
  \/ Observed(s) /\ check[s].changed = {} /\ queue = <<>>
  \/ check[s].phase = "waiting" /\ check[s].ahead = 0

Reject(s) ==
  /\ Ready(s)
  /\ ~Current(s) \/ Rejected(s)
  /\ Retry(s)
  /\ OnlyCheck

\* accept and storeDocument.  The graph keeps the fingerprint it already had for a
\* file of this source, so the next event still reaches its other results.
Accept(s) ==
  /\ Ready(s)
  /\ Current(s) /\ ~Rejected(s)
  /\ folderSeen' = [f \in Files |->
                      IF f \in Reads[s] THEN check[s].read[f] ELSE folderSeen[f]]
  /\ known' = known \cup {s}
  /\ sourceSeen' = [sourceSeen EXCEPT ![s] = [f \in Files |->
                      IF sourceSeen[s][f] # 0 THEN sourceSeen[s][f]
                      ELSE check[s].read[f]]]
  /\ result' = [result EXCEPT ![s] = check[s].read]
  /\ Step(s, Idle)
  /\ UNCHANGED <<disk, undelivered, active, moves, graph, next, fences, floor,
                 events, revision, queue, wanted, observed>>

-----------------------------------------------------------------------------

Editor(s) ==
  \/ Begin(s) \/ Launch(s)
  \/ \E f \in Reads[s] : Analyze(s, f) \/ Observe(s, f)
  \/ ReportChanged(s) \/ AwaitContext(s) \/ Reject(s) \/ Accept(s)

Context == Fingerprint \/ Release \/ Complete

Next ==
  \/ \E f \in Files : Edit(f) \/ Save(f) \/ Deliver(f)
  \/ Context
  \/ Refresh
  \/ \E s \in Sources : Withdraw(s) \/ Open(s) \/ Editor(s)

\* The watcher delivers, the queue is served and checks end.
Fairness ==
  /\ \A f \in Files : WF_vars(Deliver(f))
  /\ WF_vars(Context)
  /\ \A s \in Sources : WF_vars(Editor(s))

Spec == Init /\ [][Next]_vars /\ Fairness

-----------------------------------------------------------------------------
(* Properties.                                                             *)

Stale(s, f) == result[s][f] # 0 /\ result[s][f] # disk[f]

Queued(f) == \E i \in DOMAIN queue : queue[i].path = f

\* A displayed result that no longer matches the disk never goes unnoticed: the
\* watcher event of the file is still to come or to be completed, or the source
\* is being or about to be checked again.
StaleIsNoticed ==
  \A s \in Sources, f \in Files :
    Stale(s, f) => \/ f \in undelivered
                   \/ Queued(f)
                   \/ s \in wanted
                   \/ check[s] # Idle

\* A late report is never older than an event that was completed before it:
\* accept delivers no file version older than one an event already reported, even
\* for sources the graph did not know when the event arrived (lines 57-58).
AcceptsNothingLate ==
  [][\A s \in Sources :
       result'[s] # result[s] /\ result'[s] # NoFiles =>
         \A f \in Reads[s] : result'[s][f] >= observed[f]]_vars

\* While an event is pending, no report requested before it that observes its
\* file is accepted (lines 188-193).
AcceptsNoPending ==
  \A s \in Sources :
    result'[s] # result[s] /\ result'[s] # NoFiles =>
      \A i \in DOMAIN queue :
        queue[i].graph = graph => queue[i].path \notin Reads[s]
PendingEventFences == [][AcceptsNoPending]_vars

\* An event reaches every displayed result it outdates, also when another result
\* of the same file already took its version (lines 142-144).
CompletionAsksForChecks ==
  \A f \in Files, s \in Sources :
    /\ queue # <<>> /\ queue' = Tail(queue) /\ Head(queue).path = f
    /\ active /\ result[s][f] \notin {0, Head(queue).seen}
    => s \in wanted' \/ check[s] # Idle
EventsReachResults == [][CompletionAsksForChecks]_vars

\* Nothing of source s is left to do: its root is gone, nobody knows it, or its
\* result was computed from the disk.
Fresh(s) ==
  \/ ~active
  \/ s \notin known \cup wanted /\ check[s] = Idle
  \/ \A f \in Reads[s] : result[s][f] = disk[f]

\* Once the disk is quiet, every source of an active root ends with a result
\* computed from the disk: checks do not retry for ever.
EventuallyFresh == \A s \in Sources : <>[]Fresh(s)

=============================================================================
