--------------------------- MODULE FolderRefresh ---------------------------
(***************************************************************************)
(* How the editor keeps marked folders checked (extension/src/editor.ts).  *)
(* A folder owes one full scan of its saved files; changed closed files    *)
(* are checked in selected batches; open documents have checks of their    *)
(* own.  Two timers are shared by all folders and all causes: refreshTimer *)
(* (queueCoverage, refreshFolders) and fileTimer (queueFile).  Watcher     *)
(* events pass one first-in first-out queue (contextEvent), and every      *)
(* change of a folder revokes the scans that read it before.               *)
(*                                                                         *)
(* The editor's fields are one record e: its handlers call each other in   *)
(* sequence, so each is an operator from one record to the next.  A scan   *)
(* that is no longer current is dropped at once, except while it renders   *)
(* its report, where it can still queue files.  Open documents are clean   *)
(* and unchanged: their text is the subject of LiveChecks and              *)
(* Dependencies.                                                           *)
(***************************************************************************)
EXTENDS Integers, FiniteSets, FiniteSetsExt, SequencesExt

CONSTANTS
  Folders,    \* workspace folders
  Files,      \* closed YAML files
  Documents,  \* files with an open, unchanged document
  Controls,   \* Git ignore controls: .gitignore
  FolderOf,   \* the folder of each of these
  Vanishing,  \* the files that may be deleted (and created again)
  Asked,      \* the folders and documents the user asks to check
  MayDispose, \* bound: whether the extension is deactivated
  MaxEvents   \* bound: changes of the disk and the roots, commands of the user

Items == Files \cup Documents
Watched == Files \cup Controls

\* Stated as an assumption by the modules that give these values.
RefreshAssumption ==
  /\ IsFiniteSet(Watched) /\ Files \cap (Documents \cup Controls) = {}
  /\ FolderOf \in [Items \cup Controls -> Folders]
  /\ Vanishing \subseteq Files
  /\ Asked \subseteq Folders \cup Documents
  /\ MayDispose \in BOOLEAN /\ MaxEvents \in Nat

VARIABLES
  disk,         \* the version of every watched file; 0: it does not exist
  undelivered,  \* watched files whose event is still to come
  happened,     \* bound: events so far
  e             \* the editor

vars == <<disk, undelivered, happened, e>>

Nil == -1
Versions == 0..MaxEvents + 1
Blank == [w \in Watched |-> Nil]
In(f, S) == {x \in S : FolderOf[x] = f}
Observes(x) == ({x} \cap Files) \cup In(FolderOf[x], Controls)

IdleFlush == [phase |-> "idle", ahead |-> 0, todo |-> [x \in Items |-> "no"],
  met |-> {}, rooted |-> {}, admitted |-> {}, selected |-> Blank, item |-> Nil]

\* One request of checkSaved (full, files) or checkSnapshot (document).
Request(f, kind, owner, items, want) ==
  [folder |-> f, kind |-> kind, owner |-> owner, items |-> items, want |-> want,
   phase |-> IF kind = "document" THEN "waiting" ELSE "submitted", live |-> TRUE,
   read |-> Blank, accepted |-> {}, told |-> {}, ahead |-> 0, turn |-> 0,
   changed |-> FALSE]

\* The first probes have found some markers and refreshFolders ran for each.
Init ==
  /\ disk = [w \in Watched |-> 1]
  /\ undelivered = {}
  /\ happened = 0
  /\ \E found \in SUBSET Folders :
     e = [marked |-> found, disposed |-> FALSE, pendingRefresh |-> found,
          refreshTimer |-> IF found = {} THEN "none" ELSE "folders",
          pendingFiles |-> [x \in Items |-> "no"], fileTimer |-> FALSE,
          missing |-> {}, fingerprint |-> [x \in Files |-> Nil],
          complete |-> {}, shown |-> [x \in Files |-> Nil],
          document |-> [d \in Documents |-> "none"], opening |-> Documents,
          folderSeen |-> Blank, known |-> {}, sourceSeen |-> [x \in Items |-> Blank],
          contexts |-> <<>>, scans |-> {}, flush |-> IdleFlush]

TypeOK ==
  /\ disk \in [Watched -> Versions]
  /\ undelivered \subseteq Watched
  /\ happened \in 0..MaxEvents
  /\ e.marked \subseteq Folders /\ e.complete \subseteq Folders
  /\ e.pendingRefresh \subseteq Folders
  /\ e.refreshTimer \in {"none", "coverage", "folders"}
  /\ e.fileTimer \in BOOLEAN /\ e.disposed \in BOOLEAN
  /\ e.pendingFiles \in [Items -> {"no", "plain", "forced"}]
  /\ e.missing \subseteq Files /\ e.opening \subseteq Documents
  /\ e.fingerprint \in [Files -> Versions \cup {Nil}]
  /\ e.shown \in [Files -> Versions \cup {Nil}]
  /\ e.document \in [Documents -> {"none", "stale", "current"}]
  /\ e.folderSeen \in [Watched -> Versions \cup {Nil}]
  /\ e.known \subseteq Items
  /\ \A x \in Items : e.sourceSeen[x] \in [Watched -> Versions \cup {Nil}]
  /\ \A i \in DOMAIN e.contexts : e.contexts[i] \in [file : Watched, own : BOOLEAN]
  /\ \A s \in e.scans :
       /\ s.folder \in Folders /\ s.live \in BOOLEAN
       /\ s.phase \in {"waiting", "submitted", "queued", "report", "observe", "settle"}
       /\ s.live \/ s.phase = "report"
       /\ s.ahead <= Len(e.contexts)
  /\ e.flush.phase \in {"idle", "context", "files", "document", "batches"}
  /\ e.flush.ahead <= Len(e.contexts)

-----------------------------------------------------------------------------
(* Revoking requests.                                                      *)

\* The requests in old are no longer current.  One that renders its report finds
\* out only afterwards.
Revoke(state, old) ==
  [state EXCEPT !.scans =
     (@ \ old) \cup {[s EXCEPT !.live = FALSE] : s \in {t \in old : t.phase = "report"}}]

\* scanRevisions moves and lint.cancel(workspace:f), for some folders.
Bump(state, folders) ==
  Revoke(state, {s \in state.scans : s.folder \in folders /\ s.kind = "full"})

FoldersOf(S) == {FolderOf[x] : x \in S}

\* queueFile for each of the files in S: those without a ready root are not queued.
Queueable(state, S) ==
  IF state.disposed THEN {} ELSE {x \in S : FolderOf[x] \in state.marked}
QueueFiles(state, S, force) ==
  LET queued == Queueable(state, S) IN
  [Bump(state, FoldersOf(queued)) EXCEPT
     !.pendingFiles = [x \in Items |->
        IF x \notin queued THEN @[x]
        ELSE IF force \/ @[x] = "forced" THEN "forced" ELSE "plain"],
     !.fileTimer = @ \/ queued # {}]

MutQueueCoverageLate(state, f) ==
  [state EXCEPT !.complete = @ \ {f},
     !.pendingRefresh = @ \cup {f},
     !.refreshTimer = IF state.pendingRefresh # {} THEN @ ELSE "none"]

QueueCoverage(state, f) ==
  [state EXCEPT !.complete = @ \ {f},
     !.pendingRefresh = @ \cup {f},
     !.refreshTimer = IF f \in state.pendingRefresh THEN @ ELSE "coverage"]

\* forgetFile for each: a selected batch in the lane is cancelled, whatever it
\* selected.
Forget(state, S) ==
  [Bump(state, FoldersOf(S)) EXCEPT
     !.scans = {s \in @ : ~(s.folder \in FoldersOf(S) /\ s.kind = "files"
                            /\ s.phase = "queued")},
     !.fingerprint = [x \in Files |-> IF x \in S THEN Nil ELSE @[x]],
     !.missing = @ \ S,
     !.pendingFiles = [x \in Items |-> IF x \in S THEN "no" ELSE @[x]],
     !.shown = [x \in Files |-> IF x \in S THEN Nil ELSE @[x]],
     !.known = @ \ S,
     !.sourceSeen = [x \in Items |-> IF x \in S THEN Blank ELSE @[x]]]

\* Absence is confirmed once more before a file is forgotten.
ConfirmMissing(state, S) ==
  LET again == S \cap state.missing
      first == S \ again
  IN  IF S = {} THEN state
      ELSE QueueFiles([Forget(state, again) EXCEPT !.missing = @ \cup first], first, FALSE)

ForceFiles(state, S) == QueueFiles(state, S, TRUE)

\* contextEvent for each: an event without a ready root has no target.
ContextEvents(state, W) ==
  IF W = {} THEN state
  ELSE [state EXCEPT !.contexts = @ \o SetToSeq(
          {[file |-> w, own |-> TRUE] : w \in Queueable(state, W)})]

-----------------------------------------------------------------------------
(* The disk, the user and the roots.                                       *)

Happens == happened < MaxEvents /\ happened' = happened + 1

Edit(w) ==
  /\ Happens
  /\ disk' = [disk EXCEPT ![w] = happened + 2]
  /\ undelivered' = undelivered \cup {w}
  /\ UNCHANGED e

Vanish(x) ==
  /\ Happens
  /\ x \in Vanishing /\ disk[x] # 0
  /\ disk' = [disk EXCEPT ![x] = 0]
  /\ undelivered' = undelivered \cup {x}
  /\ UNCHANGED e

Deliver(w) ==
  /\ w \in undelivered
  /\ undelivered' = undelivered \ {w}
  /\ e' = ContextEvents(e, {w})
  /\ UNCHANGED <<disk, happened>>

MutRefreshFoldersQuietly(state, f) ==
  [Revoke(state, {s \in state.scans : s.folder = f}) EXCEPT
     !.pendingRefresh = @ \cup {f},
     !.complete = @ \ {f},
     !.contexts = [i \in DOMAIN @ |->
        IF FolderOf[@[i].file] = f THEN [@[i] EXCEPT !.own = FALSE] ELSE @[i]]]

\* refreshFolders: graph, results and requests of the folder are dropped.  A
\* document's check that waits for the roots has not looked at them yet.
RefreshFolders(state, f) ==
  LET dropped == Revoke(state, {s \in state.scans : s.folder = f /\
                   ~(s.kind = "document" /\ s.phase = "waiting")})
  IN  [dropped EXCEPT
         !.folderSeen = [w \in Watched |-> IF FolderOf[w] = f THEN Nil ELSE @[w]],
         !.known = @ \ In(f, Items),
         !.sourceSeen = [x \in Items |-> IF FolderOf[x] = f THEN Blank ELSE @[x]],
         !.contexts = [i \in DOMAIN @ |->
            IF FolderOf[@[i].file] = f THEN [@[i] EXCEPT !.own = FALSE] ELSE @[i]],
         !.flush.rooted = @ \ {f},
         !.complete = @ \ {f},
         !.shown = [x \in Files |-> IF FolderOf[x] = f THEN Nil ELSE @[x]],
         !.document = [d \in Documents |-> IF FolderOf[d] = f THEN "none" ELSE @[d]],
         !.pendingRefresh = @ \cup {f},
         !.refreshTimer = "folders"]

\* The marker of a folder appears or goes; MarkedRoots tells the editor.
MoveRoot(f) ==
  /\ Happens /\ ~e.disposed
  /\ e' = RefreshFolders([e EXCEPT !.marked = (@ \ {f}) \cup ({f} \ @)], f)
  /\ UNCHANGED <<disk, undelivered>>

CheckDocuments(state, docs, owner) ==
  [state EXCEPT !.scans =
     @ \cup {Request(FolderOf[d], "document", owner, {d}, Blank) : d \in docs}]

CheckSaved(state, folders, owner) ==
  [state EXCEPT !.scans = @ \cup {Request(f, "full", owner, {}, Blank) : f \in folders}]

\* activate checks every open document once the first probes are done.
Activate(d) ==
  /\ d \in e.opening
  /\ e' = LET opened == [e EXCEPT !.opening = @ \ {d}]
          IN  IF FolderOf[d] \in e.marked THEN CheckDocuments(opened, {d}, "other") ELSE opened
  /\ UNCHANGED <<disk, undelivered, happened>>

\* Check Workspace, one folder of it, and Check Document.
CheckWorkspace(f) ==
  /\ Happens /\ f \in e.marked \cap Asked
  /\ e' = CheckSaved(e, {f}, "other")
  /\ UNCHANGED <<disk, undelivered>>

CheckByUser(d) ==
  /\ Happens /\ d \in Asked /\ FolderOf[d] \in e.marked
  /\ e' = CheckDocuments(e, {d}, "other")
  /\ UNCHANGED <<disk, undelivered>>

Dispose ==
  /\ MayDispose /\ ~e.disposed
  /\ e' = [Revoke(e, e.scans) EXCEPT
       !.disposed = TRUE, !.marked = {}, !.refreshTimer = "none", !.fileTimer = FALSE,
       !.pendingFiles = [x \in Items |-> "no"], !.complete = {},
       !.shown = [x \in Files |-> Nil], !.document = [d \in Documents |-> "none"],
       !.folderSeen = Blank, !.known = {}, !.sourceSeen = [x \in Items |-> Blank],
       !.contexts = [i \in DOMAIN @ |-> [@[i] EXCEPT !.own = FALSE]]]
  /\ UNCHANGED <<disk, undelivered, happened>>

-----------------------------------------------------------------------------
(* The context queue.                                                      *)

Affected(state, w) ==
  {x \in state.known : w \in Observes(x) /\ state.sourceSeen[x][w] # disk[w]}

\* Everything waiting behind the event moves up.
Dequeue(state) ==
  [state EXCEPT
     !.contexts = Tail(@),
     !.scans = {[s EXCEPT !.ahead = IF @ > 0 THEN @ - 1 ELSE 0] : s \in @},
     !.flush.ahead = IF @ > 0 THEN @ - 1 ELSE 0]

\* complete: what the graph records of a confirmed event.
Confirm(state, w) ==
  [state EXCEPT
     !.folderSeen[w] = disk[w],
     !.sourceSeen = [x \in Items |->
        IF x \in state.known /\ w \in Observes(x) THEN [@[x] EXCEPT ![w] = disk[w]]
        ELSE @[x]],
     !.scans = {IF s.folder = FolderOf[w] THEN [s EXCEPT !.told = @ \cup {<<w, disk[w]>>}]
                ELSE s : s \in @}]

\* applyContextEvent for a source file.
ApplyFile(state, x, affected) ==
  LET f == FolderOf[x]
      queued == QueueFiles(ForceFiles(state, affected), {x}, FALSE)
  IN  IF f \in state.complete THEN queued ELSE QueueCoverage(Bump(queued, {f}), f)

\* The request has taken the revision of the folder's admission.
Admitted(s) == s.kind = "document" => s.phase \notin {"waiting", "submitted"}

MutApplyControlOnly(state, c, affected) ==
  LET f == FolderOf[c]
      docs == affected \cap Documents
      revoked == Revoke(state, {s \in state.scans : s.folder = f /\ Admitted(s)})
  IN  ForceFiles([revoked EXCEPT
        !.document = [d \in Documents |->
           IF d \in docs /\ @[d] = "current" THEN "stale" ELSE @[d]],
        !.flush.admitted = @ \ {f},
        !.pendingFiles = [x \in Items |-> IF x \in In(f, Files) THEN "no" ELSE @[x]]], docs)

\* applyContextEvent for an ignore control: admission moves, which revokes every
\* request of the folder; the full scan replaces the closed files' checks.
ApplyControl(state, c, affected) ==
  LET f == FolderOf[c]
      docs == affected \cap Documents
      revoked == Revoke(state, {s \in state.scans : s.folder = f /\ Admitted(s)})
      stale == [revoked EXCEPT
        !.document = [d \in Documents |->
           IF d \in docs /\ @[d] = "current" THEN "stale" ELSE @[d]],
        !.flush.admitted = @ \ {f}]
      queued == ForceFiles(stale, docs)
  IN  QueueCoverage([queued EXCEPT !.pendingFiles =
        [x \in Items |-> IF x \in In(f, Files) THEN "no" ELSE @[x]]], f)

\* The event at the head: released without a root, withdrawn as an echo, or
\* confirmed and applied.
Context ==
  /\ e.contexts # <<>>
  /\ LET w == Head(e.contexts).file
         affected == Affected(e, w)
         confirmed == Confirm(e, w)
         echo == e.folderSeen[w] = disk[w] /\ affected = {}
     IN  e' = IF FolderOf[w] \notin e.marked \/ echo
              THEN Dequeue(e)
              ELSE Dequeue(IF w \in Controls THEN ApplyControl(confirmed, w, affected)
                           ELSE ApplyFile(confirmed, w, affected))
  /\ UNCHANGED <<disk, undelivered, happened>>

-----------------------------------------------------------------------------
(* The timers.                                                             *)

\* The callbacks of queueCoverage and of refreshFolders.
RefreshFires ==
  /\ e.refreshTimer # "none"
  /\ LET due == e.pendingRefresh \cap e.marked
         fired == [e EXCEPT !.refreshTimer = "none", !.pendingRefresh = {}]
         scanned == CheckSaved(fired, due, "other")
         docs == {d \in Documents : FolderOf[d] \in due /\ e.document[d] # "current"}
     IN  e' = IF e.refreshTimer = "folders"
              THEN CheckDocuments(scanned, docs, "other")
              ELSE scanned
  /\ UNCHANGED <<disk, undelivered, happened>>

\* fileTimer: one flush at a time.
FileTimerFires ==
  /\ e.fileTimer
  /\ e' = IF e.flush.phase # "idle" THEN [e EXCEPT !.fileTimer = FALSE]
          ELSE [e EXCEPT !.fileTimer = FALSE, !.flush.phase = "context",
                         !.flush.ahead = Len(e.contexts)]
  /\ UNCHANGED <<disk, undelivered, happened>>

-----------------------------------------------------------------------------
(* flushFiles.                                                             *)

FlushTake ==
  /\ e.flush.phase = "context" /\ e.flush.ahead = 0
  /\ e' = IF e.disposed THEN [e EXCEPT !.flush = IdleFlush]
          ELSE [e EXCEPT !.flush.phase = "files", !.flush.todo = e.pendingFiles,
                         !.pendingFiles = [x \in Items |-> "no"]]
  /\ UNCHANGED <<disk, undelivered, happened>>

\* The folder's authority is taken with its first file.
Meet(state, f) ==
  IF f \in state.flush.met THEN state
  ELSE [state EXCEPT !.flush.met = @ \cup {f}, !.flush.rooted = @ \cup {f},
                     !.flush.admitted = @ \cup {f}]

FlushRead(x) ==
  /\ e.flush.phase = "files" /\ e.flush.todo[x] # "no"
  /\ LET f == FolderOf[x]
         met == Meet([e EXCEPT !.flush.todo[x] = "no"], f)
         found == [met EXCEPT !.missing = @ \ {x}]
         echo == e.flush.todo[x] = "plain" /\ e.fingerprint[x] = disk[x]
     IN  e' = IF f \notin e.marked \/ f \notin met.flush.rooted THEN met
              ELSE IF x \in Documents
              THEN [CheckDocuments(met, {x}, "flush") EXCEPT
                      !.flush.phase = "document", !.flush.item = x]
              ELSE IF disk[x] = 0 THEN ConfirmMissing(met, {x})
              ELSE IF echo THEN found
              ELSE [found EXCEPT !.flush.selected[x] = disk[x]]
  /\ UNCHANGED <<disk, undelivered, happened>>

FlushDocument ==
  /\ e.flush.phase = "document"
  /\ \A s \in e.scans : s.kind = "document" => e.flush.item \notin s.items
  /\ e' = [e EXCEPT !.flush.phase = "files", !.flush.item = Nil]
  /\ UNCHANGED <<disk, undelivered, happened>>

FlushFree ==
  /\ e.flush.phase = "files" /\ \A x \in Items : e.flush.todo[x] = "no"
  /\ \A s \in e.scans : s.owner = "flush" => s.kind = "document"

Selected(f) == {x \in In(f, Files) : e.flush.selected[x] # Nil}

\* The closed files of one folder, under the authority that admitted the flush.
FlushBatch(f) ==
  /\ FlushFree /\ Selected(f) # {}
  /\ LET taken == [e EXCEPT !.flush.selected = [w \in Watched |->
                     IF FolderOf[w] = f THEN Nil ELSE @[w]]]
         want == [w \in Watched |-> IF w \in Selected(f) THEN e.flush.selected[w] ELSE Nil]
     IN  e' = IF f \in e.marked /\ f \in e.flush.rooted /\ f \in e.flush.admitted
              THEN [taken EXCEPT !.scans =
                      @ \cup {Request(f, "files", "flush", Selected(f), want)}]
              ELSE taken
  /\ UNCHANGED <<disk, undelivered, happened>>

\* A selected file may have revoked the folder's full scan: it is still owed.
FlushCoverage(f) ==
  /\ FlushFree /\ \A g \in Folders : Selected(g) = {}
  /\ f \in e.flush.met
  /\ LET done == [e EXCEPT !.flush.met = @ \ {f}]
     IN  e' = IF /\ f \in e.flush.rooted /\ f \in e.marked
                 /\ f \notin e.complete /\ f \notin e.pendingRefresh
              THEN CheckSaved(done, {f}, "flush") ELSE done
  /\ UNCHANGED <<disk, undelivered, happened>>

Waiting == \E x \in Items : e.pendingFiles[x] # "no"

FlushEnds ==
  /\ FlushFree /\ e.flush.met = {} /\ \A f \in Folders : Selected(f) = {}
  /\ e' = [e EXCEPT !.flush = IdleFlush, !.fileTimer = @ \/ Waiting]
  /\ UNCHANGED <<disk, undelivered, happened>>

Flush ==
  \/ FlushDocument \/ FlushEnds
  \/ \E x \in Items : FlushRead(x)
  \/ \E f \in Folders : FlushBatch(f) \/ FlushCoverage(f)

-----------------------------------------------------------------------------
(* A request.                                                              *)

Becomes(s, t) == [e EXCEPT !.scans = (@ \ {s}) \cup {t}]
Without(s) == [e EXCEPT !.scans = @ \ {s}]

\* await ready.  A document's check then awaits its admission.
Wait(s) ==
  /\ s.phase = "waiting"
  /\ e' = IF s.folder \in e.marked THEN Becomes(s, [s EXCEPT !.phase = "submitted"])
          ELSE Without(s)
  /\ UNCHANGED <<disk, undelivered, happened>>

\* check shares a request for the same document that is already on its way.
Shared(s) == \E t \in e.scans : /\ t.kind = "document" /\ t.items = s.items /\ t.live
                               /\ t.phase \notin {"waiting", "submitted"}

\* lint.submit: the newest request of a key replaces the older one.  A document's
\* check takes its dependency token only now.
Submit(s) ==
  /\ s.phase = "submitted"
  /\ e' = IF s.kind = "document" /\ Shared(s) THEN Without(s)
          ELSE [e EXCEPT !.scans =
                  {t \in @ \ {s} : ~(t.phase = "queued" /\ t.kind = s.kind
                                     /\ t.folder = s.folder /\ s.kind # "document")}
                  \cup {[s EXCEPT !.phase = "queued",
                           !.told = IF s.kind = "document" THEN {} ELSE @]}]
  /\ UNCHANGED <<disk, undelivered, happened>>

Reads(s) ==
  CASE s.kind = "full" -> In(s.folder, Watched)
    [] s.kind = "files" -> (s.items \cap Files) \cup In(s.folder, Controls)
    [] s.kind = "document" -> In(s.folder, Controls)

\* The program runs.  A named file that does not exist fails the whole request,
\* which is reported and not repeated.
Run(s) ==
  /\ s.phase = "queued"
  /\ e' = IF s.kind = "files" /\ \E x \in s.items : disk[x] = 0 THEN Without(s)
          ELSE Becomes(s, [s EXCEPT !.phase = "report",
                 !.read = [w \in Watched |-> IF w \in Reads(s) THEN disk[w] ELSE Nil]])
  /\ UNCHANGED <<disk, undelivered, happened>>

\* checkSaved reads every reported file again: one that is gone or differs is
\* queued, which revokes a full scan, this one included.
Render(s) ==
  /\ s.phase = "report"
  /\ LET reported == {x \in Files : s.read[x] > 0}
         gone == {x \in reported : disk[x] = 0}
         moved == {x \in reported \ gone :
                     disk[x] # s.read[x] \/ (s.kind = "files" /\ disk[x] # s.want[x])}
         queued == ConfirmMissing(ForceFiles(Without(s), moved), gone)
         own == CASE s.kind = "full" -> In(s.folder, Documents)
                  [] s.kind = "files" -> {}
                  [] s.kind = "document" -> s.items
     IN  e' = IF s.live /\ (s.kind = "full" => gone \cup moved = {})
              THEN [queued EXCEPT !.scans = @ \cup
                      {[s EXCEPT !.phase = "observe",
                                 !.accepted = (reported \ (gone \cup moved)) \cup own]}]
              ELSE queued
  /\ UNCHANGED <<disk, undelivered, happened>>

Observed(s) == UNION {Observes(x) : x \in s.accepted}

Settling == {s \in e.scans : s.phase = "settle"}

\* observeAnalysis: what changed meanwhile becomes an event; then the request
\* waits for the events queued so far.  Those that wait for the same event continue
\* in their order.
Observe(s) ==
  /\ s.phase = "observe"
  /\ LET changed == {w \in Observed(s) : disk[w] # s.read[w]}
         told == ContextEvents(Without(s), changed)
     IN  e' = [told EXCEPT !.scans = @ \cup
           {[s EXCEPT !.phase = "settle", !.ahead = Len(told.contexts),
                      !.turn = Max({0} \cup {t.turn : t \in Settling}) + 1,
                      !.changed = changed # {}]}]
  /\ UNCHANGED <<disk, undelivered, happened>>

\* accept rejects a report older than an event of a file it observes.
Rejected(s) ==
  \E w \in Observed(s) :
    \/ \E i \in DOMAIN e.contexts : e.contexts[i] = [file |-> w, own |-> TRUE]
    \/ \E v \in Versions : <<w, v>> \in s.told /\ v # s.read[w]

\* retry: the request starts over through the queues.
Retry(s) ==
  IF s.kind = "full" THEN QueueCoverage(Without(s), s.folder)
  ELSE ForceFiles(Without(s), s.items)

\* accept, storeScan, storeDocument.
Accepted(s) ==
  [Without(s) EXCEPT
     !.folderSeen = [w \in Watched |-> IF w \in Observed(s) THEN s.read[w] ELSE @[w]],
     !.known = (IF s.kind = "full" THEN @ \ In(s.folder, Files) ELSE @) \cup s.accepted,
     !.sourceSeen = [x \in Items |->
        IF x \in s.accepted
        THEN [w \in Watched |-> IF w \notin Observes(x) THEN Nil
                                ELSE IF x \in e.known THEN @[x][w] ELSE s.read[w]]
        ELSE IF s.kind = "full" /\ x \in In(s.folder, Files) THEN Blank ELSE @[x]],
     !.shown = [x \in Files |-> IF x \in s.accepted THEN s.read[x]
        ELSE IF s.kind = "full" /\ FolderOf[x] = s.folder THEN Nil ELSE @[x]],
     !.fingerprint = [x \in Files |->
        IF s.kind = "files" /\ x \in s.accepted THEN s.want[x] ELSE @[x]],
     !.complete = IF s.kind = "full" THEN @ \cup {s.folder} ELSE @,
     !.document = [d \in Documents |->
        IF s.kind = "document" /\ d \in s.items THEN "current" ELSE @[d]]]

Settle(s) ==
  /\ s.phase = "settle" /\ s.ahead = 0
  /\ \A t \in Settling : t.ahead = 0 => s.turn <= t.turn
  /\ e' = IF s.changed \/ Rejected(s) THEN Retry(s) ELSE Accepted(s)
  /\ UNCHANGED <<disk, undelivered, happened>>

Step(s) == Wait(s) \/ Submit(s) \/ Run(s) \/ Render(s) \/ Observe(s)

-----------------------------------------------------------------------------

World ==
  \/ \E w \in Watched : Edit(w)
  \/ \E x \in Files : Vanish(x)
  \/ \E f \in Folders : MoveRoot(f) \/ CheckWorkspace(f)
  \/ \E d \in Documents : CheckByUser(d)
  \/ Dispose

Editor ==
  \/ \E w \in Watched : Deliver(w)
  \/ \E d \in Documents : Activate(d)
  \/ Context \/ RefreshFires \/ FileTimerFires \/ Flush
  \/ \E s \in e.scans : Step(s)

\* A promise that resolved continues before anything else happens.
Resolved ==
  \/ e.flush.phase = "context" /\ e.flush.ahead = 0
  \/ \E s \in Settling : s.ahead = 0

Continue == FlushTake \/ \E s \in e.scans : Settle(s)

Next == IF Resolved THEN Continue ELSE World \/ Editor

\* Watchers deliver, timers fire, promises settle and processes end.
Spec == Init /\ [][Next]_vars /\ WF_vars(Continue) /\ WF_vars(~Resolved /\ Editor)

-----------------------------------------------------------------------------
(* Properties.                                                             *)

Flushing == e.flush.phase # "idle"

Quiet ==
  /\ undelivered = {} /\ e.contexts = <<>> /\ e.scans = {} /\ e.opening = {}
  /\ ~e.fileTimer /\ e.refreshTimer = "none" /\ ~Flushing

\* Somebody still owes the folder a full scan: a pending refresh, a scan, a queued
\* file (the flush ends with the scan), an event.
Owed(f) ==
  \/ f \in e.pendingRefresh
  \/ \E s \in e.scans : s.folder = f /\ s.kind = "full" /\ s.live
  \/ \E x \in In(f, Items) : e.pendingFiles[x] # "no" \/ e.flush.todo[x] # "no"
  \/ f \in e.flush.met \cap e.flush.rooted
  \/ \E i \in DOMAIN e.contexts : FolderOf[e.contexts[i].file] = f
  \/ \E w \in undelivered : FolderOf[w] = f

\* A marked root without complete coverage is never abandoned: a selected file can
\* revoke the first full scan, and queued files, events and refreshes can revoke
\* each other, but one of them still owes the scan (lines 2355-2360, 2550-2563).
CoverageIsOwed == \A f \in e.marked \ e.complete : Owed(f)

\* What is pending has a timer or a flush that will take it, and after disposal
\* nothing is armed and nothing is in the lane.
PendingIsArmed ==
  /\ ~e.disposed /\ e.pendingRefresh # {} => e.refreshTimer # "none"
  /\ Waiting => e.fileTimer \/ Flushing
  /\ e.disposed => /\ ~e.fileTimer /\ e.refreshTimer = "none"
                   /\ \A s \in e.scans : s.phase = "report"

\* When everything is quiet, every closed file of a covered root shows what is on
\* the disk: changing a file rechecks that file, whatever happens to the files that
\* change with it (README.md of the extension, line 45).
ClosedFilesAreCurrent ==
  Quiet /\ ~e.disposed =>
    \A x \in Files \ Vanishing :
      FolderOf[x] \in e.marked \cap e.complete => e.shown[x] = disk[x]

\* When everything is quiet, every open document of a marked root has a current
\* result of its own: re-adding a marker starts fresh checks (README.md, line 108).
OpenDocumentsAreChecked ==
  Quiet /\ ~e.disposed =>
    \A d \in Documents : FolderOf[d] \in e.marked => e.document[d] = "current"

\* Somebody still owes the document a check: its opening, a queue, a request, or the
\* callback of refreshFolders.
DocumentOwed(d) ==
  \/ d \in e.opening
  \/ e.pendingFiles[d] # "no" \/ e.flush.todo[d] # "no"
  \/ \E s \in e.scans : s.kind = "document" /\ d \in s.items /\ s.live
  \/ e.refreshTimer = "folders" /\ FolderOf[d] \in e.pendingRefresh

\* The open documents whose check is lost in this step, queueCoverage replacing the
\* callback of refreshFolders, which checks them, by its own; and those of earlier
\* steps that are still neither owed a check nor checked.
Replaced(earlier) ==
  {d \in Documents :
    /\ \/ d \in earlier
       \/ /\ e.refreshTimer = "folders" /\ e'.refreshTimer = "coverage"
          /\ FolderOf[d] \in e.pendingRefresh
    /\ e'.document[d] # "current" /\ ~DocumentOwed(d)'}

\* An open document of a marked root without a current result is always owed a
\* check: the only way to lose one is that queueCoverage replaces the timer of
\* refreshFolders (line 2366, the documents in replaced), whatever events
\* and retries come between its opening or re-marking and the check.
OpenDocumentsAreOwed(replaced) ==
  ~e.disposed =>
    \A d \in Documents \ replaced :
      FolderOf[d] \in e.marked /\ e.document[d] # "current" => DocumentOwed(d)

\* Refreshes, flushes, retries and echoes come to an end: the editor falls silent
\* after the last event, and join returns after a disposal.
FallsSilent == <>[]Quiet

=============================================================================
