-------------------------- MODULE MCFolderRefresh --------------------------
(***************************************************************************)
(* Workspace folders for TLC: MarkedRoots and two instances of             *)
(* FolderRefresh.  One run checks several, told apart by `setting', which  *)
(* the initial state chooses and no step changes.  The marked roots are    *)
(* two folders over one directory and its alias, and a document with       *)
(* watchers of its own.  Own is a folder of closed files, or what the      *)
(* configuration gives; Two has two roots, of which the first holds a      *)
(* document and the second a file.                                         *)
(***************************************************************************)
EXTENDS MarkedRoots, TLC

CONSTANTS
  Settings,                     \* of the run
  rootA, rootB, Roots, Files, OpenDocuments, Controls, FolderOf, Vanishing,
  Asked, MayDispose, MaxEvents  \* of Own

VARIABLES setting, content, undelivered, happened, e,
  replaced  \* history: documents of Two whose check a later timer replaced

OneDirectory == [s \in Sources |-> "dir"]
OneRoot == [i \in Files \cup OpenDocuments \cup Controls |-> rootA]
TwoRoots == [i \in Files \cup OpenDocuments \cup Controls |->
               IF i \in OpenDocuments THEN rootA ELSE rootB]
FilesAlike == Permutations(Files)

Own == INSTANCE FolderRefreshProofs WITH
  Folders <- Roots, Documents <- OpenDocuments, disk <- content

Two == INSTANCE FolderRefreshProofs WITH
  Folders <- {"one", "two"}, Files <- {"x"}, Documents <- {"d"}, Controls <- {},
  FolderOf <- [d |-> "one", x |-> "two"], Vanishing <- {}, Asked <- {"d", "one"},
  MayDispose <- FALSE, MaxEvents <- 2, disk <- content

ASSUME SettingsAssumption ==
  RootsAssumption /\ Own!RefreshAssumption /\ Two!RefreshAssumption

refreshVars == <<content, undelivered, happened, e>>
mcVars == <<setting, vars, refreshVars, replaced>>

NoRoots == Init /\ marker = [s \in Directories |-> 0]
NoRefresh ==
  content = None /\ undelivered = None /\ happened = None /\ e = None

\* Bound: of Two only the second root is marked at first; a start with both is its
\* state after one event.
MCInit ==
  /\ setting \in Settings
  /\ replaced = {}
  /\ \/ setting = "roots" /\ Init /\ NoRefresh
     \/ setting = "own" /\ Own!Init /\ NoRoots
     \/ setting = "two" /\ Two!Init /\ NoRoots /\ e.marked = {"two"}

\* Bound: at most three probes run at a time.
FewProbes == Cardinality({p \in DOMAIN probes : ~Settled(p)}) <= 3

MCNext ==
  \/ /\ setting = "roots" /\ Next /\ FewProbes'
     /\ UNCHANGED <<setting, refreshVars, replaced>>
  \/ setting = "own" /\ Own!Next /\ UNCHANGED <<setting, vars, replaced>>
  \/ /\ setting = "two" /\ Two!Next /\ UNCHANGED <<setting, vars>>
     /\ replaced' = Two!Replaced(replaced)

MCSpec == MCInit /\ [][MCNext]_mcVars

\* Bound: the second root stays marked, and the marker of the first appears last.
LastMarked == rootB \in e.marked /\ (rootA \in e.marked <=> happened = MaxEvents)

\* Bound: events come only while every root is marked and covered.
Covered == e.marked = Roots /\ (happened > 0 => e.complete = Roots)

-----------------------------------------------------------------------------
(* Properties of FolderRefresh; RootsAreCurrent and ReadyMeansProbed are   *)
(* MarkedRoots' own.                                                       *)

\* No marked root without complete coverage is abandoned, and what is pending has
\* a timer or a flush that takes it: in one folder of closed files and in two
\* folders that share the timers and the flush (CoverageIsOwed, PendingIsArmed).
OwedAndArmed ==
  /\ setting = "own" => Own!CoverageIsOwed /\ Own!PendingIsArmed
  /\ setting = "two" => Two!CoverageIsOwed /\ Two!PendingIsArmed

\* ClosedFilesAreCurrent: when everything is quiet, every closed file of a covered
\* root shows what is on the disk.
ClosedFilesSettle == setting = "own" => Own!ClosedFilesAreCurrent

\* OpenDocumentsAreOwed of two roots that share the timers: an open document of a
\* marked root without a current result is always owed a check, and the only way to
\* lose it is a queueCoverage that replaces the callback of refreshFolders.
DocumentsAreOwed == setting = "two" => Two!OpenDocumentsAreOwed(replaced)

\* The same two, where the configuration looks for what breaks them: the selected
\* batch of a flush whose other file vanished, and a root marked while a file event
\* of another root replaces the timer.
ClosedFilesAreCurrent == Own!ClosedFilesAreCurrent
OpenDocumentsAreChecked == Own!OpenDocumentsAreChecked

=============================================================================
