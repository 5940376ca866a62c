----------------------------- MODULE MCEndings -----------------------------
(***************************************************************************)
(* The parts whose work must come to an end, for TLC: checks while typing, *)
(* one owned child process, one human report and the refreshes of one      *)
(* folder.  They do not interact; one run checks them, told apart by       *)
(* `part', which the initial state chooses and no step changes.  The       *)
(* process of the other parts does nothing; their other variables are      *)
(* None.                                                                   *)
(***************************************************************************)
EXTENDS OwnedProcess, Integers, Sequences

CONSTANTS
  Documents,  \* the documents typed in, among them "d1"
  Limit, MaxEdits,                                \* bounds of LiveChecks
  Reports,    \* the finding lists of the report
  WorkerLimit, Lookahead, ChunkCapacity, Pieces   \* limits of HumanReport

VARIABLES
  part,
  entries, timers, run, ready, cancelled, stopped, joining, joined, edits, due,
  ds, outer, canceled, queue, next, chunks, closed, worker, failures, pc, job,
  held, verdict, engine, out, returned,
  disk, undelivered, happened, e

typingVars == <<entries, timers, run, ready, cancelled, stopped, joining, joined,
                edits, due>>
reportVars == <<ds, outer, canceled, queue, next, chunks, closed, worker, failures,
                pc, job, held, verdict, engine, out, returned>>
folderVars == <<disk, undelivered, happened, e>>
mcVars == <<part, vars, typingVars, reportVars, folderVars>>

Typing == INSTANCE LiveChecks
Human == INSTANCE HumanReport WITH result <- returned
Folder == INSTANCE FolderRefresh WITH
  Folders <- {"root"}, Files <- {"x"}, Documents <- {"d"}, Controls <- {"c"},
  FolderOf <- [i \in {"x", "d", "c"} |-> "root"], Vanishing <- {"x"}, Asked <- {},
  MayDispose <- TRUE, MaxEvents <- 1

ASSUME EndingsAssumption ==
  /\ Typing!TypingAssumption /\ ProcessAssumption
  /\ Human!ReportAssumption /\ Folder!RefreshAssumption

\* No findings, one file, a path that comes back, and files of one and two
\* findings with more files than workers.
ShortReports ==
  {<<>>, <<"a">>, <<"a", "b", "a">>, <<"a", "a", "b">>, <<"a", "b", "b", "c">>}

-----------------------------------------------------------------------------
None == "none"
NoTyping ==
  /\ entries = None /\ timers = None /\ run = None /\ ready = None
  /\ cancelled = None /\ stopped = None /\ joining = None /\ joined = None
  /\ edits = None /\ due = None
NoProcess == Init /\ child = "none"
NoReport ==
  /\ ds = None /\ outer = None /\ canceled = None /\ queue = None /\ next = None
  /\ chunks = None /\ closed = None /\ worker = None /\ failures = None /\ pc = None
  /\ job = None /\ held = None /\ verdict = None /\ engine = None /\ out = None
  /\ returned = None
NoFolder == disk = None /\ undelivered = None /\ happened = None /\ e = None

MCInit ==
  \/ part = "process" /\ Init /\ NoTyping /\ NoReport /\ NoFolder
  \/ part = "typing" /\ Typing!Init /\ NoProcess /\ NoReport /\ NoFolder
  \/ part = "report" /\ Human!Init /\ NoProcess /\ NoTyping /\ NoFolder
  \/ part = "folder" /\ Folder!Init /\ NoProcess /\ NoTyping /\ NoReport

MCNext ==
  \/ /\ part = "process" /\ Next
     /\ UNCHANGED <<part, typingVars, reportVars, folderVars>>
  \/ /\ part = "typing" /\ Typing!Next
     /\ UNCHANGED <<part, vars, reportVars, folderVars>>
  \/ /\ part = "report" /\ Human!Next
     /\ UNCHANGED <<part, vars, typingVars, folderVars>>
  \/ /\ part = "folder" /\ Folder!Next
     /\ UNCHANGED <<part, vars, typingVars, reportVars>>

\* The fairness of each part: Node reports, an accepted SIGKILL is delivered,
\* timers fire, runs end, goroutines are scheduled.
ProcessFairness ==
  /\ WF_vars(part = "process" /\ Timeout)
  /\ WF_vars(part = "process" /\ SpawnError)
  /\ WF_vars(part = "process" /\ Reap)
  /\ WF_vars(part = "process" /\ Sweep)
  /\ WF_vars(part = "process" /\ Close)
  /\ WF_vars(part = "process" /\ Observe)
  /\ WF_vars(part = "process" /\ child = "doomed" /\ ChildFails)
  /\ \A h \in Helpers :
       WF_vars(part = "process" /\ helper[h] = "doomed" /\ HelperEnds(h))
  /\ WF_vars(part = "process" /\ OwnerLost)
  /\ WF_vars(part = "process" /\ TerminateLostOwner)
TypingFairness ==
  /\ WF_typingVars(part = "typing" /\ Typing!Fire)
  /\ WF_typingVars(part = "typing" /\ Typing!JoinReturn)
  /\ \A d \in Documents : WF_typingVars(part = "typing" /\ Typing!Finish(d))
ReportFairness ==
  /\ WF_reportVars(part = "report" /\ Human!Caller)
  /\ \A w \in 1..WorkerLimit :
       WF_reportVars(part = "report" /\ w \in Human!Workers /\ Human!WorkerStep(w))
FolderFairness ==
  /\ WF_folderVars(part = "folder" /\ Folder!Continue)
  /\ WF_folderVars(part = "folder" /\ ~Folder!Resolved /\ Folder!Editor)

MCSpec ==
  /\ MCInit /\ [][MCNext]_mcVars
  /\ ProcessFairness /\ TypingFairness /\ ReportFairness /\ FolderFairness

-----------------------------------------------------------------------------
(* Properties.                                                             *)

\* What is served while typing is exactly what is owed, within the slots, and
\* nothing is served after join (ServesExactlyTheDue, RunsAreCharged,
\* QuietAfterJoin of LiveChecks).
TypingIsServed ==
  part = "typing" =>
    Typing!ServesExactlyTheDue /\ Typing!RunsAreCharged /\ Typing!QuietAfterJoin

\* A parallel report writes a prefix of the sequential one, is complete when it
\* succeeds, reports the cause otherwise and closes the highlighter after its last
\* use (OutputIsSequentialPrefix, SuccessIsComplete, CauseIsReported,
\* EngineOutlivesWorkers of HumanReport).
ReportIsSequential ==
  part = "report" =>
    /\ Human!OutputIsSequentialPrefix /\ Human!SuccessIsComplete
    /\ Human!CauseIsReported /\ Human!EngineOutlivesWorkers

\* What somebody waits for happens: an edit of a document is checked, unless it is
\* withdrawn or gives up its slot (EveryEditServed of LiveChecks; the documents
\* are alike, so one stands for all), and a program whose editor dies ends with its
\* helpers unless it crashes first (OwnerLossEndsTree of OwnedProcess).
OwedIsServed ==
  \/ part = "typing" /\ "d1" \in due
  \/ part = "process" /\ host = "down" /\ child = "up"
  ~>
  \/ part = "typing" /\ "d1" \notin due
  \/ part = "process" /\ child = "zombie" /\ (Live = {} \/ result = "crash")

\* Everything comes to rest: a run settles, as long as its host lives and no signal
\* was denied to a group that still lives (EveryRunSettles); a report returns
\* whatever fails, fills up or is canceled (ReportReturns); and refreshes, flushes,
\* retries and echoes end, with or without a disposal (FallsSilent).
ComesToRest ==
  <>[](/\ part = "process" => \/ Settled \/ host = "down"
                              \/ denied # "no" /\ Live # {}
       /\ part = "report" => returned # "running"
       /\ part = "folder" => Folder!Quiet)

=============================================================================
