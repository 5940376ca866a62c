---------------------------- MODULE CheckCommand ----------------------------
(***************************************************************************)
(* The check command (cmd/check.go) and the writer behind --fix            *)
(* (lint/fixes.go, lint/source_identity.go): one program works on files    *)
(* that other programs edit, replace, link, redirect and move at any       *)
(* moment, and that survive it when it is killed or the power fails.       *)
(*                                                                         *)
(* A content is a member of a small set.  Repaired says what the fix       *)
(* planner makes of it and Dirty which contents carry findings.            *)
(***************************************************************************)
EXTENDS Naturals, FiniteSets

CONSTANTS
  FileCount,    \* the selected names are 1..FileCount, in the order of sortedKeys
  Templates,    \* the names that lie in a template directory
  Contents,     \* what a file may hold
  Repaired,     \* the content the planned fixes make of a content
  Dirty,        \* the contents with findings
  MaxMoves,     \* bound: moves of other programs
  MaxRuns       \* bound: starts of the program

Names == 1..FileCount
Torn == "torn"       \* a write that was cut short
Absent == 0          \* no inode

ASSUME ContentsAssumption ==
  /\ FileCount \in Nat \ {0}
  /\ Templates \subseteq Names
  /\ Torn \notin Contents
  /\ Repaired \in [Contents -> Contents]
  /\ Dirty \subseteq Contents

VARIABLES
  disk,      \* the directory entry and inode behind each name
  temp,      \* the private sibling being prepared
  fresh,     \* the next inode number
  moves,     \* moves of other programs so far
  runs,      \* starts of the program so far
  pc,        \* the stage of the running command
  at,        \* the name the stage is at
  run,       \* what the accepted options ask for
  project,   \* the admitted entry of each name: bytes, inode, mode, parent
  found,     \* the names with findings in the last analysis
  plan,      \* the names with a planned change
  canceled,  \* the command's context was canceled
  exit,      \* the exit status, or 9 while running
  calm,      \* observed: "run" nobody else moved in this run, "load" nobody
             \* since the last loading began, "no" somebody did
  gap        \* observed: somebody moved since the last comparison of bytes

vars == <<disk, temp, fresh, moves, runs, pc, at, run, project, found, plan,
          canceled, exit, calm, gap>>

world == <<disk, temp, fresh, moves>>
admitted == <<run, project, found, plan>>
observed == <<calm, gap>>

Running == 9
NoTemp == [data |-> Torn, mode |-> 0, synced |-> FALSE, exists |-> FALSE]
Present(n) == disk[n].file # Absent

\* What the flags and arguments of a start can say.  stdin counts the '-'
\* arguments; since stands for --changed-since.
Requests ==
  [ format : {"human", "json", "sarif", "bogus"}, fix : BOOLEAN,
    diff : BOOLEAN, analysis : BOOLEAN, since : BOOLEAN, stdin : 0..2,
    filename : BOOLEAN, sourceName : BOOLEAN, paths : BOOLEAN,
    explicit : SUBSET Templates ]

\* checkOptions.loadOptions and cobra's exclusive flags: the requests refused
\* before anything is read.
Refused(o) ==
  \/ o.fix /\ o.diff
  \/ o.format = "bogus"
  \/ o.diff /\ o.format \in {"json", "sarif"}
  \/ o.analysis /\ o.format # "json"
  \/ o.since /\ (o.paths \/ o.stdin > 0 \/ o.filename \/ o.sourceName \/ o.fix)
  \/ o.stdin > 1
  \/ (o.stdin = 1) # o.filename
  \/ o.sourceName /\ o.stdin # 1
  \/ o.stdin = 1 /\ (o.fix \/ o.diff)

\* A name is loaded explicitly only when paths are given.
AcceptedRun(o) ==
  [ mode |-> IF o.fix THEN "fix" ELSE IF o.diff THEN "diff" ELSE "check",
    explicit |-> IF o.paths THEN o.explicit ELSE {},
    stdin |-> o.stdin = 1 ]

NoRun == [mode |-> "check", explicit |-> {}, stdin |-> FALSE]
\* The runs that get past the options.
AcceptedRuns == {AcceptedRun(o) : o \in {o \in Requests : ~Refused(o)}}

Init ==
  /\ disk \in [Names -> [file : {1}, data : Contents, mode : {0}, links : {1},
                         owner : {"self"}, parent : {0}, synced : {TRUE}]]
  /\ temp = NoTemp /\ fresh = 2 /\ moves = 0 /\ runs = 0
  /\ pc = "idle" /\ at = 1 /\ run = NoRun
  /\ project = [n \in {} |-> 0] /\ found = {} /\ plan = {}
  /\ canceled = FALSE /\ exit = Running
  /\ calm = "no" /\ gap = FALSE

-----------------------------------------------------------------------------
(***************************************************************************)
(* What other programs do to a file between two system calls of ours.      *)
(***************************************************************************)

Changed(n, entry) ==
  /\ moves < MaxMoves /\ moves' = moves + 1
  /\ disk' = [disk EXCEPT ![n] = entry]
  /\ calm' = "no" /\ gap' = (gap \/ (n = at /\ pc = "rename"))
  /\ UNCHANGED <<temp, runs, pc, at, run, project, found, plan, canceled, exit>>

OthersEdit(n) == \E c \in Contents \ {disk[n].data} :
  /\ Present(n) /\ Changed(n, [disk[n] EXCEPT !.data = c]) /\ UNCHANGED fresh

OthersReplace(n) == \E c \in Contents :
  /\ Changed(n, [disk[n] EXCEPT !.file = fresh, !.data = c, !.links = 1,
                                !.owner = "self"])
  /\ fresh' = fresh + 1

OthersChmod(n) ==
  /\ Present(n) /\ Changed(n, [disk[n] EXCEPT !.mode = 1 - @]) /\ UNCHANGED fresh

OthersLink(n) ==
  /\ Present(n) /\ Changed(n, [disk[n] EXCEPT !.links = 2]) /\ UNCHANGED fresh

OthersRemove(n) ==
  /\ Present(n) /\ Changed(n, [disk[n] EXCEPT !.file = Absent]) /\ UNCHANGED fresh

\* The name becomes a symbolic link to a file elsewhere under the root.
OthersRedirect(n) ==
  /\ Present(n) /\ Changed(n, [disk[n] EXCEPT !.owner = "elsewhere"])
  /\ UNCHANGED fresh

\* The same inode, moved into another directory that took the parent's name.
OthersMove(n) ==
  /\ Present(n) /\ Changed(n, [disk[n] EXCEPT !.parent = 1]) /\ UNCHANGED fresh

Others ==
  \E n \in Names :
    \/ OthersEdit(n) \/ OthersReplace(n) \/ OthersChmod(n) \/ OthersLink(n)
    \/ OthersRemove(n) \/ OthersRedirect(n) \/ OthersMove(n)

-----------------------------------------------------------------------------
(***************************************************************************)
(* Ends of a run.                                                          *)
(***************************************************************************)

Ended == pc \in {"idle", "done", "dead"}

Finish(status) ==
  /\ pc' = "done" /\ exit' = status
  /\ UNCHANGED <<runs, at, run, project, found, plan, canceled, observed>>

Continue(stage) ==
  /\ pc' = stage /\ at' = 1 /\ UNCHANGED <<runs, canceled, exit, observed>>

\* A start whose options are refused reads nothing and ends with status 2.
Start ==
  /\ Ended /\ runs < MaxRuns
  /\ runs' = runs + 1 /\ at' = 1 /\ canceled' = FALSE
  /\ project' = [n \in {} |-> 0] /\ found' = {} /\ plan' = {}
  /\ calm' = "run" /\ gap' = FALSE
  /\ \/ run' \in AcceptedRuns /\ pc' = "load" /\ exit' = Running
     \/ run' = NoRun /\ pc' = "done" /\ exit' = 2
  /\ UNCHANGED world

\* An interrupt cancels the context; the command sees it at its next check.
Interrupt ==
  /\ ~Ended /\ ~canceled /\ canceled' = TRUE
  /\ UNCHANGED <<world, runs, pc, at, run, project, found, plan, exit, observed>>

\* The process dies without running anything deferred.  The sibling it leaves
\* has no supported name and no later run looks at it.
Die ==
  /\ ~Ended
  /\ pc' = "dead" /\ temp' = NoTemp
  /\ UNCHANGED <<fresh, moves, runs, at, run, project, found, plan, canceled,
                 exit, observed>>

Kill == Die /\ UNCHANGED disk

\* The power fails: bytes nobody synced are lost.  A rename that did not reach
\* the disk leaves the state before it, which is a state of the model.
PowerLoss ==
  /\ Die
  /\ disk' = [n \in Names |-> IF disk[n].synced THEN disk[n]
                              ELSE [disk[n] EXCEPT !.data = Torn]]

-----------------------------------------------------------------------------
(***************************************************************************)
(* runCheck up to the plan.                                                *)
(***************************************************************************)

\* One source after another is read; a name that is gone is not selected and a
\* stdin run takes the first name's bytes from its input.  Loading may fail for
\* reasons of its own, or because the context ended.
Load(stage, next) ==
  /\ pc = stage /\ UNCHANGED world
  /\ \/ Finish(2)
     \/ /\ ~canceled
        /\ \E c \in IF run.stdin /\ at = 1 THEN Contents ELSE {disk[at].data} :
             project' = IF Present(at)
               THEN [n \in DOMAIN project \cup {at} |->
                       IF n = at THEN [disk[n] EXCEPT !.data = c] ELSE project[n]]
               ELSE [n \in DOMAIN project \ {at} |-> project[n]]
        /\ IF at < FileCount THEN at' = at + 1 /\ pc' = pc
           ELSE at' = 1 /\ pc' = next
        /\ calm' = IF at = 1 /\ calm = "no" THEN "load" ELSE calm
        /\ UNCHANGED <<runs, run, found, plan, canceled, exit, gap>>

LoadSources == Load("load", IF run.mode = "fix" THEN "admit" ELSE "analyze")

\* sourceDiskIdentity.validate: the path still leads to the same owner, and the
\* owner is the same inode in the same parent; a file that may be written also
\* keeps its mode, is no link and has no second name.
Valid(n, writable) ==
  LET was == project[n] now == disk[n] IN
  /\ now.owner = was.owner
  /\ writable => n \notin Templates
  /\ now.parent = was.parent
  /\ now.file = was.file /\ now.file # Absent
  /\ writable => /\ now.owner = "self"
                 /\ now.mode = was.mode
                 /\ now.links = 1

\* Mutants: only the bytes are looked at; an explicit template is no reason.
MutBytesOnly(n) == n \in Templates \/ disk[n].data = project[n].data
MutTemplatesPass(n) ==
  /\ Valid(n, n \notin Templates) /\ disk[n].data = project[n].data

\* One primary of RequireWritableSelection: an explicit template refuses the
\* batch, every other primary keeps its identity and its bytes.
Writable(n) ==
  /\ ~(n \in Templates /\ n \in run.explicit)
  /\ Valid(n, n \notin Templates)
  /\ disk[n].data = project[n].data

\* RequireWritableSelection goes over the primaries in order and stops at the
\* first refusal; with nothing planned the last two passes end the writing.
Admit(stage, next) ==
  /\ pc = stage /\ UNCHANGED world
  /\ LET stays == at \in DOMAIN project => Writable(at) IN
     \/ ~stays /\ Finish(2)
     \/ /\ stays
        /\ IF at < FileCount THEN at' = at + 1 /\ pc' = pc
           ELSE at' = 1 /\ pc' = next
        /\ UNCHANGED <<runs, run, project, found, plan, canceled, exit, observed>>

AdmitSelection == Admit("admit", "analyze")

\* Every selected source is analysed from its admitted bytes.
Findings == {n \in DOMAIN project : project[n].data \in Dirty}

Analyze ==
  /\ pc = "analyze" /\ UNCHANGED world
  /\ \/ canceled /\ Finish(2)
     \/ /\ ~canceled /\ found' = Findings
        /\ Continue(IF run.mode = "check" THEN "report" ELSE "plan")
        /\ UNCHANGED <<run, project, plan>>

\* PlanFixes offers a change for each diagnosed YAML primary whose fixes change
\* its bytes; a template has no fixes.
PlanFixes ==
  /\ pc = "plan" /\ UNCHANGED world
  /\ plan' = {n \in found \ Templates : Repaired[project[n].data] # project[n].data}
  /\ Continue(IF run.mode = "diff" THEN "report" ELSE "admit2")
  /\ UNCHANGED <<run, project, found>>

-----------------------------------------------------------------------------
(***************************************************************************)
(* WriteChanges: the whole batch is inspected before the first replacement.*)
(***************************************************************************)

AdmitBeforeBatch == Admit("admit2", IF plan = {} THEN "reload" ELSE "preflight")

\* One change of the batch: a verified candidate for a selected regular file
\* that still holds the bytes the candidate was made from.
Preflighted(n) ==
  /\ disk[n].file # Absent /\ disk[n].owner = "self"
  /\ disk[n].data = project[n].data
  /\ Valid(n, TRUE)

Preflight ==
  /\ pc = "preflight" /\ UNCHANGED world
  /\ LET stays == at \in plan => Preflighted(at) IN
     \/ ~stays /\ Finish(2)
     \/ /\ stays
        /\ IF at < FileCount THEN at' = at + 1 /\ pc' = pc
           ELSE at' = 1 /\ pc' = "admit3"
        /\ UNCHANGED <<runs, run, project, found, plan, canceled, exit, observed>>

AdmitBeforeWriting == Admit("admit3", "replace")

\* The comparisons replaceFile makes: identity, parent, a regular file, bytes.
StillTheSource(n) == Valid(n, TRUE) /\ disk[n].data = project[n].data

Staying == UNCHANGED <<runs, at, run, project, found, plan, canceled, exit, calm>>

\* The next file of the batch, or the recheck after the last one.
NextFile ==
  /\ pc = "replace" /\ UNCHANGED world
  /\ \/ at > FileCount /\ Continue("reload") /\ UNCHANGED admitted
     \/ /\ at <= FileCount /\ at \notin plan /\ at' = at + 1 /\ pc' = pc
        /\ UNCHANGED <<runs, run, project, found, plan, canceled, exit, observed>>
     \/ /\ at \in plan
        /\ \/ StillTheSource(at) /\ pc' = "create" /\ Staying /\ UNCHANGED gap
           \/ ~StillTheSource(at) /\ Finish(2)

\* The private sibling: O_EXCL under a random name, which may fail.
CreateTemp ==
  /\ pc = "create"
  /\ \/ UNCHANGED world /\ Finish(2)
     \/ /\ temp' = [NoTemp EXCEPT !.exists = TRUE] /\ pc' = "write"
        /\ Staying /\ UNCHANGED <<disk, fresh, moves, gap>>

Prepare(stage, next, result) ==
  /\ pc = stage
  /\ Staying /\ UNCHANGED <<disk, fresh, moves, gap>>
  /\ \/ temp' = temp /\ pc' = "discard"
     \/ temp' = result /\ pc' = next

WriteTemp == Prepare("write", "chmod", [temp EXCEPT !.data = Repaired[project[at].data]])
ChmodTemp == Prepare("chmod", "sync", [temp EXCEPT !.mode = project[at].mode])
SyncTemp == Prepare("sync", "validate", [temp EXCEPT !.synced = TRUE])

\* The identity again, with the sibling ready, and then the inode and bytes.
Revalidate ==
  /\ pc = "validate" /\ UNCHANGED <<world, gap>> /\ Staying
  /\ pc' = IF Valid(at, TRUE) THEN "compare" ELSE "discard"

CompareAgain ==
  /\ pc = "compare" /\ UNCHANGED world /\ Staying /\ gap' = FALSE
  /\ pc' = IF /\ disk[at].file = project[at].file /\ disk[at].owner = "self"
              /\ disk[at].data = project[at].data
           THEN "rename" ELSE "discard"

\* The rename makes the sibling the file; other programs may have come in after
\* the last comparison.
Rename ==
  /\ pc = "rename"
  /\ \/ UNCHANGED <<world, gap>> /\ pc' = "discard" /\ Staying
     \/ /\ disk' = [disk EXCEPT ![at] =
              [file |-> fresh, data |-> temp.data, mode |-> temp.mode, links |-> 1,
               owner |-> "self", parent |-> @.parent, synced |-> temp.synced]]
        /\ fresh' = fresh + 1 /\ temp' = NoTemp
        /\ pc' = "replace" /\ at' = at + 1
        /\ UNCHANGED <<moves, runs, run, project, found, plan, canceled, exit,
                       observed>>

\* Mutant: the sibling stays.
MutLeavesSibling ==
  pc = "discard" /\ Finish(2) /\ UNCHANGED world

\* The deferred removal on every way out of replaceFile before the rename.
Discard ==
  /\ pc = "discard" /\ temp' = NoTemp /\ Finish(2)
  /\ UNCHANGED <<disk, fresh, moves>>

ReplaceFile ==
  \/ NextFile \/ CreateTemp \/ WriteTemp \/ ChmodTemp \/ SyncTemp
  \/ Revalidate \/ CompareAgain \/ Rename \/ Discard

-----------------------------------------------------------------------------
(***************************************************************************)
(* The recheck and the report.                                             *)
(***************************************************************************)

ReloadSources == Load("reload", "reanalyze")

MutKeepsFindings ==
  /\ pc = "reanalyze" /\ UNCHANGED <<world, run, project, found, plan>>
  /\ Continue("report")

Reanalyze ==
  /\ pc = "reanalyze" /\ UNCHANGED world
  /\ found' = Findings /\ Continue("report") /\ UNCHANGED <<run, project, plan>>

\* Rendering may fail; a report that was written ends with 1 exactly when it
\* has findings.
Report ==
  /\ pc = "report" /\ UNCHANGED world
  /\ \/ Finish(2)
     \/ ~(canceled /\ run.mode # "diff") /\ Finish(IF found = {} THEN 0 ELSE 1)

Step ==
  \/ LoadSources \/ AdmitSelection \/ Analyze \/ PlanFixes
  \/ AdmitBeforeBatch \/ Preflight \/ AdmitBeforeWriting \/ ReplaceFile
  \/ ReloadSources \/ Reanalyze \/ Report

Next == Start \/ Step \/ Interrupt \/ Kill \/ PowerLoss \/ Others

Spec == Init /\ [][Next]_vars

-----------------------------------------------------------------------------
(***************************************************************************)
(* Properties.                                                             *)
(***************************************************************************)

Stages ==
  {"idle", "load", "admit", "analyze", "plan", "admit2", "preflight", "admit3",
   "replace", "create", "write", "chmod", "sync", "validate", "compare",
   "rename", "discard", "reload", "reanalyze", "report", "done", "dead"}

Entry ==
  [ file : Nat, data : Contents \cup {Torn}, mode : {0, 1}, links : 1..2,
    owner : {"self", "elsewhere"}, parent : {0, 1}, synced : BOOLEAN ]

\* Types of the command's and the world's state.
TypeOK ==
  /\ disk \in [Names -> Entry]
  /\ temp \in [data : Contents \cup {Torn}, mode : {0, 1}, synced : BOOLEAN,
               exists : BOOLEAN]
  /\ fresh \in Nat /\ moves \in Nat /\ runs \in Nat
  /\ pc \in Stages /\ at \in 1..(FileCount + 1)
  /\ run \in [mode : {"check", "diff", "fix"}, explicit : SUBSET Templates,
              stdin : BOOLEAN]
  /\ DOMAIN project \subseteq Names /\ \A n \in DOMAIN project : project[n] \in Entry
  /\ found \subseteq Names /\ plan \subseteq Names
  /\ canceled \in BOOLEAN /\ exit \in {0, 1, 2, Running}
  /\ calm \in {"run", "load", "no"} /\ gap \in BOOLEAN

\* Whatever is killed, fails or loses power, a name never holds half a file:
\* WriteChanges promises that each file is replaced atomically.
NeverTorn == \A n \in Names : disk[n].data # Torn

\* However replaceFile ends short of its rename, the private sibling is gone
\* when the command ends; only a process that died leaves one behind.
SiblingsAreTemporary == pc = "done" => ~temp.exists

\* Another program's work is lost only to a rename it raced after the last
\* comparison: with no such race the file about to be replaced is the inode and
\* the bytes the candidate was made from.
ForeignWorkSurvives ==
  pc = "rename" /\ ~gap =>
    /\ disk[at].data = project[at].data /\ disk[at].file = project[at].file
    /\ disk[at].owner = "self"

Moved(n) == disk'[n] # disk[n] /\ moves' = moves
\* The program changes a name only in a --fix run over files, only to the whole
\* repair of the admitted bytes with the admitted mode, and never in a template
\* directory or while a template of the selection was named explicitly.
ChangesAreAdmitted ==
  \A n \in Names : Moved(n) =>
    /\ run.mode = "fix" /\ ~run.stdin /\ n \in plan \ Templates
    /\ \A t \in DOMAIN project : t \notin run.explicit
    /\ disk'[n].data = Repaired[project[n].data]
    /\ disk'[n].mode = project[n].mode
OnlyAdmittedFixesWrite == [][ChangesAreAdmitted]_vars

\* While nobody else moves, one primary that cannot be written keeps the whole
\* batch from being written: RequireWritableSelection preflights every primary
\* before a command can write.
Unwritable(n) ==
  \/ n \in run.explicit
  \/ n \notin Templates /\ (disk[n].links > 1 \/ disk[n].owner # "self")
RefusedBatchWritesNothing ==
  ( /\ calm = "run" /\ run.mode = "fix"
    /\ \E n \in DOMAIN project : Unwritable(n) )
    => \A n \in DOMAIN project : disk[n] = project[n]

\* Nobody having moved since the last loading, the status tells the disk: 1
\* exactly when a file that is there has findings, after fixes as well.
VerdictMatchesDisk ==
  pc = "done" /\ exit < 2 /\ calm # "no" /\ ~run.stdin =>
    (exit = 1 <=> \E n \in Names : Present(n) /\ disk[n].data \in Dirty)

\* A --fix run that ends with a verdict repaired everything, whatever an
\* earlier run that failed or died had left half done.
SuccessRepairsAll ==
  pc = "done" /\ exit < 2 /\ calm = "run" /\ run.mode = "fix" =>
    \A n \in Names \ Templates :
      Present(n) => Repaired[disk[n].data] = disk[n].data

\* Whatever is killed, fails or loses power, no name of a checked project holds
\* half a file, the private sibling is gone when the command ends, and another
\* program's work is lost only to a rename it raced (replaceFile, fixes.go:427-521).
FilesStayWhole == NeverTorn /\ SiblingsAreTemporary /\ ForeignWorkSurvives

\* Nobody having moved since the last loading, the exit status tells the disk, and
\* a --fix run that ends with a verdict repaired everything, whatever an earlier
\* run left half done (runCheck, check.go).
VerdictTellsDisk == VerdictMatchesDisk /\ SuccessRepairsAll

=============================================================================
