---------------------------- MODULE MCWritesProofs ----------------------------
(***************************************************************************)
(* Proofs about the two programs that the run `writes' checks: the command *)
(* check, for every number of files, every set of templates and contents,  *)
(* and every number of runs and foreign moves; and scaffold role beside    *)
(* other programs and other scaffold commands, for any commands, requests  *)
(* and number of moves.                                                    *)
(***************************************************************************)
EXTENDS MCWrites, FiniteSetTheorems, WellFoundedInduction, TLAPS

-----------------------------------------------------------------------------
(***************************************************************************)
(* The command check.                                                      *)
(***************************************************************************)

\* The stages of replaceFile for one name, and those of WriteChanges.
Replacing == {"create", "write", "chmod", "sync", "validate", "compare", "rename",
              "discard"}
Batch == {"admit2", "preflight", "admit3", "replace"} \cup Replacing

Whole == [ file : Nat, data : Contents, mode : {0, 1}, links : 1..2,
           owner : {"self", "elsewhere"}, parent : {0, 1}, synced : {TRUE} ]

\* Every name and every admitted entry holds whole, synced bytes; an inode to
\* come is one.
FilesWhole ==
  /\ disk \in [Names -> Whole]
  /\ \A n \in DOMAIN project : project[n] \in Whole
  /\ fresh # Absent

\* Only a --fix run, which reads no standard input, gets to the batch.
RunOK ==
  /\ run.mode = "fix" => ~run.stdin
  /\ pc \in Batch \cup {"admit", "reload", "reanalyze"} => run.mode = "fix"
  /\ pc = "plan" => run.mode # "check"

\* A stage that goes over the names is at one of them, and what is planned was
\* admitted and is no template.
PlanOK ==
  /\ pc \in {"load", "admit", "admit2", "preflight", "admit3", "reload"} => at \in Names
  /\ pc \in {"plan", "report"} => found = Findings
  /\ pc \in Batch => plan \subseteq DOMAIN project \ Templates
  /\ pc \in Replacing => at \in plan

\* What the private sibling holds at each stage, and that nothing else has one.
TempOK ==
  /\ temp.exists => pc \in Replacing \ {"create"}
  /\ pc \in {"chmod", "sync", "validate", "compare", "rename"} =>
       temp.data = Repaired[project[at].data]
  /\ pc \in {"sync", "validate", "compare", "rename"} => temp.mode = project[at].mode
  /\ pc \in {"validate", "compare", "rename"} => temp.synced

\* No explicit template gets past the first admission.
AdmittedOK ==
  /\ pc = "admit" => \A n \in DOMAIN project : n < at => n \notin run.explicit
  /\ run.mode = "fix" /\ pc \in Batch \cup {"analyze", "plan"} =>
       \A n \in DOMAIN project : n \notin run.explicit

IInv ==
  /\ TypeOK
  /\ FilesWhole
  /\ RunOK
  /\ PlanOK
  /\ TempOK
  /\ AdmittedOK
  /\ ForeignWorkSurvives

\* What was loaded of a name is what is there.
Agrees(n) ==
  /\ n \in DOMAIN project <=> Present(n)
  /\ n \in DOMAIN project => project[n] = disk[n]

\* With nobody else moving, the loaded project is the disk, as far as it is loaded.
InSync ==
  calm # "no" /\ ~run.stdin =>
    /\ pc \in {"load", "reload"} => \A n \in Names : n < at => Agrees(n)
    /\ pc \in {"admit", "analyze", "plan", "admit2", "preflight", "admit3",
               "reanalyze", "report"} => \A n \in Names : Agrees(n)

\* While nobody else moved in a --fix run, every loaded name is there, a project
\* that is still being loaded has nothing beyond the name it is at, and what got
\* past the first admission can be written.
BatchWritable ==
  calm = "run" /\ run.mode = "fix" =>
    /\ \A n \in DOMAIN project : Present(n)
    /\ pc = "load" => \A n \in DOMAIN project : n < at
    /\ pc = "admit" => \A n \in Names : n < at /\ Present(n) => ~Unwritable(n)
    /\ pc \in Batch \cup {"analyze", "plan", "reload", "reanalyze", "report"} =>
         \A n \in Names : Present(n) => ~Unwritable(n)

Settled(n) == Repaired[disk[n].data] = disk[n].data

\* While nobody else moved in a --fix run, only what is still to be replaced holds
\* bytes the fixes would change.
RepairsDone ==
  calm = "run" /\ run.mode = "fix" =>
    \A n \in Names \ Templates : Present(n) =>
      /\ pc \in {"admit2", "preflight", "admit3"} => n \in plan \/ Settled(n)
      /\ pc \in Replacing \cup {"replace"} => (n \in plan /\ n >= at) \/ Settled(n)
      /\ pc \in {"reload", "reanalyze", "report"} => Settled(n)

CalmInv ==
  /\ InSync
  /\ BatchWritable
  /\ VerdictMatchesDisk
  /\ RefusedBatchWritesNothing

\* One pass of fixes is enough: repaired bytes need no repair, and neither do clean
\* ones.  The second half is how PlanFixes works, which plans from the findings; the
\* first is a hypothesis on the rules, and only VerdictTellsAll uses it.
RepairAssumption ==
  \A c \in Contents : /\ Repaired[Repaired[c]] = Repaired[c]
                      /\ c \notin Dirty => Repaired[c] = c

-----------------------------------------------------------------------------
(***************************************************************************)
(* The invariant IInv.                                                     *)
(***************************************************************************)

\* A whole entry is an entry.
LEMMA WholeIsEntry == Whole \subseteq Entry
  BY DEF Whole, Entry

\* What other programs make of a file keeps the command's invariant
\* (Changed of CheckCommand).
LEMMA ChangedKeeps ==
  ASSUME IInv, NEW n \in Names, NEW now \in Whole, Changed(n, now),
         fresh' \in Nat, fresh' # Absent
  PROVE  IInv'
<1>1. /\ disk' = [disk EXCEPT ![n] = now]
      /\ moves' = moves + 1 /\ calm' = "no"
      /\ UNCHANGED <<temp, runs, pc, at, run, project, found, plan, canceled, exit>>
  BY DEF Changed
<1>2. disk' \in [Names -> Whole] /\ (\A m \in Names : m # n => disk'[m] = disk[m])
  BY <1>1 DEF IInv, FilesWhole
<1>3. gap' \in BOOLEAN /\ (~gap' => ~gap /\ ~(n = at /\ pc = "rename"))
  BY ZenonT(30) DEF Changed, IInv, TypeOK
<1>4. disk' \in [Names -> Entry]
  BY <1>2, WholeIsEntry
<1>5. TypeOK'
  BY <1>1, <1>3, <1>4 DEF IInv, TypeOK
<1>6. FilesWhole'
  BY <1>1, <1>2 DEF IInv, FilesWhole
<1>7. RunOK' /\ PlanOK' /\ TempOK' /\ AdmittedOK'
  BY <1>1 DEF IInv, RunOK, PlanOK, TempOK, AdmittedOK, Findings
<1>8. ForeignWorkSurvives'
  <2> SUFFICES ASSUME pc = "rename", ~gap'
               PROVE  /\ disk'[at].data = project[at].data
                      /\ disk'[at].file = project[at].file /\ disk'[at].owner = "self"
    BY <1>1 DEF ForeignWorkSurvives
  <2>1. at # n /\ at \in Names /\ ~gap
    BY <1>3 DEF IInv, PlanOK, TypeOK, Replacing, Batch
  <2> QED BY <1>2, <2>1 DEF IInv, ForeignWorkSurvives
<1> QED BY <1>5, <1>6, <1>7, <1>8 DEF IInv

\* Each move of another program leaves a whole file (Others of CheckCommand).
LEMMA OthersKeeps == IInv /\ Others => IInv'
<1> SUFFICES ASSUME IInv, NEW n \in Names,
                    \/ OthersEdit(n) \/ OthersReplace(n) \/ OthersChmod(n)
                    \/ OthersLink(n) \/ OthersRemove(n) \/ OthersRedirect(n)
                    \/ OthersMove(n)
             PROVE  IInv'
  BY DEF Others
<1>1. disk[n] \in Whole /\ fresh \in Nat /\ fresh # Absent
  BY DEF IInv, FilesWhole, TypeOK
<1>a. 1 \in 1..2 /\ 2 \in 1..2 /\ 1 - disk[n].mode \in {0, 1}
  <2>1. disk[n].mode \in {0, 1}
    BY <1>1 DEF Whole
  <2>2. disk[n].mode = 0 \/ disk[n].mode = 1
    BY <2>1
  <2> QED BY <2>2
<1>2. CASE OthersEdit(n)
  <2>1. PICK c \in Contents : Changed(n, [disk[n] EXCEPT !.data = c]) /\ fresh' = fresh
    BY <1>2 DEF OthersEdit
  <2>2. [disk[n] EXCEPT !.data = c] \in Whole
    BY <1>1 DEF Whole
  <2> HIDE DEF IInv
  <2> QED BY <1>1, <2>1, <2>2, ChangedKeeps
<1>3. CASE OthersReplace(n)
  <2>1. PICK c \in Contents :
          /\ Changed(n, [disk[n] EXCEPT !.file = fresh, !.data = c, !.links = 1,
                                        !.owner = "self"])
          /\ fresh' = fresh + 1
    BY <1>3 DEF OthersReplace
  <2>2. [disk[n] EXCEPT !.file = fresh, !.data = c, !.links = 1, !.owner = "self"] \in Whole
    BY <1>1, <1>a DEF Whole
  <2>3. fresh' \in Nat /\ fresh' # Absent
    BY <1>1, <2>1 DEF Absent
  <2> HIDE DEF IInv
  <2> QED BY <2>1, <2>2, <2>3, ChangedKeeps
<1>4. CASE OthersChmod(n)
  <2>1. [disk[n] EXCEPT !.mode = 1 - @] \in Whole
    BY <1>1, <1>a DEF Whole
  <2> QED BY <1>1, <1>4, <2>1, ChangedKeeps DEF OthersChmod
<1>5. CASE OthersLink(n)
  <2>1. [disk[n] EXCEPT !.links = 2] \in Whole
    BY <1>1, <1>a DEF Whole
  <2> QED BY <1>1, <1>5, <2>1, ChangedKeeps DEF OthersLink
<1>6. CASE OthersRemove(n)
  <2>1. [disk[n] EXCEPT !.file = Absent] \in Whole
    BY <1>1 DEF Whole, Absent
  <2> QED BY <1>1, <1>6, <2>1, ChangedKeeps DEF OthersRemove
<1>7. CASE OthersRedirect(n)
  <2>1. [disk[n] EXCEPT !.owner = "elsewhere"] \in Whole
    BY <1>1 DEF Whole
  <2> QED BY <1>1, <1>7, <2>1, ChangedKeeps DEF OthersRedirect
<1>8. CASE OthersMove(n)
  <2>1. [disk[n] EXCEPT !.parent = 1] \in Whole
    BY <1>1 DEF Whole
  <2> QED BY <1>1, <1>8, <2>1, ChangedKeeps DEF OthersMove
<1> QED BY <1>2, <1>3, <1>4, <1>5, <1>6, <1>7, <1>8

-----------------------------------------------------------------------------

\* The initial states satisfy the invariant.
LEMMA InitKeeps == Init => IInv
<1> SUFFICES ASSUME Init PROVE IInv
  OBVIOUS
<1> USE DEF Init
<1>1. disk \in [Names -> Whole]
  <2>1. 1 \in 1..2
    OBVIOUS
  <2>2. ASSUME NEW e \in [file : {1}, data : Contents, mode : {0}, links : {1},
                          owner : {"self"}, parent : {0}, synced : {TRUE}]
        PROVE  e \in Whole
    <3>a. /\ e.file = 1 /\ e.data \in Contents /\ e.mode = 0 /\ e.links = 1
          /\ e.owner = "self" /\ e.parent = 0
      OBVIOUS
    <3>b. e.synced \in {TRUE}
      OBVIOUS
    <3>1. /\ e.file \in Nat /\ e.data \in Contents /\ e.mode \in {0, 1} /\ e.links \in 1..2
          /\ e.owner \in {"self", "elsewhere"} /\ e.parent \in {0, 1}
      BY <2>1, <3>a
    <3>2. e = [file |-> e.file, data |-> e.data, mode |-> e.mode, links |-> e.links,
               owner |-> e.owner, parent |-> e.parent, synced |-> e.synced]
      OBVIOUS
    <3> QED BY <3>1, <3>2, <3>b DEF Whole
  <2> QED BY <2>2
<1>2. DOMAIN project = {}
  OBVIOUS
<1>3. disk \in [Names -> Entry]
  BY <1>1, WholeIsEntry
<1>4. TypeOK
  <2>1. 1 \in 1..(FileCount + 1)
    BY ContentsAssumption
  <2>2. temp \in [data : Contents \cup {Torn}, mode : {0, 1}, synced : BOOLEAN,
                  exists : BOOLEAN]
    BY DEF NoTemp
  <2>3. run \in [mode : {"check", "diff", "fix"}, explicit : SUBSET Templates,
                 stdin : BOOLEAN]
    BY DEF NoRun
  <2>4. DOMAIN project \subseteq Names /\ \A n \in DOMAIN project : project[n] \in Entry
    BY <1>2
  <2> QED BY <1>3, <2>1, <2>2, <2>3, <2>4 DEF TypeOK, Stages
<1> QED
  BY <1>1, <1>2, <1>4 DEF IInv, FilesWhole, RunOK, PlanOK, TempOK, AdmittedOK, NoTemp,
     NoRun, ForeignWorkSurvives, Absent, Batch, Replacing

\* An accepted run is a run, and a --fix run reads no standard input
\* (checkOptions.loadOptions).
LEMMA AcceptedRunIsRun ==
  ASSUME NEW r \in AcceptedRuns
  PROVE  /\ r \in [mode : {"check", "diff", "fix"}, explicit : SUBSET Templates,
                   stdin : BOOLEAN]
         /\ r.mode = "fix" => ~r.stdin
<1>1. PICK o \in Requests : ~Refused(o) /\ r = AcceptedRun(o)
  BY DEF AcceptedRuns
<1>2. o.explicit \in SUBSET Templates /\ o.fix \in BOOLEAN
  BY DEF Requests
<1>3. ~(o.stdin = 1 /\ o.fix)
  BY <1>1 DEF Refused
<1>4. r.mode = "fix" => o.fix
  BY <1>1 DEF AcceptedRun
<1>5. r.stdin = (o.stdin = 1)
  BY <1>1, ZenonT(30) DEF AcceptedRun
<1>6. r \in [mode : {"check", "diff", "fix"}, explicit : SUBSET Templates,
             stdin : BOOLEAN]
  BY <1>1, <1>2 DEF AcceptedRun
<1> QED BY <1>3, <1>4, <1>5, <1>6

\* A start forgets the last run.
LEMMA StartKeeps == IInv /\ Start => IInv'
<1> SUFFICES ASSUME IInv, Start PROVE IInv'
  OBVIOUS
<1>1. /\ UNCHANGED <<disk, temp, fresh, moves>> /\ runs' = runs + 1 /\ at' = 1
      /\ canceled' = FALSE /\ DOMAIN project' = {} /\ found' = {} /\ plan' = {}
      /\ calm' = "run" /\ gap' = FALSE /\ Ended
  BY DEF Start, world
<1>2. /\ run' \in [mode : {"check", "diff", "fix"}, explicit : SUBSET Templates,
                   stdin : BOOLEAN]
      /\ run'.mode = "fix" => ~run'.stdin
      /\ pc' \in {"load", "done"} /\ exit' \in {2, Running}
  <2>1. CASE run' \in AcceptedRuns /\ pc' = "load" /\ exit' = Running
    BY <2>1, AcceptedRunIsRun
  <2>2. CASE run' = NoRun /\ pc' = "done" /\ exit' = 2
    BY <2>2 DEF NoRun
  <2> QED BY <2>1, <2>2 DEF Start
<1>3. 1 \in Names /\ 1 \in 1..(FileCount + 1)
  BY ContentsAssumption DEF Names
<1>4. TypeOK'
  <2>1. /\ run' \in [mode : {"check", "diff", "fix"}, explicit : SUBSET Templates,
                     stdin : BOOLEAN]
        /\ pc' \in Stages /\ exit' \in {0, 1, 2, Running}
    BY <1>2 DEF Stages
  <2>2. DOMAIN project' \subseteq Names /\ \A n \in DOMAIN project' : project'[n] \in Entry
    BY <1>1
  <2>3. at' \in 1..(FileCount + 1) /\ runs' \in Nat
    BY <1>1, <1>3 DEF IInv, TypeOK
  <2> QED BY <1>1, <2>1, <2>2, <2>3 DEF IInv, TypeOK
<1>5. ~temp'.exists
  BY <1>1 DEF IInv, TempOK, Ended, Replacing
<1> QED
  BY <1>1, <1>2, <1>3, <1>4, <1>5 DEF IInv, FilesWhole, RunOK, PlanOK, TempOK,
     AdmittedOK, ForeignWorkSurvives, Batch, Replacing

\* An interrupt only marks the context.
LEMMA InterruptKeeps == IInv /\ Interrupt => IInv'
  BY DEF Interrupt, world, observed, IInv, TypeOK, FilesWhole, RunOK, PlanOK, TempOK,
     AdmittedOK, ForeignWorkSurvives, Findings

\* A kill leaves the disk as it is, and so does a power failure, because all that
\* a name leads to was synced before it was renamed there.
LEMMA DieKeeps == IInv /\ (Kill \/ PowerLoss) => IInv' /\ disk' = disk
<1> SUFFICES ASSUME IInv, Kill \/ PowerLoss PROVE IInv' /\ disk' = disk
  OBVIOUS
<1>1. Die
  BY DEF Kill, PowerLoss
<1>2. disk' = disk
  <2>1. disk \in [Names -> Whole] /\ \A n \in Names : disk[n].synced
    BY DEF IInv, FilesWhole, Whole
  <2> QED BY <2>1 DEF Kill, PowerLoss
<1>3. /\ temp' = NoTemp /\ pc' = "dead"
      /\ UNCHANGED <<fresh, moves, runs, at, run, project, found, plan, canceled, exit,
                    calm, gap>>
  BY <1>1 DEF Die, observed
<1>4. TypeOK'
  BY <1>2, <1>3 DEF IInv, TypeOK, NoTemp, Stages
<1> QED
  BY <1>2, <1>3, <1>4 DEF IInv, NoTemp, FilesWhole, RunOK, PlanOK, TempOK, AdmittedOK,
     ForeignWorkSurvives, Batch, Replacing

-----------------------------------------------------------------------------

\* The command ends with no sibling left (Finish of CheckCommand).
LEMMA FinishKeeps ==
  ASSUME IInv, NEW status \in {0, 1, 2}, Finish(status),
         UNCHANGED <<disk, fresh, moves>>,
         temp' = temp \/ temp' = NoTemp, ~temp'.exists
  PROVE  IInv'
<1>1. /\ pc' = "done" /\ exit' = status
      /\ UNCHANGED <<runs, at, run, project, found, plan, canceled, calm, gap>>
  BY DEF Finish, observed
<1>2. temp' \in [data : Contents \cup {Torn}, mode : {0, 1}, synced : BOOLEAN,
                exists : BOOLEAN]
  <2>1. temp \in [data : Contents \cup {Torn}, mode : {0, 1}, synced : BOOLEAN,
                  exists : BOOLEAN]
    BY DEF IInv, TypeOK
  <2>2. NoTemp \in [data : Contents \cup {Torn}, mode : {0, 1}, synced : BOOLEAN,
                    exists : BOOLEAN]
    BY DEF NoTemp
  <2> QED BY <2>1, <2>2
<1>3. TypeOK'
  BY <1>1, <1>2 DEF IInv, TypeOK, Stages
<1> QED
  BY <1>1, <1>3 DEF IInv, FilesWhole, RunOK, PlanOK, TempOK, AdmittedOK,
     ForeignWorkSurvives, Batch, Replacing

\* Where a stage that went over one name is next: at the next name, or at the
\* first one of the next stage.
LEMMA NextName ==
  ASSUME IInv, at \in Names,
         at' = IF at < FileCount THEN at + 1 ELSE 1
  PROVE  at' \in Names /\ at' \in 1..(FileCount + 1)
  BY ContentsAssumption DEF Names

\* Reading one source admits what is there, or what comes from standard input
\* (Load of CheckCommand).
LEMMA CheckLoadKeeps ==
  ASSUME IInv, NEW stage \in {"load", "reload"},
         NEW next \in {"admit", "analyze", "reanalyze"}, Load(stage, next),
         stage = "reload" => next = "reanalyze",
         stage = "load" => next = (IF run.mode = "fix" THEN "admit" ELSE "analyze")
  PROVE  IInv'
<1>1. pc = stage /\ at \in Names /\ UNCHANGED <<disk, temp, fresh, moves>> /\ ~temp.exists
  BY DEF Load, world, IInv, PlanOK, TempOK, Replacing
<1>2. CASE Finish(2)
  <2> HIDE DEF IInv
  <2> QED BY <1>1, <1>2, FinishKeeps
<1>3. CASE ~Finish(2)
  <2>1. PICK c \in IF run.stdin /\ at = 1 THEN Contents ELSE {disk[at].data} :
          project' = IF Present(at)
               THEN [n \in DOMAIN project \cup {at} |->
                       IF n = at THEN [disk[n] EXCEPT !.data = c] ELSE project[n]]
               ELSE [n \in DOMAIN project \ {at} |-> project[n]]
    BY <1>3 DEF Load
  <2>2. /\ at' = IF at < FileCount THEN at + 1 ELSE 1
        /\ pc' = IF at < FileCount THEN stage ELSE next
        /\ calm' \in {"load", calm}
        /\ UNCHANGED <<runs, run, found, plan, canceled, exit, gap>>
    BY <1>1, <1>3 DEF Load
  <2>3. disk[at] \in Whole /\ c \in Contents
    <3>1. disk[at] \in Whole /\ disk[at].data \in Contents
      BY <1>1 DEF IInv, FilesWhole, Whole
    <3> QED BY <3>1
  <2>4. [disk[at] EXCEPT !.data = c] \in Whole
    BY <2>3 DEF Whole
  <2>5. DOMAIN project' \subseteq Names /\ \A n \in DOMAIN project' : project'[n] \in Whole
    BY <1>1, <2>1, <2>4 DEF IInv, FilesWhole, TypeOK
  <2>6. \A n \in DOMAIN project' : project'[n] \in Entry
    BY <2>5, WholeIsEntry
  <2>7. at' \in Names /\ at' \in 1..(FileCount + 1)
    BY <1>1, <2>2, NextName
  <2>8. TypeOK'
    BY <1>1, <2>2, <2>5, <2>6, <2>7 DEF IInv, TypeOK, Stages
  <2>9. FilesWhole'
    BY <1>1, <2>5 DEF IInv, FilesWhole
  <2>10. RunOK' /\ PlanOK' /\ TempOK' /\ ForeignWorkSurvives'
    BY <1>1, <2>2, <2>7 DEF IInv, RunOK, PlanOK, TempOK, ForeignWorkSurvives, Batch,
       Replacing
  <2>11. AdmittedOK'
    <3>1. pc' # "admit" \/ at' = 1
      BY <1>1, <2>2
    <3>2. ~(run'.mode = "fix" /\ pc' \in Batch \cup {"analyze", "plan"})
      BY <1>1, <2>2 DEF Batch, Replacing
    <3> QED BY <2>5, <3>1, <3>2 DEF AdmittedOK, Names
  <2> QED BY <2>8, <2>9, <2>10, <2>11 DEF IInv
<1> QED BY <1>2, <1>3

\* A primary that may stay is no explicit template; the batch goes on past the
\* last one (Admit of CheckCommand).
LEMMA CheckAdmitKeeps ==
  ASSUME IInv, NEW stage \in {"admit", "admit2", "admit3"},
         NEW next \in {"analyze", "reload", "preflight", "replace"}, Admit(stage, next),
         stage = "admit" <=> next = "analyze"
  PROVE  IInv'
<1>1. /\ pc = stage /\ at \in Names /\ UNCHANGED <<disk, temp, fresh, moves>>
      /\ ~temp.exists /\ run.mode = "fix"
  BY DEF Admit, world, IInv, PlanOK, TempOK, Replacing, RunOK, Batch
<1>2. CASE Finish(2)
  <2> HIDE DEF IInv
  <2> QED BY <1>1, <1>2, FinishKeeps
<1>3. CASE ~Finish(2)
  <2>1. /\ at \in DOMAIN project => ~(at \in Templates /\ at \in run.explicit)
        /\ at' = IF at < FileCount THEN at + 1 ELSE 1
        /\ pc' = IF at < FileCount THEN stage ELSE next
        /\ UNCHANGED <<runs, run, project, found, plan, canceled, exit, calm, gap>>
    BY <1>1, <1>3 DEF Admit, Writable, observed
  <2>2. at' \in Names /\ at' \in 1..(FileCount + 1)
    BY <1>1, <2>1, NextName
  <2>3. TypeOK' /\ FilesWhole'
    BY <1>1, <2>1, <2>2 DEF IInv, TypeOK, Stages, FilesWhole
  <2>4. RunOK' /\ TempOK' /\ ForeignWorkSurvives'
    BY <1>1, <2>1 DEF IInv, RunOK, TempOK, ForeignWorkSurvives, Batch, Replacing
  <2>5. PlanOK'
    BY <1>1, <2>1, <2>2 DEF IInv, PlanOK, Batch, Replacing
  <2>6. at \in DOMAIN project => at \notin run.explicit
    BY <2>1 DEF IInv, TypeOK
  <2>7. ASSUME NEW n \in DOMAIN project', pc' = "admit" => n < at'
        PROVE  n \notin run'.explicit
    <3>1. n \in DOMAIN project /\ n \in Names
      BY <2>1 DEF IInv, TypeOK
    <3>2. CASE stage # "admit"
      BY <1>1, <2>1, <3>1, <3>2 DEF IInv, AdmittedOK, Batch
    <3>3. CASE stage = "admit" /\ n # at
      <4>1. n < at
        BY <1>1, <2>1, <2>7, <3>1, <3>3, ContentsAssumption DEF Names
      <4> QED BY <1>1, <2>1, <3>1, <3>3, <4>1 DEF IInv, AdmittedOK
    <3> QED BY <2>1, <2>6, <3>1, <3>2, <3>3
  <2>8. AdmittedOK'
    BY <2>7 DEF AdmittedOK, Batch, Replacing
  <2> QED BY <2>3, <2>4, <2>5, <2>8 DEF IInv
<1> QED BY <1>2, <1>3

\* Every finding is about an admitted entry.
LEMMA FindingsAreAdmitted == IInv => Findings \subseteq DOMAIN project /\ Findings \subseteq Names
  BY DEF Findings, IInv, TypeOK

\* The analysis looks at the admitted bytes, before and after the fixes.
LEMMA AnalyzeKeeps == IInv /\ (Analyze \/ Reanalyze) => IInv'
<1> SUFFICES ASSUME IInv, Analyze \/ Reanalyze PROVE IInv'
  OBVIOUS
<1>1. /\ pc \in {"analyze", "reanalyze"} /\ UNCHANGED <<disk, temp, fresh, moves>>
      /\ ~temp.exists
  BY DEF Analyze, Reanalyze, world, IInv, TempOK, Replacing
<1>2. CASE Finish(2)
  <2> HIDE DEF IInv
  <2> QED BY <1>1, <1>2, FinishKeeps
<1>3. CASE ~Finish(2)
  <2>1. /\ found' = Findings /\ at' = 1
        /\ pc' = IF pc = "analyze" /\ run.mode # "check" THEN "plan" ELSE "report"
        /\ UNCHANGED <<runs, run, project, plan, canceled, exit, calm, gap>>
    BY <1>3 DEF Analyze, Reanalyze, Continue, observed
  <2>2. 1 \in 1..(FileCount + 1)
    BY ContentsAssumption
  <2>3. TypeOK' /\ FilesWhole'
    BY <1>1, <2>1, <2>2, FindingsAreAdmitted DEF IInv, TypeOK, Stages, FilesWhole
  <2>4. Findings' = Findings
    BY <2>1 DEF Findings
  <2>5. RunOK' /\ PlanOK' /\ TempOK' /\ ForeignWorkSurvives'
    BY <1>1, <2>1, <2>4 DEF IInv, RunOK, PlanOK, TempOK, ForeignWorkSurvives, Batch,
       Replacing
  <2>6. AdmittedOK'
    BY <1>1, <2>1 DEF IInv, AdmittedOK, Batch, Replacing
  <2> QED BY <2>3, <2>5, <2>6 DEF IInv
<1> QED BY <1>2, <1>3

\* Changes are planned for admitted entries outside the template directories.
LEMMA PlanKeeps == IInv /\ PlanFixes => IInv'
<1> SUFFICES ASSUME IInv, PlanFixes PROVE IInv'
  OBVIOUS
<1>1. /\ pc = "plan" /\ UNCHANGED <<disk, temp, fresh, moves>>
      /\ plan' \subseteq found \ Templates /\ at' = 1
      /\ pc' = IF run.mode = "diff" THEN "report" ELSE "admit2"
      /\ UNCHANGED <<runs, run, project, found, canceled, exit, calm, gap>>
  BY DEF PlanFixes, world, Continue, observed
<1>2. run.mode # "check" /\ found = Findings
  BY <1>1 DEF IInv, RunOK, PlanOK
<1>3. 1 \in 1..(FileCount + 1) /\ 1 \in Names
  BY ContentsAssumption DEF Names
<1>4. TypeOK' /\ FilesWhole'
  BY <1>1, <1>3 DEF IInv, TypeOK, Stages, FilesWhole
<1>5. pc' = "admit2" => run.mode = "fix"
  BY <1>1, <1>2 DEF IInv, TypeOK
<1>6. Findings' = Findings
  BY <1>1 DEF Findings
<1>7. plan' \subseteq DOMAIN project \ Templates
  BY <1>1, <1>2, FindingsAreAdmitted
<1>8. RunOK' /\ PlanOK' /\ TempOK' /\ ForeignWorkSurvives'
  BY <1>1, <1>2, <1>3, <1>5, <1>6, <1>7 DEF IInv, RunOK, PlanOK, TempOK,
     ForeignWorkSurvives, Batch, Replacing
<1>9. AdmittedOK'
  BY <1>1 DEF IInv, AdmittedOK, Batch, Replacing
<1> QED BY <1>4, <1>8, <1>9 DEF IInv

\* The batch is inspected name by name.
LEMMA PreflightKeeps == IInv /\ Preflight => IInv'
<1> SUFFICES ASSUME IInv, Preflight PROVE IInv'
  OBVIOUS
<1>1. /\ pc = "preflight" /\ at \in Names /\ UNCHANGED <<disk, temp, fresh, moves>>
      /\ ~temp.exists
  BY DEF Preflight, world, IInv, PlanOK, TempOK, Replacing
<1>2. CASE Finish(2)
  <2> HIDE DEF IInv
  <2> QED BY <1>1, <1>2, FinishKeeps
<1>3. CASE ~Finish(2)
  <2>1. /\ at' = IF at < FileCount THEN at + 1 ELSE 1
        /\ pc' = IF at < FileCount THEN "preflight" ELSE "admit3"
        /\ UNCHANGED <<runs, run, project, found, plan, canceled, exit, calm, gap>>
    BY <1>1, <1>3 DEF Preflight, observed
  <2>2. at' \in Names /\ at' \in 1..(FileCount + 1)
    BY <1>1, <2>1, NextName
  <2>3. TypeOK' /\ FilesWhole'
    BY <1>1, <2>1, <2>2 DEF IInv, TypeOK, Stages, FilesWhole
  <2>4. RunOK' /\ PlanOK' /\ TempOK' /\ ForeignWorkSurvives'
    BY <1>1, <2>1, <2>2 DEF IInv, RunOK, PlanOK, TempOK, ForeignWorkSurvives, Batch,
       Replacing
  <2>5. AdmittedOK'
    BY <1>1, <2>1 DEF IInv, AdmittedOK, Batch, Replacing
  <2> QED BY <2>3, <2>4, <2>5 DEF IInv
<1> QED BY <1>2, <1>3

\* The report ends the run.
LEMMA ReportKeeps == IInv /\ Report => IInv'
<1> SUFFICES ASSUME IInv, Report PROVE IInv'
  OBVIOUS
<1>1. UNCHANGED <<disk, temp, fresh, moves>> /\ ~temp.exists
  BY DEF Report, world, IInv, TempOK, Replacing
<1>2. PICK status \in {0, 1, 2} : Finish(status)
  BY DEF Report
<1> HIDE DEF IInv
<1> QED BY <1>1, <1>2, FinishKeeps

-----------------------------------------------------------------------------

\* A file of the batch is begun, passed over or refused.
LEMMA NextFileKeeps == IInv /\ NextFile => IInv'
<1> SUFFICES ASSUME IInv, NextFile PROVE IInv'
  OBVIOUS
<1>1. /\ pc = "replace" /\ UNCHANGED <<disk, temp, fresh, moves>> /\ ~temp.exists
      /\ plan \subseteq DOMAIN project \ Templates /\ run.mode = "fix" /\ ~run.stdin
      /\ \A n \in DOMAIN project : n \notin run.explicit
  BY DEF NextFile, world, IInv, TempOK, Replacing, Batch, PlanOK, RunOK, AdmittedOK
<1>2. CASE Finish(2)
  <2> HIDE DEF IInv
  <2> QED BY <1>1, <1>2, FinishKeeps
<1>3. CASE ~Finish(2)
  <2>1. /\ \/ pc' = "reload" /\ at' = 1
           \/ pc' = "replace" /\ at <= FileCount /\ at' = at + 1
           \/ pc' = "create" /\ at \in plan /\ at' = at
        /\ UNCHANGED <<runs, run, project, found, plan, canceled, exit, calm, gap>>
    BY <1>1, <1>3 DEF NextFile, Continue, Staying, admitted, observed
  <2>2. at \in 1..(FileCount + 1) /\ 1 \in Names
    BY ContentsAssumption DEF IInv, TypeOK, Names
  <2>3. at' \in 1..(FileCount + 1)
    BY <2>1, <2>2, ContentsAssumption
  <2>4. TypeOK' /\ FilesWhole'
    BY <1>1, <2>1, <2>3 DEF IInv, TypeOK, Stages, FilesWhole
  <2>5. RunOK' /\ PlanOK' /\ TempOK' /\ AdmittedOK' /\ ForeignWorkSurvives'
    BY <1>1, <2>1, <2>2 DEF RunOK, PlanOK, TempOK, AdmittedOK, ForeignWorkSurvives,
       Batch, Replacing
  <2> QED BY <2>4, <2>5 DEF IInv
<1> QED BY <1>2, <1>3

\* What holds while the sibling of a name is prepared: the name is planned, its
\* admitted entry is whole, and it is no template.
LEMMA AtPlanned ==
  ASSUME IInv, pc \in Replacing
  PROVE  /\ at \in plan /\ at \in DOMAIN project /\ at \in Names \ Templates
         /\ project[at] \in Whole /\ run.mode = "fix" /\ ~run.stdin
         /\ plan \subseteq DOMAIN project \ Templates
         /\ \A n \in DOMAIN project : n \notin run.explicit
<1>1. pc \in Batch
  BY DEF Batch
<1>2. at \in plan /\ plan \subseteq DOMAIN project \ Templates /\ plan \subseteq Names
  BY <1>1 DEF IInv, PlanOK, TypeOK
<1> QED BY <1>1, <1>2 DEF IInv, FilesWhole, RunOK, AdmittedOK

\* A step of the sibling leaves the project, the plan and the disk as they are; it
\* keeps the invariant when the sibling it makes fits the stage it enters and the
\* file was compared before the rename.
LEMMA SiblingKeeps ==
  ASSUME IInv, pc \in Replacing, pc' \in Replacing, UNCHANGED <<disk, fresh, moves>>,
         Staying, TempOK', gap' \in BOOLEAN, ForeignWorkSurvives',
         temp' \in [data : Contents \cup {Torn}, mode : {0, 1}, synced : BOOLEAN,
                   exists : BOOLEAN]
  PROVE  IInv'
<1>1. UNCHANGED <<runs, at, run, project, found, plan, canceled, exit, calm>>
  BY DEF Staying
<1>2. pc' \in Stages
  BY DEF Replacing, Stages
<1>3. TypeOK' /\ FilesWhole'
  BY <1>1, <1>2 DEF IInv, TypeOK, FilesWhole
<1>4. pc' \in Batch /\ pc' \notin {"load", "admit", "admit2", "preflight", "admit3", "reload",
                                "plan", "report", "reanalyze", "analyze"}
  BY DEF Batch, Replacing
<1>5. RunOK' /\ PlanOK' /\ AdmittedOK'
  BY <1>1, <1>4, AtPlanned DEF RunOK, PlanOK, AdmittedOK
<1> QED BY <1>3, <1>5 DEF IInv

\* The sibling is created with nothing in it.
LEMMA CreateKeeps == IInv /\ CreateTemp => IInv'
<1> SUFFICES ASSUME IInv, CreateTemp PROVE IInv'
  OBVIOUS
<1>1. pc = "create" /\ ~temp.exists
  BY DEF CreateTemp, IInv, TempOK
<1>2. CASE UNCHANGED world /\ Finish(2)
  <2>1. UNCHANGED <<disk, temp, fresh, moves>>
    BY <1>2 DEF world
  <2> HIDE DEF IInv
  <2> QED BY <1>1, <1>2, <2>1, FinishKeeps
<1>3. CASE /\ temp' = [NoTemp EXCEPT !.exists = TRUE] /\ pc' = "write"
           /\ Staying /\ UNCHANGED <<disk, fresh, moves, gap>>
  <2>1. TempOK' /\ ForeignWorkSurvives'
    BY <1>3 DEF TempOK, ForeignWorkSurvives, Replacing
  <2>2. temp' \in [data : Contents \cup {Torn}, mode : {0, 1}, synced : BOOLEAN,
                  exists : BOOLEAN]
    BY <1>3 DEF NoTemp
  <2>3. gap' \in BOOLEAN /\ pc \in Replacing /\ pc' \in Replacing
    BY <1>1, <1>3 DEF IInv, TypeOK, Replacing
  <2> HIDE DEF IInv
  <2> QED BY <1>3, <2>1, <2>2, <2>3, SiblingKeeps
<1> QED BY <1>2, <1>3 DEF CreateTemp

\* The sibling is written, gets the admitted mode and is synced, or it is given up.
LEMMA PrepareKeeps == IInv /\ (WriteTemp \/ ChmodTemp \/ SyncTemp) => IInv'
<1> SUFFICES ASSUME IInv, WriteTemp \/ ChmodTemp \/ SyncTemp PROVE IInv'
  OBVIOUS
<1>1. /\ Staying /\ UNCHANGED <<disk, fresh, moves, gap>>
      /\ pc \in {"write", "chmod", "sync"}
  BY DEF WriteTemp, ChmodTemp, SyncTemp, Prepare
<1>2. pc \in Replacing
  BY <1>1 DEF Replacing
<1>3. /\ project[at] \in Whole /\ project' = project /\ at' = at
  BY <1>1, <1>2, AtPlanned DEF Staying
<1>4. /\ project[at].data \in Contents /\ project[at].mode \in {0, 1}
      /\ Repaired[project[at].data] \in Contents
  BY <1>3, ContentsAssumption DEF Whole
<1>5. temp \in [data : Contents \cup {Torn}, mode : {0, 1}, synced : BOOLEAN,
               exists : BOOLEAN]
  BY DEF IInv, TypeOK
<1>6. /\ pc' \in {"chmod", "sync", "validate", "discard"}
      /\ temp' \in [data : Contents \cup {Torn}, mode : {0, 1}, synced : BOOLEAN,
                   exists : BOOLEAN]
      /\ pc' \in {"chmod", "sync", "validate"} => temp'.data = Repaired[project[at].data]
      /\ pc' \in {"sync", "validate"} => temp'.mode = project[at].mode
      /\ pc' = "validate" => temp'.synced
  <2>1. CASE temp' = temp /\ pc' = "discard"
    BY <1>5, <2>1
  <2>2. CASE /\ pc = "write" /\ pc' = "chmod"
             /\ temp' = [temp EXCEPT !.data = Repaired[project[at].data]]
    BY <1>4, <1>5, <2>2
  <2>3. CASE /\ pc = "chmod" /\ pc' = "sync"
             /\ temp' = [temp EXCEPT !.mode = project[at].mode]
    <3>1. temp.data = Repaired[project[at].data]
      BY <2>3 DEF IInv, TempOK
    <3> QED BY <1>4, <1>5, <2>3, <3>1
  <2>4. CASE pc = "sync" /\ pc' = "validate" /\ temp' = [temp EXCEPT !.synced = TRUE]
    <3>1. temp.data = Repaired[project[at].data] /\ temp.mode = project[at].mode
      BY <2>4 DEF IInv, TempOK
    <3> QED BY <1>5, <2>4, <3>1
  <2> QED BY <2>1, <2>2, <2>3, <2>4 DEF WriteTemp, ChmodTemp, SyncTemp, Prepare
<1>7. pc' \in Replacing /\ gap' \in BOOLEAN /\ ForeignWorkSurvives'
  BY <1>1, <1>6 DEF IInv, TypeOK, Replacing, ForeignWorkSurvives
<1>8. TempOK'
  BY <1>3, <1>6 DEF TempOK, Replacing
<1> HIDE DEF IInv
<1> QED BY <1>1, <1>2, <1>6, <1>7, <1>8, SiblingKeeps

\* The checks before the rename only look.
LEMMA CompareKeeps == IInv /\ (Revalidate \/ CompareAgain) => IInv'
<1> SUFFICES ASSUME IInv, Revalidate \/ CompareAgain PROVE IInv'
  OBVIOUS
<1>1. /\ Staying /\ UNCHANGED <<disk, temp, fresh, moves>>
      /\ pc \in {"validate", "compare"} /\ gap' \in BOOLEAN
      /\ pc' \in {"compare", "rename", "discard"}
  BY DEF Revalidate, CompareAgain, world, IInv, TypeOK
<1>2. pc \in Replacing /\ pc' \in Replacing /\ project' = project /\ at' = at
  BY <1>1 DEF Replacing, Staying
<1>3. TempOK'
  BY <1>1, <1>2 DEF IInv, TempOK, Replacing
<1>4. ForeignWorkSurvives'
  BY <1>1, <1>2 DEF Revalidate, CompareAgain, ForeignWorkSurvives
<1>5. temp' \in [data : Contents \cup {Torn}, mode : {0, 1}, synced : BOOLEAN,
                exists : BOOLEAN]
  BY <1>1 DEF IInv, TypeOK
<1> HIDE DEF IInv
<1> QED BY <1>1, <1>2, <1>3, <1>4, <1>5, SiblingKeeps

\* The rename puts a whole, synced file under the name, or leaves all as it was.
LEMMA RenameKeeps == IInv /\ Rename => IInv'
<1> SUFFICES ASSUME IInv, Rename PROVE IInv'
  OBVIOUS
<1>1. pc = "rename" /\ pc \in Replacing
  BY DEF Rename, Replacing
<1>2. CASE UNCHANGED <<world, gap>> /\ pc' = "discard" /\ Staying
  <2>1. /\ UNCHANGED <<disk, temp, fresh, moves>> /\ gap' \in BOOLEAN
        /\ pc' \in Replacing /\ project' = project /\ at' = at
    BY <1>2 DEF world, IInv, TypeOK, Replacing, Staying
  <2>2. TempOK' /\ ForeignWorkSurvives'
    BY <1>2, <2>1 DEF TempOK, ForeignWorkSurvives, Replacing
  <2>3. temp' \in [data : Contents \cup {Torn}, mode : {0, 1}, synced : BOOLEAN,
                  exists : BOOLEAN]
    BY <2>1 DEF IInv, TypeOK
  <2> HIDE DEF IInv
  <2> QED BY <1>1, <1>2, <2>1, <2>2, <2>3, SiblingKeeps
<1>3. CASE ~(UNCHANGED <<world, gap>> /\ pc' = "discard" /\ Staying)
  <2>1. /\ disk' = [disk EXCEPT ![at] =
              [file |-> fresh, data |-> temp.data, mode |-> temp.mode, links |-> 1,
               owner |-> "self", parent |-> disk[at].parent, synced |-> temp.synced]]
        /\ fresh' = fresh + 1 /\ temp' = NoTemp /\ pc' = "replace" /\ at' = at + 1
        /\ UNCHANGED <<moves, runs, run, project, found, plan, canceled, exit, calm, gap>>
    BY <1>3 DEF Rename, observed
  <2>2. /\ at \in Names /\ project[at] \in Whole /\ run.mode = "fix" /\ ~run.stdin
        /\ plan \subseteq DOMAIN project \ Templates
        /\ \A n \in DOMAIN project : n \notin run.explicit
    BY <1>1, AtPlanned
  <2>3. /\ temp.data = Repaired[project[at].data] /\ temp.mode = project[at].mode
        /\ temp.synced /\ temp.synced \in BOOLEAN
    BY <1>1 DEF IInv, TempOK, TypeOK
  <2>4. /\ fresh \in Nat /\ temp.data \in Contents /\ temp.mode \in {0, 1}
        /\ disk[at].parent \in {0, 1} /\ temp.synced \in {TRUE} /\ 1 \in 1..2
    <3>1. temp.synced \in {TRUE}
      BY <2>3, Zenon
    <3>2. project[at].data \in Contents /\ project[at].mode \in {0, 1}
      BY <2>2 DEF Whole
    <3>3. temp.data \in Contents /\ temp.mode \in {0, 1}
      BY <2>3, <3>2, ContentsAssumption
    <3>4. fresh \in Nat /\ disk[at] \in Whole
      BY <2>2 DEF IInv, TypeOK, FilesWhole
    <3>5. disk[at].parent \in {0, 1}
      BY <3>4 DEF Whole
    <3>6. 1 \in 1..2
      OBVIOUS
    <3> QED BY <3>1, <3>3, <3>4, <3>5, <3>6
  <2>5. [file |-> fresh, data |-> temp.data, mode |-> temp.mode, links |-> 1,
         owner |-> "self", parent |-> disk[at].parent, synced |-> temp.synced] \in Whole
    BY <2>4 DEF Whole
  <2>6. disk' \in [Names -> Whole]
    BY <2>1, <2>2, <2>5 DEF IInv, FilesWhole
  <2>7. disk' \in [Names -> Entry]
    BY <2>6, WholeIsEntry
  <2>8. at' \in 1..(FileCount + 1) /\ fresh' \in Nat /\ fresh' # Absent
    BY <2>1, <2>2, <2>4, ContentsAssumption DEF Names, Absent
  <2>9. temp' \in [data : Contents \cup {Torn}, mode : {0, 1}, synced : BOOLEAN,
                  exists : BOOLEAN] /\ ~temp'.exists
    BY <2>1 DEF NoTemp
  <2>10. TypeOK' /\ FilesWhole'
    BY <2>1, <2>6, <2>7, <2>8, <2>9 DEF IInv, TypeOK, FilesWhole, Stages
  <2>11. RunOK' /\ PlanOK' /\ TempOK' /\ AdmittedOK' /\ ForeignWorkSurvives'
    BY <2>1, <2>2, <2>9 DEF RunOK, PlanOK, TempOK, AdmittedOK, ForeignWorkSurvives,
       Batch, Replacing
  <2> QED BY <2>10, <2>11 DEF IInv
<1> QED BY <1>2, <1>3

\* The deferred removal ends the run without a sibling.
LEMMA DiscardKeeps == IInv /\ Discard => IInv'
<1> SUFFICES ASSUME IInv, Discard PROVE IInv'
  OBVIOUS
<1>1. UNCHANGED <<disk, fresh, moves>> /\ temp' = NoTemp /\ ~temp'.exists /\ Finish(2)
  BY DEF Discard, NoTemp
<1> HIDE DEF IInv
<1> QED BY <1>1, FinishKeeps

-----------------------------------------------------------------------------

\* Every step keeps the invariant.
LEMMA CheckStepKeeps == IInv /\ [Next]_vars => IInv'
<1> SUFFICES ASSUME IInv, [Next]_vars PROVE IInv'
  OBVIOUS
<1>1. CASE Start
  BY <1>1, StartKeeps
<1>2. CASE LoadSources
  BY <1>2, CheckLoadKeeps DEF LoadSources
<1>3. CASE ReloadSources
  BY <1>3, CheckLoadKeeps DEF ReloadSources
<1>4. CASE AdmitSelection
  BY <1>4, CheckAdmitKeeps DEF AdmitSelection
<1>5. CASE AdmitBeforeBatch
  BY <1>5, CheckAdmitKeeps DEF AdmitBeforeBatch
<1>6. CASE AdmitBeforeWriting
  BY <1>6, CheckAdmitKeeps DEF AdmitBeforeWriting
<1>7. CASE Analyze \/ Reanalyze
  BY <1>7, AnalyzeKeeps
<1>8. CASE PlanFixes
  BY <1>8, PlanKeeps
<1>9. CASE Preflight
  BY <1>9, PreflightKeeps
<1>10. CASE Report
  BY <1>10, ReportKeeps
<1>11. CASE ReplaceFile
  BY <1>11, NextFileKeeps, CreateKeeps, PrepareKeeps, CompareKeeps, RenameKeeps,
     DiscardKeeps DEF ReplaceFile
<1>12. CASE Interrupt
  BY <1>12, InterruptKeeps
<1>13. CASE Kill \/ PowerLoss
  BY <1>13, DieKeeps
<1>14. CASE Others
  BY <1>14, OthersKeeps
<1>15. CASE UNCHANGED vars
  BY <1>15 DEF vars, IInv, TypeOK, FilesWhole, RunOK, PlanOK, TempOK, AdmittedOK,
     ForeignWorkSurvives, Findings
<1> QED
  BY <1>1, <1>2, <1>3, <1>4, <1>5, <1>6, <1>7, <1>8, <1>9, <1>10, <1>11, <1>12, <1>13,
     <1>14, <1>15 DEF Next, Step

\* The invariant holds in every state.
LEMMA Invariant == Spec => []IInv
<1>1. Init => IInv
  BY InitKeeps
<1>2. IInv /\ [Next]_vars => IInv'
  BY CheckStepKeeps
<1> QED BY <1>1, <1>2, PTL DEF Spec

\* The state of the command and of the disk has its types (runCheck, check.go, and
\* WriteChanges, fixes.go).
THEOREM TypeCorrect == Spec => []TypeOK
<1>1. IInv => TypeOK
  BY DEF IInv
<1> QED BY <1>1, Invariant, PTL

\* Whatever other programs do, and wherever the command is killed or the power
\* fails, no name holds half a file, the sibling is gone when the command ends, and
\* another program's work is lost only to a rename it raced (replaceFile,
\* fixes.go:427-521).
THEOREM FilesWholeAlways == Spec => []FilesStayWhole
<1>1. IInv => FilesStayWhole
  <2> SUFFICES ASSUME IInv PROVE FilesStayWhole
    OBVIOUS
  <2>1. NeverTorn
    BY ContentsAssumption DEF IInv, FilesWhole, Whole, NeverTorn
  <2>2. SiblingsAreTemporary
    BY DEF IInv, TempOK, SiblingsAreTemporary, Replacing
  <2> QED BY <2>1, <2>2 DEF IInv, FilesStayWhole
<1> QED BY <1>1, Invariant, PTL

\* The steps that change a name without being another program's move are renames
\* onto the name at hand.
LEMMA OnlyRenamesWrite ==
  ASSUME IInv, [Next]_vars, NEW n \in Names, Moved(n)
  PROVE  /\ pc = "rename" /\ n = at
         /\ disk'[n].data = temp.data /\ disk'[n].mode = temp.mode
<1>1. disk' # disk /\ moves' = moves /\ moves \in Nat
  BY DEF Moved, IInv, TypeOK
<1>2. ~Others
  <2>1. ASSUME NEW m, NEW now PROVE ~Changed(m, now)
    BY <1>1 DEF Changed
  <2> QED
    BY <2>1, Zenon DEF Others, OthersEdit, OthersReplace, OthersChmod, OthersLink,
       OthersRemove, OthersRedirect, OthersMove
<1>3. ~(Kill \/ PowerLoss)
  BY <1>1, DieKeeps
<1>4. Rename
  BY <1>1, <1>2, <1>3 DEF Next, Step, Start, Interrupt, LoadSources, ReloadSources, Load,
     AdmitSelection, AdmitBeforeBatch, AdmitBeforeWriting, Admit, Analyze, Reanalyze,
     PlanFixes, Preflight, Report, ReplaceFile, NextFile, CreateTemp, WriteTemp,
     ChmodTemp, SyncTemp, Prepare, Revalidate, CompareAgain, Discard, world, vars
<1>5. disk' = [disk EXCEPT ![at] =
            [file |-> fresh, data |-> temp.data, mode |-> temp.mode, links |-> 1,
             owner |-> "self", parent |-> disk[at].parent, synced |-> temp.synced]]
  BY <1>1, <1>4 DEF Rename, world
<1>6. disk \in [Names -> Whole]
  BY DEF IInv, FilesWhole
<1>7. n = at
  BY <1>5, <1>6 DEF Moved
<1> QED BY <1>4, <1>5, <1>6, <1>7 DEF Rename

\* The program changes a name only in a --fix run over files, only to the whole
\* repair of the admitted bytes with the admitted mode, and never in a template
\* directory or while a selected template was named explicitly
\* (RequireWritableSelection and WriteChanges, fixes.go).
THEOREM WritesAreAdmitted == Spec => OnlyAdmittedFixesWrite
<1>1. IInv /\ [Next]_vars => [ChangesAreAdmitted]_vars
  <2> SUFFICES ASSUME IInv, [Next]_vars, NEW n \in Names, Moved(n)
               PROVE  /\ run.mode = "fix" /\ ~run.stdin /\ n \in plan \ Templates
                      /\ \A t \in DOMAIN project : t \notin run.explicit
                      /\ disk'[n].data = Repaired[project[n].data]
                      /\ disk'[n].mode = project[n].mode
    BY DEF ChangesAreAdmitted
  <2>1. /\ pc = "rename" /\ n = at
        /\ disk'[n].data = temp.data /\ disk'[n].mode = temp.mode
    BY OnlyRenamesWrite
  <2>2. /\ at \in plan /\ at \in Names \ Templates /\ run.mode = "fix" /\ ~run.stdin
        /\ \A t \in DOMAIN project : t \notin run.explicit
    BY <2>1, AtPlanned DEF Replacing
  <2> QED BY <2>1, <2>2 DEF IInv, TempOK
<1> QED BY <1>1, Invariant, PTL DEF Spec, OnlyAdmittedFixesWrite

-----------------------------------------------------------------------------
(***************************************************************************)
(* The invariant CalmInv: what holds while nobody else moves.              *)
(***************************************************************************)

\* A move of another program ends what is claimed of a calm run.
LEMMA ChangedCalm == ASSUME NEW n, NEW now, Changed(n, now) PROVE CalmInv'
  BY DEF Changed, CalmInv, InSync, BatchWritable, VerdictMatchesDisk,
     RefusedBatchWritesNothing

\* Every move of another program does.
LEMMA OthersCalm == Others => CalmInv'
  BY ChangedCalm, Zenon DEF Others, OthersEdit, OthersReplace, OthersChmod, OthersLink,
     OthersRemove, OthersRedirect, OthersMove

\* A start has loaded nothing yet.
LEMMA StartCalm == IInv /\ Start => CalmInv'
<1> SUFFICES ASSUME IInv, Start PROVE CalmInv'
  OBVIOUS
<1>1. /\ at' = 1 /\ DOMAIN project' = {} /\ UNCHANGED <<disk, fresh>>
      /\ pc' = "load" \/ (pc' = "done" /\ exit' = 2)
  BY DEF Start, world
<1>2. \A n \in Names : ~(n < at')
  BY <1>1 DEF Names
<1> QED
  BY <1>1, <1>2 DEF CalmInv, InSync, BatchWritable, VerdictMatchesDisk,
     RefusedBatchWritesNothing, Batch, Replacing

\* A step that leaves the disk, the project and the run keeps what a calm run
\* claims, if it does so for the stage it enters.
LEMMA QuietCalm ==
  ASSUME CalmInv, UNCHANGED <<disk, run, project, calm>>,
         InSync', VerdictMatchesDisk',
         calm = "run" /\ run.mode = "fix" =>
           /\ pc' = "load" => \A n \in DOMAIN project : n < at'
           /\ pc' = "admit" => \A n \in Names : n < at' /\ Present(n) => ~Unwritable(n)
           /\ pc' \in Batch \cup {"analyze", "plan", "reload", "reanalyze", "report"} =>
                \A n \in Names : Present(n) => ~Unwritable(n)
  PROVE  CalmInv'
<1>1. BatchWritable'
  BY DEF CalmInv, BatchWritable, Present, Unwritable
<1>2. RefusedBatchWritesNothing'
  BY DEF CalmInv, RefusedBatchWritesNothing, Unwritable
<1> QED BY <1>1, <1>2 DEF CalmInv

\* An end of the run with status 2, a kill and a power failure claim no verdict.
LEMMA EndCalm ==
  ASSUME IInv, CalmInv, UNCHANGED <<disk, run, project, calm>>,
         pc' = "dead" \/ (pc' = "done" /\ exit' = 2)
  PROVE  CalmInv'
<1>1. InSync' /\ VerdictMatchesDisk'
  BY DEF InSync, VerdictMatchesDisk
<1> QED BY <1>1, QuietCalm DEF Batch, Replacing

\* Finish(2) is such an end.
LEMMA FinishCalm ==
  ASSUME IInv, CalmInv, UNCHANGED disk, Finish(2)
  PROVE  CalmInv'
<1>1. UNCHANGED <<disk, run, project, calm>> /\ pc' = "done" /\ exit' = 2
  BY DEF Finish, observed
<1> HIDE DEF IInv, CalmInv
<1> QED BY <1>1, EndCalm

\* So are a kill and a power failure.
LEMMA DieCalm == IInv /\ CalmInv /\ (Kill \/ PowerLoss) => CalmInv'
<1> SUFFICES ASSUME IInv, CalmInv, Kill \/ PowerLoss PROVE CalmInv'
  OBVIOUS
<1>1. UNCHANGED <<disk, run, project, calm>> /\ pc' = "dead"
  BY DieKeeps DEF Kill, PowerLoss, Die, observed
<1> HIDE DEF IInv, CalmInv
<1> QED BY <1>1, EndCalm

\* An interrupt moves nothing.
LEMMA InterruptCalm == CalmInv /\ Interrupt => CalmInv'
  BY DEF Interrupt, world, observed, CalmInv, InSync, BatchWritable, VerdictMatchesDisk,
     RefusedBatchWritesNothing, Agrees, Present, Unwritable

\* A name read while nobody moves is admitted as it is on the disk, and a name that
\* is gone is forgotten.
LEMMA LoadCalm ==
  ASSUME IInv, CalmInv, NEW stage \in {"load", "reload"},
         NEW next \in {"admit", "analyze", "reanalyze"}, Load(stage, next),
         stage = "reload" => next = "reanalyze",
         stage = "load" => next = (IF run.mode = "fix" THEN "admit" ELSE "analyze")
  PROVE  CalmInv'
<1>1. /\ pc = stage /\ at \in Names /\ UNCHANGED <<disk, fresh>>
      /\ run.mode = "fix" => ~run.stdin
  BY DEF Load, world, IInv, PlanOK, RunOK
<1>2. CASE Finish(2)
  <2> HIDE DEF IInv, CalmInv
  <2> QED BY <1>1, <1>2, FinishCalm
<1>3. CASE ~Finish(2)
  <2>1. PICK c \in IF run.stdin /\ at = 1 THEN Contents ELSE {disk[at].data} :
          project' = IF Present(at)
               THEN [n \in DOMAIN project \cup {at} |->
                       IF n = at THEN [disk[n] EXCEPT !.data = c] ELSE project[n]]
               ELSE [n \in DOMAIN project \ {at} |-> project[n]]
    BY <1>3 DEF Load
  <2>2. /\ at' = IF at < FileCount THEN at + 1 ELSE 1
        /\ pc' = IF at < FileCount THEN stage ELSE next
        /\ calm' = IF at = 1 /\ calm = "no" THEN "load" ELSE calm
        /\ run' = run
    BY <1>1, <1>3 DEF Load
  <2>3. /\ at \in DOMAIN project' <=> Present(at)
        /\ \A n \in Names \ {at} : n \in DOMAIN project' <=> n \in DOMAIN project
        /\ \A n \in DOMAIN project' : n # at => project'[n] = project[n]
        /\ DOMAIN project' \subseteq Names
    BY <1>1, <2>1 DEF IInv, TypeOK
  <2>4. ~run.stdin /\ Present(at) => project'[at] = disk[at]
    <3> SUFFICES ASSUME ~run.stdin, Present(at) PROVE project'[at] = disk[at]
      OBVIOUS
    <3>1. c = disk[at].data
      OBVIOUS
    <3>2. disk[at] \in Whole
      BY <1>1 DEF IInv, FilesWhole
    <3>3. [disk[at] EXCEPT !.data = disk[at].data] = disk[at]
      BY <3>2 DEF Whole
    <3>4. project'[at] = [disk[at] EXCEPT !.data = c]
      BY <2>1
    <3> QED BY <3>1, <3>3, <3>4
  <2>5. \A n \in Names : Present(n)' <=> Present(n)
    BY <1>1 DEF Present
  <2>6. calm' # "no" /\ ~run.stdin => \A n \in Names : n <= at => Agrees(n)'
    <3> SUFFICES ASSUME calm' # "no", ~run.stdin, NEW n \in Names, n <= at
                 PROVE  Agrees(n)'
      OBVIOUS
    <3>1. CASE n = at
      BY <1>1, <2>3, <2>4, <2>5, <3>1 DEF Agrees
    <3>2. CASE n # at
      <4>1. at # 1 /\ n < at
        BY <1>1, <3>2, ContentsAssumption DEF Names
      <4>2. calm # "no"
        BY <2>2, <4>1
      <4>3. Agrees(n)
        BY <1>1, <4>1, <4>2 DEF CalmInv, InSync
      <4> QED BY <1>1, <2>3, <2>5, <3>2, <4>3 DEF Agrees
    <3> QED BY <3>1, <3>2
  <2>7. at' > at \/ (\A n \in Names : n <= at)
    BY <1>1, <2>2, ContentsAssumption DEF Names
  <2>8. \A n \in Names : n < at' => n <= at
    BY <1>1, <2>2, ContentsAssumption DEF Names
  <2>9. InSync'
    <3>1. CASE at < FileCount
      BY <1>1, <2>2, <2>6, <2>8, <3>1 DEF InSync
    <3>2. CASE ~(at < FileCount)
      BY <1>1, <2>2, <2>6, <2>7, <2>8, <3>2, ContentsAssumption DEF InSync, Names
    <3> QED BY <3>1, <3>2
  <2> DEFINE Fixing == calm' = "run" /\ run.mode = "fix"
  <2>10. Fixing => calm = "run" /\ ~run.stdin
    BY <1>1, <2>2
  <2>11. Fixing => \A n \in DOMAIN project' : Present(n)'
    BY <2>3, <2>5, <2>10 DEF CalmInv, BatchWritable
  <2>12. Fixing /\ stage = "load" => \A n \in DOMAIN project' : n <= at
    BY <1>1, <2>3, <2>10, ContentsAssumption DEF CalmInv, BatchWritable, Names
  <2>13. Fixing /\ stage = "reload" => \A n \in Names : Present(n)' => ~Unwritable(n)'
    BY <1>1, <2>2, <2>5, <2>10 DEF CalmInv, BatchWritable, Unwritable
  <2>14. BatchWritable'
    <3> SUFFICES ASSUME Fixing PROVE BatchWritable'
      BY <2>2 DEF BatchWritable
    <3>1. CASE stage = "load" /\ at < FileCount
      <4>1. \A n \in DOMAIN project' : n < at'
        BY <1>1, <2>2, <2>3, <2>12, <3>1, ContentsAssumption DEF Names
      <4> QED BY <2>2, <2>11, <3>1, <4>1 DEF BatchWritable, Batch, Replacing
    <3>2. CASE stage = "load" /\ ~(at < FileCount)
      BY <2>2, <2>11, <3>2 DEF BatchWritable, Batch, Replacing, Names
    <3>3. CASE stage = "reload"
      BY <2>2, <2>11, <2>13, <3>3 DEF BatchWritable, Batch, Replacing
    <3> QED BY <3>1, <3>2, <3>3
  <2>15. RefusedBatchWritesNothing'
    <3> SUFFICES ASSUME Fixing, NEW n \in DOMAIN project', Unwritable(n)',
                        NEW m \in DOMAIN project'
                 PROVE  disk'[m] = project'[m]
      BY <2>2 DEF RefusedBatchWritesNothing
    <3>1. stage = "load"
      BY <2>3, <2>11, <2>13
    <3>2. m \in Names /\ m <= at
      BY <2>3, <2>12, <3>1
    <3> QED BY <2>6, <2>10, <3>2 DEF Agrees
  <2>16. VerdictMatchesDisk'
    BY <1>1, <2>2 DEF VerdictMatchesDisk
  <2> QED BY <2>9, <2>14, <2>15, <2>16 DEF CalmInv
<1> QED BY <1>2, <1>3

\* A primary that may stay, and is on the disk as it was admitted, can be written.
LEMMA AdmitCalm ==
  ASSUME IInv, CalmInv, NEW stage \in {"admit", "admit2", "admit3"},
         NEW next \in {"analyze", "reload", "preflight", "replace"}, Admit(stage, next),
         stage = "admit" <=> next = "analyze"
  PROVE  CalmInv'
<1>1. /\ pc = stage /\ at \in Names /\ UNCHANGED disk /\ run.mode = "fix" /\ ~run.stdin
  BY DEF Admit, world, IInv, PlanOK, RunOK, Batch
<1>2. CASE Finish(2)
  <2> HIDE DEF IInv, CalmInv
  <2> QED BY <1>1, <1>2, FinishCalm
<1>3. CASE ~Finish(2)
  <2>1. /\ at \in DOMAIN project => Writable(at)
        /\ at' = IF at < FileCount THEN at + 1 ELSE 1
        /\ pc' = IF at < FileCount THEN stage ELSE next
        /\ UNCHANGED <<run, project, calm>>
    BY <1>1, <1>3 DEF Admit, observed
  <2>2. calm # "no" => \A n \in Names : Agrees(n)
    BY <1>1 DEF CalmInv, InSync
  <2>3. InSync'
    <3>1. \A n \in Names : Agrees(n) => Agrees(n)'
      BY <1>1, <2>1 DEF Agrees, Present
    <3> QED BY <1>1, <2>1, <2>2, <3>1 DEF InSync
  <2>4. calm = "run" /\ Present(at) => ~Unwritable(at)
    <3> SUFFICES ASSUME calm = "run", Present(at) PROVE ~Unwritable(at)
      OBVIOUS
    <3>1. at \in DOMAIN project /\ project[at] = disk[at]
      BY <1>1, <2>2 DEF Agrees
    <3>2. Writable(at) /\ run.explicit \subseteq Templates
      BY <2>1, <3>1 DEF IInv, TypeOK
    <3>3. at \notin run.explicit
      BY <3>2 DEF Writable
    <3>4. at \notin Templates => disk[at].owner = "self" /\ disk[at].links = 1
      BY <3>2 DEF Writable, Valid
    <3> QED BY <3>3, <3>4 DEF Unwritable
  <2>5. ASSUME calm = "run", stage = "admit", NEW n \in Names, n <= at, Present(n)
        PROVE  ~Unwritable(n)
    <3>1. n = at \/ n < at
      BY <1>1, <2>5, ContentsAssumption DEF Names
    <3> QED BY <1>1, <2>4, <2>5, <3>1 DEF CalmInv, BatchWritable
  <2>6. calm = "run" /\ stage # "admit" => \A n \in Names : Present(n) => ~Unwritable(n)
    BY <1>1 DEF CalmInv, BatchWritable, Batch
  <2>7. /\ at < FileCount => \A n \in Names : n < at' => n <= at
        /\ ~(at < FileCount) => \A n \in Names : n <= at
    BY <1>1, <2>1, ContentsAssumption DEF Names
  <2>8. calm = "run" =>
          /\ pc' = "load" => \A n \in DOMAIN project : n < at'
          /\ pc' = "admit" => \A n \in Names : n < at' /\ Present(n) => ~Unwritable(n)
          /\ pc' \in Batch \cup {"analyze", "plan", "reload", "reanalyze", "report"} =>
               \A n \in Names : Present(n) => ~Unwritable(n)
    <3>1. CASE stage = "admit"
      BY <1>1, <2>1, <2>5, <2>7, <3>1 DEF Batch, Replacing
    <3>2. CASE stage # "admit"
      BY <1>1, <2>1, <2>6, <3>2
    <3> QED BY <3>1, <3>2
  <2>9. VerdictMatchesDisk'
    BY <1>1, <2>1 DEF VerdictMatchesDisk
  <2> HIDE DEF CalmInv
  <2> QED BY <1>1, <2>1, <2>3, <2>8, <2>9, QuietCalm
<1> QED BY <1>2, <1>3

\* The stages between the loading and the end that only look: what was loaded is
\* still what is there.
LEMMA LookCalm ==
  ASSUME IInv, CalmInv, UNCHANGED <<disk, run, project, calm>>, run.mode = "fix" => ~run.stdin,
         pc \in {"analyze", "plan", "preflight", "reanalyze"},
         pc' \in {"analyze", "plan", "admit2", "preflight", "admit3", "report"}
  PROVE  CalmInv'
<1>1. InSync'
  BY DEF CalmInv, InSync, Agrees, Present
<1>2. VerdictMatchesDisk'
  BY DEF VerdictMatchesDisk
<1>3. calm = "run" /\ run.mode = "fix" => \A n \in Names : Present(n) => ~Unwritable(n)
  BY DEF CalmInv, BatchWritable, Batch
<1> HIDE DEF CalmInv, IInv
<1> QED BY <1>1, <1>2, <1>3, QuietCalm

\* The analyses, the plan and the inspection of the batch are such stages.
LEMMA AnalysisCalm ==
  IInv /\ CalmInv /\ (Analyze \/ Reanalyze \/ PlanFixes \/ Preflight) => CalmInv'
<1> SUFFICES ASSUME IInv, CalmInv, Analyze \/ Reanalyze \/ PlanFixes \/ Preflight
             PROVE  CalmInv'
  OBVIOUS
<1>1. UNCHANGED disk
  BY DEF Analyze, Reanalyze, PlanFixes, Preflight, world
<1>2. CASE Finish(2)
  <2> HIDE DEF IInv, CalmInv
  <2> QED BY <1>1, <1>2, FinishCalm
<1>3. CASE ~Finish(2)
  <2>1. /\ pc \in {"analyze", "plan", "preflight", "reanalyze"}
        /\ pc' \in {"analyze", "plan", "admit2", "preflight", "admit3", "report"}
        /\ UNCHANGED <<run, project, calm>>
    BY <1>3 DEF Analyze, Reanalyze, PlanFixes, Preflight, Continue, observed
  <2>2. run.mode = "fix" => ~run.stdin
    BY DEF IInv, RunOK
  <2> HIDE DEF IInv, CalmInv
  <2> QED BY <1>1, <2>1, <2>2, LookCalm
<1> QED BY <1>2, <1>3

\* The report's status tells the disk.
LEMMA ReportCalm == IInv /\ CalmInv /\ Report => CalmInv'
<1> SUFFICES ASSUME IInv, CalmInv, Report PROVE CalmInv'
  OBVIOUS
<1>1. pc = "report" /\ UNCHANGED disk /\ found = Findings
  BY DEF Report, world, IInv, PlanOK
<1>2. CASE Finish(2)
  <2> HIDE DEF IInv, CalmInv
  <2> QED BY <1>1, <1>2, FinishCalm
<1>3. CASE Finish(IF found = {} THEN 0 ELSE 1)
  <2>1. /\ pc' = "done" /\ exit' = (IF found = {} THEN 0 ELSE 1)
        /\ UNCHANGED <<run, project, calm>>
    BY <1>3 DEF Finish, observed
  <2>2. ASSUME calm # "no", ~run.stdin
        PROVE  found # {} <=> \E n \in Names : Present(n) /\ disk[n].data \in Dirty
    <3>1. \A n \in Names : Agrees(n)
      BY <1>1, <2>2 DEF CalmInv, InSync
    <3>2. \A n \in DOMAIN project : n \in Names
      BY DEF IInv, TypeOK
    <3> QED BY <1>1, <3>1, <3>2 DEF Agrees, Findings
  <2>3. VerdictMatchesDisk'
    BY <1>1, <2>1, <2>2 DEF VerdictMatchesDisk, Present
  <2>4. InSync'
    BY <2>1 DEF InSync
  <2> HIDE DEF IInv, CalmInv
  <2> QED BY <1>1, <2>1, <2>3, <2>4, QuietCalm DEF Batch, Replacing
<1> QED BY <1>1, <1>2, <1>3 DEF Report

\* What precedes the rename, and giving it up, moves nothing.
LEMMA SiblingCalm ==
  ASSUME IInv, CalmInv, UNCHANGED <<disk, run, project, calm>>,
         pc \in Replacing \cup {"replace"},
         \/ pc' \in Replacing \cup {"replace"}
         \/ pc' = "reload" /\ at' = 1
  PROVE  CalmInv'
<1>1. \A n \in Names : ~(n < 1)
  BY DEF Names
<1>2. InSync' /\ VerdictMatchesDisk'
  BY <1>1 DEF InSync, VerdictMatchesDisk, Replacing
<1>3. calm = "run" /\ run.mode = "fix" => \A n \in Names : Present(n) => ~Unwritable(n)
  BY DEF CalmInv, BatchWritable, Batch
<1>4. pc' \notin {"load", "admit"}
  BY DEF Replacing
<1> HIDE DEF CalmInv, IInv
<1> QED BY <1>2, <1>3, <1>4, QuietCalm

\* A file the command has renamed into place can be written again.
LEMMA RenameCalm == IInv /\ CalmInv /\ Rename => CalmInv'
<1> SUFFICES ASSUME IInv, CalmInv, Rename PROVE CalmInv'
  OBVIOUS
<1>1. pc = "rename" /\ pc \in Replacing
  BY DEF Rename, Replacing
<1>2. CASE UNCHANGED <<world, gap>> /\ pc' = "discard" /\ Staying
  <2>1. UNCHANGED <<disk, run, project, calm>> /\ pc' \in Replacing
    BY <1>2 DEF world, Staying, Replacing
  <2> HIDE DEF IInv, CalmInv
  <2> QED BY <1>1, <2>1, SiblingCalm
<1>3. CASE ~(UNCHANGED <<world, gap>> /\ pc' = "discard" /\ Staying)
  <2>1. /\ disk' = [disk EXCEPT ![at] =
              [file |-> fresh, data |-> temp.data, mode |-> temp.mode, links |-> 1,
               owner |-> "self", parent |-> disk[at].parent, synced |-> temp.synced]]
        /\ pc' = "replace" /\ UNCHANGED <<run, project, calm>>
    BY <1>3 DEF Rename, observed
  <2>2. /\ at \in Names \ Templates /\ run.explicit \subseteq Templates /\ fresh # Absent
        /\ disk \in [Names -> Whole]
    BY <1>1, AtPlanned DEF IInv, TypeOK, FilesWhole
  <2>3. /\ disk'[at].file = fresh /\ disk'[at].links = 1 /\ disk'[at].owner = "self"
        /\ \A n \in Names : n # at => disk'[n] = disk[n]
    BY <2>1, <2>2
  <2>4. \A n \in Names : n # at => (Present(n)' <=> Present(n)) /\ (Unwritable(n)' <=> Unwritable(n))
    BY <2>1, <2>3 DEF Present, Unwritable
  <2>5. \A n \in Names : n = at => Present(n)' /\ ~Unwritable(n)'
    BY <2>1, <2>2, <2>3 DEF Present, Unwritable
  <2>6. ASSUME calm = "run", run.mode = "fix"
        PROVE  /\ \A n \in DOMAIN project : Present(n)'
               /\ \A n \in Names : Present(n)' => ~Unwritable(n)'
    <3>1. /\ \A n \in DOMAIN project : n \in Names /\ Present(n)
          /\ \A n \in Names : Present(n) => ~Unwritable(n)
      BY <1>1, <2>6 DEF IInv, TypeOK, CalmInv, BatchWritable, Batch
    <3> QED BY <2>4, <2>5, <3>1
  <2>7. DOMAIN project \subseteq Names
    BY DEF IInv, TypeOK
  <2>8. BatchWritable'
    BY <2>1, <2>6 DEF BatchWritable
  <2>9. RefusedBatchWritesNothing'
    BY <2>1, <2>6, <2>7 DEF RefusedBatchWritesNothing
  <2>10. InSync' /\ VerdictMatchesDisk'
    BY <2>1 DEF InSync, VerdictMatchesDisk
  <2> QED BY <2>8, <2>9, <2>10 DEF CalmInv
<1> QED BY <1>2, <1>3

\* So the whole of replaceFile does.
LEMMA ReplaceCalm == IInv /\ CalmInv /\ ReplaceFile => CalmInv'
<1> SUFFICES ASSUME IInv, CalmInv, ReplaceFile PROVE CalmInv'
  OBVIOUS
<1>1. CASE Rename
  BY <1>1, RenameCalm
<1>2. CASE ~Rename
  <2>1. UNCHANGED disk
    BY <1>2 DEF ReplaceFile, NextFile, CreateTemp, WriteTemp, ChmodTemp, SyncTemp, Prepare,
       Revalidate, CompareAgain, Discard, world
  <2>2. CASE Finish(2)
    <3> HIDE DEF IInv, CalmInv
    <3> QED BY <2>1, <2>2, FinishCalm
  <2>3. CASE ~Finish(2)
    <3>1. /\ UNCHANGED <<run, project, calm>>
          /\ pc \in {"replace", "create", "write", "chmod", "sync", "validate", "compare"}
          /\ \/ pc' \in {"replace", "create", "write", "chmod", "sync", "validate",
                        "compare", "rename", "discard"}
             \/ pc' = "reload" /\ at' = 1
      <4>1. CASE NextFile
        BY <2>3, <4>1 DEF NextFile, Continue, Staying, admitted, observed
      <4>2. CASE CreateTemp
        BY <2>3, <4>2 DEF CreateTemp, Staying
      <4>3. CASE WriteTemp \/ ChmodTemp \/ SyncTemp
        BY <4>3 DEF WriteTemp, ChmodTemp, SyncTemp, Prepare, Staying
      <4>4. CASE Revalidate \/ CompareAgain
        BY <4>4 DEF Revalidate, CompareAgain, Staying
      <4> QED BY <1>2, <2>3, <4>1, <4>2, <4>3, <4>4 DEF ReplaceFile, Discard
    <3>2. /\ pc \in Replacing \cup {"replace"}
          /\ \/ pc' \in Replacing \cup {"replace"}
             \/ pc' = "reload" /\ at' = 1
      BY <3>1 DEF Replacing
    <3> HIDE DEF IInv, CalmInv
    <3> QED BY <2>1, <3>1, <3>2, SiblingCalm
  <2> QED BY <2>2, <2>3
<1> QED BY <1>1, <1>2

\* Every step keeps what holds while nobody else moves.
LEMMA StepCalm == IInv /\ CalmInv /\ [Next]_vars => CalmInv'
<1> SUFFICES ASSUME IInv, CalmInv, [Next]_vars PROVE CalmInv'
  OBVIOUS
<1>1. CASE Start
  BY <1>1, StartCalm
<1>2. CASE LoadSources
  BY <1>2, LoadCalm DEF LoadSources
<1>3. CASE ReloadSources
  BY <1>3, LoadCalm DEF ReloadSources
<1>4. CASE AdmitSelection
  BY <1>4, AdmitCalm DEF AdmitSelection
<1>5. CASE AdmitBeforeBatch
  BY <1>5, AdmitCalm DEF AdmitBeforeBatch
<1>6. CASE AdmitBeforeWriting
  BY <1>6, AdmitCalm DEF AdmitBeforeWriting
<1>7. CASE Analyze \/ Reanalyze \/ PlanFixes \/ Preflight
  BY <1>7, AnalysisCalm
<1>8. CASE Report
  BY <1>8, ReportCalm
<1>9. CASE ReplaceFile
  BY <1>9, ReplaceCalm
<1>10. CASE Interrupt
  BY <1>10, InterruptCalm
<1>11. CASE Kill \/ PowerLoss
  BY <1>11, DieCalm
<1>12. CASE Others
  BY <1>12, OthersCalm
<1>13. CASE UNCHANGED vars
  BY <1>13 DEF vars, CalmInv, InSync, BatchWritable, VerdictMatchesDisk,
     RefusedBatchWritesNothing, Agrees, Present, Unwritable
<1> QED
  BY <1>1, <1>2, <1>3, <1>4, <1>5, <1>6, <1>7, <1>8, <1>9, <1>10, <1>11, <1>12, <1>13
     DEF Next, Step

\* It holds in every state.
LEMMA CalmInvariant == Spec => []CalmInv
<1>1. Init => CalmInv
  BY DEF Init, CalmInv, InSync, BatchWritable, VerdictMatchesDisk,
     RefusedBatchWritesNothing
<1>2. IInv /\ CalmInv /\ [Next]_vars => CalmInv'
  BY StepCalm
<1> QED BY <1>1, <1>2, Invariant, PTL DEF Spec

\* While nobody else moves, one primary that cannot be written keeps the whole batch
\* from being written (RequireWritableSelection, fixes.go).
THEOREM RefusalsWriteNothing == Spec => []RefusedBatchWritesNothing
<1>1. CalmInv => RefusedBatchWritesNothing
  BY DEF CalmInv
<1> QED BY <1>1, CalmInvariant, PTL

\* Nobody having moved since the last loading, the exit status tells the disk: 1
\* exactly when a file that is there has findings (runCheck, check.go).
THEOREM VerdictIsTrue == Spec => []VerdictMatchesDisk
<1>1. CalmInv => VerdictMatchesDisk
  BY DEF CalmInv
<1> QED BY <1>1, CalmInvariant, PTL

-----------------------------------------------------------------------------
(***************************************************************************)
(* What a --fix run has repaired, where one pass of fixes is enough.       *)
(***************************************************************************)

\* A step that leaves disk, plan, run and calm keeps what is repaired, if it does
\* so for the stage it enters.
LEMMA QuietRepairs ==
  ASSUME UNCHANGED <<disk, run, calm>>,
         calm = "run" /\ run.mode = "fix" =>
           \A n \in Names \ Templates : Present(n) =>
             /\ pc' \in {"admit2", "preflight", "admit3"} => n \in plan' \/ Settled(n)
             /\ pc' \in Replacing \cup {"replace"} => (n \in plan' /\ n >= at') \/ Settled(n)
             /\ pc' \in {"reload", "reanalyze", "report"} => Settled(n),
         pc' = "done" => exit' = 2
  PROVE  RepairsDone' /\ SuccessRepairsAll'
  BY DEF RepairsDone, SuccessRepairsAll, Settled, Present

\* The stages before the batch have nothing to keep.
LEMMA EarlyRepairs ==
  ASSUME calm' = "run" => pc' \in {"idle", "load", "admit", "analyze", "plan", "done", "dead"},
         pc' = "done" => exit' = 2 \/ calm' # "run"
  PROVE  RepairsDone' /\ SuccessRepairsAll'
  BY DEF RepairsDone, SuccessRepairsAll, Replacing

\* An end with status 2 promises nothing.
LEMMA FinishRepairs == ASSUME Finish(2) PROVE RepairsDone' /\ SuccessRepairsAll'
  BY EarlyRepairs DEF Finish

\* What is diagnosed and changed by its fixes is planned; all else is settled.
LEMMA PlanRepairs ==
  ASSUME RepairAssumption, IInv, CalmInv, PlanFixes
  PROVE  RepairsDone' /\ SuccessRepairsAll'
<1>1. /\ pc = "plan" /\ UNCHANGED <<disk, run, project, calm>> /\ found = Findings
      /\ pc' = IF run.mode = "diff" THEN "report" ELSE "admit2"
      /\ plan' = {n \in found \ Templates : Repaired[project[n].data] # project[n].data}
  BY DEF PlanFixes, world, Continue, observed, IInv, PlanOK
<1>2. ASSUME calm = "run", run.mode = "fix", NEW n \in Names \ Templates, Present(n),
             n \notin plan'
      PROVE  Settled(n)
  <2>1. n \in DOMAIN project /\ project[n] = disk[n]
    BY <1>1, <1>2 DEF CalmInv, InSync, Agrees, IInv, RunOK
  <2>2. disk[n].data \in Contents
    BY DEF IInv, FilesWhole, Whole
  <2>3. n \in found \/ disk[n].data \notin Dirty
    BY <1>1, <2>1 DEF Findings
  <2> QED BY <1>1, <1>2, <2>1, <2>2, <2>3 DEF RepairAssumption, Settled
<1>3. run.mode = "fix" => pc' = "admit2"
  BY <1>1
<1> QED BY <1>1, <1>2, <1>3, QuietRepairs DEF Replacing

\* The passes over the names before the first replacement keep the plan.
LEMMA AdmitRepairs ==
  ASSUME IInv, RepairsDone, NEW stage \in {"admit", "admit2", "admit3"},
         NEW next \in {"analyze", "reload", "preflight", "replace"}, Admit(stage, next),
         stage = "admit" <=> next = "analyze",
         stage = "admit2" => (next = "reload" <=> plan = {}) /\ next # "replace",
         stage = "admit3" => next = "replace"
  PROVE  RepairsDone' /\ SuccessRepairsAll'
<1>1. pc = stage /\ UNCHANGED disk /\ at \in Names
  BY DEF Admit, world, IInv, PlanOK
<1>2. CASE Finish(2)
  BY <1>2, FinishRepairs
<1>3. CASE ~Finish(2)
  <2>1. /\ at' = IF at < FileCount THEN at + 1 ELSE 1
        /\ pc' = IF at < FileCount THEN stage ELSE next
        /\ UNCHANGED <<run, plan, calm>>
    BY <1>1, <1>3 DEF Admit, observed
  <2>2. ASSUME calm = "run", run.mode = "fix", NEW n \in Names \ Templates, Present(n)
        PROVE  /\ pc' \in {"admit2", "preflight", "admit3"} => n \in plan' \/ Settled(n)
               /\ pc' = "replace" => (n \in plan' /\ n >= at') \/ Settled(n)
               /\ pc' = "reload" => Settled(n)
    <3>1. stage # "admit" => n \in plan \/ Settled(n)
      BY <1>1, <2>2 DEF RepairsDone
    <3>2. pc' = "replace" => at' = 1 /\ n >= 1
      BY <2>1 DEF Names
    <3> QED BY <2>1, <3>1, <3>2
  <2>3. pc' \in {"admit", "admit2", "admit3", "analyze", "reload", "preflight", "replace"}
    BY <2>1
  <2> QED BY <1>1, <2>1, <2>2, <2>3, QuietRepairs DEF Replacing
<1> QED BY <1>2, <1>3

\* So does the inspection of the batch.
LEMMA PreflightRepairs ==
  ASSUME RepairsDone, Preflight
  PROVE  RepairsDone' /\ SuccessRepairsAll'
<1>1. CASE Finish(2)
  BY <1>1, FinishRepairs
<1>2. CASE ~Finish(2)
  <2>1. /\ pc = "preflight" /\ pc' \in {"preflight", "admit3"}
        /\ UNCHANGED <<disk, run, plan, calm>>
    BY <1>2 DEF Preflight, world, observed
  <2>2. ASSUME calm = "run", run.mode = "fix", NEW n \in Names \ Templates, Present(n)
        PROVE  n \in plan' \/ Settled(n)
    BY <2>1, <2>2 DEF RepairsDone
  <2> QED BY <2>1, <2>2, QuietRepairs DEF Replacing
<1> QED BY <1>1, <1>2

\* A renamed file is settled; a name passed over already was.
LEMMA ReplaceRepairs ==
  ASSUME RepairAssumption, IInv, RepairsDone, ReplaceFile
  PROVE  RepairsDone' /\ SuccessRepairsAll'
<1>1. CASE Finish(2)
  BY <1>1, FinishRepairs
<1>2. CASE NextFile /\ ~Finish(2)
  <2>1. /\ pc = "replace" /\ UNCHANGED <<disk, run, plan, calm>>
        /\ \/ at > FileCount /\ pc' = "reload"
           \/ at \notin plan /\ at' = at + 1 /\ pc' = "replace"
           \/ at' = at /\ pc' = "create"
    BY <1>2 DEF NextFile, Continue, Staying, admitted, observed, world
  <2>2. at \in 1..(FileCount + 1) /\ FileCount \in Nat
    BY ContentsAssumption DEF IInv, TypeOK
  <2>3. ASSUME calm = "run", run.mode = "fix", NEW n \in Names \ Templates, Present(n)
        PROVE  /\ pc' \in Replacing \cup {"replace"} => (n \in plan' /\ n >= at') \/ Settled(n)
               /\ pc' = "reload" => Settled(n)
    <3>1. (n \in plan /\ n >= at) \/ Settled(n)
      BY <2>1, <2>3 DEF RepairsDone
    <3>2. at > FileCount => ~(n >= at)
      BY <2>2 DEF Names
    <3>3. n \in plan /\ n >= at /\ at \notin plan => n >= at + 1
      BY <2>2 DEF Names
    <3> QED BY <2>1, <3>1, <3>2, <3>3 DEF Replacing
  <2>4. pc' \in {"reload", "replace", "create"}
    BY <2>1
  <2> QED BY <2>1, <2>3, <2>4, QuietRepairs DEF Replacing
<1>3. CASE Rename /\ pc' = "replace"
  <2>1. /\ pc = "rename"
        /\ disk' = [disk EXCEPT ![at] =
              [file |-> fresh, data |-> temp.data, mode |-> temp.mode, links |-> 1,
               owner |-> "self", parent |-> disk[at].parent, synced |-> temp.synced]]
        /\ at' = at + 1 /\ UNCHANGED <<run, project, plan, calm>>
    BY <1>3 DEF Rename, observed
  <2>2. at \in Names /\ project[at] \in Whole /\ disk \in [Names -> Whole]
    BY <2>1, AtPlanned DEF Replacing, IInv, FilesWhole
  <2>3. temp.data = Repaired[project[at].data] /\ project[at].data \in Contents
    BY <2>1, <2>2 DEF IInv, TempOK, Whole
  <2>4. /\ disk'[at].data = Repaired[project[at].data]
        /\ \A n \in Names : n # at => disk'[n] = disk[n]
    BY <2>1, <2>2, <2>3
  <2>5. ASSUME calm = "run", run.mode = "fix", NEW n \in Names \ Templates, Present(n)'
        PROVE  (n \in plan' /\ n >= at') \/ Settled(n)'
    <3>1. CASE n = at
      BY <2>3, <2>4, <3>1 DEF RepairAssumption, Settled
    <3>2. CASE n # at
      <4>1. (n \in plan /\ n >= at) \/ Settled(n)
        BY <2>1, <2>4, <2>5, <3>2 DEF RepairsDone, Present, Replacing
      <4>2. n >= at => n >= at + 1
        BY <2>2, <3>2, ContentsAssumption DEF Names
      <4> QED BY <2>1, <2>4, <3>2, <4>1, <4>2 DEF Settled
    <3> QED BY <3>1, <3>2
  <2> QED BY <1>3, <2>1, <2>5 DEF RepairsDone, SuccessRepairsAll, Replacing
<1>4. CASE ~(NextFile \/ Finish(2) \/ (Rename /\ pc' = "replace"))
  <2>1. /\ pc \in Replacing /\ pc' \in Replacing /\ UNCHANGED <<disk, run, plan, calm, at>>
    <3>1. CASE CreateTemp
      BY <1>4, <3>1 DEF CreateTemp, Staying, Replacing
    <3>2. CASE WriteTemp \/ ChmodTemp \/ SyncTemp
      BY <3>2 DEF WriteTemp, ChmodTemp, SyncTemp, Prepare, Staying, Replacing
    <3>3. CASE Revalidate \/ CompareAgain
      BY <3>3 DEF Revalidate, CompareAgain, Staying, Replacing, world
    <3>4. CASE Rename
      BY <1>4, <3>4 DEF Rename, Staying, Replacing, world
    <3> QED BY <1>4, <3>1, <3>2, <3>3, <3>4 DEF ReplaceFile, Discard
  <2>2. ASSUME calm = "run", run.mode = "fix", NEW n \in Names \ Templates, Present(n)
        PROVE  (n \in plan' /\ n >= at') \/ Settled(n)
    BY <2>1, <2>2 DEF RepairsDone
  <2>3. pc' \notin {"admit2", "preflight", "admit3", "reload", "reanalyze", "report", "done"}
    BY <2>1 DEF Replacing
  <2> QED BY <2>1, <2>2, <2>3, QuietRepairs
<1> QED BY <1>1, <1>2, <1>3, <1>4 DEF ReplaceFile

\* Loading and analysing again leaves what was repaired.
LEMMA ReadRepairs ==
  ASSUME IInv, RepairsDone, SuccessRepairsAll,
         LoadSources \/ ReloadSources \/ Analyze \/ Reanalyze \/ Report
  PROVE  RepairsDone' /\ SuccessRepairsAll'
<1>1. UNCHANGED disk
  BY DEF LoadSources, ReloadSources, Load, Analyze, Reanalyze, Report, world
<1>2. CASE Finish(2)
  BY <1>2, FinishRepairs
<1>3. CASE (LoadSources \/ Analyze) /\ ~Finish(2)
  <2>1. pc' \in {"load", "admit", "analyze", "plan", "report"}
        /\ (pc' = "report" => run'.mode # "fix")
    BY <1>3 DEF LoadSources, Load, Analyze, Continue
  <2> QED BY <2>1 DEF RepairsDone, SuccessRepairsAll, Replacing
<1>4. CASE (ReloadSources \/ Reanalyze) /\ ~Finish(2)
  <2>1. /\ pc \in {"reload", "reanalyze"} /\ pc' \in {"reload", "reanalyze", "report"}
        /\ run' = run /\ (calm' = "run" => calm = "run")
    BY <1>4 DEF ReloadSources, Load, Reanalyze, Continue, observed
  <2> QED
    BY <1>1, <2>1 DEF RepairsDone, SuccessRepairsAll, Replacing, Settled, Present
<1>5. CASE Report /\ ~Finish(2)
  <2>1. /\ pc = "report" /\ pc' = "done" /\ UNCHANGED <<run, calm>>
    BY <1>5 DEF Report, Finish, observed
  <2> QED
    BY <1>1, <2>1 DEF RepairsDone, SuccessRepairsAll, Replacing, Settled, Present
<1> QED BY <1>2, <1>3, <1>4, <1>5

\* Every step keeps what a calm --fix run has repaired.
LEMMA StepRepairs ==
  ASSUME RepairAssumption, IInv, CalmInv, RepairsDone, SuccessRepairsAll, [Next]_vars
  PROVE  RepairsDone' /\ SuccessRepairsAll'
<1>1. CASE Start
  <2>1. pc' \in {"load", "done"} /\ (pc' = "done" => exit' = 2)
    BY <1>1 DEF Start
  <2> QED BY <2>1, EarlyRepairs
<1>2. CASE LoadSources \/ ReloadSources \/ Analyze \/ Reanalyze \/ Report
  BY <1>2, ReadRepairs
<1>3. CASE AdmitSelection
  BY <1>3, AdmitRepairs DEF AdmitSelection
<1>4. CASE AdmitBeforeBatch
  BY <1>4, AdmitRepairs DEF AdmitBeforeBatch
<1>5. CASE AdmitBeforeWriting
  BY <1>5, AdmitRepairs DEF AdmitBeforeWriting
<1>6. CASE PlanFixes
  BY <1>6, PlanRepairs
<1>7. CASE Preflight
  BY <1>7, PreflightRepairs
<1>8. CASE ReplaceFile
  BY <1>8, ReplaceRepairs
<1>9. CASE Interrupt
  BY <1>9 DEF Interrupt, world, observed, RepairsDone, SuccessRepairsAll, Settled, Present
<1>10. CASE Kill \/ PowerLoss
  <2>1. pc' = "dead"
    BY <1>10 DEF Kill, PowerLoss, Die
  <2> QED BY <2>1, EarlyRepairs
<1>11. CASE Others
  <2>1. ASSUME NEW n, NEW now, Changed(n, now) PROVE calm' = "no"
    BY <2>1 DEF Changed
  <2>2. calm' = "no"
    BY <1>11, <2>1, Zenon DEF Others, OthersEdit, OthersReplace, OthersChmod, OthersLink,
       OthersRemove, OthersRedirect, OthersMove
  <2> QED BY <2>2, EarlyRepairs
<1>12. CASE UNCHANGED vars
  BY <1>12 DEF vars, RepairsDone, SuccessRepairsAll, Settled, Present
<1> QED
  BY <1>1, <1>2, <1>3, <1>4, <1>5, <1>6, <1>7, <1>8, <1>9, <1>10, <1>11, <1>12
     DEF Next, Step

\* Where one pass of fixes is enough, and nobody having moved since the last loading,
\* the exit status tells the disk, and a --fix run that ends with a verdict repaired
\* everything, whatever an earlier run left half done (runCheck, check.go).
THEOREM VerdictTellsAll == ASSUME RepairAssumption PROVE Spec => []VerdictTellsDisk
<1>1. Init => RepairsDone /\ SuccessRepairsAll
  BY DEF Init, RepairsDone, SuccessRepairsAll
<1>2. IInv /\ CalmInv /\ RepairsDone /\ SuccessRepairsAll /\ [Next]_vars
        => RepairsDone' /\ SuccessRepairsAll'
  BY StepRepairs
<1>3. CalmInv /\ SuccessRepairsAll => VerdictTellsDisk
  BY DEF CalmInv, VerdictTellsDisk
<1> QED BY <1>1, <1>2, <1>3, Invariant, CalmInvariant, PTL DEF Spec

-----------------------------------------------------------------------------
(***************************************************************************)
(* Scaffold commands.                                                      *)
(***************************************************************************)

-----------------------------------------------------------------------------
(***************************************************************************)
(* Induction over the naturals, for sets: the intervals 0..n that end      *)
(* outside a set that is closed under successor would have no smallest.    *)
(***************************************************************************)

LEMMA Induction ==
  ASSUME NEW S, 0 \in S, \A n \in Nat : n \in S => n + 1 \in S
  PROVE  Nat \subseteq S
<1> SUFFICES ASSUME NEW k \in Nat, k \notin S PROVE FALSE
  OBVIOUS
<1> DEFINE T == {0..n : n \in {m \in Nat : m \notin S}}
<1>1. T \subseteq FiniteSubsetsOf(Nat)
  <2> SUFFICES ASSUME NEW n \in Nat PROVE 0..n \in FiniteSubsetsOf(Nat)
    OBVIOUS
  <2>1. IsFiniteSet(0..n)
    BY FS_Interval
  <2> QED BY <2>1 DEF FiniteSubsetsOf
<1>2. T # {}
  OBVIOUS
<1>3. PICK U \in T : \A V \in T : <<V, U>> \notin StrictSubsetOrdering(Nat)
  <2> HIDE DEF T
  <2> QED BY <1>1, <1>2, WFMin, FS_StrictSubsetOrderingWellFounded
<1>4. PICK n \in Nat : n \notin S /\ U = 0..n
  BY <1>3
<1>5. n # 0 /\ n - 1 \in Nat /\ n - 1 \notin S
  BY <1>4
<1>6. 0..(n - 1) \in T
  BY <1>5
<1>7. 0..(n - 1) \subseteq 0..n /\ n \in 0..n /\ n \notin 0..(n - 1)
  BY <1>4
<1>8. <<0..(n - 1), U>> \in StrictSubsetOrdering(Nat)
  BY <1>4, <1>5, <1>7 DEF StrictSubsetOrdering
<1> QED BY <1>3, <1>6, <1>8

-----------------------------------------------------------------------------
(***************************************************************************)
(* Looking things up: Below follows a path name by name.                   *)
(***************************************************************************)

Under(x, n) == IF x \in Role!Directories THEN entry[x][n] ELSE Role!None

\* g is the walk from d along the first k names of p.
Walk(d, p, k, g) ==
  g = [i \in 0..k |-> IF i = 0 THEN d ELSE Under(g[i - 1], p[i])]

\* There is a walk of any length.
LEMMA WalkExists ==
  ASSUME NEW d, NEW p, NEW k \in Nat
  PROVE  \E g : Walk(d, p, k, g)
<1> DEFINE S == {n \in Nat : \E g : Walk(d, p, n, g)}
<1>1. 0 \in S
  <2>1. Walk(d, p, 0, [i \in 0..0 |-> d])
    BY DEF Walk
  <2> QED BY <2>1
<1>2. ASSUME NEW n \in Nat, n \in S PROVE n + 1 \in S
  <2>1. PICK g : Walk(d, p, n, g)
    BY <1>2
  <2> DEFINE h == [i \in 0..(n + 1) |-> IF i = n + 1 THEN Under(g[n], p[n + 1]) ELSE g[i]]
  <2>2. ASSUME NEW i \in 0..(n + 1)
        PROVE  h[i] = IF i = 0 THEN d ELSE Under(h[i - 1], p[i])
    <3>1. CASE i = n + 1
      BY <3>1
    <3>2. CASE i # n + 1
      <4>1. g[i] = IF i = 0 THEN d ELSE Under(g[i - 1], p[i])
        BY <2>1, <3>2 DEF Walk
      <4> QED BY <4>1, <3>2
    <3> QED BY <3>1, <3>2
  <2>3. Walk(d, p, n + 1, h)
    <3> HIDE DEF Under
    <3> QED BY <2>2 DEF Walk
  <2> QED BY <2>3
<1>3. k \in S
  <2> HIDE DEF S
  <2> QED BY <1>1, <1>2, Induction
<1> QED BY <1>3

\* Walks along the same names agree.
LEMMA WalksAgree ==
  ASSUME NEW d, NEW p, NEW q, NEW k \in Nat, NEW m \in 0..k, NEW g, NEW h,
         Walk(d, p, k, g), Walk(d, q, m, h), \A i \in 1..m : p[i] = q[i]
  PROVE  g[m] = h[m]
<1> DEFINE S == {n \in Nat : n <= m => g[n] = h[n]}
<1>1. 0 \in S
  BY DEF Walk
<1>2. ASSUME NEW n \in Nat, n \in S PROVE n + 1 \in S
  <2> SUFFICES ASSUME n + 1 <= m PROVE g[n + 1] = h[n + 1]
    OBVIOUS
  <2>1. g[n] = h[n] /\ p[n + 1] = q[n + 1]
    BY <1>2
  <2>2. n + 1 \in 0..k /\ n + 1 \in 0..m /\ n + 1 # 0 /\ (n + 1) - 1 = n
    OBVIOUS
  <2>3. g[n + 1] = Under(g[n], p[n + 1]) /\ h[n + 1] = Under(h[n], q[n + 1])
    BY <2>2 DEF Walk
  <2> QED BY <2>1, <2>3
<1>3. m \in S
  <2> HIDE DEF S
  <2> QED BY <1>1, <1>2, Induction
<1> QED BY <1>3

\* Below is where the walk along the whole path ends.
LEMMA BelowWalks ==
  ASSUME NEW d, NEW p, Len(p) \in Nat
  PROVE  \E g : Walk(d, p, Len(p), g) /\ Role!Below(d, p) = g[Len(p)]
<1> DEFINE at0 == CHOOSE g : Walk(d, p, Len(p), g)
<1>1. Walk(d, p, Len(p), at0)
  BY WalkExists
<1>2. Role!Below(d, p) = at0[Len(p)]
  BY DEF Role!Below, Walk, Under
<1> QED BY <1>1, <1>2

Paths == Seq(Role!Names)

\* The node behind the first i names of a path from the top.
Upto(p, i) == Role!Below(Role!Top, SubSeq(p, 1, i))

\* The beginnings of a path.
LEMMA Prefixes ==
  ASSUME NEW p \in Paths, NEW i \in 0..Len(p)
  PROVE  /\ SubSeq(p, 1, i) \in Paths /\ Len(SubSeq(p, 1, i)) = i
         /\ \A j \in 1..i : SubSeq(p, 1, i)[j] = p[j]
         /\ SubSeq(p, 1, Len(p)) = p
BY DEF Paths

\* The nodes along a path.
LEMMA UptoSteps ==
  ASSUME NEW p \in Paths
  PROVE  /\ Upto(p, 0) = Role!Top
         /\ \A i \in 1..Len(p) : Upto(p, i) = Under(Upto(p, i - 1), p[i])
         /\ Upto(p, Len(p)) = Role!Below(Role!Top, p)
<1>1. Upto(p, 0) = Role!Top
  <2>1. PICK g : Walk(Role!Top, SubSeq(p, 1, 0), Len(SubSeq(p, 1, 0)), g)
                 /\ Upto(p, 0) = g[Len(SubSeq(p, 1, 0))]
    <3>1. 0 \in 0..Len(p)
      BY DEF Paths
    <3>2. Len(SubSeq(p, 1, 0)) \in Nat
      BY <3>1, Prefixes
    <3> QED BY <3>2, BelowWalks DEF Upto
  <2>2. Len(SubSeq(p, 1, 0)) = 0
    <3>1. 0 \in 0..Len(p)
      BY DEF Paths
    <3> QED BY <3>1, Prefixes
  <2> QED BY <2>1, <2>2 DEF Walk
<1>2. ASSUME NEW i \in 1..Len(p) PROVE Upto(p, i) = Under(Upto(p, i - 1), p[i])
  <2>1. PICK g : Walk(Role!Top, SubSeq(p, 1, i), i, g) /\ Upto(p, i) = g[i]
    <3>1. Len(SubSeq(p, 1, i)) = i /\ i \in Nat
      BY Prefixes
    <3> QED BY <3>1, BelowWalks DEF Upto
  <2>2. PICK h : Walk(Role!Top, SubSeq(p, 1, i - 1), i - 1, h) /\ Upto(p, i - 1) = h[i - 1]
    <3>1. i - 1 \in 0..Len(p)
      OBVIOUS
    <3>2. Len(SubSeq(p, 1, i - 1)) = i - 1 /\ i - 1 \in Nat
      BY <3>1, Prefixes
    <3> QED BY <3>2, BelowWalks DEF Upto
  <2>3. \A j \in 1..(i - 1) : SubSeq(p, 1, i)[j] = SubSeq(p, 1, i - 1)[j]
    <3>1. i \in 0..Len(p) /\ i - 1 \in 0..Len(p)
      OBVIOUS
    <3> QED BY <3>1, Prefixes
  <2>4. g[i - 1] = h[i - 1]
    <3> DEFINE long == SubSeq(p, 1, i)  short == SubSeq(p, 1, i - 1)  m == i - 1
    <3>1. i \in Nat /\ m \in 0..i
      OBVIOUS
    <3>2. /\ Walk(Role!Top, long, i, g) /\ Walk(Role!Top, short, m, h)
          /\ \A j \in 1..m : long[j] = short[j]
      BY <2>1, <2>2, <2>3
    <3>3. g[m] = h[m]
      <4> HIDE DEF long, short, m
      <4> QED BY <3>1, <3>2, WalksAgree
    <3> QED BY <3>3
  <2>5. g[i] = Under(g[i - 1], SubSeq(p, 1, i)[i])
    BY <2>1 DEF Walk
  <2>6. SubSeq(p, 1, i)[i] = p[i]
    BY Prefixes
  <2> QED BY <2>1, <2>2, <2>4, <2>5, <2>6
<1>3. Upto(p, Len(p)) = Role!Below(Role!Top, p)
  <2>1. SubSeq(p, 1, Len(p)) = p
    BY Prefixes DEF Paths
  <2> QED BY <2>1 DEF Upto
<1> QED BY <1>1, <1>2, <1>3

\* A set of naturals has a least element.
LEMMA Least ==
  ASSUME NEW S \in SUBSET Nat, S # {}
  PROVE  \E i \in S : \A j \in S : i <= j
<1> SUFFICES ASSUME \A i \in S : \E j \in S : j < i PROVE FALSE
  OBVIOUS
<1> DEFINE T == {n \in Nat : \A j \in 0..n : j \notin S}
<1>1. 0 \in T
  OBVIOUS
<1>2. ASSUME NEW n \in Nat, n \in T PROVE n + 1 \in T
  <2>1. \A j \in 0..n : j \notin S
    BY <1>2
  <2>2. n + 1 \notin S
    BY <2>1
  <2> QED BY <2>1, <2>2
<1>3. Nat \subseteq T
  <2> HIDE DEF T
  <2> QED BY <1>1, <1>2, Induction
<1>4. PICK i \in S : TRUE
  OBVIOUS
<1>5. i \in T
  BY <1>3
<1> QED BY <1>4, <1>5

-----------------------------------------------------------------------------
(***************************************************************************)
(* The types of the file system and of what a command knows.               *)
(***************************************************************************)

Places == {"role", "load", "admit", "identity", "owners", "controls", "targets", "preview",
  "openRoot", "openRoles", "makeRole", "readRole", "openRole", "makeLeaf", "readLeaf",
  "makeFile", "success", "done"}
Options == {request.asked[c] : request \in Asked, c \in Commands}
Roots == {<<"project">>, <<"other">>}
Markers == Role!MarkerNames \cup {"none"}
Keys == {".", "roles", "role", "defaults", "tasks"} \cup Role!MarkerNames
Owners == UNION {[S -> [node : Role!Nodes, mode : 0..1]] : S \in SUBSET Keys}
Makings == [node : Role!Nodes, in : Role!Directories]
Words == {"role", "defaults", "tasks", "defaults/main.yml", "tasks/main.yml"}
Lists == Seq(Words)
Handles == Role!Directories \cup {Role!None}
Records ==
  [at : Places, then : Places \cup {""}, options : Options, root : Roots \cup {<<>>},
   marker : Markers, owners : Owners, rootHandle : Handles, rolesHandle : Handles,
   roleHandle : Handles, file : 0..2, previewed : BOOLEAN, created : Lists,
   made : SUBSET Makings, exit : {0, 2}, calm : BOOLEAN, gapped : BOOLEAN]

DiskTyped ==
  /\ entry \in [Role!Directories -> [Role!Names -> Role!Nodes]]
  /\ mode \in [Role!Nodes -> 0..1]
  /\ left \in Nat

ToProject == Role!LinkTo("toProject")
ToOther == Role!LinkTo("toOther")
ToOtherRoles == Role!LinkTo("toOtherRoles")

\* Where links and the directories of other people can lie.
TreeShape ==
  /\ entry[Role!Top]["other"] = Role!Decoy.project
  /\ entry[Role!Top]["project"] \in {Role!None, Role!Original.project, Role!Decoy.project, ToOther}
  /\ entry[Role!Top]["spelling"] \in {ToProject, ToOther}
  /\ entry[Role!Decoy.project]["roles"] = Role!Decoy.roles
  /\ \A d \in Role!Directories, n \in Role!Names :
       /\ entry[d][n] # Role!Top
       /\ entry[d][n] = ToProject => d = Role!Top /\ n = "spelling"
       /\ entry[d][n] = ToOther => d = Role!Top
       /\ entry[d][n] = ToOtherRoles => d \notin {Role!Top, Role!Decoy.project}

\* The nodes that are always there are different.
LEMMA Nodes ==
  /\ DOMAIN Role!Links = {ToProject, ToOther, ToOtherRoles}
  /\ Role!Links[ToProject] = <<"project">> /\ Role!Links[ToOther] = <<"other">>
  /\ Role!Links[ToOtherRoles] = <<"other", "roles">>
  /\ ToProject # ToOther /\ ToProject # ToOtherRoles /\ ToOther # ToOtherRoles
  /\ Role!Top \in Role!Directories /\ Role!Decoy.project \in Role!Directories
  /\ Role!Decoy.roles \in Role!Directories
  /\ Role!Original.project \in Role!Directories /\ Role!Original.roles \in Role!Directories
  /\ Role!Top # Role!Decoy.project
  /\ Role!None \notin Role!Directories
  /\ \A n \in DOMAIN Role!Links : n \notin Role!Directories /\ n # Role!None
  /\ {"spelling", "project", "other", "roles", "app", "main.yml", "defaults", "tasks"}
       \subseteq Role!Names
<1>1. ToProject # ToOther /\ ToProject # ToOtherRoles /\ ToOther # ToOtherRoles
  BY DEF ToProject, ToOther, ToOtherRoles, Role!LinkTo
<1>2. DOMAIN Role!Links = {ToProject, ToOther, ToOtherRoles}
  BY DEF ToProject, ToOther, ToOtherRoles, Role!LinkTo, Role!Links
<1>3. /\ Role!Links[ToProject] = <<"project">> /\ Role!Links[ToOther] = <<"other">>
      /\ Role!Links[ToOtherRoles] = <<"other", "roles">>
  BY <1>1 DEF ToProject, ToOther, ToOtherRoles, Role!LinkTo, Role!Links
<1>4. /\ Role!Top \in Role!Directories /\ Role!Decoy.project \in Role!Directories
      /\ Role!Decoy.roles \in Role!Directories
      /\ Role!Original.project \in Role!Directories /\ Role!Original.roles \in Role!Directories
  BY DEF Role!Directories, Role!Decoy, Role!Original
<1>5. Role!Top # Role!Decoy.project
  BY DEF Role!Top, Role!Decoy
<1>6. ASSUME NEW n \in {Role!None} \cup DOMAIN Role!Links, n \in Role!Directories PROVE FALSE
  <2>1. n \in {<<0, "none">>, <<0, "toProject">>, <<0, "toOther">>, <<0, "toOtherRoles">>}
    BY <1>2 DEF Role!None, ToProject, ToOther, ToOtherRoles, Role!LinkTo
  <2>2. 0 \notin Commands
    BY WritesAssumption DEF Role!ScaffoldAssumption
  <2>3. n \in {<<0, "top">>, <<0, "directory">>, <<0, "project">>, <<0, "roles">>,
               <<0, "project2">>, <<0, "roles2">>}
        \/ n[1] \in Commands
    BY <1>6 DEF Role!Directories, Role!Top, Role!Stranger, Role!Original, Role!Decoy, Role!Made
  <2> QED BY <2>1, <2>2, <2>3
<1>7. \A n \in DOMAIN Role!Links : n # Role!None
  BY <1>2 DEF Role!None, ToProject, ToOther, ToOtherRoles, Role!LinkTo
<1>8. {"spelling", "project", "other", "roles", "app", "main.yml", "defaults", "tasks"}
        \subseteq Role!Names
  <2>1. \A f \in {"defaults", "tasks"} : f \in Role!ToSet(Role!Files)
    BY DEF Role!ToSet, Role!Files
  <2> QED BY <2>1 DEF Role!Names, Role!RoleName
<1> QED BY <1>1, <1>2, <1>3, <1>4, <1>5, <1>6, <1>7, <1>8

-----------------------------------------------------------------------------
(***************************************************************************)
(* Links on the way: Follow and Real.                                      *)
(***************************************************************************)

\* Where on a path each link can lie.
LEMMA AlongPath ==
  ASSUME DiskTyped, TreeShape, NEW p \in Paths, NEW i \in 1..Len(p)
  PROVE  /\ Upto(p, i) # Role!Top
         /\ Upto(p, i) = ToProject => i = 1 /\ p[1] = "spelling"
         /\ Upto(p, i) = ToOther => i = 1
         /\ Upto(p, i) = ToOtherRoles => i # 1 /\ Upto(p, i - 1) # Role!Decoy.project
<1>1. ASSUME NEW j \in 1..Len(p)
      PROVE  /\ p[j] \in Role!Names
             /\ Upto(p, j) = Under(Upto(p, j - 1), p[j])
             /\ Upto(p, j) # Role!Top
  <2>1. p[j] \in Role!Names /\ Upto(p, j) = Under(Upto(p, j - 1), p[j])
    BY UptoSteps DEF Paths
  <2>2. CASE Upto(p, j - 1) \in Role!Directories
    BY <2>1, <2>2 DEF TreeShape, Under
  <2>3. CASE Upto(p, j - 1) \notin Role!Directories
    BY <2>1, <2>3, Nodes DEF Under
  <2> QED BY <2>1, <2>2, <2>3
<1>2. Upto(p, i - 1) = Role!Top => i = 1
  <2> SUFFICES ASSUME i # 1 PROVE Upto(p, i - 1) # Role!Top
    OBVIOUS
  <2>1. i - 1 \in 1..Len(p)
    OBVIOUS
  <2> QED BY <2>1, <1>1
<1>3. Upto(p, 0) = Role!Top
  BY UptoSteps
<1>4. CASE Upto(p, i - 1) \notin Role!Directories
  <2>1. Upto(p, i) = Role!None
    BY <1>1, <1>4 DEF Under
  <2> QED BY <2>1, <1>1, Nodes
<1>5. CASE Upto(p, i - 1) \in Role!Directories
  <2> DEFINE d == Upto(p, i - 1)
  <2>1. d \in Role!Directories /\ p[i] \in Role!Names /\ Upto(p, i) = entry[d][p[i]]
    BY <1>1, <1>5 DEF Under
  <2>2. /\ Upto(p, i) = ToProject => d = Role!Top /\ p[i] = "spelling"
        /\ Upto(p, i) = ToOther => d = Role!Top
        /\ Upto(p, i) = ToOtherRoles => d \notin {Role!Top, Role!Decoy.project}
    <3> HIDE DEF d
    <3> QED BY <2>1 DEF TreeShape
  <2>3. i = 1 => d = Role!Top
    BY <1>3
  <2> QED BY <1>1, <1>2, <2>2, <2>3
<1> QED BY <1>4, <1>5

\* Follow replaces the first link.
LEMMA Follows ==
  ASSUME NEW p \in Paths
  PROVE  /\ Role!Passed(p) = {i \in 1..Len(p) : Upto(p, i) \in DOMAIN Role!Links}
         /\ Role!Passed(p) = {} => Role!Follow(p) = p
         /\ Role!Passed(p) # {} =>
              \E i \in Role!Passed(p) :
                /\ \A j \in Role!Passed(p) : i <= j
                /\ Role!Follow(p) = Role!Links[Upto(p, i)] \o SubSeq(p, i + 1, Len(p))
<1>1. Role!Passed(p) = {i \in 1..Len(p) : Upto(p, i) \in DOMAIN Role!Links}
  BY DEF Role!Passed, Upto
<1>2. Role!Passed(p) = {} => Role!Follow(p) = p
  BY DEF Role!Follow
<1>3. ASSUME Role!Passed(p) # {}
      PROVE  \E i \in Role!Passed(p) :
                /\ \A j \in Role!Passed(p) : i <= j
                /\ Role!Follow(p) = Role!Links[Upto(p, i)] \o SubSeq(p, i + 1, Len(p))
  <2> DEFINE i == CHOOSE i \in Role!Passed(p) : \A j \in Role!Passed(p) : i <= j
  <2>1. Role!Passed(p) \in SUBSET Nat
    BY <1>1
  <2>2. i \in Role!Passed(p) /\ \A j \in Role!Passed(p) : i <= j
    BY <1>3, <2>1, Least
  <2>3. Role!Follow(p) = Role!Links[Upto(p, i)] \o SubSeq(p, i + 1, Len(p))
    BY <1>3 DEF Role!Follow, Upto
  <2> QED BY <2>2, <2>3
<1> QED BY <1>1, <1>2, <1>3


\* A path with one link replaced is a path that begins with the link's target.
LEMMA Replaced ==
  ASSUME NEW p \in Paths, NEW i \in 1..Len(p)
  PROVE  /\ <<"other">> \o SubSeq(p, i + 1, Len(p)) \in Paths
         /\ Len(<<"other">> \o SubSeq(p, i + 1, Len(p))) = 1 + Len(p) - i
         /\ (<<"other">> \o SubSeq(p, i + 1, Len(p)))[1] = "other"
         /\ <<"other", "roles">> \o SubSeq(p, i + 1, Len(p)) \in Paths
         /\ Len(<<"other", "roles">> \o SubSeq(p, i + 1, Len(p))) = 2 + Len(p) - i
         /\ (<<"other", "roles">> \o SubSeq(p, i + 1, Len(p)))[1] = "other"
<1> DEFINE rest == SubSeq(p, i + 1, Len(p))
<1>1. rest \in Paths /\ Len(rest) = Len(p) - i
  BY DEF Paths
<1>2. <<"other">> \in Paths /\ <<"other", "roles">> \in Paths
  BY Nodes DEF Paths
<1> HIDE DEF rest
<1>3. /\ <<"other">> \o rest \in Paths /\ Len(<<"other">> \o rest) = 1 + Len(rest)
      /\ (<<"other">> \o rest)[1] = "other"
  BY <1>1, <1>2 DEF Paths
<1>4. /\ <<"other", "roles">> \o rest \in Paths /\ Len(<<"other", "roles">> \o rest) = 2 + Len(rest)
      /\ (<<"other", "roles">> \o rest)[1] = "other"
  BY <1>1, <1>2 DEF Paths
<1> QED BY <1>1, <1>3, <1>4 DEF rest, Paths

\* A path below the other project stays there, and a link on it makes it shorter.
LEMMA OtherFollows ==
  ASSUME DiskTyped, TreeShape, NEW p \in Paths, Len(p) >= 1, p[1] = "other"
  PROVE  /\ Role!Follow(p) \in Paths /\ Len(Role!Follow(p)) >= 1 /\ Role!Follow(p)[1] = "other"
         /\ \/ Role!Passed(p) = {} /\ Role!Follow(p) = p
            \/ Len(Role!Follow(p)) < Len(p)
<1>1. CASE Role!Passed(p) = {}
  BY <1>1, Follows
<1>2. CASE Role!Passed(p) # {}
  <2>1. PICK i \in 1..Len(p) :
          /\ Upto(p, i) \in DOMAIN Role!Links
          /\ Role!Follow(p) = Role!Links[Upto(p, i)] \o SubSeq(p, i + 1, Len(p))
    BY <1>2, Follows
  <2>2. Upto(p, 1) = Role!Decoy.project
    <3>1. 1 \in 1..Len(p) /\ 1 - 1 = 0
      BY DEF Paths
    <3>2. Upto(p, 1) = Under(Role!Top, "other")
      BY <3>1, UptoSteps
    <3> QED BY <3>2, Nodes DEF Under, TreeShape
  <2>3. i # 1
    BY <2>1, <2>2, Nodes
  <2>4. Upto(p, i) = ToOtherRoles
    BY <2>1, <2>3, AlongPath, Nodes
  <2>5. Upto(p, i - 1) # Role!Decoy.project
    BY <2>4, AlongPath
  <2>6. i >= 3
    <3>1. i # 2
      BY <2>2, <2>5
    <3> QED BY <3>1, <2>3
  <2>7. Role!Follow(p) = <<"other", "roles">> \o SubSeq(p, i + 1, Len(p))
    BY <2>1, <2>4, Nodes
  <2>8. Len(p) \in Nat
    BY DEF Paths
  <2> QED BY <2>6, <2>7, <2>8, Replaced
<1> QED BY <1>1, <1>2

\* A link on a path below the project leads to the other project.
LEMMA ProjectFollows ==
  ASSUME DiskTyped, TreeShape, NEW p \in Paths, Len(p) >= 1, p[1] = "project"
  PROVE  \/ Role!Passed(p) = {} /\ Role!Follow(p) = p
         \/ Role!Follow(p) \in Paths /\ Len(Role!Follow(p)) >= 1 /\ Role!Follow(p)[1] = "other"
<1>1. CASE Role!Passed(p) = {}
  BY <1>1, Follows
<1>2. CASE Role!Passed(p) # {}
  <2>1. PICK i \in 1..Len(p) :
          /\ Upto(p, i) \in DOMAIN Role!Links
          /\ Role!Follow(p) = Role!Links[Upto(p, i)] \o SubSeq(p, i + 1, Len(p))
    BY <1>2, Follows
  <2>2. Upto(p, i) \in {ToOther, ToOtherRoles}
    BY <2>1, AlongPath, Nodes
  <2>3. Len(p) \in Nat
    BY DEF Paths
  <2>4. CASE Upto(p, i) = ToOther
    BY <2>1, <2>3, <2>4, Replaced, Nodes
  <2>5. CASE Upto(p, i) = ToOtherRoles
    BY <2>1, <2>3, <2>5, Replaced, Nodes
  <2> QED BY <2>2, <2>4, <2>5
<1> QED BY <1>1, <1>2

\* What begins in the other project ends there.
OtherPath(p) == p \in Paths /\ Len(p) >= 1 /\ p[1] = "other"

\* Following links keeps a path of the other project there, and shortens it when it follows one.
LEMMA OtherStays ==
  ASSUME DiskTyped, TreeShape, NEW p, OtherPath(p)
  PROVE  OtherPath(Role!Follow(p)) /\ Len(Role!Follow(p)) <= Len(p)
         /\ (Role!Follow(p) # p => Len(Role!Follow(p)) < Len(p))
BY OtherFollows DEF OtherPath, Paths

\* A path that is its own canonical form passes no link.
LEMMA PhysicalPath ==
  ASSUME DiskTyped, TreeShape, NEW p \in Paths, Len(p) >= 1, p[1] \in {"project", "other"},
         Role!Real(p) = p
  PROVE  Role!Passed(p) = {}
<1> DEFINE F(q) == Role!Follow(q)
<1>1. F(F(F(F(F(p))))) = p
  BY DEF Role!Real
<1>2. Len(p) \in Nat
  BY DEF Paths
<1>3. CASE p[1] = "other"
  <2>0. OtherPath(p)
    BY <1>3 DEF OtherPath
  <2>1. OtherPath(F(p)) /\ OtherPath(F(F(p))) /\ OtherPath(F(F(F(p))))
        /\ OtherPath(F(F(F(F(p)))))
    BY <2>0, OtherStays
  <2>2. /\ Len(F(F(p))) <= Len(F(p)) /\ Len(F(F(F(p)))) <= Len(F(F(p)))
        /\ Len(F(F(F(F(p))))) <= Len(F(F(F(p))))
        /\ Len(F(F(F(F(F(p)))))) <= Len(F(F(F(F(p)))))
    BY <2>1, OtherStays
  <2>3. /\ Len(F(p)) \in Nat /\ Len(F(F(p))) \in Nat /\ Len(F(F(F(p)))) \in Nat
        /\ Len(F(F(F(F(p))))) \in Nat
    BY <2>1 DEF OtherPath, Paths
  <2>4. Len(p) <= Len(F(p))
    BY <1>1, <1>2, <2>2, <2>3
  <2> QED BY <2>3, <2>4, <1>2, <1>3, OtherFollows
<1>4. CASE p[1] = "project"
  <2> SUFFICES ASSUME Role!Passed(p) # {} PROVE FALSE
    OBVIOUS
  <2>1. OtherPath(F(p))
    BY <1>4, ProjectFollows DEF OtherPath
  <2>2. OtherPath(F(F(p))) /\ OtherPath(F(F(F(p)))) /\ OtherPath(F(F(F(F(p)))))
        /\ OtherPath(F(F(F(F(F(p))))))
    BY <2>1, OtherStays
  <2> QED BY <2>2, <1>1, <1>4 DEF OtherPath
<1> QED BY <1>3, <1>4

\* A path that passes no link is its own canonical form.
LEMMA CleanPath ==
  ASSUME NEW p \in Paths, Role!Passed(p) = {}
  PROVE  Role!Real(p) = p
BY Follows DEF Role!Real

\* A link at the head of a path is the first to be followed.
LEMMA HeadFollows ==
  ASSUME NEW p \in Paths, Len(p) >= 1, entry[Role!Top][p[1]] \in DOMAIN Role!Links
  PROVE  Role!Follow(p) = Role!Links[entry[Role!Top][p[1]]] \o SubSeq(p, 2, Len(p))
<1>1. 1 \in 1..Len(p) /\ 1 - 1 = 0 /\ 1 + 1 = 2
  BY DEF Paths
<1>2. Upto(p, 1) = entry[Role!Top][p[1]]
  BY <1>1, UptoSteps, Nodes DEF Under
<1>3. 1 \in Role!Passed(p)
  BY <1>1, <1>2, Follows
<1>4. PICK i \in Role!Passed(p) :
         /\ \A j \in Role!Passed(p) : i <= j
         /\ Role!Follow(p) = Role!Links[Upto(p, i)] \o SubSeq(p, i + 1, Len(p))
  BY <1>3, Follows
<1>5. i <= 1 /\ i \in 1..Len(p)
  BY <1>3, <1>4, Follows
<1>6. i = 1
  BY <1>5 DEF Paths
<1> QED BY <1>1, <1>2, <1>4, <1>6


\* A path of one name whose node is no link is its own canonical form.
LEMMA NameStays ==
  ASSUME NEW y \in Role!Names, entry[Role!Top][y] \notin DOMAIN Role!Links
  PROVE  Role!Follow(<<y>>) = <<y>>
<1>1. <<y>> \in Paths /\ Len(<<y>>) = 1 /\ <<y>>[1] = y /\ 1 - 1 = 0
  BY DEF Paths
<1>2. Upto(<<y>>, 1) = entry[Role!Top][y]
  BY <1>1, UptoSteps, Nodes DEF Under
<1>3. \A i \in 1..Len(<<y>>) : i = 1
  BY <1>1
<1> QED BY <1>1, <1>2, <1>3, Follows

\* What follows a head that is a link stays behind its target.
LEMMA HeadReplaced ==
  ASSUME NEW y \in Role!Names, NEW rest \in Paths, NEW t, t \in {"project", "other"},
         entry[Role!Top][y] = IF t = "project" THEN ToProject ELSE ToOther
  PROVE  /\ Role!Follow(<<y>> \o rest) = <<t>> \o rest
         /\ Role!Follow(<<y>>) = <<t>>
<1>1. entry[Role!Top][y] \in DOMAIN Role!Links /\ Role!Links[entry[Role!Top][y]] = <<t>>
  BY Nodes
<1>2. /\ <<y>> \o rest \in Paths /\ Len(<<y>> \o rest) >= 1 /\ (<<y>> \o rest)[1] = y
      /\ SubSeq(<<y>> \o rest, 2, Len(<<y>> \o rest)) = rest
  BY DEF Paths
<1>3. <<y>> \in Paths /\ Len(<<y>>) = 1 /\ <<y>>[1] = y /\ SubSeq(<<y>>, 2, Len(<<y>>)) = <<>>
  BY DEF Paths
<1>4. <<t>> \o <<>> = <<t>>
  OBVIOUS
<1>5. Role!Follow(<<y>> \o rest) = <<t>> \o rest
  BY <1>1, <1>2, HeadFollows
<1>6. Role!Follow(<<y>>) = <<t>> \o <<>>
  <2> DEFINE p == <<y>>
  <2>1. p \in Paths /\ Len(p) >= 1 /\ p[1] = y /\ SubSeq(p, 2, Len(p)) = <<>>
    BY <1>3
  <2>2. Role!Follow(p) = <<t>> \o <<>>
    <3> HIDE DEF p
    <3> QED BY <2>1, <1>1, HeadFollows
  <2> QED BY <2>2
<1> QED BY <1>4, <1>5, <1>6

\* Where the given path leads.
Entrance == Spelling[1]
Root ==
  IF \/ entry[Role!Top][Entrance] = ToOther
     \/ entry[Role!Top][Entrance] = ToProject /\ entry[Role!Top]["project"] = ToOther
  THEN "other" ELSE "project"

\* The given path leads to one of the two projects, and what lies behind it lies
\* behind that project.
LEMMA SpelledRoot ==
  DiskTyped /\ TreeShape =>
    /\ Role!Real(Spelling) = <<Root>>
    /\ \A rest \in Paths : Role!Passed(<<Root>> \o rest) = {} =>
         Role!Real(Spelling \o rest) = <<Root>> \o rest
<1> SUFFICES ASSUME DiskTyped, TreeShape, NEW rest \in Paths
             PROVE  /\ Role!Real(Spelling) = <<Root>>
                    /\ Role!Passed(<<Root>> \o rest) = {} =>
                         Role!Real(Spelling \o rest) = <<Root>> \o rest
  <2>1. <<>> \in Paths
    BY DEF Paths
  <2> QED BY <2>1
<1> DEFINE F(q) == Role!Follow(q)
<1>1. Spelling = <<Entrance>> /\ Entrance \in {"spelling", "project"}
  BY WritesAssumption DEF Role!ScaffoldAssumption, Entrance
<1>2. /\ Entrance \in Role!Names /\ "project" \in Role!Names /\ "other" \in Role!Names
  BY <1>1, Nodes
<1>3. entry[Role!Top]["other"] \notin DOMAIN Role!Links
  BY Nodes DEF TreeShape
<1>4. entry[Role!Top]["project"] = ToOther \/ entry[Role!Top]["project"] \notin DOMAIN Role!Links
  <2>1. Role!Original.project \notin DOMAIN Role!Links /\ Role!Decoy.project \notin DOMAIN Role!Links
        /\ Role!None \notin DOMAIN Role!Links
    BY Nodes
  <2> QED BY <2>1 DEF TreeShape
<1>5. F(<<"other">>) = <<"other">>
  BY <1>2, <1>3, NameStays
<1>6. \A x \in {"project", "other"} : <<x>> \o rest \in Paths
  BY <1>2 DEF Paths
<1>7. ASSUME entry[Role!Top][Entrance] = ToOther
      PROVE  /\ Role!Real(Spelling) = <<Root>>
             /\ Role!Passed(<<Root>> \o rest) = {} =>
                  Role!Real(Spelling \o rest) = <<Root>> \o rest
  <2>1. Root = "other"
    BY <1>7 DEF Root
  <2>2. F(<<Entrance>> \o rest) = <<"other">> \o rest /\ F(<<Entrance>>) = <<"other">>
    BY <1>7, <1>2, HeadReplaced
  <2>3. Role!Real(Spelling) = <<"other">>
    BY <1>1, <1>5, <2>2 DEF Role!Real
  <2>4. ASSUME Role!Passed(<<"other">> \o rest) = {} PROVE F(<<"other">> \o rest) = <<"other">> \o rest
    BY <2>4, <1>6, Follows
  <2> QED BY <1>1, <2>1, <2>2, <2>3, <2>4 DEF Role!Real
<1>8. ASSUME entry[Role!Top]["project"] \notin DOMAIN Role!Links
      PROVE  F(<<"project">>) = <<"project">>
  BY <1>8, <1>2, NameStays
<1>9. ASSUME entry[Role!Top][Entrance] = ToProject
      PROVE  /\ Role!Real(Spelling) = <<Root>>
             /\ Role!Passed(<<Root>> \o rest) = {} =>
                  Role!Real(Spelling \o rest) = <<Root>> \o rest
  <2>1. F(<<Entrance>> \o rest) = <<"project">> \o rest /\ F(<<Entrance>>) = <<"project">>
    BY <1>9, <1>2, HeadReplaced
  <2>2. CASE entry[Role!Top]["project"] = ToOther
    <3>1. Root = "other"
      BY <1>9, <2>2 DEF Root
    <3>2. F(<<"project">> \o rest) = <<"other">> \o rest /\ F(<<"project">>) = <<"other">>
      BY <2>2, <1>2, HeadReplaced
    <3>3. Role!Real(Spelling) = <<"other">>
      BY <1>1, <1>5, <2>1, <3>2 DEF Role!Real
    <3>4. ASSUME Role!Passed(<<"other">> \o rest) = {} PROVE F(<<"other">> \o rest) = <<"other">> \o rest
      BY <3>4, <1>6, Follows
    <3> QED BY <1>1, <2>1, <3>1, <3>2, <3>3, <3>4 DEF Role!Real
  <2>3. CASE entry[Role!Top]["project"] \notin DOMAIN Role!Links
    <3>1. Root = "project"
      BY <1>9, <2>3, Nodes DEF Root
    <3>2. Role!Real(Spelling) = <<"project">>
      BY <1>1, <1>8, <2>1, <2>3 DEF Role!Real
    <3>3. ASSUME Role!Passed(<<"project">> \o rest) = {} PROVE F(<<"project">> \o rest) = <<"project">> \o rest
      BY <3>3, <1>6, Follows
    <3> QED BY <1>1, <2>1, <3>1, <3>2, <3>3 DEF Role!Real
  <2> QED BY <1>4, <2>2, <2>3
<1>10. ASSUME entry[Role!Top][Entrance] \notin {ToProject, ToOther}
       PROVE  /\ Role!Real(Spelling) = <<Root>>
              /\ Role!Passed(<<Root>> \o rest) = {} =>
                   Role!Real(Spelling \o rest) = <<Root>> \o rest
  <2>1. Entrance = "project" /\ Root = "project"
    BY <1>1, <1>10 DEF Root, TreeShape
  <2>2. F(<<"project">>) = <<"project">>
    BY <1>4, <1>8, <1>10, <2>1
  <2>3. ASSUME Role!Passed(<<"project">> \o rest) = {} PROVE F(<<"project">> \o rest) = <<"project">> \o rest
    BY <2>3, <1>6, Follows
  <2> QED BY <1>1, <2>1, <2>2, <2>3 DEF Role!Real
<1> QED BY <1>7, <1>9, <1>10

\* The node of a name below a path that is its own canonical form.
LEMMA LstatBelow ==
  ASSUME NEW p \in Paths, NEW n \in Role!Names, Role!Real(p) = p
  PROVE  /\ Append(p, n) \in Paths
         /\ Role!Lstat(Append(p, n)) = Under(Role!Below(Role!Top, p), n)
         /\ Role!Below(Role!Top, Append(p, n)) = Under(Role!Below(Role!Top, p), n)
<1> DEFINE q == Append(p, n)
<1>1. q \in Paths /\ Len(q) = Len(p) + 1 /\ q[Len(q)] = n /\ SubSeq(q, 1, Len(q) - 1) = p
      /\ Len(q) \in 1..Len(q)
  BY DEF Paths
<1>2. Role!Front(q) = p /\ Role!Last(q) = n
  BY <1>1 DEF Role!Front, Role!Last
<1>3. Role!Lstat(q) = Under(Role!Below(Role!Top, p), n)
  BY <1>2 DEF Role!Lstat, Role!Stat, Under
<1>4. Upto(q, Len(q)) = Under(Upto(q, Len(q) - 1), n)
  <2> HIDE DEF q
  <2> QED BY <1>1, UptoSteps
<1>5. Upto(q, Len(q) - 1) = Role!Below(Role!Top, p) /\ Upto(q, Len(q)) = Role!Below(Role!Top, q)
  <2>1. Upto(q, Len(q)) = Role!Below(Role!Top, q)
    BY <1>1, UptoSteps
  <2> QED BY <2>1, <1>1 DEF Upto
<1> QED BY <1>1, <1>3, <1>4, <1>5

\* The paths of the owners, name below name.
LEMMA OwnerPaths ==
  ASSUME NEW root \in Roots
  PROVE  /\ root \in Paths /\ root = Append(<<>>, root[1]) /\ root[1] \in Role!Names
         /\ <<>> \in Paths /\ Role!Real(<<>>) = <<>> /\ Role!Below(Role!Top, <<>>) = Role!Top
         /\ Role!Path(root, ".") = root
         /\ Role!Path(root, "roles") = Append(root, "roles")
         /\ Role!Path(root, "role") = Append(Append(root, "roles"), "app")
         /\ \A f \in {"defaults", "tasks"} :
              Role!Path(root, f) = Append(Append(Append(root, "roles"), "app"), f)
<1>1. /\ root \in Paths /\ root = Append(<<>>, root[1]) /\ root[1] \in Role!Names
      /\ <<>> \in Paths
  BY Nodes DEF Roots, Paths
<1>2. Role!Passed(<<>>) = {}
  BY DEF Role!Passed
<1>3. Role!Real(<<>>) = <<>>
  BY <1>1, <1>2, CleanPath
<1>4. Role!Below(Role!Top, <<>>) = Role!Top
  <2>1. Len(<<>>) = 0
    OBVIOUS
  <2> QED BY <1>1, <2>1, UptoSteps
<1>5. Role!ToSet(Role!Files) = {"defaults", "tasks"}
  BY DEF Role!ToSet, Role!Files
<1>6. /\ Role!Path(root, ".") = root
      /\ Role!Path(root, "roles") = Append(root, "roles")
  BY <1>5 DEF Role!Path
<1>7. /\ Role!Path(root, "role") = Append(Append(root, "roles"), "app")
      /\ \A f \in {"defaults", "tasks"} :
              Role!Path(root, f) = Append(Append(Append(root, "roles"), "app"), f)
  BY <1>5 DEF Role!Path, Role!RoleName, Roots
<1> QED BY <1>1, <1>3, <1>4, <1>6, <1>7


-----------------------------------------------------------------------------
(***************************************************************************)
(* The invariant of one command with record r.                             *)
(***************************************************************************)

\* The place a command is at or, while it looks at the owners again, on its way to.
Aim(r) == IF r.at \in {"identity", "owners"} THEN r.then ELSE r.at

Aims == Places \ {"identity", "owners"}
Checked == {"controls", "makeRole", "makeLeaf", "makeFile", "success"}
Writing == {"readRole", "openRole", "makeLeaf", "readLeaf", "makeFile", "success"}
Admitted == {"controls", "targets", "preview", "openRoot", "openRoles", "makeRole"} \cup Writing
Inside == {"makeLeaf", "readLeaf", "makeFile", "success"}
Leaves == {"defaults", "tasks"}

\* What a command knows before it creates anything.
Planned(r) ==
  /\ Aim(r) \in Aims
  /\ r.at \in {"identity", "owners"} => r.then \in Checked
  /\ Aim(r) = "load" \/ Aim(r) = "admit" => r.marker \in Role!MarkerNames
  /\ Aim(r) \in {"admit"} \cup Admitted => r.root \in Roots
  /\ Aim(r) \in Admitted =>
       /\ "." \in DOMAIN r.owners /\ r.owners["."].node \in Role!Directories
       /\ "roles" \in DOMAIN r.owners /\ r.owners["roles"].node \in Role!Directories

\* The handles are those of the owners.
Held(r) ==
  /\ Aim(r) \in {"makeRole"} \cup Writing => r.rolesHandle \in Role!Directories
  /\ r.at = "makeRole" \/ Aim(r) \in Writing => r.rolesHandle = r.owners["roles"].node
  /\ Aim(r) \in Inside \cup {"openRole"} => "role" \in DOMAIN r.owners
  /\ Aim(r) \in Inside =>
       /\ r.roleHandle \in Role!Directories /\ r.roleHandle = r.owners["role"].node
       /\ r.file \in 1..2
  /\ Aim(r) = "success" => r.file = 2

\* The leaves whose owner has been read.
Read(r) == {Role!Files[i] : i \in {j \in 1..2 :
  j < r.file \/ (j = r.file /\ Aim(r) \in {"makeFile", "success"})}}

\* What was made is still what the owners name, unless it was moved right after
\* it was made.
Owned(c, r) ==
  /\ r.at = "readRole" /\ ~r.gapped => entry[r.rolesHandle]["app"] = Role!Made(c, "role")
  /\ Aim(r) \in Inside \cup {"openRole"} /\ ~r.gapped =>
       r.owners["role"].node = Role!Made(c, "role")
  /\ r.at = "readLeaf" /\ ~r.gapped =>
       entry[r.roleHandle][Role!Leaf(r)] = Role!Made(c, Role!Leaf(r))
  /\ Aim(r) \in Inside => \A f \in Read(r) :
       f \in DOMAIN r.owners /\ (~r.gapped => r.owners[f].node = Role!Made(c, f))
  /\ r.at = "makeFile" /\ ~r.gapped =>
       entry[r.roleHandle][Role!Leaf(r)] = r.owners[Role!Leaf(r)].node

\* What has been created, by stage.
ListOf(r) ==
  CASE Aim(r) \in {"readRole", "openRole"} -> <<"role">>
    [] Aim(r) = "makeLeaf" /\ r.file = 1 -> <<"role">>
    [] Aim(r) \in {"readLeaf", "makeFile"} /\ r.file = 1 -> <<"role", "defaults">>
    [] Aim(r) = "makeLeaf" /\ r.file = 2 -> <<"role", "defaults", "defaults/main.yml">>
    [] Aim(r) \in {"readLeaf", "makeFile"} /\ r.file = 2 ->
         <<"role", "defaults", "defaults/main.yml", "tasks">>
    [] Aim(r) = "success" ->
         <<"role", "defaults", "defaults/main.yml", "tasks", "tasks/main.yml">>
    [] OTHER -> <<>>

Counted(c, r) ==
  /\ Aim(r) # "done" => r.created = ListOf(r)
  /\ IsFiniteSet(r.made) /\ Cardinality(r.made) = Len(r.created)
  /\ {m.node : m \in r.made} = {Role!Made(c, w) : w \in {r.created[i] : i \in DOMAIN r.created}}

\* Where everything was made.
Laid(c, r, m) ==
  /\ m.node = Role!Made(c, "role") => m.in = r.owners["roles"].node
  /\ \A f \in Leaves :
       /\ m.node = Role!Made(c, f) =>
            /\ m.in = r.owners["role"].node
            /\ r.gapped \/ m.in = Role!Made(c, "role")
       /\ m.node = Role!Made(c, Role!MainFile[f]) =>
            /\ r.gapped \/ m.in = Role!Made(c, f)
            /\ entry[m.in]["main.yml"] = m.node

Placed(c, r) == \A m \in r.made : Laid(c, r, m)

\* The whole role, name by name.
Chain(c, r) ==
  LET top == entry[Role!Top][Root] roles == entry[top]["roles"] IN
  /\ r.root = <<Root>>
  /\ top \in Role!Directories /\ roles \in Role!Directories
  /\ entry[roles]["app"] = Role!Made(c, "role")
  /\ \A f \in Leaves :
       /\ entry[Role!Made(c, "role")][f] = Role!Made(c, f)
       /\ entry[Role!Made(c, f)]["main.yml"] = Role!Made(c, Role!MainFile[f])

Reached(c, r) ==
  /\ r.at = "owners" /\ r.calm => r.root = <<Root>>
  /\ r.at = "success" /\ r.calm /\ ~r.gapped => Chain(c, r)
  /\ r.at = "done" /\ r.exit = 0 /\ r.options.write /\ r.calm /\ ~r.gapped => Chain(c, r)

CommandInv(c, r) ==
  /\ Planned(r) /\ Held(r) /\ Owned(c, r)
  /\ Counted(c, r) /\ Placed(c, r) /\ Reached(c, r)

RoleInv ==
  /\ DiskTyped /\ TreeShape
  /\ command \in [Commands -> Records]
  /\ \A c \in Commands : CommandInv(c, command[c])

-----------------------------------------------------------------------------
(***************************************************************************)
(* What the steps of a command do to the disk: they only fill free names.  *)
(***************************************************************************)

Grows ==
  /\ entry' \in [Role!Directories -> [Role!Names -> Role!Nodes]]
  /\ \A d \in Role!Directories, n \in Role!Names :
       entry[d][n] # Role!None => entry'[d][n] = entry[d][n]
  /\ entry'[Role!Top]["project"] = entry[Role!Top]["project"]

\* The names of the program and the nodes of a command.
LEMMA Things ==
  /\ Role!Files[1] = "defaults" /\ Role!Files[2] = "tasks" /\ Len(Role!Files) = 2
  /\ Role!MainFile["defaults"] = "defaults/main.yml" /\ Role!MainFile["tasks"] = "tasks/main.yml"
  /\ Role!RoleName = "app"
  /\ Role!ToSet(Role!Files) = Leaves
BY DEF Role!Files, Role!MainFile, Role!RoleName, Role!ToSet, Leaves

\* The nodes of a command are its own, and none of those that are always there.
LEMMA MadeNodes ==
  ASSUME NEW c \in Commands
  PROVE  /\ \A w : Role!Made(c, w) # Role!None /\ Role!Made(c, w) # Role!Top
         /\ \A w, e, v : Role!Made(c, w) = Role!Made(e, v) => c = e /\ w = v
         /\ \A w : Role!Made(c, w) \notin DOMAIN Role!Links
         /\ Role!Made(c, "role") \in Role!Directories
         /\ \A f \in Leaves : /\ Role!Made(c, f) \in Role!Directories
                              /\ Role!Made(c, Role!MainFile[f]) \in Role!Nodes
         /\ Role!Directories \subseteq Role!Nodes /\ Role!None \in Role!Nodes
<1>1. 0 \notin Commands
  BY WritesAssumption DEF Role!ScaffoldAssumption
<1>2. \A w : Role!Made(c, w) # Role!None /\ Role!Made(c, w) # Role!Top
  BY <1>1 DEF Role!Made, Role!None, Role!Top
<1>3. \A w, e, v : Role!Made(c, w) = Role!Made(e, v) => c = e /\ w = v
  BY DEF Role!Made
<1>4. \A w : Role!Made(c, w) \notin DOMAIN Role!Links
  <2> SUFFICES ASSUME NEW w PROVE Role!Made(c, w) \notin {ToProject, ToOther, ToOtherRoles}
    BY Nodes
  <2> QED BY <1>1 DEF Role!Made, ToProject, ToOther, ToOtherRoles, Role!LinkTo
<1>5. /\ Role!Made(c, "role") \in Role!Directories
      /\ \A f \in Leaves : Role!Made(c, f) \in Role!Directories
  BY Things DEF Role!Directories
<1>6. \A f \in Leaves : Role!Made(c, Role!MainFile[f]) \in Role!Nodes
  <2>1. \A f \in Leaves : Role!Made(c, Role!MainFile[f]) \in Role!Regular
    BY Things DEF Role!Regular
  <2> QED BY <2>1 DEF Role!Nodes
<1>7. Role!Directories \subseteq Role!Nodes /\ Role!None \in Role!Nodes
  BY DEF Role!Nodes
<1> QED BY <1>2, <1>3, <1>4, <1>5, <1>6, <1>7

\* Growth keeps the root that the given path leads to.
LEMMA RootGrows ==
  ASSUME DiskTyped, TreeShape, Grows
  PROVE  Root' = Root
<1>1. Role!Top \in Role!Directories /\ "spelling" \in Role!Names /\ "project" \in Role!Names
      /\ ToProject # Role!None /\ ToOther # Role!None
  BY Nodes
<1>2. entry'[Role!Top]["spelling"] = entry[Role!Top]["spelling"]
  BY <1>1 DEF Grows, TreeShape
<1>3. Entrance \in {"spelling", "project"}
  BY WritesAssumption DEF Role!ScaffoldAssumption, Entrance
<1> QED BY <1>2, <1>3 DEF Root, Grows

\* The role a command reached stays.
LEMMA ChainGrows ==
  ASSUME DiskTyped, TreeShape, Grows, NEW c \in Commands, NEW r, Chain(c, r)
  PROVE  Chain(c, r)'
<1>1. Root' = Root /\ Root \in Role!Names
  BY RootGrows, Nodes DEF Root
<1> DEFINE top == entry[Role!Top][Root] roles == entry[top]["roles"]
<1>2. top \in Role!Directories /\ roles \in Role!Directories /\ r.root = <<Root>>
      /\ entry[roles]["app"] = Role!Made(c, "role")
  BY DEF Chain
<1>3. entry'[Role!Top][Root] = top
  BY <1>1, <1>2, Nodes DEF Grows
<1>4. entry'[top]["roles"] = roles
  <2> HIDE DEF top
  <2>1. "roles" \in Role!Names
    BY Nodes
  <2> QED BY <1>2, <2>1, Nodes DEF Grows
<1>5. entry'[roles]["app"] = Role!Made(c, "role")
  <2> HIDE DEF roles
  <2>1. "app" \in Role!Names
    BY Nodes
  <2> QED BY <1>2, <2>1, MadeNodes DEF Grows
<1>6. ASSUME NEW f \in Leaves
      PROVE  /\ entry'[Role!Made(c, "role")][f] = Role!Made(c, f)
             /\ entry'[Role!Made(c, f)]["main.yml"] = Role!Made(c, Role!MainFile[f])
  <2>1. f \in Role!Names /\ "main.yml" \in Role!Names
    BY Nodes DEF Leaves
  <2>2. /\ entry[Role!Made(c, "role")][f] = Role!Made(c, f)
        /\ entry[Role!Made(c, f)]["main.yml"] = Role!Made(c, Role!MainFile[f])
    BY DEF Chain
  <2> QED BY <2>1, <2>2, MadeNodes DEF Grows
<1> HIDE DEF top, roles
<1> QED BY <1>1, <1>2, <1>3, <1>4, <1>5, <1>6 DEF Chain

\* What holds of a command that does not move holds after the disk has grown.
LEMMA CommandGrows ==
  ASSUME DiskTyped, TreeShape, Grows, NEW c \in Commands, NEW r \in Records, CommandInv(c, r)
  PROVE  CommandInv(c, r)'
<1>0. {"app", "main.yml"} \cup Leaves \subseteq Role!Names
  BY Nodes DEF Leaves
<1>1. Planned(r)' /\ Held(r)' /\ Counted(c, r)'
  BY DEF CommandInv, Planned, Held, Counted, Aim, ListOf
<1>2. Owned(c, r)'
  <2>1. r.at = "readRole" /\ ~r.gapped => entry'[r.rolesHandle]["app"] = Role!Made(c, "role")
    <3> SUFFICES ASSUME r.at = "readRole" /\ ~r.gapped
                 PROVE  entry'[r.rolesHandle]["app"] = Role!Made(c, "role")
      OBVIOUS
    <3>1. r.rolesHandle \in Role!Directories
      BY DEF CommandInv, Held, Aim, Writing
    <3>2. entry[r.rolesHandle]["app"] = Role!Made(c, "role")
      BY DEF CommandInv, Owned
    <3> QED BY <3>1, <3>2, <1>0, MadeNodes DEF Grows
  <2>2. r.at \in {"readLeaf", "makeFile"} => r.roleHandle \in Role!Directories /\ Role!Leaf(r) \in Leaves
    <3> SUFFICES ASSUME r.at \in {"readLeaf", "makeFile"}
                 PROVE  r.roleHandle \in Role!Directories /\ Role!Leaf(r) \in Leaves
      OBVIOUS
    <3>1. r.roleHandle \in Role!Directories /\ r.file \in 1..2
      BY DEF CommandInv, Held, Aim, Inside
    <3> QED BY <3>1, Things DEF Role!Leaf, Leaves
  <2>3. r.at = "readLeaf" /\ ~r.gapped =>
          entry'[r.roleHandle][Role!Leaf(r)] = Role!Made(c, Role!Leaf(r))
    <3> SUFFICES ASSUME r.at = "readLeaf" /\ ~r.gapped
                 PROVE  entry'[r.roleHandle][Role!Leaf(r)] = Role!Made(c, Role!Leaf(r))
      OBVIOUS
    <3>1. entry[r.roleHandle][Role!Leaf(r)] = Role!Made(c, Role!Leaf(r))
      BY DEF CommandInv, Owned
    <3> QED BY <3>1, <2>2, <1>0, MadeNodes DEF Grows
  <2>4. r.at = "makeFile" /\ ~r.gapped =>
          entry'[r.roleHandle][Role!Leaf(r)] = r.owners[Role!Leaf(r)].node
    <3> SUFFICES ASSUME r.at = "makeFile" /\ ~r.gapped
                 PROVE  entry'[r.roleHandle][Role!Leaf(r)] = r.owners[Role!Leaf(r)].node
      OBVIOUS
    <3>1. entry[r.roleHandle][Role!Leaf(r)] = r.owners[Role!Leaf(r)].node
      BY DEF CommandInv, Owned
    <3>2. Role!Leaf(r) \in Read(r)
      <4>1. r.file \in 1..2 /\ Aim(r) = "makeFile"
        BY DEF CommandInv, Held, Aim, Inside
      <4> QED BY <4>1 DEF Read, Role!Leaf
    <3>3. r.owners[Role!Leaf(r)].node = Role!Made(c, Role!Leaf(r))
      BY <3>2 DEF CommandInv, Owned, Aim, Inside
    <3> QED BY <3>1, <3>3, <2>2, <1>0, MadeNodes DEF Grows
  <2> QED BY <2>1, <2>3, <2>4 DEF CommandInv, Owned, Aim, Read, Role!Leaf
<1>3. Placed(c, r)'
  <2>1. ASSUME NEW m \in r.made, NEW f \in Leaves, m.node = Role!Made(c, Role!MainFile[f])
        PROVE  entry'[m.in]["main.yml"] = m.node
    <3>1. m.in \in Role!Directories
      BY DEF Records, Makings
    <3>2. entry[m.in]["main.yml"] = m.node
      BY <2>1 DEF CommandInv, Placed, Laid
    <3> QED BY <2>1, <3>1, <3>2, <1>0, MadeNodes DEF Grows
  <2> QED BY <2>1 DEF CommandInv, Placed, Laid
<1>4. Reached(c, r)'
  BY RootGrows, ChainGrows DEF CommandInv, Reached
<1> QED BY <1>1, <1>2, <1>3, <1>4 DEF CommandInv


-----------------------------------------------------------------------------
(***************************************************************************)
(* What a step makes of the record of its command.                         *)
(***************************************************************************)

\* Whatever stops a command, it keeps what it has created.
LEMMA FailureKeeps ==
  ASSUME DiskTyped, TreeShape, NEW c \in Commands, NEW r \in Records, CommandInv(c, r)
  PROVE  LET q == [r EXCEPT !.at = "done", !.exit = 2] IN q \in Records /\ CommandInv(c, q)
<1> DEFINE q == [r EXCEPT !.at = "done", !.exit = 2]
<1>1. q \in Records
  BY DEF Records, Places, Markers
<1>2. q.at = "done" /\ q.exit = 2
  BY DEF Records
<1>3. /\ q.then = r.then /\ q.options = r.options /\ q.root = r.root /\ q.marker = r.marker
      /\ q.owners = r.owners /\ q.rootHandle = r.rootHandle
      /\ q.rolesHandle = r.rolesHandle /\ q.roleHandle = r.roleHandle
      /\ q.file = r.file /\ q.previewed = r.previewed /\ q.created = r.created /\ q.made = r.made
      /\ q.calm = r.calm /\ q.gapped = r.gapped
  BY DEF Records
<1> HIDE DEF q
<1>4. Planned(q)
  BY <1>2, <1>3 DEF CommandInv, Planned, Aim, Aims, Places, Checked, Admitted, Writing
<1>5. Held(q)
  BY <1>2, <1>3 DEF CommandInv, Held, Aim, Writing, Inside
<1>6. Owned(c, q)
  BY <1>2, <1>3 DEF CommandInv, Owned, Aim, Inside, Read, Role!Leaf
<1>7. Counted(c, q)
  <2>1. Aim(q) # "done" => Aim(r) # "done" /\ ListOf(q) = ListOf(r)
    BY <1>2, <1>3 DEF CommandInv, Held, Inside, ListOf, Aim
  <2>2. q.created = r.created /\ q.made = r.made
    BY <1>3
  <2> QED BY <2>1, <2>2 DEF CommandInv, Counted
<1>8. Placed(c, q)
  BY <1>2, <1>3 DEF CommandInv, Placed, Laid
<1>9. Reached(c, q)
  BY <1>2, <1>3 DEF CommandInv, Reached, Chain
<1>10. q \in Records /\ CommandInv(c, q)
  BY <1>1, <1>4, <1>5, <1>6, <1>7, <1>8, <1>9 DEF CommandInv
<1> QED BY <1>10 DEF q

\* A marker was found.
LEMMA RoleKeeps ==
  ASSUME DiskTyped, TreeShape, NEW c \in Commands, NEW r \in Records, CommandInv(c, r),
         r.at = "role", NEW m \in Role!MarkerNames
  PROVE  LET q == [r EXCEPT !.at = "load", !.marker = m] IN q \in Records /\ CommandInv(c, q)
<1> DEFINE q == [r EXCEPT !.at = "load", !.marker = m]
<1>1. q \in Records
  BY DEF Records, Places, Markers
<1>2. q.at = "load" /\ q.marker = m
  BY DEF Records
<1>3. /\ q.then = r.then /\ q.options = r.options /\ q.root = r.root /\ q.owners = r.owners
      /\ q.rootHandle = r.rootHandle /\ q.rolesHandle = r.rolesHandle
      /\ q.roleHandle = r.roleHandle /\ q.file = r.file
      /\ q.previewed = r.previewed /\ q.created = r.created /\ q.made = r.made /\ q.exit = r.exit
      /\ q.calm = r.calm /\ q.gapped = r.gapped
  BY DEF Records
<1> HIDE DEF q
<1>4. Planned(q)
  BY <1>2, <1>3 DEF CommandInv, Planned, Aim, Aims, Places, Checked, Admitted, Writing
<1>5. Held(q)
  BY <1>2, <1>3 DEF CommandInv, Held, Aim, Writing, Inside
<1>6. Owned(c, q)
  BY <1>2, <1>3 DEF CommandInv, Owned, Aim, Inside, Read, Role!Leaf
<1>7. Counted(c, q)
  <2>1. Aim(q) # "done" => Aim(r) # "done" /\ ListOf(q) = ListOf(r)
    BY <1>2, <1>3 DEF CommandInv, Held, Inside, ListOf, Aim
  <2>2. q.created = r.created /\ q.made = r.made
    BY <1>3
  <2> QED BY <2>1, <2>2 DEF CommandInv, Counted
<1>8. Placed(c, q)
  BY <1>2, <1>3 DEF CommandInv, Placed, Laid
<1>9. Reached(c, q)
  BY <1>2, <1>3 DEF CommandInv, Reached, Chain
<1>10. q \in Records /\ CommandInv(c, q)
  BY <1>1, <1>4, <1>5, <1>6, <1>7, <1>8, <1>9 DEF CommandInv
<1> QED BY <1>10 DEF q

\* The project was loaded.
LEMMA LoadKeeps ==
  ASSUME DiskTyped, TreeShape, NEW c \in Commands, NEW r \in Records, CommandInv(c, r),
         r.at = "load"
  PROVE  LET q == [r EXCEPT !.at = "admit", !.root = <<Root>>] IN q \in Records /\ CommandInv(c, q)
<1> DEFINE q == [r EXCEPT !.at = "admit", !.root = <<Root>>]
<1>0. <<Root>> \in Roots
  BY DEF Root, Roots
<1>1. q \in Records
  BY <1>0 DEF Records, Places, Roots
<1>2. q.at = "admit" /\ q.root = <<Root>>
  BY DEF Records
<1>3. /\ q.then = r.then /\ q.options = r.options /\ q.marker = r.marker /\ q.owners = r.owners
      /\ q.rootHandle = r.rootHandle /\ q.rolesHandle = r.rolesHandle
      /\ q.roleHandle = r.roleHandle /\ q.file = r.file
      /\ q.previewed = r.previewed /\ q.created = r.created /\ q.made = r.made /\ q.exit = r.exit
      /\ q.calm = r.calm /\ q.gapped = r.gapped
  BY DEF Records
<1> HIDE DEF q
<1>4. Planned(q)
  BY <1>2, <1>3, <1>0 DEF CommandInv, Planned, Aim, Aims, Places, Checked, Admitted, Writing
<1>5. Held(q)
  BY <1>2, <1>3, <1>0 DEF CommandInv, Held, Aim, Writing, Inside
<1>6. Owned(c, q)
  BY <1>2, <1>3, <1>0 DEF CommandInv, Owned, Aim, Inside, Read, Role!Leaf
<1>7. Counted(c, q)
  <2>1. Aim(q) # "done" => Aim(r) # "done" /\ ListOf(q) = ListOf(r)
    BY <1>2, <1>3 DEF CommandInv, Held, Inside, ListOf, Aim
  <2>2. q.created = r.created /\ q.made = r.made
    BY <1>3
  <2> QED BY <2>1, <2>2 DEF CommandInv, Counted
<1>8. Placed(c, q)
  BY <1>2, <1>3, <1>0 DEF CommandInv, Placed, Laid
<1>9. Reached(c, q)
  BY <1>2, <1>3, <1>0 DEF CommandInv, Reached, Chain
<1>10. q \in Records /\ CommandInv(c, q)
  BY <1>1, <1>4, <1>5, <1>6, <1>7, <1>8, <1>9 DEF CommandInv
<1> QED BY <1>10 DEF q

\* The owners were recorded.
LEMMA AdmitKeeps ==
  ASSUME DiskTyped, TreeShape, NEW c \in Commands, NEW r \in Records, CommandInv(c, r),
         r.at = "admit", NEW o \in Owners, "." \in DOMAIN o, o["."].node \in Role!Directories,
         "roles" \in DOMAIN o, o["roles"].node \in Role!Directories
  PROVE  LET q == [r EXCEPT !.owners = o, !.at = "identity", !.then = "controls",
                             !.calm = TRUE]
         IN  q \in Records /\ CommandInv(c, q)
<1> DEFINE q == [r EXCEPT !.owners = o, !.at = "identity", !.then = "controls", !.calm = TRUE]
<1>1. q \in Records
  BY DEF Records, Places, Markers
<1>2. q.at = "identity" /\ q.then = "controls" /\ q.owners = o /\ q.calm = TRUE
  BY DEF Records
<1>3. /\ q.options = r.options /\ q.root = r.root
      /\ q.marker = r.marker /\ q.rootHandle = r.rootHandle
      /\ q.rolesHandle = r.rolesHandle /\ q.roleHandle = r.roleHandle
      /\ q.file = r.file /\ q.previewed = r.previewed
      /\ q.created = r.created /\ q.made = r.made /\ q.exit = r.exit /\ q.gapped = r.gapped
  BY DEF Records
<1> HIDE DEF q
<1>4. Planned(q)
  BY <1>2, <1>3 DEF CommandInv, Planned, Aim, Aims, Places, Checked, Admitted, Writing
<1>5. Held(q)
  BY <1>2, <1>3 DEF CommandInv, Held, Aim, Writing, Inside
<1>6. Owned(c, q)
  BY <1>2, <1>3 DEF CommandInv, Owned, Aim, Inside, Read, Role!Leaf
<1>7. Counted(c, q)
  <2>1. Aim(q) # "done" => Aim(r) # "done" /\ ListOf(q) = ListOf(r)
    BY <1>2, <1>3 DEF CommandInv, Held, Inside, ListOf, Aim
  <2>2. q.created = r.created /\ q.made = r.made
    BY <1>3
  <2> QED BY <2>1, <2>2 DEF CommandInv, Counted
<1>8. Placed(c, q)
  <2>1. r.made = {}
    <3>1. r.created = <<>>
      BY DEF CommandInv, Counted, Aim, ListOf
    <3>2. Cardinality(r.made) = 0 /\ IsFiniteSet(r.made)
      BY <3>1 DEF CommandInv, Counted
    <3> QED BY <3>2, FS_EmptySet
  <2> QED BY <2>1, <1>3 DEF Placed, Laid
<1>9. Reached(c, q)
  BY <1>2, <1>3 DEF CommandInv, Reached, Chain
<1>10. q \in Records /\ CommandInv(c, q)
  BY <1>1, <1>4, <1>5, <1>6, <1>7, <1>8, <1>9 DEF CommandInv
<1> QED BY <1>10 DEF q

\* The given path still leads to the root.
LEMMA IdentityKeeps ==
  ASSUME DiskTyped, TreeShape, NEW c \in Commands, NEW r \in Records, CommandInv(c, r),
         r.at = "identity", r.root = <<Root>>
  PROVE  LET q == [r EXCEPT !.at = "owners"] IN q \in Records /\ CommandInv(c, q)
<1> DEFINE q == [r EXCEPT !.at = "owners"]
<1>1. q \in Records
  BY DEF Records, Places, Markers
<1>2. q.at = "owners"
  BY DEF Records
<1>3. /\ q.then = r.then /\ q.options = r.options /\ q.root = r.root /\ q.marker = r.marker
      /\ q.owners = r.owners /\ q.rootHandle = r.rootHandle
      /\ q.rolesHandle = r.rolesHandle /\ q.roleHandle = r.roleHandle
      /\ q.file = r.file /\ q.previewed = r.previewed /\ q.created = r.created /\ q.made = r.made
      /\ q.exit = r.exit /\ q.calm = r.calm /\ q.gapped = r.gapped
  BY DEF Records
<1> HIDE DEF q
<1>4. Planned(q)
  BY <1>2, <1>3 DEF CommandInv, Planned, Aim, Aims, Places, Checked, Admitted, Writing
<1>5. Held(q)
  BY <1>2, <1>3 DEF CommandInv, Held, Aim, Writing, Inside
<1>6. Owned(c, q)
  BY <1>2, <1>3 DEF CommandInv, Owned, Aim, Inside, Read, Role!Leaf
<1>7. Counted(c, q)
  <2>1. Aim(q) # "done" => Aim(r) # "done" /\ ListOf(q) = ListOf(r)
    BY <1>2, <1>3 DEF CommandInv, Held, Inside, ListOf, Aim
  <2>2. q.created = r.created /\ q.made = r.made
    BY <1>3
  <2> QED BY <2>1, <2>2 DEF CommandInv, Counted
<1>8. Placed(c, q)
  BY <1>2, <1>3 DEF CommandInv, Placed, Laid
<1>9. Reached(c, q)
  BY <1>2, <1>3 DEF CommandInv, Reached, Chain
<1>10. q \in Records /\ CommandInv(c, q)
  BY <1>1, <1>4, <1>5, <1>6, <1>7, <1>8, <1>9 DEF CommandInv
<1> QED BY <1>10 DEF q

\* A check without a record.
LEMMA ProceedKeeps ==
  ASSUME DiskTyped, TreeShape, NEW c \in Commands, NEW r \in Records, CommandInv(c, r), 
         NEW x \in {"targets", "openRoot", "preview"},
         r.at = IF x = "targets" THEN "controls" ELSE "targets"
  PROVE  LET q == [r EXCEPT !.at = x] IN q \in Records /\ CommandInv(c, q)
<1> DEFINE q == [r EXCEPT !.at = x]
<1>1. q \in Records
  BY DEF Records, Places, Markers
<1>2. q.at = x
  BY DEF Records
<1>3. /\ q.then = r.then /\ q.options = r.options /\ q.root = r.root /\ q.marker = r.marker
      /\ q.owners = r.owners /\ q.rootHandle = r.rootHandle
      /\ q.rolesHandle = r.rolesHandle /\ q.roleHandle = r.roleHandle
      /\ q.file = r.file /\ q.previewed = r.previewed /\ q.created = r.created /\ q.made = r.made
      /\ q.exit = r.exit /\ q.calm = r.calm /\ q.gapped = r.gapped
  BY DEF Records
<1> HIDE DEF q
<1>4. Planned(q)
  BY <1>2, <1>3 DEF CommandInv, Planned, Aim, Aims, Places, Checked, Admitted, Writing
<1>5. Held(q)
  BY <1>2, <1>3 DEF CommandInv, Held, Aim, Writing, Inside
<1>6. Owned(c, q)
  BY <1>2, <1>3 DEF CommandInv, Owned, Aim, Inside, Read, Role!Leaf
<1>7. Counted(c, q)
  <2>1. Aim(q) # "done" => Aim(r) # "done" /\ ListOf(q) = ListOf(r)
    BY <1>2, <1>3 DEF CommandInv, Held, Inside, ListOf, Aim
  <2>2. q.created = r.created /\ q.made = r.made
    BY <1>3
  <2> QED BY <2>1, <2>2 DEF CommandInv, Counted
<1>8. Placed(c, q)
  BY <1>2, <1>3 DEF CommandInv, Placed, Laid
<1>9. Reached(c, q)
  BY <1>2, <1>3 DEF CommandInv, Reached, Chain
<1>10. q \in Records /\ CommandInv(c, q)
  BY <1>1, <1>4, <1>5, <1>6, <1>7, <1>8, <1>9 DEF CommandInv
<1> QED BY <1>10 DEF q

\* A preview was asked for.
LEMMA PreviewEnds ==
  ASSUME DiskTyped, TreeShape, NEW c \in Commands, NEW r \in Records, CommandInv(c, r),
         r.at = "preview", ~r.options.write
  PROVE  LET q == [r EXCEPT !.at = "done", !.exit = 0] IN q \in Records /\ CommandInv(c, q)
<1> DEFINE q == [r EXCEPT !.at = "done", !.exit = 0]
<1>1. q \in Records
  BY DEF Records, Places, Markers
<1>2. q.at = "done" /\ q.exit = 0
  BY DEF Records
<1>3. /\ q.then = r.then /\ q.options = r.options /\ q.root = r.root /\ q.marker = r.marker
      /\ q.owners = r.owners /\ q.rootHandle = r.rootHandle
      /\ q.rolesHandle = r.rolesHandle /\ q.roleHandle = r.roleHandle
      /\ q.file = r.file /\ q.previewed = r.previewed /\ q.created = r.created /\ q.made = r.made
      /\ q.calm = r.calm /\ q.gapped = r.gapped
  BY DEF Records
<1> HIDE DEF q
<1>4. Planned(q)
  BY <1>2, <1>3 DEF CommandInv, Planned, Aim, Aims, Places, Checked, Admitted, Writing
<1>5. Held(q)
  BY <1>2, <1>3 DEF CommandInv, Held, Aim, Writing, Inside
<1>6. Owned(c, q)
  BY <1>2, <1>3 DEF CommandInv, Owned, Aim, Inside, Read, Role!Leaf
<1>7. Counted(c, q)
  <2>1. Aim(q) # "done" => Aim(r) # "done" /\ ListOf(q) = ListOf(r)
    BY <1>2, <1>3 DEF CommandInv, Held, Inside, ListOf, Aim
  <2>2. q.created = r.created /\ q.made = r.made
    BY <1>3
  <2> QED BY <2>1, <2>2 DEF CommandInv, Counted
<1>8. Placed(c, q)
  BY <1>2, <1>3 DEF CommandInv, Placed, Laid
<1>9. Reached(c, q)
  BY <1>2, <1>3 DEF CommandInv, Reached, Chain
<1>10. q \in Records /\ CommandInv(c, q)
  BY <1>1, <1>4, <1>5, <1>6, <1>7, <1>8, <1>9 DEF CommandInv
<1> QED BY <1>10 DEF q

\* The proposal was printed.
LEMMA PreviewKeeps ==
  ASSUME DiskTyped, TreeShape, NEW c \in Commands, NEW r \in Records, CommandInv(c, r),
         r.at = "preview"
  PROVE  LET q == [r EXCEPT !.previewed = TRUE, !.at = "identity", !.then = "controls",
                             !.calm = TRUE]
         IN  q \in Records /\ CommandInv(c, q)
<1> DEFINE q == [r EXCEPT !.previewed = TRUE, !.at = "identity", !.then = "controls", !.calm = TRUE]
<1>1. q \in Records
  BY DEF Records, Places, Markers
<1>2. q.at = "identity" /\ q.then = "controls" /\ q.previewed = TRUE /\ q.calm = TRUE
  BY DEF Records
<1>3. /\ q.options = r.options /\ q.root = r.root /\ q.marker = r.marker /\ q.owners = r.owners
      /\ q.rootHandle = r.rootHandle /\ q.rolesHandle = r.rolesHandle
      /\ q.roleHandle = r.roleHandle /\ q.file = r.file
      /\ q.created = r.created /\ q.made = r.made /\ q.exit = r.exit /\ q.gapped = r.gapped
  BY DEF Records
<1> HIDE DEF q
<1>4. Planned(q)
  BY <1>2, <1>3 DEF CommandInv, Planned, Aim, Aims, Places, Checked, Admitted, Writing
<1>5. Held(q)
  BY <1>2, <1>3 DEF CommandInv, Held, Aim, Writing, Inside
<1>6. Owned(c, q)
  BY <1>2, <1>3 DEF CommandInv, Owned, Aim, Inside, Read, Role!Leaf
<1>7. Counted(c, q)
  <2>1. Aim(q) # "done" => Aim(r) # "done" /\ ListOf(q) = ListOf(r)
    BY <1>2, <1>3 DEF CommandInv, Held, Inside, ListOf, Aim
  <2>2. q.created = r.created /\ q.made = r.made
    BY <1>3
  <2> QED BY <2>1, <2>2 DEF CommandInv, Counted
<1>8. Placed(c, q)
  BY <1>2, <1>3 DEF CommandInv, Placed, Laid
<1>9. Reached(c, q)
  BY <1>2, <1>3 DEF CommandInv, Reached, Chain
<1>10. q \in Records /\ CommandInv(c, q)
  BY <1>1, <1>4, <1>5, <1>6, <1>7, <1>8, <1>9 DEF CommandInv
<1> QED BY <1>10 DEF q

\* The root was opened.
LEMMA OpenRootKeeps ==
  ASSUME DiskTyped, TreeShape, NEW c \in Commands, NEW r \in Records, CommandInv(c, r),
         r.at = "openRoot", NEW h \in Role!Directories
  PROVE  LET q == [r EXCEPT !.at = "openRoles", !.rootHandle = h]
         IN  q \in Records /\ CommandInv(c, q)
<1> DEFINE q == [r EXCEPT !.at = "openRoles", !.rootHandle = h]
<1>1. q \in Records
  BY DEF Records, Places, Handles
<1>2. q.at = "openRoles" /\ q.rootHandle = h
  BY DEF Records
<1>3. /\ q.then = r.then /\ q.options = r.options /\ q.root = r.root /\ q.marker = r.marker
      /\ q.owners = r.owners /\ q.rolesHandle = r.rolesHandle
      /\ q.roleHandle = r.roleHandle /\ q.file = r.file
      /\ q.previewed = r.previewed /\ q.created = r.created /\ q.made = r.made /\ q.exit = r.exit
      /\ q.calm = r.calm /\ q.gapped = r.gapped
  BY DEF Records
<1> HIDE DEF q
<1>4. Planned(q)
  BY <1>2, <1>3 DEF CommandInv, Planned, Aim, Aims, Places, Checked, Admitted, Writing
<1>5. Held(q)
  BY <1>2, <1>3 DEF CommandInv, Held, Aim, Writing, Inside
<1>6. Owned(c, q)
  BY <1>2, <1>3 DEF CommandInv, Owned, Aim, Inside, Read, Role!Leaf
<1>7. Counted(c, q)
  <2>1. Aim(q) # "done" => Aim(r) # "done" /\ ListOf(q) = ListOf(r)
    BY <1>2, <1>3 DEF CommandInv, Held, Inside, ListOf, Aim
  <2>2. q.created = r.created /\ q.made = r.made
    BY <1>3
  <2> QED BY <2>1, <2>2 DEF CommandInv, Counted
<1>8. Placed(c, q)
  BY <1>2, <1>3 DEF CommandInv, Placed, Laid
<1>9. Reached(c, q)
  BY <1>2, <1>3 DEF CommandInv, Reached, Chain
<1>10. q \in Records /\ CommandInv(c, q)
  BY <1>1, <1>4, <1>5, <1>6, <1>7, <1>8, <1>9 DEF CommandInv
<1> QED BY <1>10 DEF q

\* The roles directory was opened.
LEMMA OpenRolesKeeps ==
  ASSUME DiskTyped, TreeShape, NEW c \in Commands, NEW r \in Records, CommandInv(c, r),
         r.at = "openRoles", NEW h \in Role!Directories
  PROVE  LET q == [r EXCEPT !.rolesHandle = h, !.at = "identity", !.then = "makeRole",
                             !.calm = TRUE]
         IN  q \in Records /\ CommandInv(c, q)
<1> DEFINE q == [r EXCEPT !.rolesHandle = h, !.at = "identity", !.then = "makeRole", !.calm = TRUE]
<1>1. q \in Records
  BY DEF Records, Places, Handles
<1>2. q.at = "identity" /\ q.then = "makeRole" /\ q.rolesHandle = h /\ q.calm = TRUE
  BY DEF Records
<1>3. /\ q.options = r.options /\ q.root = r.root /\ q.marker = r.marker /\ q.owners = r.owners
      /\ q.rootHandle = r.rootHandle /\ q.roleHandle = r.roleHandle
      /\ q.file = r.file /\ q.previewed = r.previewed
      /\ q.created = r.created /\ q.made = r.made /\ q.exit = r.exit /\ q.gapped = r.gapped
  BY DEF Records
<1> HIDE DEF q
<1>4. Planned(q)
  BY <1>2, <1>3 DEF CommandInv, Planned, Aim, Aims, Places, Checked, Admitted, Writing
<1>5. Held(q)
  BY <1>2, <1>3 DEF CommandInv, Held, Aim, Writing, Inside
<1>6. Owned(c, q)
  BY <1>2, <1>3 DEF CommandInv, Owned, Aim, Inside, Read, Role!Leaf
<1>7. Counted(c, q)
  <2>1. Aim(q) # "done" => Aim(r) # "done" /\ ListOf(q) = ListOf(r)
    BY <1>2, <1>3 DEF CommandInv, Held, Inside, ListOf, Aim
  <2>2. q.created = r.created /\ q.made = r.made
    BY <1>3
  <2> QED BY <2>1, <2>2 DEF CommandInv, Counted
<1>8. Placed(c, q)
  BY <1>2, <1>3 DEF CommandInv, Placed, Laid
<1>9. Reached(c, q)
  BY <1>2, <1>3 DEF CommandInv, Reached, Chain
<1>10. q \in Records /\ CommandInv(c, q)
  BY <1>1, <1>4, <1>5, <1>6, <1>7, <1>8, <1>9 DEF CommandInv
<1> QED BY <1>10 DEF q

\* The owner of the new role was read.
LEMMA ReadRoleKeeps ==
  ASSUME DiskTyped, TreeShape, NEW c \in Commands, NEW r \in Records, CommandInv(c, r),
         r.at = "readRole", NEW o \in Owners, DOMAIN o = DOMAIN r.owners \cup {"role"},
         \A w \in DOMAIN r.owners \ {"role"} : o[w] = r.owners[w],
         o["role"].node = entry[r.rolesHandle]["app"]
  PROVE  LET q == [r EXCEPT !.owners = o, !.at = "openRole"] IN q \in Records /\ CommandInv(c, q)
<1> DEFINE q == [r EXCEPT !.owners = o, !.at = "openRole"]
<1>1. q \in Records
  BY DEF Records, Places
<1>2. q.at = "openRole" /\ q.owners = o
  BY DEF Records
<1>3. /\ q.then = r.then /\ q.options = r.options /\ q.root = r.root /\ q.marker = r.marker
      /\ q.rootHandle = r.rootHandle /\ q.rolesHandle = r.rolesHandle
      /\ q.roleHandle = r.roleHandle /\ q.file = r.file
      /\ q.previewed = r.previewed /\ q.created = r.created /\ q.made = r.made /\ q.exit = r.exit
      /\ q.calm = r.calm /\ q.gapped = r.gapped
  BY DEF Records
<1> HIDE DEF q
<1>0. o["roles"] = r.owners["roles"] /\ o["."] = r.owners["."]
      /\ {"roles", ".", "role"} \subseteq DOMAIN o
  BY DEF CommandInv, Planned, Aim, Admitted, Writing
<1>4. Planned(q)
  BY <1>2, <1>3, <1>0 DEF CommandInv, Planned, Aim, Aims, Places, Checked, Admitted, Writing
<1>5. Held(q)
  BY <1>2, <1>3, <1>0 DEF CommandInv, Held, Aim, Writing, Inside
<1>6. Owned(c, q)
  BY <1>2, <1>3, <1>0 DEF CommandInv, Owned, Aim, Inside, Read, Role!Leaf
<1>7. Counted(c, q)
  <2>1. Aim(q) # "done" => Aim(r) # "done" /\ ListOf(q) = ListOf(r)
    BY <1>2, <1>3 DEF CommandInv, Held, Inside, ListOf, Aim
  <2>2. q.created = r.created /\ q.made = r.made
    BY <1>3
  <2> QED BY <2>1, <2>2 DEF CommandInv, Counted
<1>8. Placed(c, q)
  <2>1. \A m \in r.made : m.node = Role!Made(c, "role")
    <3>1. r.created = <<"role">>
      BY DEF CommandInv, Counted, Aim, ListOf
    <3>2. {r.created[i] : i \in DOMAIN r.created} = {"role"}
      BY <3>1
    <3>3. {m.node : m \in r.made} = {Role!Made(c, w) : w \in {"role"}}
      BY <3>2 DEF CommandInv, Counted
    <3> QED BY <3>3
  <2>2. \A f \in Leaves : f # "role" /\ Role!MainFile[f] # "role"
    BY Things DEF Leaves
  <2> QED BY <2>1, <2>2, <1>0, <1>2, <1>3, MadeNodes DEF CommandInv, Placed, Laid
<1>9. Reached(c, q)
  BY <1>2, <1>3, <1>0 DEF CommandInv, Reached, Chain
<1>10. q \in Records /\ CommandInv(c, q)
  BY <1>1, <1>4, <1>5, <1>6, <1>7, <1>8, <1>9 DEF CommandInv
<1> QED BY <1>10 DEF q

\* The new role was opened.
LEMMA OpenRoleKeeps ==
  ASSUME DiskTyped, TreeShape, NEW c \in Commands, NEW r \in Records, CommandInv(c, r),
         r.at = "openRole", NEW h \in Role!Directories, h = r.owners["role"].node
  PROVE  LET q == [r EXCEPT !.roleHandle = h, !.file = 1, !.at = "identity",
                             !.then = "makeLeaf", !.calm = TRUE]
         IN  q \in Records /\ CommandInv(c, q)
<1> DEFINE q == [r EXCEPT !.roleHandle = h, !.file = 1, !.at = "identity",
                          !.then = "makeLeaf", !.calm = TRUE]
<1>0. h \in Handles /\ 1 \in 0..2
  BY DEF Handles
<1>1. q \in Records
  BY <1>0 DEF Records, Places
<1>2. q.at = "identity" /\ q.then = "makeLeaf" /\ q.roleHandle = h /\ q.file = 1 /\ q.calm = TRUE
  BY DEF Records
<1>3. /\ q.options = r.options /\ q.root = r.root /\ q.marker = r.marker /\ q.owners = r.owners
      /\ q.rootHandle = r.rootHandle /\ q.rolesHandle = r.rolesHandle
      /\ q.previewed = r.previewed /\ q.created = r.created
      /\ q.made = r.made /\ q.exit = r.exit /\ q.gapped = r.gapped
  BY DEF Records
<1> HIDE DEF q
<1>4. Planned(q)
  BY <1>2, <1>3 DEF CommandInv, Planned, Aim, Aims, Places, Checked, Admitted, Writing
<1>5. Held(q)
  BY <1>2, <1>3 DEF CommandInv, Held, Aim, Writing, Inside
<1>6. Owned(c, q)
  BY <1>2, <1>3 DEF CommandInv, Owned, Aim, Inside, Read, Role!Leaf
<1>7. Counted(c, q)
  <2>1. Aim(q) # "done" => Aim(r) # "done" /\ ListOf(q) = ListOf(r)
    BY <1>2, <1>3 DEF CommandInv, Held, Inside, ListOf, Aim
  <2>2. q.created = r.created /\ q.made = r.made
    BY <1>3
  <2> QED BY <2>1, <2>2 DEF CommandInv, Counted
<1>8. Placed(c, q)
  BY <1>2, <1>3 DEF CommandInv, Placed, Laid
<1>9. Reached(c, q)
  BY <1>2, <1>3 DEF CommandInv, Reached, Chain
<1>10. q \in Records /\ CommandInv(c, q)
  BY <1>1, <1>4, <1>5, <1>6, <1>7, <1>8, <1>9 DEF CommandInv
<1> QED BY <1>10 DEF q

\* The owner of a new leaf was read.
LEMMA ReadLeafKeeps ==
  ASSUME DiskTyped, TreeShape, NEW c \in Commands, NEW r \in Records, CommandInv(c, r),
         r.at = "readLeaf", NEW o \in Owners, DOMAIN o = DOMAIN r.owners \cup {Role!Leaf(r)},
         \A w \in DOMAIN r.owners \ {Role!Leaf(r)} : o[w] = r.owners[w],
         o[Role!Leaf(r)].node = entry[r.roleHandle][Role!Leaf(r)]
  PROVE  LET q == [r EXCEPT !.owners = o, !.at = "identity", !.then = "makeFile",
                             !.calm = TRUE]
         IN  q \in Records /\ CommandInv(c, q)
<1> DEFINE q == [r EXCEPT !.owners = o, !.at = "identity", !.then = "makeFile", !.calm = TRUE]
<1>1. q \in Records
  BY DEF Records, Places
<1>2. q.at = "identity" /\ q.then = "makeFile" /\ q.owners = o /\ q.calm = TRUE
  BY DEF Records
<1>3. /\ q.options = r.options /\ q.root = r.root
      /\ q.marker = r.marker /\ q.rootHandle = r.rootHandle
      /\ q.rolesHandle = r.rolesHandle /\ q.roleHandle = r.roleHandle
      /\ q.file = r.file /\ q.previewed = r.previewed
      /\ q.created = r.created /\ q.made = r.made /\ q.exit = r.exit /\ q.gapped = r.gapped
  BY DEF Records
<1> HIDE DEF q
<1>0. /\ Role!Leaf(r) \in Leaves /\ "role" \in DOMAIN r.owners \ {Role!Leaf(r)}
      /\ "roles" \in DOMAIN r.owners \ {Role!Leaf(r)} /\ "." \in DOMAIN r.owners \ {Role!Leaf(r)}
  <2>1. r.file \in 1..2 /\ "role" \in DOMAIN r.owners /\ "roles" \in DOMAIN r.owners
        /\ "." \in DOMAIN r.owners
    BY DEF CommandInv, Held, Planned, Aim, Inside, Admitted, Writing
  <2>2. Role!Leaf(r) \in Leaves
    BY <2>1, Things DEF Role!Leaf, Leaves
  <2> QED BY <2>1, <2>2 DEF Leaves
<1>4. Planned(q)
  BY <1>2, <1>3, <1>0 DEF CommandInv, Planned, Aim, Aims, Places, Checked, Admitted, Writing
<1>5. Held(q)
  BY <1>2, <1>3, <1>0 DEF CommandInv, Held, Aim, Writing, Inside
<1>6. Owned(c, q)
  BY <1>2, <1>3, <1>0 DEF CommandInv, Owned, Aim, Inside, Read, Role!Leaf
<1>7. Counted(c, q)
  <2>1. Aim(q) # "done" => Aim(r) # "done" /\ ListOf(q) = ListOf(r)
    BY <1>2, <1>3 DEF CommandInv, Held, Inside, ListOf, Aim
  <2>2. q.created = r.created /\ q.made = r.made
    BY <1>3
  <2> QED BY <2>1, <2>2 DEF CommandInv, Counted
<1>8. Placed(c, q)
  BY <1>2, <1>3, <1>0 DEF CommandInv, Placed, Laid
<1>9. Reached(c, q)
  BY <1>2, <1>3, <1>0 DEF CommandInv, Reached, Chain
<1>10. q \in Records /\ CommandInv(c, q)
  BY <1>1, <1>4, <1>5, <1>6, <1>7, <1>8, <1>9 DEF CommandInv
<1> QED BY <1>10 DEF q

\* Everything was written and checked.
LEMMA SuccessKeeps ==
  ASSUME DiskTyped, TreeShape, NEW c \in Commands, NEW r \in Records, CommandInv(c, r),
         r.at = "success"
  PROVE  LET q == [r EXCEPT !.at = "done", !.exit = 0] IN q \in Records /\ CommandInv(c, q)
<1> DEFINE q == [r EXCEPT !.at = "done", !.exit = 0]
<1>1. q \in Records
  BY DEF Records, Places, Markers
<1>2. q.at = "done" /\ q.exit = 0
  BY DEF Records
<1>3. /\ q.then = r.then /\ q.options = r.options /\ q.root = r.root /\ q.marker = r.marker
      /\ q.owners = r.owners /\ q.rootHandle = r.rootHandle
      /\ q.rolesHandle = r.rolesHandle /\ q.roleHandle = r.roleHandle
      /\ q.file = r.file /\ q.previewed = r.previewed /\ q.created = r.created /\ q.made = r.made
      /\ q.calm = r.calm /\ q.gapped = r.gapped
  BY DEF Records
<1> HIDE DEF q
<1>4. Planned(q)
  BY <1>2, <1>3 DEF CommandInv, Planned, Aim, Aims, Places, Checked, Admitted, Writing
<1>5. Held(q)
  BY <1>2, <1>3 DEF CommandInv, Held, Aim, Writing, Inside
<1>6. Owned(c, q)
  BY <1>2, <1>3 DEF CommandInv, Owned, Aim, Inside, Read, Role!Leaf
<1>7. Counted(c, q)
  <2>1. Aim(q) # "done" => Aim(r) # "done" /\ ListOf(q) = ListOf(r)
    BY <1>2, <1>3 DEF CommandInv, Held, Inside, ListOf, Aim
  <2>2. q.created = r.created /\ q.made = r.made
    BY <1>3
  <2> QED BY <2>1, <2>2 DEF CommandInv, Counted
<1>8. Placed(c, q)
  BY <1>2, <1>3 DEF CommandInv, Placed, Laid
<1>9. Reached(c, q)
  BY <1>2, <1>3 DEF CommandInv, Reached, Chain
<1>10. q \in Records /\ CommandInv(c, q)
  BY <1>1, <1>4, <1>5, <1>6, <1>7, <1>8, <1>9 DEF CommandInv
<1> QED BY <1>10 DEF q


-----------------------------------------------------------------------------
(***************************************************************************)
(* The owners looked at again are where they were recorded.                *)
(***************************************************************************)

\* Owners that hold are the entries below each other that they were recorded from.
LEMMA OwnersLook ==
  ASSUME DiskTyped, TreeShape, NEW r \in Records, r.root \in Roots, Role!OwnersHold(r),
         "." \in DOMAIN r.owners, r.owners["."].node \in Role!Directories,
         "roles" \in DOMAIN r.owners, r.owners["roles"].node \in Role!Directories
  PROVE  /\ entry[Role!Top][r.root[1]] = r.owners["."].node
         /\ entry[r.owners["."].node]["roles"] = r.owners["roles"].node
         /\ ("role" \in DOMAIN r.owners /\ r.owners["role"].node \in Role!Directories) =>
              /\ entry[r.owners["roles"].node]["app"] = r.owners["role"].node
              /\ \A f \in Leaves \cap DOMAIN r.owners :
                   entry[r.owners["role"].node][f] = r.owners[f].node
<1> DEFINE P(w) == Role!Path(r.root, w)
<1>1. ASSUME NEW w \in DOMAIN r.owners
      PROVE  /\ Role!Lstat(P(w)) = r.owners[w].node
             /\ r.owners[w].node \in Role!Directories => Role!Real(P(w)) = P(w)
  <2>1. /\ Role!Identity(Role!Lstat(P(w))) = r.owners[w]
        /\ r.owners[w].node \in Role!Directories => Role!PhysicalDirectory(P(w))
    BY DEF Role!OwnersHold
  <2> QED BY <2>1 DEF Role!Identity, Role!PhysicalDirectory
<1>2. {"roles", "app"} \cup Leaves \subseteq Role!Names
  BY Nodes DEF Leaves
<1> DEFINE root == r.root  roles == Append(root, "roles")  role == Append(roles, "app")
<1>3. /\ root \in Paths /\ root = Append(<<>>, root[1]) /\ root[1] \in Role!Names
      /\ <<>> \in Paths /\ Role!Real(<<>>) = <<>> /\ Role!Below(Role!Top, <<>>) = Role!Top
      /\ P(".") = root /\ P("roles") = roles /\ P("role") = role
      /\ \A f \in Leaves : P(f) = Append(role, f)
  BY OwnerPaths DEF Leaves
<1> HIDE DEF P, root, roles, role
<1>4. /\ Role!Lstat(root) = Under(Role!Top, root[1])
      /\ Role!Below(Role!Top, root) = Under(Role!Top, root[1])
  <2>1. /\ Role!Lstat(Append(<<>>, root[1])) = Under(Role!Top, root[1])
        /\ Role!Below(Role!Top, Append(<<>>, root[1])) = Under(Role!Top, root[1])
    BY <1>3, LstatBelow
  <2> QED BY <2>1, <1>3
<1>5. /\ entry[Role!Top][root[1]] = r.owners["."].node
      /\ Role!Below(Role!Top, root) = r.owners["."].node /\ Role!Real(root) = root
  BY <1>1, <1>3, <1>4, Nodes DEF Under
<1>6. /\ roles \in Paths
      /\ Role!Lstat(roles) = Under(Role!Below(Role!Top, root), "roles")
      /\ Role!Below(Role!Top, roles) = Under(Role!Below(Role!Top, root), "roles")
  BY <1>2, <1>3, <1>5, LstatBelow DEF roles
<1>7. /\ entry[r.owners["."].node]["roles"] = r.owners["roles"].node
      /\ Role!Below(Role!Top, roles) = r.owners["roles"].node /\ Role!Real(roles) = roles
  BY <1>1, <1>3, <1>5, <1>6 DEF Under
<1>8. ASSUME "role" \in DOMAIN r.owners, r.owners["role"].node \in Role!Directories
      PROVE  /\ entry[r.owners["roles"].node]["app"] = r.owners["role"].node
             /\ \A f \in Leaves \cap DOMAIN r.owners :
                  entry[r.owners["role"].node][f] = r.owners[f].node
  <2>1. /\ role \in Paths
        /\ Role!Lstat(role) = Under(Role!Below(Role!Top, roles), "app")
        /\ Role!Below(Role!Top, role) = Under(Role!Below(Role!Top, roles), "app")
    BY <1>2, <1>6, <1>7, LstatBelow DEF role
  <2>2. /\ entry[r.owners["roles"].node]["app"] = r.owners["role"].node
        /\ Role!Below(Role!Top, role) = r.owners["role"].node /\ Role!Real(role) = role
    BY <1>1, <1>3, <1>7, <1>8, <2>1 DEF Under
  <2>3. ASSUME NEW f \in Leaves \cap DOMAIN r.owners
        PROVE  entry[r.owners["role"].node][f] = r.owners[f].node
    <3>1. Role!Lstat(Append(role, f)) = Under(Role!Below(Role!Top, role), f)
      BY <1>2, <2>1, <2>2, LstatBelow
    <3>2. Role!Lstat(P(f)) = r.owners[f].node /\ P(f) = Append(role, f)
      BY <1>1, <1>3
    <3> QED BY <3>1, <3>2, <2>2, <1>8 DEF Under
  <2> QED BY <2>2, <2>3
<1> QED BY <1>5, <1>7, <1>8 DEF root

\* A command whose owners hold goes on.
LEMMA OwnersKeep ==
  ASSUME DiskTyped, TreeShape, NEW c \in Commands, NEW r \in Records, CommandInv(c, r),
         r.at = "owners", Role!OwnersHold(r), Role!HandlesHold(r)
  PROVE  LET q == [r EXCEPT !.at = r.then] IN q \in Records /\ CommandInv(c, q)
<1> DEFINE q == [r EXCEPT !.at = r.then]
<1>0. r.then \in Checked /\ Aim(r) = r.then
  BY DEF CommandInv, Planned, Aim
<1>1. q \in Records
  BY <1>0 DEF Records, Places, Checked
<1>2. q.at = r.then
  BY DEF Records
<1>3. /\ q.then = r.then /\ q.options = r.options /\ q.root = r.root /\ q.marker = r.marker
      /\ q.owners = r.owners /\ q.rootHandle = r.rootHandle
      /\ q.rolesHandle = r.rolesHandle /\ q.roleHandle = r.roleHandle
      /\ q.file = r.file /\ q.previewed = r.previewed /\ q.created = r.created /\ q.made = r.made
      /\ q.exit = r.exit /\ q.calm = r.calm /\ q.gapped = r.gapped
  BY DEF Records
<1> HIDE DEF q
<1>4. Aim(q) = Aim(r)
  BY <1>0, <1>2 DEF Aim, Checked
<1>5. Planned(q)
  BY <1>0, <1>2, <1>3, <1>4 DEF CommandInv, Planned, Checked
<1>6. /\ "." \in DOMAIN r.owners /\ r.owners["."].node \in Role!Directories
      /\ "roles" \in DOMAIN r.owners /\ r.owners["roles"].node \in Role!Directories
      /\ r.root \in Roots
  BY <1>0 DEF CommandInv, Planned, Checked, Admitted, Writing
<1>7. Held(q)
  <2>1. r.then = "makeRole" => r.rolesHandle = r.owners["roles"].node
    <3>1. r.then = "makeRole" => r.rolesHandle \in Role!Directories
      BY <1>0 DEF CommandInv, Held
    <3> QED BY <3>1, Nodes DEF Role!HandlesHold
  <2> QED BY <2>1, <1>2, <1>3, <1>4 DEF CommandInv, Held
<1>8. ASSUME r.then \in Inside
      PROVE  /\ "role" \in DOMAIN r.owners /\ r.owners["role"].node \in Role!Directories
             /\ r.roleHandle = r.owners["role"].node /\ r.file \in 1..2
             /\ entry[r.owners["roles"].node]["app"] = r.owners["role"].node
             /\ \A f \in Leaves \cap DOMAIN r.owners :
                  entry[r.owners["role"].node][f] = r.owners[f].node
  <2>1. /\ "role" \in DOMAIN r.owners /\ r.owners["role"].node \in Role!Directories
        /\ r.roleHandle = r.owners["role"].node /\ r.file \in 1..2
    BY <1>0, <1>8 DEF CommandInv, Held
  <2> QED BY <2>1, <1>6, OwnersLook
<1>9. Read(q) = Read(r)
  BY <1>3, <1>4 DEF Read
<1>10. Owned(c, q)
  <2>1. r.then = "makeFile" => entry[r.roleHandle][Role!Leaf(r)] = r.owners[Role!Leaf(r)].node
    <3> SUFFICES ASSUME r.then = "makeFile"
                 PROVE  entry[r.roleHandle][Role!Leaf(r)] = r.owners[Role!Leaf(r)].node
      OBVIOUS
    <3>1. r.then \in Inside
      BY DEF Inside
    <3>2. Role!Leaf(r) \in Read(r) /\ Role!Leaf(r) \in Leaves
      BY <1>0, <1>8, <3>1, Things DEF Read, Role!Leaf, Leaves
    <3>3. Role!Leaf(r) \in DOMAIN r.owners
      BY <1>0, <3>1, <3>2 DEF CommandInv, Owned
    <3> QED BY <1>8, <3>1, <3>2, <3>3
  <2>2. r.then \notin {"readRole", "readLeaf"}
    BY <1>0 DEF Checked
  <2>3. Role!Leaf(q) = Role!Leaf(r)
    BY <1>3 DEF Role!Leaf
  <2> QED BY <2>1, <2>2, <2>3, <1>2, <1>3, <1>4, <1>9 DEF CommandInv, Owned
<1>11. Counted(c, q)
  <2>1. ListOf(q) = ListOf(r) /\ q.created = r.created /\ q.made = r.made
    BY <1>3, <1>4 DEF ListOf
  <2> QED BY <2>1, <1>4 DEF CommandInv, Counted
<1>12. Placed(c, q)
  BY <1>3 DEF CommandInv, Placed, Laid
<1>13. ASSUME r.then = "success", r.calm, ~r.gapped PROVE Chain(c, r)
  <2>1. r.root = <<Root>> /\ r.root[1] = Root
    BY <1>13 DEF CommandInv, Reached
  <2>2. r.then \in Inside /\ r.file = 2
    BY <1>0, <1>13 DEF CommandInv, Held, Inside
  <2>3. Read(r) = Leaves
    BY <1>0, <1>13, <2>2, Things DEF Read, Leaves
  <2>4. /\ r.owners["role"].node = Role!Made(c, "role")
        /\ \A f \in Leaves : f \in DOMAIN r.owners /\ r.owners[f].node = Role!Made(c, f)
    BY <1>0, <1>13, <2>2, <2>3 DEF CommandInv, Owned
  <2>5. /\ entry[Role!Top][Root] = r.owners["."].node
        /\ entry[r.owners["."].node]["roles"] = r.owners["roles"].node
    BY <1>6, <2>1, OwnersLook
  <2>6. ASSUME NEW f \in Leaves
        PROVE  entry[Role!Made(c, f)]["main.yml"] = Role!Made(c, Role!MainFile[f])
    <3>1. r.created = <<"role", "defaults", "defaults/main.yml", "tasks", "tasks/main.yml">>
      BY <1>0, <1>13 DEF CommandInv, Counted, ListOf
    <3>2. Role!MainFile[f] \in {r.created[i] : i \in DOMAIN r.created}
      <4>1. r.created[3] = "defaults/main.yml" /\ r.created[5] = "tasks/main.yml"
            /\ 3 \in DOMAIN r.created /\ 5 \in DOMAIN r.created
        BY <3>1
      <4> QED BY <4>1, Things DEF Leaves
    <3>3. PICK m \in r.made : m.node = Role!Made(c, Role!MainFile[f])
      <4>1. Role!Made(c, Role!MainFile[f]) \in {m.node : m \in r.made}
        BY <3>2 DEF CommandInv, Counted
      <4> QED BY <4>1
    <3> QED BY <3>3, <1>13 DEF CommandInv, Placed, Laid
  <2>7. entry[r.owners["roles"].node]["app"] = Role!Made(c, "role")
        /\ \A f \in Leaves : entry[Role!Made(c, "role")][f] = Role!Made(c, f)
    BY <1>8, <2>2, <2>4
  <2> QED BY <1>6, <2>1, <2>5, <2>6, <2>7 DEF Chain
<1>14. Reached(c, q)
  <2>1. r.then \notin {"owners", "done"}
    BY <1>0 DEF Checked
  <2>2. Chain(c, r) => Chain(c, q)
    BY <1>3 DEF Chain
  <2> QED BY <1>2, <1>3, <1>13, <2>1, <2>2 DEF Reached
<1>15. q \in Records /\ CommandInv(c, q)
  BY <1>1, <1>5, <1>7, <1>10, <1>11, <1>12, <1>14 DEF CommandInv
<1> QED BY <1>15 DEF q


-----------------------------------------------------------------------------
(***************************************************************************)
(* The steps of a command that only look.                                  *)
(***************************************************************************)

Working(c) ==
  /\ DiskTyped /\ TreeShape
  /\ command \in [Commands -> Records] /\ CommandInv(c, command[c])

\* The command goes on with a record of which the invariant holds.
Advances(c) ==
  \E q \in Records : command' = [command EXCEPT ![c] = q] /\ CommandInv(c, q)

\* A command that fails.
LEMMA Failing ==
  ASSUME NEW c \in Commands, Working(c), Role!Fails(c)
  PROVE  Advances(c)
<1> DEFINE r == command[c] q == [r EXCEPT !.at = "done", !.exit = 2]
<1>1. r \in Records /\ CommandInv(c, r) /\ DiskTyped /\ TreeShape
  BY DEF Working
<1>2. q \in Records /\ CommandInv(c, q)
  <2> HIDE DEF r
  <2> QED BY <1>1, FailureKeeps
<1>3. command' = [command EXCEPT ![c] = q]
  BY DEF Role!Fails, Role!Go
<1> QED BY <1>2, <1>3 DEF Advances

\* The marker that projectMarker names is one there is.
LEMMA MarkerThere ==
  ASSUME NEW p, Role!ProjectMarker(p) # "none"
  PROVE  Role!ProjectMarker(p) \in Role!MarkerNames
<1> DEFINE there == {m \in Role!MarkerNames : Role!Lstat(Append(p, m)) # Role!None}
<1>1. Role!Cardinality(there) = Cardinality(there)
  BY Zenon DEF Role!Cardinality, Cardinality
<1>2. Role!Cardinality(there) = 1 /\ Role!ProjectMarker(p) = CHOOSE m \in there : TRUE
  BY DEF Role!ProjectMarker
<1>3. there # {}
  BY <1>1, <1>2, FS_EmptySet
<1> QED BY <1>2, <1>3

\* The request and the marker.
LEMMA RoleActs ==
  ASSUME NEW c \in Commands, Working(c), Role!Role(c)
  PROVE  Advances(c)
<1> DEFINE r == command[c] m == Role!ProjectMarker(Spelling)
           q == [r EXCEPT !.at = "load", !.marker = m]
<1>1. r \in Records /\ CommandInv(c, r) /\ DiskTyped /\ TreeShape /\ r.at = "role"
  BY DEF Working, Role!Role
<1>2. ASSUME m # "none", Role!Go(c, q)
      PROVE  Advances(c)
  <2>1. m \in Role!MarkerNames
    BY <1>2, MarkerThere
  <2>2. q \in Records /\ CommandInv(c, q)
    <3> HIDE DEF r, m
    <3> QED BY <1>1, <2>1, RoleKeeps
  <2> QED BY <1>2, <2>2 DEF Advances, Role!Go
<1>3. CASE Role!Fails(c)
  BY <1>3, Failing
<1> QED BY <1>2, <1>3 DEF Role!Role, Role!Canceled

\* The loaded root is the canonical one.
LEMMA LoadActs ==
  ASSUME NEW c \in Commands, Working(c), Role!Load(c)
  PROVE  Advances(c)
<1> DEFINE r == command[c] q == [r EXCEPT !.at = "admit", !.root = <<Root>>]
<1>1. r \in Records /\ CommandInv(c, r) /\ DiskTyped /\ TreeShape /\ r.at = "load"
  BY DEF Working, Role!Load
<1>2. Role!Real(Spelling) = <<Root>>
  BY <1>1, SpelledRoot
<1>3. q \in Records /\ CommandInv(c, q)
  <2> HIDE DEF r
  <2> QED BY <1>1, LoadKeeps
<1>4. CASE Role!Fails(c)
  BY <1>4, Failing
<1>5. CASE Role!Go(c, [r EXCEPT !.at = "admit", !.root = Role!Real(Spelling)])
  BY <1>2, <1>3, <1>5 DEF Advances, Role!Go
<1> QED BY <1>4, <1>5 DEF Role!Load, Role!Canceled

\* The physical owners are recorded.
LEMMA AdmitActs ==
  ASSUME NEW c \in Commands, Working(c), Role!Admit(c)
  PROVE  Advances(c)
<1> DEFINE r == command[c] S == {".", "roles", r.marker}
           o == [w \in S |-> Role!Identity(Role!Lstat(Role!Path(r.root, w)))]
           q == [r EXCEPT !.owners = o, !.at = "identity", !.then = "controls", !.calm = TRUE]
<1>1. r \in Records /\ CommandInv(c, r) /\ DiskTyped /\ TreeShape /\ r.at = "admit"
  BY DEF Working, Role!Admit
<1>2. CASE Role!Fails(c)
  BY <1>2, Failing
<1>3. ASSUME Role!PhysicalDirectory(Role!Path(r.root, ".")),
             Role!PhysicalDirectory(Role!Path(r.root, "roles")),
             Role!Go(c, Role!Validated([r EXCEPT !.owners = o], "controls"))
      PROVE  Advances(c)
  <2>1. r.root \in Roots /\ r.marker \in Role!MarkerNames
    BY <1>1 DEF CommandInv, Planned, Aim
  <2>2. /\ o["."].node = Role!Lstat(Role!Path(r.root, "."))
        /\ o["roles"].node = Role!Lstat(Role!Path(r.root, "roles"))
    BY DEF Role!Identity
  <2>3. o["."].node \in Role!Directories /\ o["roles"].node \in Role!Directories
    BY <1>3, <2>2 DEF Role!PhysicalDirectory
  <2>4. Role!Lstat(Role!Path(r.root, r.marker)) \in Role!Nodes
    <3>1. Role!Path(r.root, r.marker) = Append(r.root, r.marker)
      BY <2>1, Things DEF Role!Path, Role!MarkerNames, Leaves
    <3>2. Role!Real(r.root) = r.root /\ r.root \in Paths
      BY <1>3, <2>1, OwnerPaths DEF Role!PhysicalDirectory
    <3>3. r.marker \in Role!Names
      BY <2>1 DEF Role!Names
    <3>4. Role!Lstat(Append(r.root, r.marker)) = Under(Role!Below(Role!Top, r.root), r.marker)
      BY <3>2, <3>3, LstatBelow
    <3> QED BY <1>1, <3>1, <3>3, <3>4 DEF Under, DiskTyped, Role!Nodes
  <2>5. \A w \in S : Role!Lstat(Role!Path(r.root, w)) \in Role!Nodes
    BY <2>2, <2>3, <2>4 DEF Role!Nodes
  <2>6. \A w \in S : Role!Identity(Role!Lstat(Role!Path(r.root, w))) \in [node : Role!Nodes, mode : 0..1]
    BY <1>1, <2>5 DEF Role!Identity, DiskTyped
  <2>7. S \in SUBSET Keys
    BY <2>1 DEF Keys
  <2>8. o \in Owners
    <3>1. o \in [S -> [node : Role!Nodes, mode : 0..1]]
      BY <2>6
    <3> HIDE DEF S, o
    <3> QED BY <2>7, <3>1 DEF Owners
  <2>9. q \in Records /\ CommandInv(c, q)
    <3>1. "." \in DOMAIN o /\ "roles" \in DOMAIN o
      OBVIOUS
    <3> HIDE DEF r, S, o
    <3> QED BY <1>1, <2>3, <2>8, <3>1, AdmitKeeps
  <2>10. Role!Validated([r EXCEPT !.owners = o], "controls") = q
    BY DEF Role!Validated
  <2> QED BY <1>3, <2>9, <2>10 DEF Advances, Role!Go
<1> QED BY <1>2, <1>3 DEF Role!Admit

\* The spelling still leads to the recorded root.
LEMMA IdentityActs ==
  ASSUME NEW c \in Commands, Working(c), Role!ValidateIdentity(c)
  PROVE  Advances(c)
<1> DEFINE r == command[c] q == [r EXCEPT !.at = "owners"]
<1>1. r \in Records /\ CommandInv(c, r) /\ DiskTyped /\ TreeShape /\ r.at = "identity"
  BY DEF Working, Role!ValidateIdentity
<1>2. CASE Role!Fails(c)
  BY <1>2, Failing
<1>3. ASSUME Role!Real(Spelling) = r.root, Role!At(c, "owners")
      PROVE  Advances(c)
  <2>1. r.root = <<Root>>
    BY <1>1, <1>3, SpelledRoot
  <2>2. q \in Records /\ CommandInv(c, q)
    <3> HIDE DEF r
    <3> QED BY <1>1, <2>1, IdentityKeeps
  <2> QED BY <1>3, <2>2 DEF Advances, Role!At, Role!Go
<1> QED BY <1>2, <1>3 DEF Role!ValidateIdentity, Role!Canceled

\* Every recorded owner is still there.
LEMMA OwnersAct ==
  ASSUME NEW c \in Commands, Working(c), Role!ValidateOwners(c)
  PROVE  Advances(c)
<1> DEFINE r == command[c] q == [r EXCEPT !.at = r.then]
<1>1. r \in Records /\ CommandInv(c, r) /\ DiskTyped /\ TreeShape /\ r.at = "owners"
  BY DEF Working, Role!ValidateOwners
<1>2. CASE Role!Fails(c)
  BY <1>2, Failing
<1>3. ASSUME Role!OwnersHold(r), Role!HandlesHold(r), Role!At(c, r.then)
      PROVE  Advances(c)
  <2>1. q \in Records /\ CommandInv(c, q)
    <3> HIDE DEF r
    <3> QED BY <1>1, <1>3, OwnersKeep
  <2> QED BY <1>3, <2>1 DEF Advances, Role!At, Role!Go
<1> QED BY <1>2, <1>3 DEF Role!ValidateOwners

\* The controls and the targets are looked at.
LEMMA LooksAct ==
  ASSUME NEW c \in Commands, Working(c), Role!Controls(c) \/ Role!Targets(c)
  PROVE  Advances(c)
<1> DEFINE r == command[c]
<1>1. r \in Records /\ CommandInv(c, r) /\ DiskTyped /\ TreeShape
  BY DEF Working
<1>2. CASE Role!Fails(c)
  BY <1>2, Failing
<1>3. ASSUME r.at = "controls", Role!At(c, "targets")
      PROVE  Advances(c)
  <2> DEFINE q == [r EXCEPT !.at = "targets"]
  <2>1. q \in Records /\ CommandInv(c, q)
    <3> HIDE DEF r
    <3> QED BY <1>1, <1>3, ProceedKeeps
  <2> QED BY <1>3, <2>1 DEF Advances, Role!At, Role!Go
<1>4. ASSUME r.at = "targets", Role!At(c, "openRoot")
      PROVE  Advances(c)
  <2> DEFINE q == [r EXCEPT !.at = "openRoot"]
  <2>1. q \in Records /\ CommandInv(c, q)
    <3> HIDE DEF r
    <3> QED BY <1>1, <1>4, ProceedKeeps
  <2> QED BY <1>4, <2>1 DEF Advances, Role!At, Role!Go
<1>5. ASSUME r.at = "targets", Role!At(c, "preview")
      PROVE  Advances(c)
  <2> DEFINE q == [r EXCEPT !.at = "preview"]
  <2>1. q \in Records /\ CommandInv(c, q)
    <3> HIDE DEF r
    <3> QED BY <1>1, <1>5, ProceedKeeps
  <2> QED BY <1>5, <2>1 DEF Advances, Role!At, Role!Go
<1>6. CASE Role!Controls(c)
  BY <1>2, <1>3, <1>6 DEF Role!Controls, Role!Canceled
<1>7. CASE Role!Targets(c)
  BY <1>2, <1>4, <1>5, <1>7 DEF Role!Targets
<1> QED BY <1>6, <1>7

\* The preview ends the command or is followed by the writing.
LEMMA PreviewActs ==
  ASSUME NEW c \in Commands, Working(c), Role!Preview(c)
  PROVE  Advances(c)
<1> DEFINE r == command[c] q == [r EXCEPT !.at = "done", !.exit = 0]
           s == [r EXCEPT !.previewed = TRUE, !.at = "identity", !.then = "controls", !.calm = TRUE]
<1>1. r \in Records /\ CommandInv(c, r) /\ DiskTyped /\ TreeShape /\ r.at = "preview"
  BY DEF Working, Role!Preview
<1>2. CASE Role!Fails(c)
  BY <1>2, Failing
<1>3. ASSUME ~r.options.write, Role!Go(c, q)
      PROVE  Advances(c)
  <2>1. q \in Records /\ CommandInv(c, q)
    <3> HIDE DEF r
    <3> QED BY <1>1, <1>3, PreviewEnds
  <2> QED BY <1>3, <2>1 DEF Advances, Role!Go
<1>4. ASSUME Role!Go(c, Role!Validated([r EXCEPT !.previewed = TRUE], "controls"))
      PROVE  Advances(c)
  <2>1. s \in Records /\ CommandInv(c, s)
    <3> HIDE DEF r
    <3> QED BY <1>1, PreviewKeeps
  <2>2. Role!Validated([r EXCEPT !.previewed = TRUE], "controls") = s
    BY DEF Role!Validated
  <2> QED BY <1>4, <2>1, <2>2 DEF Advances, Role!Go
<1> QED BY <1>2, <1>3, <1>4 DEF Role!Preview

\* The root and the roles are opened.
LEMMA OpensAct ==
  ASSUME NEW c \in Commands, Working(c), Role!OpenRoot(c) \/ Role!OpenRoles(c)
  PROVE  Advances(c)
<1> DEFINE r == command[c]
<1>1. r \in Records /\ CommandInv(c, r) /\ DiskTyped /\ TreeShape
  BY DEF Working
<1>2. CASE Role!Fails(c)
  BY <1>2, Failing
<1>3. ASSUME r.at = "openRoot", NEW h \in Role!Directories,
             Role!Go(c, [r EXCEPT !.at = "openRoles", !.rootHandle = h])
      PROVE  Advances(c)
  <2> DEFINE q == [r EXCEPT !.at = "openRoles", !.rootHandle = h]
  <2>1. q \in Records /\ CommandInv(c, q)
    <3> HIDE DEF r
    <3> QED BY <1>1, <1>3, OpenRootKeeps
  <2> QED BY <1>3, <2>1 DEF Advances, Role!Go
<1>4. ASSUME r.at = "openRoles", NEW h \in Role!Directories,
             Role!Go(c, Role!Validated([r EXCEPT !.rolesHandle = h], "makeRole"))
      PROVE  Advances(c)
  <2> DEFINE q == [r EXCEPT !.rolesHandle = h, !.at = "identity", !.then = "makeRole", !.calm = TRUE]
  <2>1. q \in Records /\ CommandInv(c, q)
    <3> HIDE DEF r
    <3> QED BY <1>1, <1>4, OpenRolesKeeps
  <2>2. Role!Validated([r EXCEPT !.rolesHandle = h], "makeRole") = q
    BY DEF Role!Validated
  <2> QED BY <1>4, <2>1, <2>2 DEF Advances, Role!Go
<1>5. CASE Role!OpenRoot(c)
  BY <1>2, <1>3, <1>5 DEF Role!OpenRoot
<1>6. CASE Role!OpenRoles(c)
  <2>1. Role!OpenedBelow(r.rootHandle, "roles") \in Role!Directories \cup {Role!None}
    BY DEF Role!OpenedBelow
  <2> QED BY <1>2, <1>4, <1>6, <2>1 DEF Role!OpenRoles
<1> QED BY <1>5, <1>6

\* Recording what a name held just now, beside the owners there are.
LEMMA Recorded ==
  ASSUME DiskTyped, NEW r \in Records, NEW w \in Keys, NEW n \in Role!Nodes
  PROVE  LET o == [v \in DOMAIN r.owners \cup {w} |->
                     IF v = w THEN Role!Identity(n) ELSE r.owners[v]]
         IN  o \in Owners
<1> DEFINE N == [node : Role!Nodes, mode : 0..1]
           o == [v \in DOMAIN r.owners \cup {w} |->
                   IF v = w THEN Role!Identity(n) ELSE r.owners[v]]
<1>1. PICK S \in SUBSET Keys : r.owners \in [S -> N]
  BY DEF Records, Owners
<1>2. Role!Identity(n) \in N
  BY DEF Role!Identity, DiskTyped
<1>3. o \in [S \cup {w} -> N]
  <2> HIDE DEF N
  <2> QED BY <1>1, <1>2
<1>4. S \cup {w} \in SUBSET Keys
  BY <1>1
<1> HIDE DEF o
<1> QED BY <1>3, <1>4 DEF Owners, o

\* The owner of the new role is read back.
LEMMA ReadRoleActs ==
  ASSUME NEW c \in Commands, Working(c), Role!ReadRole(c)
  PROVE  Advances(c)
<1> DEFINE r == command[c] n == entry[r.rolesHandle]["app"]
           o == [w \in DOMAIN r.owners \cup {"role"} |->
                   IF w = "role" THEN Role!Identity(n) ELSE r.owners[w]]
           q == [r EXCEPT !.owners = o, !.at = "openRole"]
<1>1. r \in Records /\ CommandInv(c, r) /\ DiskTyped /\ TreeShape /\ r.at = "readRole"
  BY DEF Working, Role!ReadRole
<1>2. CASE Role!Fails(c)
  BY <1>2, Failing
<1>3. ASSUME Role!Go(c, [r EXCEPT !.at = "openRole", !.owners = o])
      PROVE  Advances(c)
  <2>1. n \in Role!Nodes
    <3>1. r.rolesHandle \in Role!Directories
      BY <1>1 DEF CommandInv, Held, Aim, Writing
    <3> QED BY <1>1, <3>1, Nodes DEF DiskTyped
  <2>2. o \in Owners
    <3> HIDE DEF r, n
    <3>1. "role" \in Keys
      BY DEF Keys
    <3> QED BY <1>1, <2>1, <3>1, Recorded
  <2>3. /\ DOMAIN o = DOMAIN r.owners \cup {"role"}
        /\ \A w \in DOMAIN r.owners \ {"role"} : o[w] = r.owners[w]
        /\ o["role"].node = n
    BY DEF Role!Identity
  <2>4. q \in Records /\ CommandInv(c, q)
    <3> HIDE DEF r, o
    <3> QED BY <1>1, <2>2, <2>3, ReadRoleKeeps
  <2>5. [r EXCEPT !.at = "openRole", !.owners = o] = q
    <3> HIDE DEF o
    <3> QED BY <1>1 DEF Records
  <2> QED BY <1>3, <2>4, <2>5 DEF Advances, Role!Go
<1> QED BY <1>2, <1>3, Things DEF Role!ReadRole

\* The new role is opened.
LEMMA OpenRoleActs ==
  ASSUME NEW c \in Commands, Working(c), Role!OpenRole(c)
  PROVE  Advances(c)
<1> DEFINE r == command[c] h == Role!OpenedBelow(r.rolesHandle, "app")
           q == [r EXCEPT !.roleHandle = h, !.file = 1, !.at = "identity",
                          !.then = "makeLeaf", !.calm = TRUE]
<1>1. r \in Records /\ CommandInv(c, r) /\ DiskTyped /\ TreeShape /\ r.at = "openRole"
  BY DEF Working, Role!OpenRole
<1>2. CASE Role!Fails(c)
  BY <1>2, Failing
<1>3. ASSUME h # Role!None, h = r.owners["role"].node,
             Role!Go(c, Role!Validated([r EXCEPT !.roleHandle = h, !.file = 1], "makeLeaf"))
      PROVE  Advances(c)
  <2>1. h \in Role!Directories
    BY <1>3 DEF Role!OpenedBelow
  <2>2. q \in Records /\ CommandInv(c, q)
    <3> HIDE DEF r, h
    <3> QED BY <1>1, <1>3, <2>1, OpenRoleKeeps
  <2>3. Role!Validated([r EXCEPT !.roleHandle = h, !.file = 1], "makeLeaf") = q
    BY DEF Role!Validated
  <2> QED BY <1>3, <2>2, <2>3 DEF Advances, Role!Go
<1> QED BY <1>2, <1>3, Things DEF Role!OpenRole

\* The owner of a new directory of the role is read back.
LEMMA ReadLeafActs ==
  ASSUME NEW c \in Commands, Working(c), Role!ReadLeaf(c)
  PROVE  Advances(c)
<1> DEFINE r == command[c] f == Role!Leaf(r) n == entry[r.roleHandle][f]
           o == [w \in DOMAIN r.owners \cup {f} |->
                   IF w = f THEN Role!Identity(n) ELSE r.owners[w]]
           q == [r EXCEPT !.owners = o, !.at = "identity", !.then = "makeFile", !.calm = TRUE]
<1>1. r \in Records /\ CommandInv(c, r) /\ DiskTyped /\ TreeShape /\ r.at = "readLeaf"
  BY DEF Working, Role!ReadLeaf
<1>2. CASE Role!Fails(c)
  BY <1>2, Failing
<1>3. ASSUME Role!Go(c, Role!Validated([r EXCEPT !.owners = o], "makeFile"))
      PROVE  Advances(c)
  <2>1. n \in Role!Nodes /\ f \in Keys
    <3>1. r.roleHandle \in Role!Directories /\ r.file \in 1..2
      BY <1>1 DEF CommandInv, Held, Aim, Inside
    <3>2. f \in Leaves
      BY <3>1, Things DEF Role!Leaf, Leaves
    <3> QED BY <1>1, <3>1, <3>2, Nodes DEF DiskTyped, Leaves, Keys
  <2>2. o \in Owners
    <3> HIDE DEF r, n, f
    <3> QED BY <1>1, <2>1, Recorded
  <2>3. /\ DOMAIN o = DOMAIN r.owners \cup {f}
        /\ \A w \in DOMAIN r.owners \ {f} : o[w] = r.owners[w]
        /\ o[f].node = n
    BY DEF Role!Identity
  <2>4. q \in Records /\ CommandInv(c, q)
    <3> HIDE DEF r, o
    <3> QED BY <1>1, <2>2, <2>3, ReadLeafKeeps
  <2>5. Role!Validated([r EXCEPT !.owners = o], "makeFile") = q
    BY DEF Role!Validated
  <2> QED BY <1>3, <2>4, <2>5 DEF Advances, Role!Go
<1> QED BY <1>2, <1>3 DEF Role!ReadLeaf

\* Exit status 0, unless the report cannot be printed.
LEMMA SuccessActs ==
  ASSUME NEW c \in Commands, Working(c), Role!Success(c)
  PROVE  Advances(c)
<1> DEFINE r == command[c] q == [r EXCEPT !.at = "done", !.exit = 0]
<1>1. r \in Records /\ CommandInv(c, r) /\ DiskTyped /\ TreeShape /\ r.at = "success"
  BY DEF Working, Role!Success
<1>2. q \in Records /\ CommandInv(c, q)
  <2> HIDE DEF r
  <2> QED BY <1>1, SuccessKeeps
<1>3. CASE Role!Fails(c)
  BY <1>3, Failing
<1>4. CASE Role!Go(c, q)
  BY <1>2, <1>4 DEF Advances, Role!Go
<1> QED BY <1>3, <1>4 DEF Role!Success


-----------------------------------------------------------------------------
(***************************************************************************)
(* The steps of a command that create something.                           *)
(***************************************************************************)

\* The nodes that may lie under a name.
MayLie(d, n, x) ==
  /\ x # Role!Top
  /\ x = ToProject => d = Role!Top /\ n = "spelling"
  /\ x = ToOther => d = Role!Top
  /\ x = ToOtherRoles => d \notin {Role!Top, Role!Decoy.project}
  /\ d = Role!Top => n # "other"
  /\ d = Role!Decoy.project => n # "roles"
  /\ d = Role!Top /\ n = "project" =>
       x \in {Role!None, Role!Original.project, Role!Decoy.project, ToOther}
  /\ d = Role!Top /\ n = "spelling" => x \in {ToProject, ToOther}

Put(d, n, x) == entry' = [entry EXCEPT ![d][n] = x]

\* A node put under a name keeps the shape of the tree, when it may lie there.
LEMMA ShapeKept ==
  ASSUME DiskTyped, TreeShape, NEW d \in Role!Directories, NEW n \in Role!Names,
         NEW x \in Role!Nodes, MayLie(d, n, x), Put(d, n, x)
  PROVE  /\ TreeShape' /\ entry' \in [Role!Directories -> [Role!Names -> Role!Nodes]]
         /\ entry'[d][n] = x
         /\ \A e \in Role!Directories, m \in Role!Names :
              e # d \/ m # n => entry'[e][m] = entry[e][m]
<1>1. entry \in [Role!Directories -> [Role!Names -> Role!Nodes]]
  BY DEF DiskTyped
<1>2. entry' \in [Role!Directories -> [Role!Names -> Role!Nodes]]
  BY <1>1 DEF Put
<1>3. entry'[d][n] = x
  BY <1>1 DEF Put
<1>4. ASSUME NEW e \in Role!Directories, NEW m \in Role!Names, e # d \/ m # n
      PROVE  entry'[e][m] = entry[e][m]
  BY <1>1, <1>4 DEF Put
<1>5. \A e \in Role!Directories, m \in Role!Names :
        /\ entry'[e][m] # Role!Top
        /\ entry'[e][m] = ToProject => e = Role!Top /\ m = "spelling"
        /\ entry'[e][m] = ToOther => e = Role!Top
        /\ entry'[e][m] = ToOtherRoles => e \notin {Role!Top, Role!Decoy.project}
  BY <1>3, <1>4 DEF TreeShape, MayLie
<1>6. /\ entry'[Role!Top]["other"] = Role!Decoy.project
      /\ entry'[Role!Top]["project"] \in
           {Role!None, Role!Original.project, Role!Decoy.project, ToOther}
      /\ entry'[Role!Top]["spelling"] \in {ToProject, ToOther}
      /\ entry'[Role!Decoy.project]["roles"] = Role!Decoy.roles
  BY <1>3, <1>4, Nodes DEF TreeShape, MayLie
<1> QED BY <1>2, <1>3, <1>4, <1>5, <1>6 DEF TreeShape

\* A node of a command put where nothing is.
LEMMA Filling ==
  ASSUME DiskTyped, TreeShape, NEW c \in Commands, NEW d \in Role!Directories,
         NEW n \in {"app", "main.yml"} \cup Leaves, NEW w, Role!Made(c, w) \in Role!Nodes,
         entry[d][n] = Role!None, entry' = [entry EXCEPT ![d][n] = Role!Made(c, w)],
         UNCHANGED <<mode, left>>
  PROVE  Grows /\ DiskTyped' /\ TreeShape' /\ entry'[d][n] = Role!Made(c, w)
<1>1. n \in Role!Names /\ n \notin {"other", "project", "spelling", "roles"}
  BY Nodes DEF Leaves
<1> DEFINE x == Role!Made(c, w)
<1>2. x \in Role!Nodes /\ x # Role!Top /\ x \notin {ToProject, ToOther, ToOtherRoles}
      /\ entry' = [entry EXCEPT ![d][n] = x]
  BY MadeNodes, Nodes
<1>3. /\ TreeShape' /\ entry' \in [Role!Directories -> [Role!Names -> Role!Nodes]]
      /\ entry'[d][n] = x
      /\ \A e \in Role!Directories, m \in Role!Names :
           e # d \/ m # n => entry'[e][m] = entry[e][m]
  <2> HIDE DEF x
  <2>1. MayLie(d, n, x) /\ Put(d, n, x)
    BY <1>1, <1>2 DEF MayLie, Put
  <2> QED BY <1>1, <1>2, <2>1, ShapeKept
<1>4. Grows
  BY <1>1, <1>3, Nodes DEF Grows
<1> QED BY <1>3, <1>4 DEF DiskTyped

\* The list of the created paths accounts for what was made.
Tally(c, made, created) ==
  /\ made \in SUBSET Makings /\ created \in Lists
  /\ IsFiniteSet(made) /\ Cardinality(made) = Len(created)
  /\ {m.node : m \in made} = {Role!Made(c, v) : v \in {created[i] : i \in DOMAIN created}}

\* A list is its front with its last element.
LEMMA Appended ==
  ASSUME NEW p \in Seq(Words), NEW t \in Seq(Words), Len(t) = Len(p) + 1,
         \A i \in 1..Len(p) : t[i] = p[i]
  PROVE  Append(p, t[Len(t)]) = t
<1> DEFINE d == t[Len(t)] q == Append(p, d)
<1>1. d \in Words
  OBVIOUS
<1> HIDE DEF d
<1>2. q \in Seq(Words) /\ Len(q) = Len(p) + 1 /\ Len(p) \in Nat
  BY <1>1
<1>3. q[Len(p) + 1] = d /\ \A i \in 1..Len(p) : q[i] = p[i]
  BY <1>1
<1>4. \A i \in 1..Len(q) : q[i] = t[i]
  <2> HIDE DEF q
  <2> QED BY <1>2, <1>3 DEF d
<1>5. q = t
  <2> HIDE DEF q
  <2> QED BY <1>2, <1>4
<1> QED BY <1>5 DEF d
\* The lists of a command, one name longer each time.
LEMMA Lengthened ==
  /\ Append(<<"role">>, "defaults") = <<"role", "defaults">>
  /\ Append(<<"role", "defaults">>, "defaults/main.yml") =
       <<"role", "defaults", "defaults/main.yml">>
  /\ Append(<<"role", "defaults", "defaults/main.yml">>, "tasks") =
       <<"role", "defaults", "defaults/main.yml", "tasks">>
  /\ Append(<<"role", "defaults", "defaults/main.yml", "tasks">>, "tasks/main.yml") =
       <<"role", "defaults", "defaults/main.yml", "tasks", "tasks/main.yml">>
<1> DEFINE A == <<"role">>  B == <<"role", "defaults">>
           C == <<"role", "defaults", "defaults/main.yml">>
           D == <<"role", "defaults", "defaults/main.yml", "tasks">>
           E == <<"role", "defaults", "defaults/main.yml", "tasks", "tasks/main.yml">>
<1>1. {A, B, C, D, E} \subseteq Seq(Words)
  BY DEF Words
<1>2. /\ Len(B) = Len(A) + 1 /\ \A i \in 1..Len(A) : B[i] = A[i]
      /\ B[Len(B)] = "defaults"
  OBVIOUS
<1>3. /\ Len(C) = Len(B) + 1 /\ \A i \in 1..Len(B) : C[i] = B[i]
      /\ C[Len(C)] = "defaults/main.yml"
  OBVIOUS
<1>4. /\ Len(D) = Len(C) + 1 /\ \A i \in 1..Len(C) : D[i] = C[i]
      /\ D[Len(D)] = "tasks"
  OBVIOUS
<1>5. /\ Len(E) = Len(D) + 1 /\ \A i \in 1..Len(D) : E[i] = D[i]
      /\ E[Len(E)] = "tasks/main.yml"
  OBVIOUS
<1> HIDE DEF A, B, C, D, E
<1>6. /\ Append(A, B[Len(B)]) = B /\ Append(B, C[Len(C)]) = C
      /\ Append(C, D[Len(D)]) = D /\ Append(D, E[Len(E)]) = E
  BY <1>1, <1>2, <1>3, <1>4, <1>5, Appended
<1>7. /\ Append(A, "defaults") = B /\ Append(B, "defaults/main.yml") = C
      /\ Append(C, "tasks") = D /\ Append(D, "tasks/main.yml") = E
  BY <1>2, <1>3, <1>4, <1>5, <1>6
<1> QED BY <1>7 DEF A, B, C, D, E
\* One more thing made, one more path reported.
LEMMA Tallied ==
  ASSUME NEW c \in Commands, NEW r \in Records, Counted(c, r), NEW d \in Role!Directories,
         NEW w \in {"role", "defaults", "tasks", "defaults/main.yml", "tasks/main.yml"},
         w \notin {r.created[i] : i \in DOMAIN r.created}
  PROVE  Tally(c, r.made \cup {[node |-> Role!Made(c, w), in |-> d]}, Append(r.created, w))
<1> DEFINE new == [node |-> Role!Made(c, w), in |-> d]
           made == r.made \cup {new}  created == Append(r.created, w)
<1>1. r.made \in SUBSET Makings /\ r.created \in Lists
  BY DEF Records
<1>2. IsFiniteSet(r.made) /\ Cardinality(r.made) = Len(r.created)
      /\ {m.node : m \in r.made} =
           {Role!Made(c, v) : v \in {r.created[i] : i \in DOMAIN r.created}}
  BY DEF Counted
<1>3. new.node = Role!Made(c, w) /\ new.node \in Role!Nodes /\ new \in Makings
  <2>1. Role!Made(c, w) \in Role!Nodes
    BY MadeNodes, Things DEF Leaves
  <2> QED BY <2>1 DEF Makings
<1>4. new \notin r.made
  <2> SUFFICES ASSUME new \in r.made PROVE FALSE
    OBVIOUS
  <2>1. Role!Made(c, w) \in {Role!Made(c, v) : v \in {r.created[i] : i \in DOMAIN r.created}}
    BY <1>2, <1>3
  <2>2. PICK v \in {r.created[i] : i \in DOMAIN r.created} : Role!Made(c, w) = Role!Made(c, v)
    BY <2>1
  <2> QED BY <2>2, MadeNodes
<1>5. created \in Lists /\ Len(created) = Len(r.created) + 1
      /\ {created[i] : i \in DOMAIN created} = {r.created[i] : i \in DOMAIN r.created} \cup {w}
  <2>1. created \in Lists /\ Len(created) = Len(r.created) + 1 /\ Len(r.created) \in Nat
        /\ created[Len(r.created) + 1] = w
        /\ \A i \in 1..Len(r.created) : created[i] = r.created[i]
    BY <1>1 DEF Lists, Words
  <2>2. DOMAIN created = 1..(Len(r.created) + 1) /\ DOMAIN r.created = 1..Len(r.created)
    BY <1>1 DEF Lists, Words
  <2> HIDE DEF created
  <2> QED BY <2>1, <2>2
<1>6. IsFiniteSet(made) /\ Cardinality(made) = Cardinality(r.made) + 1
  <2> HIDE DEF new
  <2> QED BY <1>2, <1>4, FS_AddElement
<1>7. made \in SUBSET Makings
  BY <1>1, <1>3
<1>8. {m.node : m \in made} = {m.node : m \in r.made} \cup {Role!Made(c, w)}
  <2> HIDE DEF new
  <2> QED BY <1>3
<1>9. {m.node : m \in made} = {Role!Made(c, v) : v \in {created[i] : i \in DOMAIN created}}
  <2> HIDE DEF made, created
  <2> QED BY <1>2, <1>5, <1>8
<1> QED BY <1>2, <1>5, <1>6, <1>7, <1>9 DEF Tally

\* The record of a command that has made its role.
LEMMA MakeRoleKeeps ==
  ASSUME DiskTyped, TreeShape, Grows, NEW c \in Commands, NEW r \in Records, CommandInv(c, r),
         r.at = "makeRole", entry'[r.rolesHandle]["app"] = Role!Made(c, "role")
  PROVE  LET q == [r EXCEPT !.at = "readRole", !.created = Append(r.created, "role"),
                            !.made = r.made \cup {[node |-> Role!Made(c, "role"),
                                                   in |-> r.rolesHandle]}]
         IN  q \in Records /\ CommandInv(c, q)'
<1> DEFINE made == r.made \cup {[node |-> Role!Made(c, "role"), in |-> r.rolesHandle]}
           created == Append(r.created, "role")
           q == [r EXCEPT !.at = "readRole", !.created = created, !.made = made]
<1>1. r.rolesHandle \in Role!Directories /\ r.rolesHandle = r.owners["roles"].node
  BY DEF CommandInv, Held, Aim
<1>2. r.created = <<>>
  BY DEF CommandInv, Counted, Aim, ListOf
<1>3. Tally(c, made, created)
  <2>1. "role" \notin {r.created[i] : i \in DOMAIN r.created}
    BY <1>2
  <2> QED BY <1>1, <2>1, Tallied DEF CommandInv
<1>4. created = <<"role">>
  BY <1>2
<1> HIDE DEF created
<1>5. ASSUME NEW m \in made
      PROVE  m \in r.made \/ (m.node = Role!Made(c, "role") /\ m.in = r.rolesHandle)
  OBVIOUS
<1> HIDE DEF made
<1>6. q \in Records
  BY <1>3 DEF Records, Places, Tally
<1>7. /\ q.at = "readRole" /\ q.created = created /\ q.made = made
      /\ q.then = r.then /\ q.root = r.root /\ q.marker = r.marker /\ q.owners = r.owners
      /\ q.rolesHandle = r.rolesHandle /\ q.roleHandle = r.roleHandle /\ q.file = r.file
      /\ q.calm = r.calm /\ q.gapped = r.gapped
  BY DEF Records
<1> HIDE DEF q
<1>8. CommandInv(c, r)'
  BY CommandGrows
<1>9. Planned(q)'
  BY <1>7 DEF CommandInv, Planned, Aim, Aims, Places, Admitted, Writing
<1>10. Held(q)'
  BY <1>1, <1>7 DEF Held, Aim, Inside
<1>11. Owned(c, q)'
  BY <1>7 DEF Owned, Aim, Inside
<1>12. Counted(c, q)'
  BY <1>3, <1>4, <1>7 DEF Counted, ListOf, Aim, Tally
<1>13. Placed(c, q)'
  <2>1. Placed(c, r)'
    BY <1>8 DEF CommandInv
  <2>2. ASSUME NEW m \in q.made
        PROVE  m \in r.made \/ (m.node = Role!Made(c, "role") /\ m.in = r.owners["roles"].node)
    BY <1>1, <1>5, <1>7
  <2>3. \A f \in Leaves : /\ Role!Made(c, "role") # Role!Made(c, f)
                          /\ Role!Made(c, "role") # Role!Made(c, Role!MainFile[f])
    BY MadeNodes, Things DEF Leaves
  <2> QED BY <1>7, <2>1, <2>2, <2>3 DEF Placed, Laid
<1>14. Reached(c, q)'
  BY <1>7 DEF Reached
<1>15. q \in Records /\ CommandInv(c, q)'
  BY <1>6, <1>9, <1>10, <1>11, <1>12, <1>13, <1>14 DEF CommandInv
<1> QED BY <1>15 DEF q, made, created


\* The record of a command that has made a directory of its role.
LEMMA MakeLeafKeeps ==
  ASSUME DiskTyped, TreeShape, Grows, NEW c \in Commands, NEW r \in Records, CommandInv(c, r),
         r.at = "makeLeaf", entry'[r.roleHandle][Role!Leaf(r)] = Role!Made(c, Role!Leaf(r))
  PROVE  LET q == [r EXCEPT !.at = "readLeaf", !.created = Append(r.created, Role!Leaf(r)),
                            !.made = r.made \cup {[node |-> Role!Made(c, Role!Leaf(r)),
                                                   in |-> r.roleHandle]}]
         IN  q \in Records /\ CommandInv(c, q)'
<1> DEFINE w == Role!Leaf(r)
           made == r.made \cup {[node |-> Role!Made(c, w), in |-> r.roleHandle]}
           created == Append(r.created, w)
           q == [r EXCEPT !.at = "readLeaf", !.created = created, !.made = made]
<1>1. /\ r.roleHandle \in Role!Directories /\ r.roleHandle = r.owners["role"].node
      /\ r.file \in 1..2 /\ "role" \in DOMAIN r.owners
      /\ r.gapped \/ r.owners["role"].node = Role!Made(c, "role")
  BY DEF CommandInv, Held, Owned, Aim, Inside
<1>2. \/ r.file = 1 /\ w = "defaults" /\ r.created = <<"role">>
      \/ r.file = 2 /\ w = "tasks" /\ r.created = <<"role", "defaults", "defaults/main.yml">>
  BY <1>1, Things DEF CommandInv, Counted, Aim, ListOf, Role!Leaf
<1>3. w \in Leaves
  BY <1>2 DEF Leaves
<1> HIDE DEF w
<1>4. Tally(c, made, created)
  <2>1. w \notin {r.created[i] : i \in DOMAIN r.created}
    <3>1. CASE r.created = <<"role">>
      BY <1>3, <3>1 DEF Leaves
    <3>2. CASE w = "tasks" /\ r.created = <<"role", "defaults", "defaults/main.yml">>
      BY <3>2
    <3> QED BY <1>2, <3>1, <3>2
  <2>2. w \in {"role", "defaults", "tasks", "defaults/main.yml", "tasks/main.yml"}
    BY <1>3 DEF Leaves
  <2> QED BY <1>1, <2>1, <2>2, Tallied DEF CommandInv
<1>5. \/ r.file = 1 /\ created = <<"role", "defaults">>
      \/ r.file = 2 /\ created = <<"role", "defaults", "defaults/main.yml", "tasks">>
  BY <1>2, Lengthened, Zenon
<1> HIDE DEF created
<1>6. ASSUME NEW m \in made
      PROVE  m \in r.made \/ (m.node = Role!Made(c, w) /\ m.in = r.roleHandle)
  OBVIOUS
<1> HIDE DEF made
<1>7. q \in Records
  BY <1>4 DEF Records, Places, Tally
<1>8. /\ q.at = "readLeaf" /\ q.created = created /\ q.made = made
      /\ q.then = r.then /\ q.root = r.root /\ q.marker = r.marker /\ q.owners = r.owners
      /\ q.rolesHandle = r.rolesHandle /\ q.roleHandle = r.roleHandle /\ q.file = r.file
      /\ q.calm = r.calm /\ q.gapped = r.gapped
  BY DEF Records
<1> HIDE DEF q
<1>9. CommandInv(c, r)'
  BY CommandGrows
<1>10. Planned(q)'
  BY <1>8 DEF CommandInv, Planned, Aim, Aims, Places, Admitted, Writing
<1>11. Held(q)'
  BY <1>1, <1>8 DEF CommandInv, Held, Aim, Inside, Writing
<1>12. Owned(c, q)'
  <2>1. Role!Leaf(q) = w
    BY <1>8 DEF w, Role!Leaf
  <2>2. Read(q) = Read(r)
    BY <1>8 DEF Read, Aim
  <2>3. \A f \in Read(r) :
          f \in DOMAIN r.owners /\ (~r.gapped => r.owners[f].node = Role!Made(c, f))
    BY DEF CommandInv, Owned, Aim, Inside
  <2>4. Read(q)' = Read(q) /\ Aim(q)' = Aim(q) /\ Aim(q) = "readLeaf" /\ Role!Leaf(q)' = Role!Leaf(q)
    BY <1>8 DEF Read, Aim, Role!Leaf
  <2> QED BY <1>1, <1>8, <2>1, <2>2, <2>3, <2>4 DEF Owned, w
<1>13. Counted(c, q)'
  <2>1. q.created = ListOf(q)
    BY <1>5, <1>8 DEF ListOf, Aim
  <2> QED BY <1>4, <1>8, <2>1 DEF Counted, Tally, ListOf, Aim
<1>14. Placed(c, q)'
  <2>1. Placed(c, r)'
    BY <1>9 DEF CommandInv
  <2>2. ASSUME NEW m \in q.made
        PROVE  m \in r.made \/ (m.node = Role!Made(c, w) /\ m.in = r.owners["role"].node)
    BY <1>1, <1>6, <1>8
  <2>3. /\ Role!Made(c, w) # Role!Made(c, "role")
        /\ \A f \in Leaves : Role!Made(c, w) # Role!Made(c, Role!MainFile[f])
    BY <1>3, MadeNodes, Things DEF Leaves
  <2>4. ASSUME NEW m \in q.made, m \in r.made
        PROVE  Laid(c, q, m)'
    BY <1>8, <2>1, <2>4 DEF Placed, Laid
  <2>5. ASSUME NEW m \in q.made, m.node = Role!Made(c, w), m.in = r.owners["role"].node
        PROVE  Laid(c, q, m)'
    <3>1. m.node # Role!Made(c, "role") /\ m.in = q.owners["role"].node
          /\ \A f \in Leaves : m.node # Role!Made(c, Role!MainFile[f])
      BY <1>8, <2>3, <2>5, Zenon
    <3>2. q.gapped \/ m.in = Role!Made(c, "role")
      BY <1>1, <1>8, <2>5
    <3> QED BY <3>1, <3>2 DEF Laid
  <2> QED BY <2>2, <2>4, <2>5 DEF Placed, Laid
<1>15. Reached(c, q)'
  BY <1>8 DEF Reached
<1>16. q \in Records /\ CommandInv(c, q)'
  BY <1>7, <1>10, <1>11, <1>12, <1>13, <1>14, <1>15 DEF CommandInv
<1> QED BY <1>16 DEF q, made, created, w

\* The file, and what a command that made it goes on to: the other directory,
\* the last look, or exit status 2 when it could not be written.
FileMade(c, r, d) ==
  [r EXCEPT !.created = Append(r.created, Role!MainFile[Role!Leaf(r)]),
            !.made = r.made \cup {[node |-> Role!Made(c, Role!MainFile[Role!Leaf(r)]), in |-> d]}]

Unwritten(c, r, d) == [FileMade(c, r, d) EXCEPT !.at = "done", !.exit = 2]
NextLeaf(c, r, d) ==
  [FileMade(c, r, d) EXCEPT !.file = r.file + 1, !.at = "identity", !.then = "makeLeaf", !.calm = TRUE]
LastLook(c, r, d) == [FileMade(c, r, d) EXCEPT !.at = "identity", !.then = "success", !.calm = TRUE]

\* A record with another file.
LEMMA FileSet ==
  ASSUME NEW r \in Records, NEW n \in 0..2
  PROVE  [r EXCEPT !.file = n] \in Records
BY DEF Records

\* The record of a command that has made a file.
LEMMA MakeFileKeeps ==
  ASSUME DiskTyped, TreeShape, Grows, NEW c \in Commands, NEW r \in Records, CommandInv(c, r),
         r.at = "makeFile", NEW d \in Role!Directories, d = entry[r.roleHandle][Role!Leaf(r)],
         entry'[d]["main.yml"] = Role!Made(c, Role!MainFile[Role!Leaf(r)]),
         NEW q, \/ q = Unwritten(c, r, d)
                \/ r.file < 2 /\ q = NextLeaf(c, r, d)
                \/ r.file = 2 /\ q = LastLook(c, r, d)
  PROVE  q \in Records /\ CommandInv(c, q)'
<1> DEFINE w == Role!Leaf(r)  v == Role!MainFile[w]
           made == r.made \cup {[node |-> Role!Made(c, v), in |-> d]}
           created == Append(r.created, v)
<1>1. /\ r.roleHandle \in Role!Directories /\ r.roleHandle = r.owners["role"].node
      /\ r.rolesHandle \in Role!Directories /\ r.rolesHandle = r.owners["roles"].node
      /\ r.file \in 1..2 /\ "role" \in DOMAIN r.owners
      /\ r.gapped \/ r.owners["role"].node = Role!Made(c, "role")
      /\ r.root \in Roots
      /\ "." \in DOMAIN r.owners /\ r.owners["."].node \in Role!Directories
      /\ "roles" \in DOMAIN r.owners /\ r.owners["roles"].node \in Role!Directories
  BY DEF CommandInv, Planned, Admitted, Held, Owned, Aim, Inside, Writing
<1>2. \/ r.file = 1 /\ w = "defaults" /\ v = "defaults/main.yml" /\ r.created = <<"role", "defaults">>
      \/ r.file = 2 /\ w = "tasks" /\ v = "tasks/main.yml"
           /\ r.created = <<"role", "defaults", "defaults/main.yml", "tasks">>
  BY <1>1, Things DEF CommandInv, Counted, Aim, ListOf, Role!Leaf
<1>3. w \in Leaves /\ v = Role!MainFile[w]
  BY <1>2 DEF Leaves
<1>4. \A f \in Read(r) :
        f \in DOMAIN r.owners /\ (~r.gapped => r.owners[f].node = Role!Made(c, f))
  BY DEF CommandInv, Owned, Aim, Inside
<1>5. w \in Read(r)
  BY <1>1 DEF Read, Role!Leaf, Aim
<1>6. r.gapped \/ d = Role!Made(c, w)
  BY <1>4, <1>5 DEF CommandInv, Owned
<1>7. entry'[d]["main.yml"] = Role!Made(c, v)
  OBVIOUS
<1>8. Unwritten(c, r, d) = [r EXCEPT !.created = created, !.made = made, !.at = "done", !.exit = 2]
      /\ NextLeaf(c, r, d) = [r EXCEPT !.created = created, !.made = made, !.file = r.file + 1,
                                       !.at = "identity", !.then = "makeLeaf", !.calm = TRUE]
      /\ LastLook(c, r, d) = [r EXCEPT !.created = created, !.made = made,
                                       !.at = "identity", !.then = "success", !.calm = TRUE]
  BY DEF Unwritten, NextLeaf, LastLook, FileMade
<1> HIDE DEF w, v
<1>9. Tally(c, made, created)
  <2>1. v \notin {r.created[i] : i \in DOMAIN r.created}
    <3>1. CASE v = "defaults/main.yml" /\ r.created = <<"role", "defaults">>
      BY <3>1
    <3>2. CASE v = "tasks/main.yml" /\ r.created = <<"role", "defaults", "defaults/main.yml", "tasks">>
      BY <3>2
    <3> QED BY <1>2, <3>1, <3>2
  <2>2. v \in {"role", "defaults", "tasks", "defaults/main.yml", "tasks/main.yml"}
    BY <1>2
  <2> QED BY <2>1, <2>2, Tallied DEF CommandInv
<1>10. \/ r.file = 1 /\ created = <<"role", "defaults", "defaults/main.yml">>
       \/ r.file = 2
            /\ created = <<"role", "defaults", "defaults/main.yml", "tasks", "tasks/main.yml">>
  BY <1>2, Lengthened, Zenon
<1> HIDE DEF created
<1>11. ASSUME NEW m \in made
       PROVE  m \in r.made \/ (m.node = Role!Made(c, v) /\ m.in = d)
  OBVIOUS
<1> HIDE DEF made
<1>12. /\ q \in Records /\ q.created = created /\ q.made = made
       /\ q.root = r.root /\ q.marker = r.marker /\ q.owners = r.owners
       /\ q.rolesHandle = r.rolesHandle /\ q.roleHandle = r.roleHandle /\ q.gapped = r.gapped
       /\ \/ q.at = "done" /\ q.exit = 2 /\ q.file = r.file
          \/ r.file < 2 /\ q.file = 2 /\ q.at = "identity" /\ q.then = "makeLeaf"
          \/ r.file = 2 /\ q.file = 2 /\ q.at = "identity" /\ q.then = "success"
  <2>1. CASE q = Unwritten(c, r, d)
    <3>1. q = [r EXCEPT !.created = created, !.made = made, !.at = "done", !.exit = 2]
      BY <1>8, <2>1
    <3> QED BY <1>9, <3>1 DEF Records, Places, Tally
  <2>2. CASE r.file < 2 /\ q = NextLeaf(c, r, d)
    <3>1. q = [r EXCEPT !.created = created, !.made = made, !.file = r.file + 1,
                        !.at = "identity", !.then = "makeLeaf", !.calm = TRUE]
      BY <1>8, <2>2
    <3>2. r.file + 1 = 2
      BY <1>1, <2>2
    <3>3. q = [r EXCEPT !.created = created, !.made = made, !.file = 2,
                        !.at = "identity", !.then = "makeLeaf", !.calm = TRUE]
      BY <3>1, <3>2
    <3>4. q \in Records
      <4> DEFINE p == [r EXCEPT !.created = created, !.made = made, !.at = "identity",
                                !.then = "makeLeaf", !.calm = TRUE]
      <4>1. p \in Records
        BY <1>9 DEF Records, Places, Tally
      <4>2. q = [p EXCEPT !.file = 2]
        BY <3>3
      <4> HIDE DEF p
      <4>3. 2 \in 0..2
        OBVIOUS
      <4>4. [p EXCEPT !.file = 2] \in Records
        BY <4>1, <4>3, FileSet, Zenon
      <4> QED BY <4>2, <4>4
    <3>5. /\ q.created = created /\ q.made = made /\ q.root = r.root /\ q.marker = r.marker
          /\ q.owners = r.owners /\ q.rolesHandle = r.rolesHandle
          /\ q.roleHandle = r.roleHandle /\ q.gapped = r.gapped
          /\ q.file = 2 /\ q.at = "identity" /\ q.then = "makeLeaf"
      BY <3>3 DEF Records
    <3> QED BY <2>2, <3>4, <3>5
  <2>3. CASE r.file = 2 /\ q = LastLook(c, r, d)
    <3>1. q = [r EXCEPT !.created = created, !.made = made,
                        !.at = "identity", !.then = "success", !.calm = TRUE]
      BY <1>8, <2>3
    <3> QED BY <1>9, <2>3, <3>1 DEF Records, Places, Tally
  <2> QED BY <2>1, <2>2, <2>3
<1>13. CommandInv(c, r)'
  BY CommandGrows
<1>14. Planned(q)'
  BY <1>1, <1>12 DEF Planned, Aim, Aims, Places, Admitted, Writing, Checked
<1>15. Held(q)'
  BY <1>1, <1>12 DEF Held, Aim, Inside, Writing
<1>16. Owned(c, q)'
  <2>1. Aim(q) \in Inside => Read(q) \subseteq Read(r)
    BY <1>1, <1>12 DEF Read, Aim, Inside
  <2>2. Read(q)' = Read(q) /\ Aim(q)' = Aim(q) /\ q.at \notin {"readRole", "readLeaf", "makeFile"}
        /\ Aim(q) # "openRole"
    BY <1>12 DEF Read, Aim
  <2> QED BY <1>1, <1>4, <1>12, <2>1, <2>2 DEF Owned
<1>17. Counted(c, q)'
  <2>1. Aim(q) # "done" => q.created = ListOf(q)
    BY <1>1, <1>10, <1>12 DEF ListOf, Aim
  <2> QED BY <1>9, <1>12, <2>1 DEF Counted, Tally, ListOf, Aim
<1>18. Placed(c, q)'
  <2>1. Placed(c, r)'
    BY <1>13 DEF CommandInv
  <2>2. ASSUME NEW m \in q.made
        PROVE  m \in r.made \/ (m.node = Role!Made(c, v) /\ m.in = d)
    BY <1>11, <1>12
  <2>3. /\ Role!Made(c, v) # Role!Made(c, "role")
        /\ \A f \in Leaves :
             /\ Role!Made(c, v) # Role!Made(c, f)
             /\ Role!Made(c, v) = Role!Made(c, Role!MainFile[f]) => f = w
    BY <1>2, <1>3, MadeNodes, Things DEF Leaves
  <2>4. ASSUME NEW m \in q.made, m \in r.made
        PROVE  Laid(c, q, m)'
    BY <1>12, <2>1, <2>4 DEF Placed, Laid
  <2>5. ASSUME NEW m \in q.made, m.node = Role!Made(c, v), m.in = d
        PROVE  Laid(c, q, m)'
    <3>1. m.node # Role!Made(c, "role") /\ \A f \in Leaves : m.node # Role!Made(c, f)
      BY <2>3, <2>5, Zenon
    <3>2. \A f \in Leaves : m.node = Role!Made(c, Role!MainFile[f]) => f = w
      BY <2>3, <2>5
    <3>3. (q.gapped \/ m.in = Role!Made(c, w)) /\ entry'[m.in]["main.yml"] = m.node
      BY <1>6, <1>7, <1>12, <2>5
    <3> QED BY <3>1, <3>2, <3>3 DEF Laid
  <2> QED BY <2>2, <2>4, <2>5 DEF Placed, Laid
<1>19. Reached(c, q)'
  BY <1>12 DEF Reached
<1> QED BY <1>12, <1>14, <1>15, <1>16, <1>17, <1>18, <1>19 DEF CommandInv


\* The command goes on, whether it created something or not.
Proceeds(c) ==
  /\ Grows /\ DiskTyped' /\ TreeShape'
  /\ \E q \in Records : command' = [command EXCEPT ![c] = q] /\ CommandInv(c, q)'

\* A step that only looks leaves everybody where they are.
LEMMA Looking ==
  ASSUME NEW c \in Commands, Working(c), Role!Disk, Advances(c)
  PROVE  Proceeds(c)
<1>1. DiskTyped /\ TreeShape
  BY DEF Working
<1>2. entry' = entry /\ mode' = mode /\ left' = left
  BY DEF Role!Disk
<1>3. Grows /\ DiskTyped' /\ TreeShape'
  <2>1. DiskTyped'
    BY <1>1, <1>2 DEF DiskTyped
  <2>2. TreeShape'
    BY <1>1, <1>2 DEF TreeShape
  <2>3. Grows
    BY <1>1, <1>2 DEF Grows, DiskTyped
  <2> QED BY <2>1, <2>2, <2>3
<1>4. PICK q \in Records : command' = [command EXCEPT ![c] = q] /\ CommandInv(c, q)
  BY DEF Advances
<1>5. CommandInv(c, q)'
  BY <1>1, <1>3, <1>4, CommandGrows
<1> QED BY <1>3, <1>4, <1>5 DEF Proceeds

\* The role is made.
LEMMA MakeRoleActs ==
  ASSUME NEW c \in Commands, Working(c), Role!MakeRole(c)
  PROVE  Proceeds(c)
<1>1. PICK r \in Records : r = command[c]
  BY DEF Working
<1>2. CommandInv(c, r) /\ DiskTyped /\ TreeShape /\ r.at = "makeRole"
  BY <1>1 DEF Working, Role!MakeRole
<1>3. r.rolesHandle \in Role!Directories
  BY <1>2 DEF CommandInv, Held, Aim
<1> DEFINE q == [r EXCEPT !.at = "readRole", !.created = Append(r.created, "role"),
                          !.made = r.made \cup {[node |-> Role!Made(c, "role"),
                                                 in |-> r.rolesHandle]}]
<1>4. CASE Role!Fails(c) /\ Role!Disk
  BY <1>4, Failing, Looking
<1>5. ASSUME entry[r.rolesHandle]["app"] = Role!None,
             entry' = [entry EXCEPT ![r.rolesHandle]["app"] = Role!Made(c, "role")],
             Role!Go(c, q), UNCHANGED <<mode, left>>
      PROVE  Proceeds(c)
  <2>1. Role!Made(c, "role") \in Role!Nodes /\ "app" \in {"app", "main.yml"} \cup Leaves
    BY MadeNodes
  <2>2. Grows /\ DiskTyped' /\ TreeShape' /\ entry'[r.rolesHandle]["app"] = Role!Made(c, "role")
    BY <1>2, <1>3, <1>5, <2>1, Filling
  <2>3. q \in Records /\ CommandInv(c, q)'
    BY <1>2, <2>2, MakeRoleKeeps
  <2>4. command' = [command EXCEPT ![c] = q]
    BY <1>5 DEF Role!Go
  <2> HIDE DEF q
  <2> QED BY <2>2, <2>3, <2>4 DEF Proceeds
<1> QED BY <1>1, <1>4, <1>5, Things
     DEF Role!MakeRole, Role!Creatable, Role!Free, Role!RolesDirectory, Role!Mkdir, Role!Reported

\* A directory of the role is made.
LEMMA MakeLeafActs ==
  ASSUME NEW c \in Commands, Working(c), Role!MakeLeaf(c)
  PROVE  Proceeds(c)
<1>1. PICK r \in Records : r = command[c]
  BY DEF Working
<1>2. CommandInv(c, r) /\ DiskTyped /\ TreeShape /\ r.at = "makeLeaf"
  BY <1>1 DEF Working, Role!MakeLeaf
<1>3. r.roleHandle \in Role!Directories /\ r.file \in 1..2
  BY <1>2 DEF CommandInv, Held, Aim, Inside
<1> DEFINE f == Role!Leaf(r)
           q == [r EXCEPT !.at = "readLeaf", !.created = Append(r.created, f),
                          !.made = r.made \cup {[node |-> Role!Made(c, f),
                                                 in |-> r.roleHandle]}]
<1>4. f \in Leaves
  BY <1>3, Things DEF Role!Leaf, Leaves
<1>5. CASE Role!Fails(c) /\ Role!Disk
  BY <1>5, Failing, Looking
<1>6. ASSUME entry[r.roleHandle][f] = Role!None,
             entry' = [entry EXCEPT ![r.roleHandle][f] = Role!Made(c, f)],
             Role!Go(c, q), UNCHANGED <<mode, left>>
      PROVE  Proceeds(c)
  <2>1. Role!Made(c, f) \in Role!Nodes /\ f \in {"app", "main.yml"} \cup Leaves
    BY <1>4, MadeNodes
  <2>2. Grows /\ DiskTyped' /\ TreeShape' /\ entry'[r.roleHandle][f] = Role!Made(c, f)
    <3> HIDE DEF f
    <3> QED BY <1>2, <1>3, <1>6, <2>1, Filling
  <2>3. q \in Records /\ CommandInv(c, q)'
    BY <1>2, <2>2, MakeLeafKeeps
  <2>4. command' = [command EXCEPT ![c] = q]
    BY <1>6 DEF Role!Go
  <2> HIDE DEF q
  <2> QED BY <2>2, <2>3, <2>4 DEF Proceeds
<1> QED BY <1>1, <1>5, <1>6
     DEF Role!MakeLeaf, Role!Creatable, Role!Free, Role!Mkdir, Role!Reported

\* A file of the role is made.
LEMMA MakeFileActs ==
  ASSUME NEW c \in Commands, Working(c), Role!MakeFile(c)
  PROVE  Proceeds(c)
<1>1. PICK r \in Records : r = command[c]
  BY DEF Working
<1>2. CommandInv(c, r) /\ DiskTyped /\ TreeShape /\ r.at = "makeFile"
  BY <1>1 DEF Working, Role!MakeFile
<1>3. r.roleHandle \in Role!Directories /\ r.file \in 1..2
  BY <1>2 DEF CommandInv, Held, Aim, Inside
<1>4. Role!Leaf(r) \in Leaves
  BY <1>3, Things DEF Role!Leaf, Leaves
<1>5. PICK d : d = Role!OpenedBelow(r.roleHandle, Role!Leaf(r))
  OBVIOUS
<1> DEFINE n == Role!Made(c, Role!MainFile[Role!Leaf(r)])
<1>6. CASE Role!Fails(c) /\ Role!Disk
  BY <1>6, Failing, Looking
<1>7. ASSUME d # Role!None, entry[d]["main.yml"] = Role!None,
             entry' = [entry EXCEPT ![d]["main.yml"] = n], UNCHANGED <<mode, left>>,
             NEW q, Role!Go(c, q),
             \/ q = Unwritten(c, r, d)
             \/ r.file < 2 /\ q = NextLeaf(c, r, d)
             \/ r.file = 2 /\ q = LastLook(c, r, d)
      PROVE  Proceeds(c)
  <2>1. d \in Role!Directories /\ d = entry[r.roleHandle][Role!Leaf(r)]
    BY <1>5, <1>7 DEF Role!OpenedBelow
  <2>2. n \in Role!Nodes
    BY <1>4, MadeNodes
  <2>3. Grows /\ DiskTyped' /\ TreeShape' /\ entry'[d]["main.yml"] = n
    <3>1. PICK w : w = Role!MainFile[Role!Leaf(r)]
      OBVIOUS
    <3>2. /\ "main.yml" \in {"app", "main.yml"} \cup Leaves /\ n = Role!Made(c, w)
          /\ Role!Made(c, w) \in Role!Nodes
          /\ entry' = [entry EXCEPT ![d]["main.yml"] = Role!Made(c, w)]
          /\ entry[d]["main.yml"] = Role!None /\ UNCHANGED <<mode, left>>
      BY <1>7, <2>2, <3>1
    <3>3. DiskTyped /\ TreeShape /\ d \in Role!Directories
      BY <1>2, <2>1
    <3> HIDE DEF n
    <3> QED BY <3>2, <3>3, Filling
  <2>4. q \in Records /\ CommandInv(c, q)'
    BY <1>2, <1>7, <2>1, <2>3, MakeFileKeeps
  <2>5. command' = [command EXCEPT ![c] = q]
    BY <1>7 DEF Role!Go
  <2> QED BY <2>3, <2>4, <2>5 DEF Proceeds
<1> DEFINE made == [r EXCEPT !.created = Role!Reported(r, Role!MainFile[Role!Leaf(r)]),
                             !.made = @ \cup {[node |-> n, in |-> d]}]
<1>8. ASSUME d # Role!None, entry[d]["main.yml"] = Role!None,
             entry' = [entry EXCEPT ![d]["main.yml"] = n], UNCHANGED <<mode, left>>,
             \/ Role!Go(c, [made EXCEPT !.at = "done", !.exit = 2])
             \/ r.file < 2 /\ Role!Go(c, Role!Validated([made EXCEPT !.file = @ + 1], "makeLeaf"))
             \/ r.file = 2 /\ Role!Go(c, Role!Validated(made, "success"))
      PROVE  Proceeds(c)
  <2>1. made = FileMade(c, r, d)
    BY DEF FileMade, Role!Reported
  <2>2. FileMade(c, r, d).file = r.file
    BY DEF FileMade, Records
  <2> HIDE DEF made
  <2>3. /\ [made EXCEPT !.at = "done", !.exit = 2] = Unwritten(c, r, d)
        /\ Role!Validated([made EXCEPT !.file = @ + 1], "makeLeaf") = NextLeaf(c, r, d)
        /\ Role!Validated(made, "success") = LastLook(c, r, d)
    BY <2>1, <2>2 DEF Unwritten, NextLeaf, LastLook, Role!Validated
  <2> QED BY <1>7, <1>8, <2>3
<1>9. CASE Role!MakeFile(c) /\ ~(Role!Fails(c) /\ Role!Disk)
  <2> HIDE DEF made
  <2>1. /\ d # Role!None /\ entry[d]["main.yml"] = Role!None
        /\ entry' = [entry EXCEPT ![d]["main.yml"] = n] /\ UNCHANGED <<mode, left>>
        /\ \/ Role!Go(c, [made EXCEPT !.at = "done", !.exit = 2])
           \/ r.file < 2 /\ Role!Go(c, Role!Validated([made EXCEPT !.file = @ + 1], "makeLeaf"))
           \/ r.file = 2 /\ Role!Go(c, Role!Validated(made, "success"))
    BY <1>1, <1>5, <1>9, Things DEF Role!MakeFile, Role!Free, Role!Mkdir, made
  <2> QED BY <1>8, <2>1
<1> QED BY <1>6, <1>9

\* Whatever a command does, it goes on with the invariant and only fills free names.
LEMMA StepProceeds ==
  ASSUME NEW c \in Commands, Working(c), Role!Step(c)
  PROVE  Proceeds(c)
<1>1. CASE Role!Role(c)
  BY <1>1, RoleActs, Looking DEF Role!Role
<1>2. CASE Role!Load(c)
  BY <1>2, LoadActs, Looking DEF Role!Load
<1>3. CASE Role!Admit(c)
  BY <1>3, AdmitActs, Looking DEF Role!Admit
<1>4. CASE Role!Preview(c)
  BY <1>4, PreviewActs, Looking DEF Role!Preview
<1>5. CASE Role!ValidateIdentity(c)
  BY <1>5, IdentityActs, Looking DEF Role!ValidateIdentity
<1>6. CASE Role!ValidateOwners(c)
  BY <1>6, OwnersAct, Looking DEF Role!ValidateOwners
<1>7. CASE Role!Controls(c)
  BY <1>7, LooksAct, Looking DEF Role!Controls
<1>8. CASE Role!Targets(c)
  BY <1>8, LooksAct, Looking DEF Role!Targets
<1>9. CASE Role!OpenRoot(c)
  BY <1>9, OpensAct, Looking DEF Role!OpenRoot
<1>10. CASE Role!OpenRoles(c)
  BY <1>10, OpensAct, Looking DEF Role!OpenRoles
<1>11. CASE Role!MakeRole(c)
  BY <1>11, MakeRoleActs
<1>12. CASE Role!ReadRole(c)
  BY <1>12, ReadRoleActs, Looking DEF Role!ReadRole
<1>13. CASE Role!OpenRole(c)
  BY <1>13, OpenRoleActs, Looking DEF Role!OpenRole
<1>14. CASE Role!MakeLeaf(c)
  BY <1>14, MakeLeafActs
<1>15. CASE Role!ReadLeaf(c)
  BY <1>15, ReadLeafActs, Looking DEF Role!ReadLeaf
<1>16. CASE Role!MakeFile(c)
  BY <1>16, MakeFileActs
<1>17. CASE Role!Success(c)
  BY <1>17, SuccessActs, Looking DEF Role!Success
<1> QED BY <1>1, <1>2, <1>3, <1>4, <1>5, <1>6, <1>7, <1>8, <1>9, <1>10, <1>11, <1>12, <1>13,
           <1>14, <1>15, <1>16, <1>17 DEF Role!Step


-----------------------------------------------------------------------------
(***************************************************************************)
(* Other programs.                                                         *)
(***************************************************************************)

\* A command beside which something moved keeps its promises: it can only have
\* been offered another directory where it was unprotected.
LEMMA DisturbedKeeps ==
  ASSUME NEW c \in Commands, NEW r \in Records, CommandInv(c, r),
         \A d \in Role!Directories :
           entry[d]["main.yml"] # Role!None => entry'[d]["main.yml"] = entry[d]["main.yml"]
  PROVE  Role!Disturbed(r) \in Records /\ CommandInv(c, Role!Disturbed(r))'
<1> DEFINE q == [r EXCEPT !.calm = FALSE,
                          !.gapped = r.gapped \/ r.at \in {"readRole", "readLeaf", "makeFile"}]
<1>1. Role!Disturbed(r) = q
  BY DEF Role!Disturbed, Role!Unprotected
<1>2. q \in Records
  BY DEF Records
<1>3. /\ q.at = r.at /\ q.then = r.then /\ q.options = r.options /\ q.root = r.root
      /\ q.marker = r.marker /\ q.owners = r.owners /\ q.rootHandle = r.rootHandle
      /\ q.rolesHandle = r.rolesHandle /\ q.roleHandle = r.roleHandle /\ q.file = r.file
      /\ q.previewed = r.previewed /\ q.created = r.created /\ q.made = r.made
      /\ q.exit = r.exit
  BY DEF Records
<1>4. q.calm = FALSE
  BY DEF Records
<1>5. /\ r.gapped => q.gapped
      /\ r.at \in {"readRole", "readLeaf", "makeFile"} => q.gapped
  BY DEF Records
<1> HIDE DEF q
<1>6. Planned(q)' /\ Held(q)' /\ Counted(c, q)'
  <2>1. Aim(q) = Aim(r) /\ ListOf(q) = ListOf(r)
    BY <1>3 DEF Aim, ListOf
  <2>2. Planned(q)
    BY <1>3, <2>1 DEF CommandInv, Planned
  <2>3. Held(q)
    BY <1>3, <2>1 DEF CommandInv, Held
  <2>4. Counted(c, q)
    BY <1>3, <2>1 DEF CommandInv, Counted
  <2> QED BY <2>2, <2>3, <2>4 DEF Planned, Held, Counted, Aim, ListOf
<1>7. Owned(c, q)'
  <2>1. Aim(q) = Aim(r) /\ Read(q) = Read(r) /\ Role!Leaf(q) = Role!Leaf(r)
    BY <1>3 DEF Aim, Read, Role!Leaf
  <2>2. Aim(q)' = Aim(q) /\ Read(q)' = Read(q)
    BY DEF Aim, Read
  <2> QED BY <1>3, <1>5, <2>1, <2>2 DEF CommandInv, Owned
<1>8. Placed(c, q)'
  <2> SUFFICES ASSUME NEW m \in q.made PROVE Laid(c, q, m)'
    BY DEF Placed
  <2>1. m \in r.made /\ m.in \in Role!Directories
    <3>1. m \in r.made /\ r.made \subseteq Makings
      BY <1>3 DEF Records
    <3> QED BY <3>1 DEF Makings
  <2>2. Laid(c, r, m)
    BY <2>1 DEF CommandInv, Placed
  <2>3. \A f \in Leaves : m.node = Role!Made(c, Role!MainFile[f]) =>
          entry'[m.in]["main.yml"] = m.node
    BY <2>1, <2>2, MadeNodes DEF Laid
  <2> QED BY <1>3, <1>5, <2>2, <2>3 DEF Laid
<1>9. Reached(c, q)'
  BY <1>4 DEF Reached
<1>10. q \in Records /\ CommandInv(c, q)'
  BY <1>2, <1>6, <1>7, <1>8, <1>9 DEF CommandInv
<1> QED BY <1>1, <1>10

\* What other programs put somewhere may lie there.
LEMMA Puts ==
  ASSUME NEW put \in Role!MayPut
  PROVE  /\ put[1] \in Role!Directories /\ put[2] \in Role!Names /\ put[3] \in Role!Nodes
         /\ MayLie(put[1], put[2], put[3])
<1> DEFINE Lies(d, n, x) ==
             d \in Role!Directories /\ n \in Role!Names /\ x \in Role!Nodes /\ MayLie(d, n, x)
<1>1. /\ Role!Top # Role!Original.project /\ Role!Top # Role!Original.roles
      /\ Role!Top # Role!Decoy.project /\ Role!Top # Role!Decoy.roles
      /\ Role!Decoy.project # Role!Original.project /\ Role!Decoy.project # Role!Original.roles
      /\ Role!Top # Role!Stranger /\ Role!Top # Role!Foreign /\ Role!Top # Role!None
  BY DEF Role!Top, Role!Original, Role!Decoy, Role!Stranger, Role!Foreign, Role!None
<1>2. \A x \in {Role!None, Role!Original.project, Role!Original.roles, Role!Decoy.project,
                Role!Decoy.roles, Role!Stranger, Role!Foreign} :
        x \notin {ToProject, ToOther, ToOtherRoles} /\ x \in Role!Nodes
  <2>1. /\ Role!Stranger \notin {ToProject, ToOther, ToOtherRoles}
        /\ Role!Foreign \notin {ToProject, ToOther, ToOtherRoles}
    BY DEF Role!Stranger, Role!Foreign, ToProject, ToOther, ToOtherRoles, Role!LinkTo
  <2>2. Role!Stranger \in Role!Nodes /\ Role!Foreign \in Role!Nodes /\ Role!None \in Role!Nodes
        /\ Role!Directories \subseteq Role!Nodes
    BY DEF Role!Nodes, Role!Directories, Role!Regular
  <2> QED BY <2>1, <2>2, Nodes
<1>3. \A m \in Role!MarkerNames :
        /\ Role!Marker(m) \in Role!Nodes /\ Role!Marker(m) # Role!Top
        /\ Role!Marker(m) \notin {ToProject, ToOther, ToOtherRoles} /\ m \in Role!Names
  BY DEF Role!Marker, Role!MarkerNames, Role!Nodes, Role!Regular, Role!Top, ToProject, ToOther,
         ToOtherRoles, Role!LinkTo, Role!Names
<1>4. \A l \in {ToProject, ToOther, ToOtherRoles} : l \in Role!Nodes /\ l # Role!Top
  <2>1. ToProject # Role!Top /\ ToOther # Role!Top /\ ToOtherRoles # Role!Top
    BY Nodes
  <2> QED BY <2>1, Nodes DEF Role!Nodes
<1>5. \A c \in Commands, k \in {"role"} \cup Leaves :
        /\ Role!Made(c, k) \in Role!Directories /\ Role!Made(c, k) \in Role!Nodes
        /\ Role!Made(c, k) # Role!Top /\ Role!Made(c, k) # Role!Decoy.project
        /\ Role!Made(c, k) \notin {ToProject, ToOther, ToOtherRoles}
  <2> SUFFICES ASSUME NEW c \in Commands, NEW k \in {"role"} \cup Leaves
               PROVE  /\ Role!Made(c, k) \in Role!Directories /\ Role!Made(c, k) \in Role!Nodes
                      /\ Role!Made(c, k) # Role!Top /\ Role!Made(c, k) # Role!Decoy.project
                      /\ Role!Made(c, k) \notin {ToProject, ToOther, ToOtherRoles}
    OBVIOUS
  <2>1. Role!Made(c, k) # Role!Decoy.project
    BY WritesAssumption DEF Role!ScaffoldAssumption, Role!Made, Role!Decoy
  <2> QED BY <2>1, MadeNodes, Nodes
<1>6. {"spelling", "project", "other", "roles", "app", "main.yml"} \cup Leaves \subseteq Role!Names
  BY Nodes DEF Leaves
<1>7. ASSUME NEW n \in {Role!None, Role!Original.project, Role!Decoy.project, ToOther}
      PROVE  Lies(Role!Top, "project", n)
  BY <1>1, <1>2, <1>4, <1>6, Nodes DEF MayLie
<1>8. ASSUME NEW n \in {Role!None, Role!Original.roles, Role!Decoy.roles, ToOtherRoles}
      PROVE  Lies(Role!Original.project, "roles", n)
  BY <1>1, <1>2, <1>4, <1>6, Nodes DEF MayLie
<1>9. ASSUME NEW n \in {ToProject, ToOther}
      PROVE  Lies(Role!Top, "spelling", n)
  BY <1>1, <1>4, <1>6, Nodes DEF MayLie
<1>10. ASSUME NEW m \in Role!MarkerNames,
              NEW n \in {Role!None} \cup {Role!Marker(k) : k \in Role!MarkerNames}
       PROVE  Lies(Role!Original.project, m, n)
  BY <1>1, <1>2, <1>3, Nodes DEF MayLie
<1>11. ASSUME NEW n \in {Role!None, Role!Stranger, ToOtherRoles}
                        \cup {Role!Made(c, "role") : c \in Commands}
       PROVE  Lies(Role!Original.roles, "app", n)
  BY <1>1, <1>2, <1>4, <1>5, <1>6, Nodes DEF MayLie
<1>12. ASSUME NEW c \in Commands, NEW f \in Leaves,
              NEW n \in {Role!None, Role!Stranger, ToOtherRoles}
                        \cup {Role!Made(e, f) : e \in Commands}
       PROVE  Lies(Role!Made(c, "role"), f, n)
  BY <1>1, <1>2, <1>4, <1>5, <1>6, Nodes DEF MayLie
<1>13. ASSUME NEW c \in Commands, NEW f \in Leaves
       PROVE  Lies(Role!Made(c, f), "main.yml", Role!Foreign)
  BY <1>1, <1>2, <1>5, <1>6, Nodes DEF MayLie
<1> HIDE DEF Lies
<1>14. Lies(put[1], put[2], put[3])
  <2> DEFINE Is(d, n, x) == put = <<d, n, x>>
  <2>1. \/ \E n \in {Role!None, Role!Original.project, Role!Decoy.project, ToOther} :
             Is(Role!Top, "project", n)
        \/ \E n \in {Role!None, Role!Original.roles, Role!Decoy.roles, ToOtherRoles} :
             Is(Role!Original.project, "roles", n)
        \/ \E n \in {ToProject, ToOther} : Is(Role!Top, "spelling", n)
        \/ \E m \in Role!MarkerNames,
             n \in {Role!None} \cup {Role!Marker(k) : k \in Role!MarkerNames} :
               Is(Role!Original.project, m, n)
        \/ \E n \in {Role!None, Role!Stranger, ToOtherRoles}
                   \cup {Role!Made(c, "role") : c \in Commands} :
             Is(Role!Original.roles, "app", n)
        \/ \E c \in Commands, f \in Leaves :
             \E n \in {Role!None, Role!Stranger, ToOtherRoles}
                      \cup {Role!Made(e, f) : e \in Commands} :
               Is(Role!Made(c, "role"), f, n)
        \/ \E c \in Commands, f \in Leaves : Is(Role!Made(c, f), "main.yml", Role!Foreign)
    <3> DEFINE
          F == Role!ToSet(Role!Files)
          A == {<<Role!Top, "project", n>> : n \in
                  {Role!None, Role!Original.project, Role!Decoy.project, Role!LinkTo("toOther")}}
          B == {<<Role!Original.project, "roles", n>> : n \in
                  {Role!None, Role!Original.roles, Role!Decoy.roles, Role!LinkTo("toOtherRoles")}}
          C == {<<Role!Top, "spelling", n>> : n \in
                  {Role!LinkTo("toProject"), Role!LinkTo("toOther")}}
          D == {<<Role!Original.project, m, n>> : m \in Role!MarkerNames,
                  n \in {Role!None} \cup {Role!Marker(k) : k \in Role!MarkerNames}}
          E == {<<Role!Original.roles, Role!RoleName, n>> : n \in
                  {Role!None, Role!Stranger, Role!LinkTo("toOtherRoles")}
                  \cup {Role!Made(c, "role") : c \in Commands}}
          G(c, f) == {<<Role!Made(c, "role"), f, n>> : n \in
                  {Role!None, Role!Stranger, Role!LinkTo("toOtherRoles")}
                  \cup {Role!Made(e, f) : e \in Commands}}
          H == {<<Role!Made(c, f), "main.yml", Role!Foreign>> : c \in Commands, f \in F}
          U == UNION {G(c, f) : c \in Commands, f \in F}
    <3>1. put \in A \cup B \cup C \cup D \cup E \cup U \cup H
      <4>1. Role!MayPut = A \cup B \cup C \cup D \cup E \cup U \cup H
        BY DEF Role!MayPut
      <4> HIDE DEF A, B, C, D, E, U, H
      <4> QED BY <4>1
    <3>2. put \in A \/ put \in B \/ put \in C \/ put \in D \/ put \in E
          \/ (\E c \in Commands, f \in F : put \in G(c, f)) \/ put \in H
      <4>1. put \in U => \E c \in Commands, f \in F : put \in G(c, f)
        <5> HIDE DEF G, F
        <5> QED OBVIOUS
      <4> HIDE DEF A, B, C, D, E, G, H, F, U
      <4> QED BY <3>1, <4>1
    <3>3. F = Leaves /\ Role!RoleName = "app"
      BY Things
    <3>4. ASSUME put \in A
          PROVE  \E n \in {Role!None, Role!Original.project, Role!Decoy.project, ToOther} :
                   Is(Role!Top, "project", n)
      BY <3>4 DEF ToOther
    <3>5. ASSUME put \in B
          PROVE  \E n \in {Role!None, Role!Original.roles, Role!Decoy.roles, ToOtherRoles} :
                   Is(Role!Original.project, "roles", n)
      BY <3>5 DEF ToOtherRoles
    <3>6. ASSUME put \in C
          PROVE  \E n \in {ToProject, ToOther} : Is(Role!Top, "spelling", n)
      BY <3>6 DEF ToProject, ToOther
    <3>7. ASSUME put \in D
          PROVE  \E m \in Role!MarkerNames,
                   n \in {Role!None} \cup {Role!Marker(k) : k \in Role!MarkerNames} :
                     Is(Role!Original.project, m, n)
      BY <3>7
    <3>8. ASSUME put \in E
          PROVE  \E n \in {Role!None, Role!Stranger, ToOtherRoles}
                         \cup {Role!Made(c, "role") : c \in Commands} :
                   Is(Role!Original.roles, "app", n)
      BY <3>3, <3>8 DEF ToOtherRoles
    <3>9. ASSUME NEW c \in Commands, NEW f \in F, put \in G(c, f)
          PROVE  \E n \in {Role!None, Role!Stranger, ToOtherRoles}
                         \cup {Role!Made(e, f) : e \in Commands} :
                   Is(Role!Made(c, "role"), f, n)
      BY <3>9 DEF ToOtherRoles
    <3>10. ASSUME put \in H
           PROVE  \E c \in Commands, f \in F : Is(Role!Made(c, f), "main.yml", Role!Foreign)
      BY <3>10
    <3> HIDE DEF A, B, C, D, E, G, H, F, Is
    <3> QED BY <3>2, <3>3, <3>4, <3>5, <3>6, <3>7, <3>8, <3>9, <3>10
  <2>2. ASSUME NEW d, NEW n, NEW x, Is(d, n, x), Lies(d, n, x)
        PROVE  Lies(put[1], put[2], put[3])
    BY <2>2
  <2> HIDE DEF Is
  <2> QED BY <1>7, <1>8, <1>9, <1>10, <1>11, <1>12, <1>13, <2>1, <2>2
<1> QED BY <1>14 DEF Lies

\* Other programs may move anything they can.
LEMMA MoveKeeps ==
  RoleInv /\ Role!Move => RoleInv'
<1> SUFFICES ASSUME RoleInv, Role!Move PROVE RoleInv'
  OBVIOUS
<1>1. DiskTyped /\ TreeShape /\ left > 0 /\ left' = left - 1 /\ mode' = mode
      /\ command' = [c \in Commands |-> Role!Disturbed(command[c])]
  BY DEF RoleInv, Role!Move
<1>2. PICK put \in Role!MayPut :
        /\ put[2] = "main.yml" => entry[put[1]][put[2]] = Role!None
        /\ entry' = [entry EXCEPT ![put[1]][put[2]] = put[3]]
  BY DEF Role!Move
<1>3. PICK d \in Role!Directories, n \in Role!Names, x \in Role!Nodes :
        /\ put[1] = d /\ put[2] = n /\ put[3] = x /\ MayLie(d, n, x)
  BY Puts
<1>4. Put(d, n, x)
  BY <1>2, <1>3 DEF Put
<1>5. /\ TreeShape' /\ entry' \in [Role!Directories -> [Role!Names -> Role!Nodes]]
      /\ \A e \in Role!Directories, m \in Role!Names :
           e # d \/ m # n => entry'[e][m] = entry[e][m]
  BY <1>1, <1>3, <1>4, ShapeKept
<1>6. DiskTyped'
  BY <1>1, <1>5 DEF DiskTyped
<1>7. \A e \in Role!Directories :
        entry[e]["main.yml"] # Role!None => entry'[e]["main.yml"] = entry[e]["main.yml"]
  BY <1>2, <1>3, <1>5, Nodes
<1>8. ASSUME NEW c \in Commands
      PROVE  Role!Disturbed(command[c]) \in Records /\ CommandInv(c, command[c])'
  <2>1. PICK r \in Records : r = command[c] /\ CommandInv(c, r)
    BY DEF RoleInv
  <2>2. Role!Disturbed(r) \in Records /\ CommandInv(c, Role!Disturbed(r))'
    BY <1>7, <2>1, DisturbedKeeps
  <2>3. command'[c] = Role!Disturbed(r)
    BY <1>1, <2>1
  <2> QED BY <2>1, <2>2, <2>3
<1> QED BY <1>1, <1>5, <1>6, <1>8 DEF RoleInv

\* Other programs may change modes.
LEMMA ChmodKeeps ==
  RoleInv /\ Role!Chmod => RoleInv'
<1> SUFFICES ASSUME RoleInv, Role!Chmod PROVE RoleInv'
  OBVIOUS
<1>1. DiskTyped /\ TreeShape /\ left > 0 /\ left' = left - 1 /\ entry' = entry
      /\ command' = [c \in Commands |-> Role!Disturbed(command[c])]
  BY DEF RoleInv, Role!Chmod
<1>2. TreeShape'
  BY <1>1 DEF TreeShape
<1>3. DiskTyped'
  <2>1. PICK n \in {Role!Original.project, Role!Original.roles}
                   \cup {Role!Made(c, "role") : c \in Commands} :
          mode' = [mode EXCEPT ![n] = 1 - @]
    BY DEF Role!Chmod
  <2>2. mode' \in [Role!Nodes -> 0..1]
    <3>1. mode \in [Role!Nodes -> 0..1] /\ \A i \in 0..1 : 1 - i \in 0..1
      BY <1>1 DEF DiskTyped
    <3>2. ASSUME n \in Role!Nodes PROVE mode[n] \in 0..1 /\ 1 - mode[n] \in 0..1
      BY <3>1, <3>2
    <3> QED BY <2>1, <3>1, <3>2
  <2> QED BY <1>1, <2>2 DEF DiskTyped
<1>4. ASSUME NEW c \in Commands
      PROVE  Role!Disturbed(command[c]) \in Records /\ CommandInv(c, command[c])'
  <2>1. PICK r \in Records : r = command[c] /\ CommandInv(c, r)
    BY DEF RoleInv
  <2>2. Role!Disturbed(r) \in Records /\ CommandInv(c, Role!Disturbed(r))'
    BY <1>1, <2>1, DisturbedKeeps
  <2>3. command'[c] = Role!Disturbed(r)
    BY <1>1, <2>1
  <2> QED BY <2>1, <2>2, <2>3
<1> QED BY <1>1, <1>2, <1>3, <1>4 DEF RoleInv

\* Every command keeps the invariant, its own and that of the others.
LEMMA StepKeeps ==
  RoleInv /\ (\E c \in Commands : Role!Step(c)) => RoleInv'
<1> SUFFICES ASSUME RoleInv, NEW c \in Commands, Role!Step(c) PROVE RoleInv'
  OBVIOUS
<1>1. Working(c)
  BY DEF RoleInv, Working
<1>2. Grows /\ DiskTyped' /\ TreeShape' /\ DiskTyped /\ TreeShape
  BY <1>1, StepProceeds DEF Proceeds, Working
<1>3. PICK q \in Records : command' = [command EXCEPT ![c] = q] /\ CommandInv(c, q)'
  BY <1>1, StepProceeds DEF Proceeds
<1>4. command \in [Commands -> Records]
  BY DEF RoleInv
<1>5. ASSUME NEW e \in Commands PROVE CommandInv(e, command[e])'
  <2>1. CASE e = c
    <3>1. command'[e] = q
      BY <1>3, <1>4, <2>1
    <3> QED BY <1>3, <2>1, <3>1
  <2>2. CASE e # c
    <3>1. PICK r \in Records : r = command[e] /\ CommandInv(e, r)
      BY <1>4 DEF RoleInv
    <3>2. CommandInv(e, r)'
      BY <1>2, <3>1, CommandGrows
    <3>3. command'[e] = r
      BY <1>3, <1>4, <2>2, <3>1
    <3> QED BY <3>2, <3>3
  <2> QED BY <2>1, <2>2
<1>6. command' \in [Commands -> Records]
  BY <1>3, <1>4
<1> QED BY <1>2, <1>5, <1>6 DEF RoleInv


-----------------------------------------------------------------------------
(***************************************************************************)
(* The beginning.                                                          *)
(***************************************************************************)

\* The tree the commands find.
LEMMA TreeTyped ==
  \A d \in Role!Directories, n \in Role!Names :
    /\ Role!Tree(d, n) \in Role!Nodes /\ Role!Tree(d, n) # Role!Top
    /\ Role!Tree(d, n) = ToProject => d = Role!Top /\ n = "spelling"
    /\ Role!Tree(d, n) # ToOther /\ Role!Tree(d, n) # ToOtherRoles
<1> SUFFICES ASSUME NEW d \in Role!Directories, NEW n \in Role!Names
             PROVE  /\ Role!Tree(d, n) \in Role!Nodes /\ Role!Tree(d, n) # Role!Top
                    /\ Role!Tree(d, n) = ToProject => d = Role!Top /\ n = "spelling"
                    /\ Role!Tree(d, n) # ToOther /\ Role!Tree(d, n) # ToOtherRoles
  OBVIOUS
<1> DEFINE Outside == {Role!Original.project, Role!Decoy.project, Role!Original.roles,
                      Role!Decoy.roles, Role!Marker("saltbox.yml"), Role!None}
<1>1. \/ Role!Tree(d, n) = ToProject /\ d = Role!Top /\ n = "spelling"
      \/ Role!Tree(d, n) \in Outside
  BY DEF Role!Tree, ToProject
<1>2. \A x \in Outside : x \in Role!Nodes /\ x # Role!Top
                        /\ x \notin {ToProject, ToOther, ToOtherRoles}
  <2>1. Role!Marker("saltbox.yml") \in Role!Nodes
    BY DEF Role!Nodes, Role!Regular, Role!MarkerNames
  <2>2. {Role!Original.project, Role!Decoy.project, Role!Original.roles, Role!Decoy.roles,
         Role!None} \subseteq Role!Nodes
    BY Nodes DEF Role!Nodes
  <2>3. \A x \in Outside : x # Role!Top /\ x \notin {ToProject, ToOther, ToOtherRoles}
    BY DEF Role!Top, Role!Original, Role!Decoy, Role!Marker, Role!None, ToProject, ToOther,
       ToOtherRoles, Role!LinkTo
  <2> QED BY <2>1, <2>2, <2>3
<1>3. ToProject \in Role!Nodes /\ ToProject # Role!Top /\ ToProject # ToOther
      /\ ToProject # ToOtherRoles
  BY Nodes DEF Role!Nodes
<1> QED BY <1>1, <1>2, <1>3

\* The invariant holds at the beginning.
LEMMA RoleStarts ==
  Role!Init => RoleInv
<1> SUFFICES ASSUME Role!Init PROVE RoleInv
  OBVIOUS
<1>1. /\ entry = [d \in Role!Directories |-> [n \in Role!Names |-> Role!Tree(d, n)]]
      /\ mode = [n \in Role!Nodes |-> 0]
  BY DEF Role!Init
<1>2. PICK request \in Asked :
        /\ left = request.moves
        /\ command = [c \in Commands |->
             [at |-> "role", then |-> "", options |-> request.asked[c], root |-> <<>>,
              marker |-> "none", owners |-> <<>>, rootHandle |-> Role!None,
              rolesHandle |-> Role!None, roleHandle |-> Role!None, file |-> 0,
              previewed |-> FALSE, created |-> <<>>, made |-> {}, exit |-> 0, calm |-> TRUE,
              gapped |-> FALSE]]
  BY DEF Role!Init
<1>3. DiskTyped
  <2>1. left \in Nat
    BY <1>2, WritesAssumption DEF Role!ScaffoldAssumption
  <2>2. mode \in [Role!Nodes -> 0..1]
    BY <1>1
  <2>3. entry \in [Role!Directories -> [Role!Names -> Role!Nodes]]
    BY <1>1, TreeTyped
  <2> QED BY <2>1, <2>2, <2>3 DEF DiskTyped
<1>4. TreeShape
  <2>1. \A d \in Role!Directories, n \in Role!Names : entry[d][n] = Role!Tree(d, n)
    BY <1>1
  <2>2. /\ Role!Tree(Role!Top, "other") = Role!Decoy.project
        /\ Role!Tree(Role!Top, "project") = Role!Original.project
        /\ Role!Tree(Role!Top, "spelling") = ToProject
        /\ Role!Tree(Role!Decoy.project, "roles") = Role!Decoy.roles
    <3>1. Role!Decoy.project # Role!Top /\ Role!Decoy.project # Role!Original.project
      BY DEF Role!Decoy, Role!Top, Role!Original
    <3> QED BY <3>1 DEF Role!Tree, ToProject
  <2>3. /\ entry[Role!Top]["other"] = Role!Decoy.project
        /\ entry[Role!Top]["project"] = Role!Original.project
        /\ entry[Role!Top]["spelling"] = ToProject
        /\ entry[Role!Decoy.project]["roles"] = Role!Decoy.roles
    BY <2>1, <2>2, Nodes
  <2>4. \A d \in Role!Directories, n \in Role!Names :
          /\ entry[d][n] # Role!Top
          /\ entry[d][n] = ToProject => d = Role!Top /\ n = "spelling"
          /\ entry[d][n] # ToOther /\ entry[d][n] # ToOtherRoles
    BY <2>1, TreeTyped
  <2> QED BY <2>3, <2>4 DEF TreeShape
<1>5. ASSUME NEW c \in Commands
      PROVE  command[c] \in Records /\ CommandInv(c, command[c])
  <2>1. PICK r : r = command[c]
    OBVIOUS
  <2>2. r = [at |-> "role", then |-> "", options |-> request.asked[c], root |-> <<>>,
             marker |-> "none", owners |-> <<>>, rootHandle |-> Role!None,
             rolesHandle |-> Role!None, roleHandle |-> Role!None, file |-> 0,
             previewed |-> FALSE, created |-> <<>>, made |-> {}, exit |-> 0, calm |-> TRUE,
             gapped |-> FALSE]
    BY <1>2, <2>1
  <2>3. <<>> \in Owners
    <3>1. <<>> \in [{} -> [node : Role!Nodes, mode : 0..1]]
      OBVIOUS
    <3> QED BY <3>1 DEF Owners
  <2>4. <<>> \in Lists /\ request.asked[c] \in Options
    BY DEF Lists, Options
  <2>5. r \in Records
    <3>1. "role" \in Places /\ "none" \in Markers /\ Role!None \in Handles
          /\ {} \in SUBSET Makings /\ <<>> \in Roots \cup {<<>>} /\ 0 \in 0..2
      BY DEF Places, Markers, Handles
    <3> QED BY <2>2, <2>3, <2>4, <3>1 DEF Records
  <2>6. /\ r.at = "role" /\ r.created = <<>> /\ r.made = {} /\ r.exit = 0
    BY <2>2
  <2>7. Planned(r) /\ Held(r) /\ Owned(c, r) /\ Placed(c, r) /\ Reached(c, r)
    BY <2>6 DEF Planned, Held, Owned, Placed, Reached, Aim, Aims, Places, Admitted, Writing,
       Inside
  <2>8. Counted(c, r)
    <3>1. ListOf(r) = <<>>
      BY <2>6 DEF ListOf, Aim
    <3>2. IsFiniteSet({}) /\ Cardinality({}) = 0
      BY FS_EmptySet
    <3>3. {m.node : m \in {}} = {} /\ DOMAIN <<>> = {} /\ Len(<<>>) = 0
      OBVIOUS
    <3> QED BY <2>6, <3>1, <3>2, <3>3 DEF Counted
  <2> QED BY <2>1, <2>5, <2>7, <2>8 DEF CommandInv
<1>6. command \in [Commands -> Records]
  <2>1. \A c \in Commands : command[c] \in Records
    BY <1>5
  <2>2. command = [c \in Commands |-> command[c]]
    BY <1>2
  <2> QED BY <2>1, <2>2
<1> QED BY <1>3, <1>4, <1>5, <1>6 DEF RoleInv

-----------------------------------------------------------------------------
(***************************************************************************)
(* The theorems.                                                           *)
(***************************************************************************)

\* What holds of scaffold throughout.
ScaffoldPart == part = "scaffold" => RoleInv

\* Whatever the commands were asked for, however many work at once and however
\* often other programs interfere, the disk and what every command knows of it fit
\* together (scaffold/role.go).
THEOREM ScaffoldInvariant == MCSpec => []ScaffoldPart
<1>1. MCInit => ScaffoldPart
  BY RoleStarts DEF MCInit, ScaffoldPart
<1>2. ScaffoldPart /\ [MCNext]_mcVars => ScaffoldPart'
  <2> SUFFICES ASSUME ScaffoldPart, [MCNext]_mcVars, part' = "scaffold" PROVE RoleInv'
    BY DEF ScaffoldPart
  <2>1. part = "scaffold" /\ RoleInv
    BY DEF MCNext, mcVars, ScaffoldPart
  <2>2. CASE Role!Next
    BY <2>1, <2>2, StepKeeps, MoveKeeps, ChmodKeeps DEF Role!Next
  <2>3. CASE UNCHANGED mcVars
    <3>1. entry' = entry /\ mode' = mode /\ left' = left /\ command' = command
      BY <2>3 DEF mcVars, scaffoldVars
    <3>2. DiskTyped' /\ TreeShape'
      BY <2>1, <3>1 DEF RoleInv, DiskTyped, TreeShape
    <3>3. Grows
      BY <2>1, <3>1 DEF Grows, RoleInv, DiskTyped
    <3>4. ASSUME NEW c \in Commands PROVE CommandInv(c, command[c])'
      <4>1. PICK r \in Records : r = command[c] /\ CommandInv(c, r)
        BY <2>1 DEF RoleInv
      <4>2. CommandInv(c, r)'
        BY <2>1, <3>3, <4>1, CommandGrows DEF RoleInv
      <4> QED BY <3>1, <4>1, <4>2
    <3> QED BY <2>1, <3>1, <3>2, <3>4 DEF RoleInv
  <2> QED BY <2>1, <2>2, <2>3 DEF MCNext
<1> QED BY <1>1, <1>2, PTL DEF MCSpec

\* Every handle is a directory, every node one there can be, every exit status 0 or 2.
THEOREM ScaffoldTypeCorrect == MCSpec => [](part = "scaffold" => Role!TypeOK)
<1>1. ASSUME RoleInv PROVE Role!TypeOK
  <2>1. ASSUME NEW c \in Commands
        PROVE  /\ command[c].exit \in {0, 2} /\ command[c].file \in 0..Len(Role!Files)
               /\ {command[c].rootHandle, command[c].rolesHandle, command[c].roleHandle}
                    \subseteq Role!Directories \cup {Role!None}
               /\ \A m \in command[c].made : m.node \in Role!Nodes /\ m.in \in Role!Directories
    <3>1. command[c] \in Records
      BY <1>1 DEF RoleInv
    <3>2. /\ command[c].exit \in {0, 2} /\ command[c].file \in 0..2
          /\ command[c].rootHandle \in Handles /\ command[c].rolesHandle \in Handles
          /\ command[c].roleHandle \in Handles /\ command[c].made \subseteq Makings
      BY <3>1 DEF Records
    <3> QED BY <3>2, Things DEF Handles, Makings
  <2> QED BY <1>1, <2>1 DEF RoleInv, DiskTyped, Role!TypeOK
<1>2. ScaffoldPart => (part = "scaffold" => Role!TypeOK)
  BY <1>1 DEF ScaffoldPart
<1> QED BY <1>2, ScaffoldInvariant, PTL

\* A step of a command that is neither a move nor a chmod only fills free names:
\* scaffold never replaces a role or a file (Mkdir and O_EXCL, through the handles).
THEOREM ScaffoldReplacesNothing == MCSpec => NothingExistingIsReplaced
<1>1. ASSUME ScaffoldPart, MCNext, part = "scaffold" PROVE Role!KeepsWhatExists
  <2>1. RoleInv /\ Role!Next /\ left \in Nat
    BY <1>1 DEF ScaffoldPart, MCNext, RoleInv, DiskTyped
  <2>2. ASSUME NEW c \in Commands, Role!Step(c) PROVE Role!KeepsWhatExists
    <3>1. Grows
      BY <2>1, <2>2, StepProceeds DEF Working, RoleInv, Proceeds
    <3> QED BY <3>1 DEF Grows, Role!KeepsWhatExists
  <2>3. CASE Role!Move \/ Role!Chmod
    <3>1. left' = left - 1
      BY <2>3 DEF Role!Move, Role!Chmod
    <3> QED BY <2>1, <3>1 DEF Role!KeepsWhatExists
  <2> QED BY <2>1, <2>2, <2>3 DEF Role!Next
<1>2. ScaffoldPart /\ [MCNext]_mcVars => [part = "scaffold" => Role!KeepsWhatExists]_mcVars
  BY <1>1
<1> QED BY <1>2, ScaffoldInvariant, PTL DEF MCSpec, NothingExistingIsReplaced


\* One more name on a path that passes no link.
LEMMA NameAlong ==
  ASSUME NEW p \in Paths, Role!Passed(p) = {}, NEW n \in Role!Names,
         Role!Below(Role!Top, p) \in Role!Directories,
         NEW y, y = entry[Role!Below(Role!Top, p)][n], y \notin DOMAIN Role!Links
  PROVE  /\ Append(p, n) \in Paths /\ Role!Passed(Append(p, n)) = {}
         /\ Role!Below(Role!Top, Append(p, n)) = y
<1> DEFINE q == Append(p, n)
<1>1. Role!Real(p) = p
  BY CleanPath
<1>2. q \in Paths /\ Role!Below(Role!Top, q) = y
  BY <1>1, LstatBelow DEF Under
<1>3. /\ Len(p) \in Nat /\ Len(q) = Len(p) + 1
      /\ \A i \in 1..Len(p) : SubSeq(q, 1, i) = SubSeq(p, 1, i)
      /\ SubSeq(q, 1, Len(q)) = q
  BY DEF Paths
<1>4. ASSUME NEW i \in 1..Len(q)
      PROVE  Role!Below(Role!Top, SubSeq(q, 1, i)) \notin DOMAIN Role!Links
  <2> HIDE DEF q
  <2>1. CASE i \in 1..Len(p)
    <3>1. Role!Below(Role!Top, SubSeq(p, 1, i)) \notin DOMAIN Role!Links
      BY <2>1 DEF Role!Passed
    <3> QED BY <1>3, <2>1, <3>1
  <2>2. CASE i = Len(q)
    <3>1. SubSeq(q, 1, i) = q
      BY <1>3, <2>2
    <3> QED BY <1>2, <3>1
  <2> QED BY <1>3, <2>1, <2>2
<1> HIDE DEF q
<1>5. Role!Passed(q) = {}
  BY <1>4 DEF Role!Passed
<1> QED BY <1>2, <1>5 DEF q

\* A path continued by one name, and by two.
LEMMA Continued ==
  ASSUME NEW p \in Paths, NEW q \in Paths, NEW a \in Role!Names, NEW b \in Role!Names
  PROVE  /\ p \o q \in Paths /\ Append(q, a) \in Paths
         /\ p \o Append(q, a) = Append(p \o q, a)
         /\ <<a, b>> \in Paths /\ p \o <<a, b>> = Append(Append(p, a), b)
<1>1. p \o q \in Paths /\ Append(q, a) \in Paths
  BY DEF Paths
<1>2. p \o Append(q, a) = Append(p \o q, a)
  BY DEF Paths
<1>3. <<a, b>> \in Paths
  BY DEF Paths
<1>4. p \o <<a, b>> = Append(Append(p, a), b)
  BY DEF Paths
<1> QED BY <1>1, <1>2, <1>3, <1>4

\* The role a command reached lies at the path the user gave.
LEMMA ChainLeads ==
  ASSUME DiskTyped, TreeShape, NEW c \in Commands, NEW r \in Records, Chain(c, r)
  PROVE  LET role == Spelling \o <<"roles", Role!RoleName>>
         IN  /\ Role!Stat(role) = Role!Made(c, "role")
             /\ \A f \in Role!ToSet(Role!Files) :
                  /\ Role!Stat(Append(role, f)) = Role!Made(c, f)
                  /\ Role!Stat(role \o <<f, "main.yml">>) = Role!Made(c, Role!MainFile[f])
<1> DEFINE root == <<Root>>  rest == <<"roles", "app">>
           role == Spelling \o <<"roles", Role!RoleName>>
           top == entry[Role!Top][Root]  roles == entry[top]["roles"]
<1>1. {"spelling", "project", "other", "roles", "app", "main.yml"} \cup Leaves \subseteq Role!Names
  BY Nodes DEF Leaves
<1>2. Root \in Role!Names /\ Spelling \in Paths /\ root \in Paths /\ <<>> \in Paths
  <2>1. Root \in {"other", "project"} /\ Spelling \in {<<"spelling">>, <<"project">>}
    BY WritesAssumption DEF Root, Role!ScaffoldAssumption
  <2>2. {"spelling", "project", "other"} \subseteq Role!Names
    BY <1>1
  <2>3. \A n \in Role!Names : <<n>> \in Paths
    BY DEF Paths
  <2>4. <<>> \in Paths
    BY DEF Paths
  <2> QED BY <2>1, <2>2, <2>3, <2>4
<1>3. /\ top \in Role!Directories /\ roles \in Role!Directories
      /\ entry[roles]["app"] = Role!Made(c, "role")
      /\ \A f \in Leaves :
           /\ entry[Role!Made(c, "role")][f] = Role!Made(c, f)
           /\ entry[Role!Made(c, f)]["main.yml"] = Role!Made(c, Role!MainFile[f])
  BY DEF Chain
<1>4. Role!Passed(<<>>) = {} /\ Role!Below(Role!Top, <<>>) = Role!Top
      /\ root = Append(<<>>, Root)
  <2>1. <<"project">> \in Roots
    BY DEF Roots
  <2> QED BY <2>1, OwnerPaths DEF Role!Passed
<1>5. \A x \in Role!Directories : x \notin DOMAIN Role!Links
  BY Nodes
<1>6. Role!Passed(root) = {} /\ Role!Below(Role!Top, root) = top
  <2>1. Role!Below(Role!Top, <<>>) \in Role!Directories
    BY <1>4, Nodes
  <2>2. top = entry[Role!Below(Role!Top, <<>>)][Root]
    BY <1>4
  <2>3. top \notin DOMAIN Role!Links
    BY <1>3, <1>5
  <2>4. Root \in Role!Names /\ <<>> \in Paths /\ Role!Passed(<<>>) = {}
    BY <1>2, <1>4
  <2> HIDE DEF root, top
  <2>5. /\ Role!Passed(Append(<<>>, Root)) = {}
        /\ Role!Below(Role!Top, Append(<<>>, Root)) = top
    BY <2>1, <2>2, <2>3, <2>4, NameAlong
  <2>6. root = Append(<<>>, Root)
    BY <1>4
  <2> QED BY <2>5, <2>6
<1> HIDE DEF root
<1>7. Append(root, "roles") \in Paths /\ Role!Passed(Append(root, "roles")) = {}
      /\ Role!Below(Role!Top, Append(root, "roles")) = roles
  <2> HIDE DEF top
  <2> QED BY <1>1, <1>2, <1>3, <1>5, <1>6, NameAlong
<1> DEFINE atRole == Append(Append(root, "roles"), "app")
<1>8. atRole \in Paths /\ Role!Passed(atRole) = {} /\ Role!Below(Role!Top, atRole) = Role!Made(c, "role")
  <2> HIDE DEF roles
  <2>1. Role!Made(c, "role") \notin DOMAIN Role!Links
    BY MadeNodes
  <2> QED BY <1>1, <1>3, <1>7, <2>1, NameAlong
<1>9. rest \in Paths /\ root \o rest = atRole /\ role = Spelling \o rest
  BY <1>1, <1>2, Continued, Things
<1>10. ASSUME NEW p \in Paths, Role!Passed(root \o p) = {}
       PROVE  Role!Stat(Spelling \o p) = Role!Below(Role!Top, root \o p)
  BY <1>10, SpelledRoot DEF Role!Stat, root
<1> HIDE DEF atRole, rest, role
<1>11. Role!Stat(role) = Role!Made(c, "role")
  BY <1>8, <1>9, <1>10
<1>12. ASSUME NEW f \in Leaves
       PROVE  /\ Role!Stat(Append(role, f)) = Role!Made(c, f)
              /\ Role!Stat(role \o <<f, "main.yml">>) = Role!Made(c, Role!MainFile[f])
  <2>1. f \in Role!Names /\ "main.yml" \in Role!Names
    BY <1>1
  <2> DEFINE inner == Append(atRole, f)  file == Append(inner, "main.yml")
  <2>2. inner \in Paths /\ Role!Passed(inner) = {} /\ Role!Below(Role!Top, inner) = Role!Made(c, f)
    BY <1>3, <1>8, <2>1, MadeNodes, NameAlong
  <2>3. file \in Paths /\ Role!Passed(file) = {}
        /\ Role!Below(Role!Top, file) = Role!Made(c, Role!MainFile[f])
    <3> HIDE DEF inner
    <3>1. Role!Made(c, f) \in Role!Directories
          /\ Role!Made(c, Role!MainFile[f]) \notin DOMAIN Role!Links
      BY MadeNodes
    <3> QED BY <1>3, <2>1, <2>2, <3>1, NameAlong
  <2> DEFINE restf == Append(rest, f)  restm == Append(restf, "main.yml")
  <2>4. restf \in Paths /\ root \o restf = inner /\ Append(role, f) = Spelling \o restf
    <3>1. rest \in Paths /\ root \in Paths /\ Spelling \in Paths
      BY <1>2, <1>9
    <3>2. restf \in Paths
      BY <2>1, <3>1, Continued
    <3>3. root \o restf = Append(root \o rest, f)
      BY <2>1, <3>1, Continued
    <3>4. Spelling \o restf = Append(Spelling \o rest, f)
      BY <2>1, <3>1, Continued
    <3> QED BY <1>9, <3>2, <3>3, <3>4
  <2> HIDE DEF inner, restf
  <2>5. restm \in Paths /\ root \o restm = file
        /\ Spelling \o restm = Append(Append(role, f), "main.yml")
    <3>1. restm \in Paths /\ root \o restm = Append(root \o restf, "main.yml")
      BY <1>2, <2>1, <2>4, Continued
    <3>2. Spelling \o restm = Append(Spelling \o restf, "main.yml")
      BY <1>2, <2>1, <2>4, Continued
    <3> QED BY <2>4, <3>1, <3>2
  <2>6. role \in Paths /\ role \o <<f, "main.yml">> = Append(Append(role, f), "main.yml")
    <3>1. role \in Paths
      BY <1>2, <1>9, <2>1, Continued
    <3> QED BY <2>1, <3>1, Continued
  <2> HIDE DEF file, restm
  <2>7. Role!Stat(Append(role, f)) = Role!Made(c, f)
    BY <1>10, <2>2, <2>4
  <2>8. Role!Stat(role \o <<f, "main.yml">>) = Role!Made(c, Role!MainFile[f])
    BY <1>10, <2>3, <2>5, <2>6
  <2> QED BY <2>7, <2>8
<1> QED BY <1>11, <1>12, Things DEF role

\* A role is created where it was admitted, also when directories are moved or
\* replaced by links; the paths reported are exactly the ones created, however the
\* command ends; and exit status 0 of an undisturbed run means the whole role lies
\* at the path the user gave (roleCreator and validateOwners, scaffold/role.go).
THEOREM ScaffoldStaysExact == MCSpec => []ScaffoldIsExact
<1>1. ASSUME RoleInv PROVE Role!CreatesWhereItWasAdmitted
  <2>1. ASSUME NEW c \in Commands, NEW m \in command[c].made PROVE Laid(c, command[c], m)
    BY <1>1, <2>1 DEF RoleInv, CommandInv, Placed
  <2> QED BY <2>1, Things DEF Laid, Role!CreatesWhereItWasAdmitted
<1>2. ASSUME RoleInv PROVE Role!ReportsWhatItCreated
  <2> SUFFICES ASSUME NEW c \in Commands
               PROVE  /\ Len(command[c].created) = Role!Cardinality(command[c].made)
                      /\ {m.node : m \in command[c].made} =
                           {Role!Made(c, w) : w \in Role!ToSet(command[c].created)}
    BY DEF Role!ReportsWhatItCreated
  <2>1. Counted(c, command[c])
    BY <1>2 DEF RoleInv, CommandInv
  <2>2. Role!Cardinality(command[c].made) = Cardinality(command[c].made)
    BY Zenon DEF Role!Cardinality, Cardinality
  <2> QED BY <2>1, <2>2 DEF Counted, Role!ToSet
<1>3. ASSUME RoleInv PROVE Role!SuccessIsWhole
  <2>1. ASSUME NEW c \in Commands, command[c].at = "done", command[c].exit = 0,
               command[c].options.write, command[c].calm, ~command[c].gapped
        PROVE  /\ command[c] \in Records /\ DiskTyped /\ TreeShape /\ Chain(c, command[c])
    BY <1>3, <2>1 DEF RoleInv, CommandInv, Reached
  <2> QED BY <2>1, ChainLeads DEF Role!SuccessIsWhole
<1>4. ScaffoldPart => ScaffoldIsExact
  BY <1>1, <1>2, <1>3 DEF ScaffoldPart, ScaffoldIsExact
<1> QED BY <1>4, ScaffoldInvariant, PTL

=============================================================================
