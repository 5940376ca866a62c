------------------------ MODULE MCDependenciesProofs ------------------------
(***************************************************************************)
(* The properties of the run `deps', which looks at two folders at once,   *)
(* from the invariant of DependenciesProofs: for the own folder as it      *)
(* stands, for the shared one through an instance of that module.  The     *)
(* first lemmas say that the actions of both instances are the same.       *)
(***************************************************************************)
EXTENDS MCDependencies, DependenciesProofs

SharedFacts == INSTANCE DependenciesProofs WITH
  Sources <- Peers, Files <- {"p"}, Reads <- [s \in Peers |-> {"p"}],
  EventLimit <- 2

\* The constants of the shared folder meet GraphAssumption.
LEMMA SharedAssumption ==
  /\ SharedFacts!IsFiniteSet(Peers) /\ SharedFacts!IsFiniteSet({"p"})
  /\ [s \in Peers |-> {"p"}] \in [Peers -> SUBSET {"p"}]
  /\ MaxVersion \in Nat \ {0} /\ MaxMoves \in Nat /\ 2 \in Nat \ {0}
<1>1. SharedFacts!IsFiniteSet(Peers)
  <2>1. <<"s", "t">> \in Seq(Peers) /\ Len(<<"s", "t">>) = 2
    BY DEF Peers
  <2>2. \A x \in Peers : \E n \in 1..Len(<<"s", "t">>) : <<"s", "t">>[n] = x
    BY DEF Peers
  <2> QED BY <2>1, <2>2 DEF SharedFacts!IsFiniteSet
<1>2. SharedFacts!IsFiniteSet({"p"})
  <2>1. <<"p">> \in Seq({"p"}) /\ Len(<<"p">>) = 1
    OBVIOUS
  <2>2. \A x \in {"p"} : \E n \in 1..Len(<<"p">>) : <<"p">>[n] = x
    OBVIOUS
  <2> QED BY <2>1, <2>2 DEF SharedFacts!IsFiniteSet
<1> QED BY <1>1, <1>2, GraphAssumption

\* The shared folder starts as SharedFacts describes it.
LEMMA SameInit == Shared!Init => SharedFacts!Init
BY DEF SharedFacts!Init, Shared!Init, SharedFacts!Idle, Shared!Idle,
   SharedFacts!NoFiles, Shared!NoFiles

\* Its files change and are announced the same way.
LEMMA SameFiles ==
  ASSUME NEW f, Shared!Edit(f) \/ Shared!Save(f) \/ Shared!Deliver(f)
  PROVE  SharedFacts!Edit(f) \/ SharedFacts!Save(f) \/ SharedFacts!Deliver(f)
BY Zenon DEF SharedFacts!Edit, Shared!Edit, SharedFacts!Save, Shared!Save,
   SharedFacts!Deliver, Shared!Deliver, SharedFacts!ContextEvents, Shared!ContextEvents,
   SharedFacts!Reserved, Shared!Reserved, SharedFacts!Fence, Shared!Fence,
   SharedFacts!Pending, Shared!Pending, SharedFacts!Ticket, Shared!Ticket

\* Its events are served the same way.
LEMMA SameContext == Shared!Context => SharedFacts!Context
<1>1. Shared!Fingerprint => SharedFacts!Fingerprint
  BY Zenon DEF SharedFacts!Fingerprint, Shared!Fingerprint
<1>2. Shared!Release => SharedFacts!Release
  BY Zenon DEF SharedFacts!Release, Shared!Release, SharedFacts!Dequeue, Shared!Dequeue,
     SharedFacts!Without, Shared!Without, SharedFacts!RemoveAt, Shared!RemoveAt
<1>3. Shared!Complete => SharedFacts!Complete
  BY Zenon DEF SharedFacts!Complete, Shared!Complete, SharedFacts!Dequeue, Shared!Dequeue,
     SharedFacts!Echo, Shared!Echo, SharedFacts!Affected, Shared!Affected,
     SharedFacts!Observers, Shared!Observers, SharedFacts!Reserved, Shared!Reserved,
     SharedFacts!Fence, Shared!Fence, SharedFacts!Pending, Shared!Pending,
     SharedFacts!Without, Shared!Without, SharedFacts!RemoveAt, Shared!RemoveAt
<1> QED BY <1>1, <1>2, <1>3 DEF SharedFacts!Context, Shared!Context

\* Its root and its sources come and go the same way.
LEMMA SameFolder ==
  /\ Shared!Refresh => SharedFacts!Refresh
  /\ \A s : Shared!Withdraw(s) \/ Shared!Open(s) =>
       SharedFacts!Withdraw(s) \/ SharedFacts!Open(s)
BY Zenon DEF SharedFacts!Refresh, Shared!Refresh, SharedFacts!Withdraw, Shared!Withdraw,
   SharedFacts!Open, Shared!Open, SharedFacts!Idle, Shared!Idle,
   SharedFacts!NoFiles, Shared!NoFiles

\* Its checks run the same way.
LEMMA SameEditor ==
  ASSUME NEW s, Shared!Editor(s)
  PROVE  SharedFacts!Editor(s)
<1>1. Shared!Begin(s) => SharedFacts!Begin(s)
  BY Zenon DEF SharedFacts!Begin, Shared!Begin, SharedFacts!Step, Shared!Step,
     SharedFacts!Idle, Shared!Idle, SharedFacts!NoFiles, Shared!NoFiles,
     SharedFacts!OnlyCheck, Shared!OnlyCheck
<1>2. Shared!Launch(s) => SharedFacts!Launch(s)
  BY Zenon DEF SharedFacts!Launch, Shared!Launch, SharedFacts!Step, Shared!Step,
     SharedFacts!OnlyCheck, Shared!OnlyCheck
<1>3. \A f : Shared!Analyze(s, f) => SharedFacts!Analyze(s, f)
  BY Zenon DEF SharedFacts!Analyze, Shared!Analyze, SharedFacts!Step, Shared!Step,
     SharedFacts!OnlyCheck, Shared!OnlyCheck
<1>4. \A f : Shared!Observe(s, f) => SharedFacts!Observe(s, f)
  BY Zenon DEF SharedFacts!Observe, Shared!Observe, SharedFacts!Step, Shared!Step,
     SharedFacts!OnlyCheck, Shared!OnlyCheck
<1>5. Shared!ReportChanged(s) => SharedFacts!ReportChanged(s)
  BY Zenon DEF SharedFacts!ReportChanged, Shared!ReportChanged,
     SharedFacts!Observed, Shared!Observed, SharedFacts!Current, Shared!Current,
     SharedFacts!Retry, Shared!Retry, SharedFacts!Step, Shared!Step,
     SharedFacts!Idle, Shared!Idle, SharedFacts!NoFiles, Shared!NoFiles,
     SharedFacts!ContextEvents, Shared!ContextEvents,
     SharedFacts!Reserved, Shared!Reserved, SharedFacts!Fence, Shared!Fence,
     SharedFacts!Pending, Shared!Pending, SharedFacts!Ticket, Shared!Ticket,
     SharedFacts!SetToSeq, Shared!SetToSeq, SharedFacts!IsInjective, Shared!IsInjective,
     SharedFacts!Cardinality, Shared!Cardinality
<1>6. Shared!AwaitContext(s) => SharedFacts!AwaitContext(s)
  BY Zenon DEF SharedFacts!AwaitContext, Shared!AwaitContext,
     SharedFacts!Observed, Shared!Observed, SharedFacts!Current, Shared!Current,
     SharedFacts!Step, Shared!Step, SharedFacts!OnlyCheck, Shared!OnlyCheck
<1>7. Shared!Reject(s) => SharedFacts!Reject(s)
  BY Zenon DEF SharedFacts!Reject, Shared!Reject, SharedFacts!Ready, Shared!Ready,
     SharedFacts!Observed, Shared!Observed, SharedFacts!Current, Shared!Current,
     SharedFacts!Rejected, Shared!Rejected, SharedFacts!Retry, Shared!Retry,
     SharedFacts!Step, Shared!Step, SharedFacts!Idle, Shared!Idle,
     SharedFacts!NoFiles, Shared!NoFiles, SharedFacts!OnlyCheck, Shared!OnlyCheck
<1>8. Shared!Accept(s) => SharedFacts!Accept(s)
  BY Zenon DEF SharedFacts!Accept, Shared!Accept, SharedFacts!Ready, Shared!Ready,
     SharedFacts!Observed, Shared!Observed, SharedFacts!Current, Shared!Current,
     SharedFacts!Rejected, Shared!Rejected, SharedFacts!Step, Shared!Step,
     SharedFacts!Idle, Shared!Idle, SharedFacts!NoFiles, Shared!NoFiles
<1> QED BY <1>1, <1>2, <1>3, <1>4, <1>5, <1>6, <1>7, <1>8
        DEF SharedFacts!Editor, Shared!Editor

\* Hence every step of the shared folder is a step of SharedFacts.
LEMMA SameNext == Shared!Next => SharedFacts!Next
BY SameFiles, SameContext, SameFolder, SameEditor DEF SharedFacts!Next, Shared!Next

-----------------------------------------------------------------------------

\* Whichever folder a behaviour looks at keeps the invariant of DependenciesProofs.
FolderInvariant ==
  /\ setting = "own" => IInv
  /\ setting = "shared" => SharedFacts!IInv
  /\ setting \in {"own", "shared"}

\* The run starts within the invariant.
LEMMA InitFolder == MCInit => FolderInvariant
<1>1. setting = "shared" /\ Shared!Init => SharedFacts!IInv
  BY SameInit, SharedFacts!InitInvariant, SharedAssumption
<1> QED BY <1>1, InitInvariant DEF MCInit, FolderInvariant

\* A step of the run is a step of its folder.
LEMMA FolderStep ==
  ASSUME [MCNext]_<<vars, setting>>, setting \in {"own", "shared"}
  PROVE  /\ setting' = setting
         /\ setting = "own" => [Next]_vars
         /\ setting = "shared" => [SharedFacts!Next]_SharedFacts!vars
<1>1. CASE MCNext
  BY <1>1, SameNext DEF MCNext
<1>2. CASE UNCHANGED <<vars, setting>>
  BY <1>2 DEF vars, SharedFacts!vars
<1> QED BY <1>1, <1>2

\* Every step of the run keeps the invariant of its folder.
LEMMA FolderKept ==
  FolderInvariant /\ [MCNext]_<<vars, setting>> => FolderInvariant'
<1> SUFFICES ASSUME FolderInvariant, [MCNext]_<<vars, setting>> PROVE FolderInvariant'
  OBVIOUS
<1>1. CASE setting = "own"
  BY <1>1, FolderStep, StepInvariant DEF FolderInvariant
<1>2. CASE setting = "shared"
  BY <1>2, FolderStep, SharedFacts!StepInvariant, SharedAssumption DEF FolderInvariant
<1> QED BY <1>1, <1>2 DEF FolderInvariant

\* Where every file has one reader, a displayed result that differs from the disk never
\* goes unnoticed while the folder's events were never trimmed.
THEOREM NothingStaleUnnoticed ==
  ASSUME OneReader
  PROVE  MCSpec => [](floor = 0 => StaleNoticed)
<1> DEFINE Inv == FolderInvariant /\ (setting = "own" => Untrimmed)
<1>1. MCInit => Inv
  BY InitFolder, InitUntrimmed DEF MCInit
<1>2. Inv /\ [MCNext]_<<vars, setting>> => Inv'
  <2> SUFFICES ASSUME Inv, [MCNext]_<<vars, setting>>, setting = "own" PROVE Untrimmed'
    BY FolderKept, FolderStep DEF FolderInvariant
  <2> QED BY OneReader, FolderStep, UntrimmedStep DEF FolderInvariant
<1>3. Inv => (floor = 0 => StaleNoticed)
  BY AnnouncedIsNoticed DEF StaleNoticed
<1> QED BY <1>1, <1>2, <1>3, PTL DEF MCSpec

\* In both folders a completed event reaches every displayed result it outdates, and
\* while it is pending no report that observes its file is accepted.
THEOREM EventsAlwaysCount == MCSpec => EventsCount
<1>1. FolderInvariant /\ [MCNext]_<<vars, setting>> =>
        [IF setting = "own" THEN CompletionAsksForChecks /\ AcceptsNoPending
         ELSE Shared!CompletionAsksForChecks /\ Shared!AcceptsNoPending]_<<vars, setting>>
  <2> SUFFICES ASSUME FolderInvariant, [MCNext]_<<vars, setting>>
               PROVE  IF setting = "own" THEN CompletionAsksForChecks /\ AcceptsNoPending
                      ELSE Shared!CompletionAsksForChecks /\ Shared!AcceptsNoPending
    OBVIOUS
  <2>1. CASE setting = "own"
    BY <2>1, FolderStep, ReachStep, NoPendingStep DEF FolderInvariant
  <2>2. CASE setting = "shared"
    <3>1. SharedFacts!CompletionAsksForChecks /\ SharedFacts!AcceptsNoPending
      BY <2>2, FolderStep, SharedFacts!ReachStep, SharedFacts!NoPendingStep,
         SharedAssumption DEF FolderInvariant
    <3>2. Shared!CompletionAsksForChecks /\ Shared!AcceptsNoPending
      BY <3>1 DEF SharedFacts!CompletionAsksForChecks, Shared!CompletionAsksForChecks,
                  SharedFacts!AcceptsNoPending, Shared!AcceptsNoPending,
                  SharedFacts!Idle, Shared!Idle, SharedFacts!NoFiles, Shared!NoFiles
    <3> QED BY <2>2, <3>2
  <2> QED BY <2>1, <2>2 DEF FolderInvariant
<1> QED BY <1>1, InitFolder, FolderKept, PTL DEF MCSpec, EventsCount

=============================================================================
