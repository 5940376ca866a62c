--------------------------- MODULE MCDependencies ---------------------------
(***************************************************************************)
(* Small folders for TLC, two of them in one run, told apart by `setting'. *)
(* The own constants give one source that reads two files, with room for   *)
(* every event; the shared folder has two sources that read one file, and  *)
(* its event list is trimmed at two.                                       *)
(***************************************************************************)
EXTENDS Dependencies

CONSTANT Settings    \* the folders of the run

VARIABLE setting

\* Every source reads every file.
ReadsAll == [s \in Sources |-> Files]

Peers == {"s", "t"}
Shared == INSTANCE Dependencies WITH
  Sources <- Peers, Files <- {"p"}, Reads <- [s \in Peers |-> {"p"}],
  EventLimit <- 2

MCInit ==
  /\ setting \in Settings
  /\ \/ setting = "own" /\ Init
     \/ setting = "shared" /\ Shared!Init

MCNext ==
  \/ setting = "own" /\ Next /\ UNCHANGED setting
  \/ setting = "shared" /\ Shared!Next /\ UNCHANGED setting

\* The fairness of Dependencies, for the folder whose result must settle.
Own(A) == setting = "own" /\ A /\ UNCHANGED setting
OwnFairness ==
  /\ \A f \in Files : WF_<<vars, setting>>(Own(Deliver(f)))
  /\ WF_<<vars, setting>>(Own(Context))
  /\ \A s \in Sources : WF_<<vars, setting>>(Own(Editor(s)))

MCSpec == MCInit /\ [][MCNext]_<<vars, setting>> /\ OwnFairness

-----------------------------------------------------------------------------
(* Properties.                                                             *)

\* StaleIsNoticed of Dependencies where each file has one reader: a displayed
\* result that differs from the disk never goes unnoticed.  With two readers the
\* late report of AcceptsNothingLate breaks it.
StaleNoticed == setting = "own" => StaleIsNoticed

\* EventsReachResults and PendingEventFences of Dependencies in each folder: an
\* event reaches every displayed result it outdates, and while it is pending no
\* report that observes its file is accepted.
EventsCount ==
  [][IF setting = "own" THEN CompletionAsksForChecks /\ AcceptsNoPending
     ELSE Shared!CompletionAsksForChecks /\ Shared!AcceptsNoPending]_<<vars, setting>>

\* EventuallyFresh of Dependencies: once the disk is quiet, every source of an
\* active root ends with a result computed from the disk.
SettlesFresh == \A s \in Sources : <>[](setting = "own" => Fresh(s))

=============================================================================
