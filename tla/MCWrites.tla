------------------------------ MODULE MCWrites ------------------------------
(***************************************************************************)
(* The two commands that write, for TLC: check --fix over three files that *)
(* other programs work on, and scaffold role beside a second command.      *)
(* They do not interact; one run checks both, told apart by `part', which  *)
(* the initial state chooses and no step changes: check stays idle beside  *)
(* scaffold, whose variables are None beside check.                        *)
(***************************************************************************)
EXTENDS CheckCommand, Sequences

CONSTANTS Commands, Asked, Spelling    \* of Scaffold; Asked: its Requests

VARIABLES part, entry, mode, left, command

scaffoldVars == <<entry, mode, left, command>>
mcVars == <<part, vars, scaffoldVars>>

\* A clean file, one the fixes clean, one they only improve, and one they
\* cannot touch.
ThreeContents == {"tidy", "messy", "stuck"}

RepairTable == [c \in ThreeContents |-> IF c = "messy" THEN "tidy" ELSE c]

\* Two commands for one role with a move of another program anywhere, and one
\* command, beside a preview or a refused one, with none or two.
Good == [name |-> "safe", administrative |-> FALSE, author |-> "salty",
         metadata |-> TRUE, validates |-> TRUE, write |-> TRUE]
Preview == [Good EXCEPT !.write = FALSE]
RefusedRequests == {[Good EXCEPT !.author = ""], [Good EXCEPT !.metadata = FALSE],
                    [Good EXCEPT !.name = "CON"], [Good EXCEPT !.validates = FALSE]}
Mixed ==
  {[asked |-> <<Good, Good>>, moves |-> 1], [asked |-> <<Good, Preview>>, moves |-> 1]}
  \cup {[asked |-> <<Good, o>>, moves |-> 0] : o \in RefusedRequests}
  \cup {[asked |-> <<Good, [Good EXCEPT !.administrative = TRUE]>>, moves |-> 2]}

\* The project is reached through a link.
ThroughLink == <<"spelling">>

Role == INSTANCE Scaffold WITH Requests <- Asked, moves <- left

ASSUME WritesAssumption == Role!ScaffoldAssumption

-----------------------------------------------------------------------------
None == "none"
NoCheck == Init /\ \A n \in Names : disk[n].data = "tidy"
NoScaffold == entry = None /\ mode = None /\ left = None /\ command = None

MCInit ==
  \/ part = "check" /\ Init /\ NoScaffold
  \/ part = "scaffold" /\ Role!Init /\ NoCheck

MCNext ==
  \/ part = "check" /\ Next /\ UNCHANGED <<part, scaffoldVars>>
  \/ part = "scaffold" /\ Role!Next /\ UNCHANGED <<part, vars>>

MCSpec == MCInit /\ [][MCNext]_mcVars

-----------------------------------------------------------------------------
(* Properties.                                                             *)

\* A role is created where it was admitted, the paths reported are exactly the
\* ones created, and success means the whole role is there
\* (CreatesWhereItWasAdmitted, ReportsWhatItCreated, SuccessIsWhole of Scaffold).
ScaffoldIsExact ==
  part = "scaffold" =>
    Role!CreatesWhereItWasAdmitted /\ Role!ReportsWhatItCreated /\ Role!SuccessIsWhole

\* Scaffold replaces nothing that exists (NothingIsOverwritten of Scaffold).
NothingExistingIsReplaced == [][part = "scaffold" => Role!KeepsWhatExists]_mcVars

=============================================================================
