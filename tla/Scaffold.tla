------------------------------- MODULE Scaffold -------------------------------
(***************************************************************************)
(* The command `scaffold role` (scaffold/role.go, cmd/scaffold.go): plan a *)
(* role in memory, show it, and with --write create its two directories    *)
(* and files through handles, while other programs and other scaffold      *)
(* commands move the same directories around.                              *)
(*                                                                         *)
(* The file system is a graph: entry[d][n] is the node under name n of     *)
(* directory d.  A node keeps its identity when it is moved, as an inode   *)
(* does.                                                                   *)
(***************************************************************************)
EXTENDS Naturals, Sequences, SequencesExt, FiniteSets

CONSTANTS
  Commands,     \* the scaffold commands at work
  Requests,     \* what the commands may be asked for together, each with a
                \* bound on the moves of other programs: [asked, moves]
  Spelling      \* the path of --root as it was given

\* Stated as an assumption by the module that gives these values.
ScaffoldAssumption ==
  /\ 0 \notin Commands
  /\ \A request \in Requests : request.moves \in Nat
  /\ Spelling \in {<<"spelling">>, <<"project">>}

None == <<0, "none">>
Top == <<0, "top">>
Original == [project |-> <<0, "project">>, roles |-> <<0, "roles">>]
Decoy == [project |-> <<0, "project2">>, roles |-> <<0, "roles2">>]
Stranger == <<0, "directory">>               \* a directory of somebody else
Foreign == <<0, "file">>                     \* a file of somebody else
Marker(kind) == <<0, kind>>
LinkTo(name) == <<0, name>>                  \* a symbolic link
Made(c, what) == <<c, what>>                 \* a node that command c creates

Files == <<"defaults", "tasks">>             \* the directories of the two main.yml
MainFile == [defaults |-> "defaults/main.yml", tasks |-> "tasks/main.yml"]
MarkerNames == {"saltbox.yml", "sandbox.yml"}
RoleName == "app"
Names == {"spelling", "project", "other", "roles", RoleName, "main.yml"}
         \cup MarkerNames \cup ToSet(Files)

Directories == {Top, Stranger} \cup {Original[k] : k \in {"project", "roles"}}
               \cup {Decoy[k] : k \in {"project", "roles"}}
               \cup {Made(c, k) : c \in Commands, k \in {"role"} \cup ToSet(Files)}
Links == [n \in {LinkTo("toProject"), LinkTo("toOther"), LinkTo("toOtherRoles")} |->
            CASE n = LinkTo("toProject") -> <<"project">>
              [] n = LinkTo("toOther") -> <<"other">>
              [] n = LinkTo("toOtherRoles") -> <<"other", "roles">>]
Regular == {Foreign} \cup {Marker(k) : k \in MarkerNames}
           \cup {Made(c, MainFile[k]) : c \in Commands, k \in ToSet(Files)}

VARIABLES
  entry,      \* the directories
  mode,       \* the permissions of every node
  moves,      \* how often other programs may still interfere
  command     \* what every command knows and has done

vars == <<entry, mode, moves, command>>

-----------------------------------------------------------------------------
(***************************************************************************)
(* Looking things up.                                                      *)
(***************************************************************************)

\* The node below directory d along p, which passes no link.
Below(d, p) ==
  LET at[i \in 0..Len(p)] ==
        IF i = 0 THEN d
        ELSE IF at[i - 1] \in Directories THEN entry[at[i - 1]][p[i]] ELSE None
  IN  at[Len(p)]

\* The first link that a path passes is replaced by its target.
Passed(p) == {i \in 1..Len(p) : Below(Top, SubSeq(p, 1, i)) \in DOMAIN Links}
Follow(p) ==
  IF Passed(p) = {} THEN p
  ELSE LET i == CHOOSE i \in Passed(p) : \A j \in Passed(p) : i <= j
       IN  Links[Below(Top, SubSeq(p, 1, i))] \o SubSeq(p, i + 1, Len(p))

\* The canonical form of a path: there are at most five links on it.
Real(p) == Follow(Follow(Follow(Follow(Follow(p)))))
Stat(p) == Below(Top, Real(p))
Lstat(p) == LET parent == Stat(Front(p)) IN
            IF parent \in Directories THEN entry[parent][Last(p)] ELSE None

\* A name looked up through a handle never leaves the handle's directory: a link
\* out of it is refused.
OpenedBelow(handle, name) ==
  IF entry[handle][name] \in Directories THEN entry[handle][name] ELSE None

\* projectMarker: exactly one marker, a regular file; None otherwise.
ProjectMarker(root) ==
  LET there == {m \in MarkerNames : Lstat(Append(root, m)) # None} IN
  IF Cardinality(there) = 1 /\ \A m \in there : Lstat(Append(root, m)) \in Regular
  THEN CHOOSE m \in there : TRUE ELSE "none"

\* physicalDirectory: the path is its own canonical name and a directory.
PhysicalDirectory(p) == Lstat(p) \in Directories /\ Real(p) = p

\* What os.SameFile and the mode remember of a path.
Identity(n) == [node |-> n, mode |-> mode[n]]

Path(root, what) == IF what = "." THEN root
                    ELSE IF what \in ToSet(Files) THEN root \o <<"roles", RoleName, what>>
                    ELSE IF what = "role" THEN root \o <<"roles", RoleName>>
                    ELSE Append(root, what)

-----------------------------------------------------------------------------
(***************************************************************************)
(* A command.                                                              *)
(***************************************************************************)

Go(c, new) == command' = [command EXCEPT ![c] = new]

\* Moves c to the next place of the program.
At(c, place) == Go(c, [command[c] EXCEPT !.at = place])

\* Exit status 2: whatever was created stays, and is reported.
Fails(c) == Go(c, [command[c] EXCEPT !.at = "done", !.exit = 2])

\* validateOwners begins, and goes on to `then` when it succeeds.
Validated(record, then) == [record EXCEPT !.at = "identity", !.then = then, !.calm = TRUE]

Disk == UNCHANGED <<entry, mode, moves>>

\* ctx.Err() is looked at: a canceled command fails here, and nowhere else.
Canceled(c) == Fails(c)

\* The request, before anything is read.
Acceptable(o) == o.name = "safe" /\ ~o.administrative

\* The metadata, once the project is known: a sandbox role is salty's.
Attributed(o, marker) ==
  /\ IF marker = "sandbox.yml" THEN o.author \in {"", "salty"} ELSE o.author # ""
  /\ o.metadata

Role(c) ==
  /\ command[c].at = "role" /\ Disk
  /\ \/ Canceled(c)
     \/ LET marker == ProjectMarker(Spelling) IN
        IF ~Acceptable(command[c].options) \/ marker = "none" THEN Fails(c)
        ELSE Go(c, [command[c] EXCEPT !.at = "load", !.marker = marker])

\* lint.Load gives the canonical root; the metadata is checked for its project.
Load(c) ==
  /\ command[c].at = "load" /\ Disk
  /\ \/ Canceled(c)
     \/ IF \/ Stat(Append(Spelling, command[c].marker)) = None
           \/ ~Attributed(command[c].options, command[c].marker)
        THEN Fails(c)
        ELSE Go(c, [command[c] EXCEPT !.at = "admit", !.root = Real(Spelling)])

\* The physical owners at planning time; the proposed files pass every rule.
Admit(c) ==
  /\ command[c].at = "admit" /\ Disk
  /\ LET r == command[c] admitted == {".", "roles", r.marker} IN
     IF \/ ~PhysicalDirectory(Path(r.root, ".")) \/ ~PhysicalDirectory(Path(r.root, "roles"))
        \/ Lstat(Path(r.root, r.marker)) = None
        \/ ~r.options.validates
     THEN Fails(c)
     ELSE Go(c, Validated([r EXCEPT !.owners =
                  [what \in admitted |-> Identity(Lstat(Path(r.root, what)))]], "controls"))

\* validateOwners, in two looks at the disk: where the spelling leads and which
\* marker there is, then every owner that was recorded.
ValidateIdentity(c) ==
  /\ command[c].at = "identity" /\ Disk
  /\ \/ Canceled(c)
     \/ IF \/ Real(Spelling) # command[c].root
           \/ ProjectMarker(command[c].root) # command[c].marker
        THEN Fails(c) ELSE At(c, "owners")

OwnersHold(r) ==
  \A what \in DOMAIN r.owners :
    LET p == Path(r.root, what) IN
    /\ Lstat(p) # None /\ Identity(Lstat(p)) = r.owners[what]
    /\ r.owners[what].node \in Directories => PhysicalDirectory(p)

\* The opened handles are the planned directories; a handle never moves.
HandlesHold(r) ==
  /\ r.rootHandle # None => r.rootHandle = r.owners["."].node
  /\ r.rolesHandle # None => r.rolesHandle = r.owners["roles"].node

ValidateOwners(c) ==
  /\ command[c].at = "owners" /\ Disk
  /\ IF ~OwnersHold(command[c]) \/ ~HandlesHold(command[c]) THEN Fails(c)
     ELSE At(c, command[c].then)

\* The second lint.Load: Git's controls are inspected again.
Controls(c) ==
  /\ command[c].at = "controls" /\ Disk
  /\ \/ Canceled(c)
     \/ IF Stat(Append(command[c].root, command[c].marker)) = None
        THEN Fails(c) ELSE At(c, "targets")

\* preflight refuses any existing target; it ends the planning, and opens the
\* writing.
Targets(c) ==
  /\ command[c].at = "targets" /\ Disk
  /\ LET role == Path(command[c].root, "role") IN
     IF \/ Lstat(role) # None
        \/ \E f \in ToSet(Files) : Lstat(role \o <<f, "main.yml">>) # None
     THEN Fails(c)
     ELSE At(c, IF command[c].previewed THEN "openRoot" ELSE "preview")

\* The whole proposal is printed before anything is created; the output can fail.
Preview(c) ==
  /\ command[c].at = "preview" /\ Disk
  /\ \/ Fails(c)
     \/ /\ ~command[c].options.write
        /\ Go(c, [command[c] EXCEPT !.at = "done", !.exit = 0])
     \/ /\ command[c].options.write
        /\ Go(c, Validated([command[c] EXCEPT !.previewed = TRUE], "controls"))

OpenRoot(c) ==
  /\ command[c].at = "openRoot" /\ Disk
  /\ LET opened == Stat(command[c].root) IN
     IF opened \notin Directories THEN Fails(c)
     ELSE Go(c, [command[c] EXCEPT !.at = "openRoles", !.rootHandle = opened])

OpenRoles(c) ==
  /\ command[c].at = "openRoles" /\ Disk
  /\ LET opened == OpenedBelow(command[c].rootHandle, "roles") IN
     IF opened = None THEN Fails(c)
     ELSE Go(c, Validated([command[c] EXCEPT !.rolesHandle = opened], "makeRole"))

\* Mutant: the roles directory is found by its path again.
MutRolesDirectory(r) ==
  LET n == Stat(Path(r.root, "roles")) IN IF n \in Directories THEN n ELSE r.rolesHandle

RolesDirectory(r) == r.rolesHandle

\* Mkdir of a name that must not exist.
Mkdir(d, name, n) == [entry EXCEPT ![d][name] = n]
Free(d, name) == entry[d][name] = None

\* Mutant: what is in the way is replaced.
MutFree(d, name) == TRUE

Creatable(d, name) == Free(d, name)

\* The list of created paths grows with the directory or file itself.
Reported(r, what) == Append(r.created, what)

\* Mkdir is reported at once, before its owner is read back.
MakeRole(c) ==
  /\ command[c].at = "makeRole"
  /\ LET r == command[c] d == RolesDirectory(r) n == Made(c, "role") IN
     IF ~Creatable(d, RoleName) THEN Fails(c) /\ Disk
     ELSE /\ entry' = Mkdir(d, RoleName, n)
          /\ Go(c, [r EXCEPT !.at = "readRole", !.created = Reported(r, "role"),
                             !.made = @ \cup {[node |-> n, in |-> d]}])
          /\ UNCHANGED <<mode, moves>>

ReadRole(c) ==
  /\ command[c].at = "readRole" /\ Disk
  /\ LET n == entry[command[c].rolesHandle][RoleName] IN
     IF n = None THEN Fails(c)
     ELSE Go(c, [command[c] EXCEPT !.at = "openRole",
                   !.owners = [w \in DOMAIN @ \cup {"role"} |->
                                 IF w = "role" THEN Identity(n) ELSE @[w]]])

OpenRole(c) ==
  /\ command[c].at = "openRole" /\ Disk
  /\ LET opened == OpenedBelow(command[c].rolesHandle, RoleName) IN
     IF opened = None \/ opened # command[c].owners["role"].node THEN Fails(c)
     ELSE Go(c, Validated([command[c] EXCEPT !.roleHandle = opened, !.file = 1], "makeLeaf"))

Leaf(r) == Files[r.file]

MakeLeaf(c) ==
  /\ command[c].at = "makeLeaf"
  /\ LET r == command[c] n == Made(c, Leaf(r)) IN
     IF ~Creatable(r.roleHandle, Leaf(r)) THEN Fails(c) /\ Disk
     ELSE /\ entry' = Mkdir(r.roleHandle, Leaf(r), n)
          /\ Go(c, [r EXCEPT !.at = "readLeaf", !.created = Reported(r, Leaf(r)),
                             !.made = @ \cup {[node |-> n, in |-> r.roleHandle]}])
          /\ UNCHANGED <<mode, moves>>

ReadLeaf(c) ==
  /\ command[c].at = "readLeaf" /\ Disk
  /\ LET r == command[c] n == entry[r.roleHandle][Leaf(r)] IN
     IF n = None THEN Fails(c)
     ELSE Go(c, Validated([r EXCEPT !.owners = [w \in DOMAIN @ \cup {Leaf(r)} |->
                             IF w = Leaf(r) THEN Identity(n) ELSE @[w]]], "makeFile"))

\* O_EXCL through the role's handle; the write itself can fail, and the file is
\* reported before it is written.
MakeFile(c) ==
  /\ command[c].at = "makeFile"
  /\ LET r == command[c]
         d == OpenedBelow(r.roleHandle, Leaf(r))
         n == Made(c, MainFile[Leaf(r)])
         made == [r EXCEPT !.created = Reported(r, MainFile[Leaf(r)]),
                           !.made = @ \cup {[node |-> n, in |-> d]}]
     IN IF d = None THEN Fails(c) /\ Disk
        ELSE IF ~Free(d, "main.yml") THEN Fails(c) /\ Disk
        ELSE /\ entry' = Mkdir(d, "main.yml", n)
             /\ UNCHANGED <<mode, moves>>
             /\ \/ Go(c, [made EXCEPT !.at = "done", !.exit = 2])
                \/ r.file < Len(Files) /\ Go(c, Validated([made EXCEPT !.file = @ + 1], "makeLeaf"))
                \/ r.file = Len(Files) /\ Go(c, Validated(made, "success"))

\* Everything is created.  What was created is printed, and that can fail; a
\* command that failed before prints as well, and reports its first error.
Success(c) ==
  /\ command[c].at = "success" /\ Disk
  /\ \/ Fails(c)
     \/ Go(c, [command[c] EXCEPT !.at = "done", !.exit = 0])

-----------------------------------------------------------------------------
(***************************************************************************)
(* Other programs.                                                         *)
(***************************************************************************)

\* What somebody may put under a name: move a directory away and back, put
\* another one or a link in its place, add a marker, a role or a file.
MayPut ==
  {<<Top, "project", n>> : n \in {None, Original.project, Decoy.project, LinkTo("toOther")}}
  \cup {<<Original.project, "roles", n>> :
          n \in {None, Original.roles, Decoy.roles, LinkTo("toOtherRoles")}}
  \cup {<<Top, "spelling", n>> : n \in {LinkTo("toProject"), LinkTo("toOther")}}
  \cup {<<Original.project, m, n>> : m \in MarkerNames, n \in {None} \cup {Marker(k) : k \in MarkerNames}}
  \cup {<<Original.roles, RoleName, n>> :
          n \in {None, Stranger, LinkTo("toOtherRoles")} \cup {Made(c, "role") : c \in Commands}}
  \cup (UNION {{<<Made(c, "role"), f, n>> :
                   n \in {None, Stranger, LinkTo("toOtherRoles")} \cup {Made(e, f) : e \in Commands}} :
                 c \in Commands, f \in ToSet(Files)})
  \cup {<<Made(c, f), "main.yml", Foreign>> : c \in Commands, f \in ToSet(Files)}

\* Only a directory that exists can be put somewhere or changed.
Existing(n) ==
  n[1] \in Commands => \E m \in command[n[1]].made : m.node = n

\* Between Mkdir and the look at its owner, and between the last check and the
\* file, nothing protects a directory.
Unprotected(r) == r.at \in {"readRole", "readLeaf", "makeFile"}

Disturbed(r) == [r EXCEPT !.calm = FALSE, !.gapped = @ \/ Unprotected(r)]

Move ==
  /\ moves > 0
  /\ \E put \in MayPut :
       /\ entry[put[1]][put[2]] # put[3]
       /\ Existing(put[1]) /\ Existing(put[3])
       /\ put[2] = "main.yml" => entry[put[1]][put[2]] = None
       /\ entry' = [entry EXCEPT ![put[1]][put[2]] = put[3]]
  /\ moves' = moves - 1
  /\ command' = [c \in Commands |-> Disturbed(command[c])]
  /\ UNCHANGED mode

Chmod ==
  /\ moves > 0
  /\ \E n \in {Original.project, Original.roles} \cup {Made(c, "role") : c \in Commands} :
       /\ Existing(n) /\ mode' = [mode EXCEPT ![n] = 1 - @]
  /\ moves' = moves - 1
  /\ command' = [c \in Commands |-> Disturbed(command[c])]
  /\ UNCHANGED entry

Nodes == Directories \cup Regular \cup DOMAIN Links \cup {None}

Tree(d, n) ==
  CASE d = Top /\ n = "spelling" -> LinkTo("toProject")
    [] d = Top /\ n = "project" -> Original.project
    [] d = Top /\ n = "other" -> Decoy.project
    [] d = Original.project /\ n = "roles" -> Original.roles
    [] d = Decoy.project /\ n = "roles" -> Decoy.roles
    [] d \in {Original.project, Decoy.project} /\ n = "saltbox.yml" -> Marker("saltbox.yml")
    [] OTHER -> None

Init ==
  /\ entry = [d \in Directories |-> [n \in Names |-> Tree(d, n)]]
  /\ mode = [n \in Nodes |-> 0]
  /\ \E request \in Requests :
       /\ moves = request.moves
       /\ command = [c \in Commands |->
            [at |-> "role", then |-> "", options |-> request.asked[c], root |-> <<>>,
             marker |-> "none", owners |-> <<>>, rootHandle |-> None, rolesHandle |-> None,
             roleHandle |-> None, file |-> 0, previewed |-> FALSE, created |-> <<>>,
             made |-> {}, exit |-> 0, calm |-> TRUE, gapped |-> FALSE]]

Step(c) ==
  \/ Role(c) \/ Load(c) \/ Admit(c) \/ Preview(c)
  \/ ValidateIdentity(c) \/ ValidateOwners(c)
  \/ Controls(c) \/ Targets(c) \/ OpenRoot(c) \/ OpenRoles(c)
  \/ MakeRole(c) \/ ReadRole(c) \/ OpenRole(c)
  \/ MakeLeaf(c) \/ ReadLeaf(c) \/ MakeFile(c) \/ Success(c)

Next == (\E c \in Commands : Step(c)) \/ Move \/ Chmod

Spec == Init /\ [][Next]_vars

-----------------------------------------------------------------------------
(***************************************************************************)
(* Properties.                                                             *)
(***************************************************************************)

TypeOK ==
  /\ entry \in [Directories -> [Names -> Nodes]]
  /\ mode \in [Nodes -> 0..1]
  /\ moves \in Nat
  /\ \A c \in Commands :
       /\ command[c].exit \in {0, 2} /\ command[c].file \in 0..Len(Files)
       /\ {command[c].rootHandle, command[c].rolesHandle, command[c].roleHandle}
            \subseteq Directories \cup {None}
       /\ \A m \in command[c].made : m.node \in Nodes /\ m.in \in Directories

\* Wherever the project, its roles and the new role are moved or linked to, and
\* however often, the role is created in the very roles directory that was
\* admitted when the role was planned and planned content only inside the role:
\* never in a directory that merely took its name.  Only a move right after a
\* Mkdir or right before a file is created can offer it another directory.
CreatesWhereItWasAdmitted ==
  \A c \in Commands : LET r == command[c] IN \A m \in r.made :
    /\ m.node = Made(c, "role") => m.in = r.owners["roles"].node
    /\ \A f \in ToSet(Files) :
         /\ m.node = Made(c, f) =>
              /\ m.in = r.owners["role"].node
              /\ r.gapped \/ m.in = Made(c, "role")
         /\ m.node = Made(c, MainFile[f]) => r.gapped \/ m.in = Made(c, f)

\* Whatever stops the command (a cancellation, a failed check, an I/O error or
\* another program), the paths it reports are exactly the ones it created.
ReportsWhatItCreated ==
  \A c \in Commands :
    LET r == command[c] IN
    Len(r.created) = Cardinality(r.made) /\ {m.node : m \in r.made} = {Made(c, w) : w \in ToSet(r.created)}

\* Exit status 0 means that, as long as nobody has moved anything since the
\* last check began, the path the user gave leads to the complete role.
SuccessIsWhole ==
  \A c \in Commands :
    LET r == command[c] role == Spelling \o <<"roles", RoleName>> IN
    (r.at = "done" /\ r.exit = 0 /\ r.options.write /\ r.calm /\ ~r.gapped) =>
      /\ Stat(role) = Made(c, "role")
      /\ \A f \in ToSet(Files) :
           Stat(Append(role, f)) = Made(c, f) /\ Stat(role \o <<f, "main.yml">>) = Made(c, MainFile[f])

\* A command never replaces a name that exists: not another command's role, not
\* a file somebody put where it was about to write.  So of two commands for
\* one role at most one creates it.
KeepsWhatExists ==
  moves' = moves => \A d \in Directories, n \in Names :
    entry[d][n] # None => entry'[d][n] = entry[d][n]
NothingIsOverwritten == [][KeepsWhatExists]_vars

=============================================================================
