------------------------------ MODULE Worktree ------------------------------
(***************************************************************************)
(* What the loader (lint/discovery.go, exclusions.go, config.go) makes of  *)
(* one moment of a worktree: how a path is classified and resolved, which  *)
(* paths a scan offers, which are excluded and which belong to the context *)
(* of a source.  Everything here is a function of a world w and of paths.  *)
(*                                                                         *)
(* A path is the sequence of its segments below the source root; a path    *)
(* that begins with ".." lies outside the root.  The bytes of a file are   *)
(* reduced to a content, which the constants describe.                     *)
(***************************************************************************)
EXTENDS Naturals, Sequences, FiniteSets, SequencesExt

CONSTANTS
  Paths,        \* the paths at which something may exist
  YamlNames,    \* the last segments with a .yml or .yaml extension
  JinjaNames,   \* the last segments with a .j2 extension
  Plays,        \* the contents that parse to a list with a play
  Broken,       \* the contents that do not parse
  Declares,     \* for a content, the roles its declared names begin with
  Reads,        \* for a content, the roles its role_var lookups name
  Copies        \* for a content, the literal sources of its template tasks

Missing == <<"missing">>     \* nothing is there
Escaped == <<"..">>          \* it lies outside the root
Refusals == {Missing, Escaped}

Dir(p) == SubSeq(p, 1, Len(p) - 1)
Under(d, p) == IsStrictPrefix(d, p)

-----------------------------------------------------------------------------
(***************************************************************************)
(* Classification of a name.                                               *)
(***************************************************************************)

RoleStart(p) ==
  IF Len(p) >= 5 /\ p[1] = "resources" /\ p[2] = "roles" THEN 1 ELSE 0

InRole(p) == Len(p) >= RoleStart(p) + 4 /\ p[RoleStart(p) + 1] = "roles"
RolePath(p) == IF InRole(p) THEN SubSeq(p, 1, RoleStart(p) + 2) ELSE <<>>
Role(p) == IF InRole(p) THEN p[RoleStart(p) + 2] ELSE ""

\* A template location does not depend on where the root was put.
TemplateLocation(p) ==
  \/ Last(p) \in JinjaNames
  \/ \E i \in 1..Len(p) : /\ p[i] = "roles" /\ i + 3 <= Len(p)
                          /\ p[i + 2] = "templates"
  \/ \E i \in 1..Len(p) : /\ p[i] = "resources" /\ i + 2 <= Len(p)
                          /\ p[i + 1] = "templates"

RoleKinds == {"defaults", "tasks", "handlers", "vars"}
Markers == {<<"saltbox.yml">>, <<"saltbox.yaml">>, <<"sandbox.yml">>, <<"sandbox.yaml">>}
VariableFiles == {<<"vars.yml">>, <<"vars.yaml">>}
InventoryFiles == {<<"inventory.yml">>, <<"inventory.yaml">>}

Classified(p) ==
  CASE InRole(p) /\ Last(p) \notin JinjaNames ->
         LET area == p[RoleStart(p) + 3] IN
         IF area = "templates" THEN "template"
         ELSE IF area \in RoleKinds THEN area ELSE "generic"
    [] ~InRole(p) \/ Last(p) \in JinjaNames ->
         CASE TemplateLocation(p) -> "template"
           [] Len(p) >= 3 /\ p[1] = "resources" /\ p[2] = "tasks" -> "tasks"
           [] Len(p) >= 2 /\ p[1] \in {"tasks", "handlers"} -> p[1]
           [] Len(p) >= 2 /\ p[1] = "playbooks" -> "playbook"
           [] p[1] \in {"group_vars", "host_vars"} -> "inventory"
           [] /\ Len(p) >= 2 /\ p[1] \in {"inventory", "inventories"}
              /\ \E i \in 2..(Len(p) - 1) : p[i] \in {"group_vars", "host_vars"}
                -> "inventory"
           [] p \in InventoryFiles -> "inventory"
           [] p \in Markers -> "playbook"
           [] p \in VariableFiles -> "vars"
           [] OTHER -> "generic"

IsTemplate(p) == Classified(p) = "template"
Supported(p) == IsTemplate(p) \/ Last(p) \in YamlNames

\* The kind of parsed bytes: a list of plays at the top level is a playbook.
ParsedKind(p, data) ==
  IF Classified(p) = "generic" /\ Len(p) = 1 /\ data \in Plays THEN "playbook"
  ELSE Classified(p)

\* directorySource: what a scan may offer by name alone.
DirectorySource(p, selected) ==
  /\ Supported(p)
  /\ Classified(p) # "generic" \/ (selected /\ Len(p) = 1)

\* The user's own overrides for localhost declare nothing of the project.
LocalhostOverride(p) ==
  \/ Last(p) = "localhost.yml"
  \/ \E i \in 1..Len(p) : /\ i + 2 <= Len(p) /\ p[i + 1] = "localhost"
                          /\ p[i] \in {"group_vars", "host_vars"}

DeclaresVariables(p, kind) ==
  /\ kind \in {"defaults", "vars", "inventory"}
  /\ p # <<"localhost.yml">>
  /\ kind = "inventory" => ~LocalhostOverride(p)

VariableDeclarationPath(p) == Supported(p) /\ DeclaresVariables(p, Classified(p))

VariableDirectories ==
  {<<"roles">>, <<"resources", "roles">>, <<"group_vars">>, <<"host_vars">>,
   <<"inventory">>, <<"inventories">>}

DiscoveryControl(p) == Last(p) = ".gitignore" \/ p = <<".git", "info", "exclude">>

-----------------------------------------------------------------------------
(***************************************************************************)
(* Resolution of a path.  w.link maps the paths that are symbolic links to *)
(* where they lead, w.file the paths that are files to their inodes (0 is  *)
(* none) and w.bytes the inodes to what they hold.                         *)
(***************************************************************************)

\* Every link on the way is followed; links lead at most through one other.
Through(w, p, l) == w.link[l] \o SubSeq(p, Len(l) + 1, Len(p))
FollowFirst(w, p, links) ==
  IF links = {} THEN p
  ELSE Through(w, p, CHOOSE l \in links : \A k \in links : Len(l) <= Len(k))
Follow(w, p) == FollowFirst(w, p, {l \in DOMAIN w.link : IsPrefix(l, p)})

Resolve(w, p) == Follow(w, Follow(w, p))

IsFile(w, p) == p \in Paths /\ w.file[p] # 0
\* A directory stays when it is emptied.
IsDirectory(w, p) == p = <<>> \/ \E q \in Paths \cup DOMAIN w.link : Under(p, q)
IsThere(w, q) == IsFile(w, q) \/ IsDirectory(w, q)
Exists(w, p) == IsThere(w, Resolve(w, p))
Inside(p) == p = <<>> \/ p[1] # ".."
Data(w, p) == w.bytes[w.file[p]].data

\* canonicalDirectory: the nearest existing ancestor is resolved; a dangling
\* link on the way has no canonical name.
Deepest(kept) == CHOOSE i \in kept : \A j \in kept : j <= i
DirectoryFrom(w, d, i) ==
  IF i < Len(d) /\ SubSeq(d, 1, i + 1) \in DOMAIN w.link THEN Missing
  ELSE Resolve(w, SubSeq(d, 1, i)) \o SubSeq(d, i + 1, Len(d))
CanonicalDirectory(w, d) ==
  DirectoryFrom(w, d, Deepest({i \in 0..Len(d) : Exists(w, SubSeq(d, 1, i))}))

\* Mutant: an owner anywhere is good enough.
MutOwnedAnywhere(w, p) == IF Exists(w, p) THEN Resolve(w, p) ELSE Missing

\* ownedSourcePath: the resolved owner, refused before anything is read when
\* it, or the directory a missing name would be in, is outside the root.
OwnerAt(w, p, q) ==
  IF IsThere(w, q) THEN IF Inside(q) THEN q ELSE Escaped
  ELSE IF Inside(CanonicalDirectory(w, Dir(p))) THEN Missing ELSE Escaped
Owned(w, p) == OwnerAt(w, p, Resolve(w, p))

\* absoluteTarget: directory aliases are resolved, a file keeps its last name.
InDirectory(d, name) == IF d = Missing THEN Missing ELSE Append(d, name)
TargetAt(w, p, q) ==
  IF IsDirectory(w, q) THEN q ELSE InDirectory(CanonicalDirectory(w, Dir(p)), Last(p))
AbsoluteTarget(w, p) == TargetAt(w, p, Resolve(w, p))

\* isTemplateFile: by its absolute spelling or by the file it leads to.
IsTemplateFile(w, p) ==
  w.narrow \/ IsTemplate(p) \/ (Exists(w, p) /\ Resolve(w, p) # <<>>
                                /\ IsTemplate(Resolve(w, p)))

-----------------------------------------------------------------------------
(***************************************************************************)
(* The project's own policy.                                               *)
(***************************************************************************)

\* One entry of exclude_paths is a relative name without parent traversal.
ValidExclude(name) == name # <<>> /\ \A i \in DOMAIN name : name[i] # ".."

NoRepeats(s) == \A i, j \in DOMAIN s : s[i] = s[j] => i = j

\* One field of .saltbox-lint: its key, whether its value has the shape the key
\* asks for, and its names (the excluded paths, or the roles and what each
\* may use).
ValidField(field) ==
  /\ field.key \in {"exclude_paths", "namespace_sharing"}
  /\ field.shaped
  /\ NoRepeats(field.names)
  /\ field.key = "exclude_paths" =>
       \A i \in DOMAIN field.names : ValidExclude(field.names[i])

\* loadConfiguration refuses whatever is not a small regular file with at most
\* one document, a mapping of valid fields.
ConfigurationValid(w) ==
  LET c == w.config IN
  \/ c.state = "missing"
  \/ /\ c.state = "regular" /\ c.small /\ c.documents <= 1
     /\ NoRepeats([i \in DOMAIN c.fields |-> c.fields[i].key])
     /\ \A i \in DOMAIN c.fields : ValidField(c.fields[i])

\* The excluded prefixes of an accepted configuration.
ExcludePaths(w) ==
  IF w.config.state = "missing" THEN {}
  ELSE UNION {ToSet(w.config.fields[i].names) : i \in
                {i \in DOMAIN w.config.fields : w.config.fields[i].key = "exclude_paths"}}

ExcludedBy(prefixes, p) == \E x \in prefixes : IsPrefix(x, p)

\* Git's own matching covers everything below an ignored directory.
IgnoredByGit(w, p) == w.git /\ \E x \in w.ignored : IsPrefix(x, p)

\* The names under which Git is asked about a path: the physical owner beyond
\* a directory link, both leaf names of a file link.
NamesUnder(p, owner, parent) ==
  (IF parent \in {Missing, Dir(p)} THEN {p} ELSE {})
  \cup (IF owner \notin Refusals /\ (owner # p \/ parent # Dir(p))
        THEN {owner} ELSE {})
NamesForGit(w, p) == NamesUnder(p, Owned(w, p), CanonicalDirectory(w, Dir(p)))

\* exclusionReasons for one path, given what Git answered before.
OwnerExcluded(prefixes, owner) == owner \notin Refusals /\ ExcludedBy(prefixes, owner)
Excluded(w, prefixes, answers, p) ==
  \/ ExcludedBy(prefixes, p)
  \/ OwnerExcluded(prefixes, Owned(w, p))
  \/ \E n \in NamesForGit(w, p) :
       IF n \in DOMAIN answers THEN answers[n] ELSE IgnoredByGit(w, n)

\* git ls-files --cached --others --exclude-standard, inside the root.
GitListing(w) ==
  {p \in Paths : Inside(p) /\
     (p \in w.tracked \/ (/\ IsFile(w, p) \/ p \in DOMAIN w.link
                          /\ ~IgnoredByGit(w, p)))}

\* The controls Git would read: an escaped one refuses the load before it does.
ControlsAdmitted(w) == w.git => w.escapedControls = {}

\* inspectProjectIdentity: the first regular marker names the project, unless
\* an earlier one could not be inspected.
MarkerOrder == <<<<"saltbox.yml">>, <<"saltbox.yaml">>, <<"sandbox.yml">>, <<"sandbox.yaml">>>>

MarkerState(w, m) ==
  IF m \in w.unavailable THEN "unavailable"
  ELSE IF m \in Paths /\ IsFile(w, Resolve(w, m)) THEN "regular"
  ELSE IF Exists(w, m) THEN "nonregular" ELSE "missing"

FirstMarker(w) ==
  SelectInSeq(MarkerOrder, LAMBDA m : MarkerState(w, m) \in {"regular", "unavailable"})

IdentityFails(w) ==
  FirstMarker(w) # 0 /\ MarkerState(w, MarkerOrder[FirstMarker(w)]) = "unavailable"

ProjectName(w) ==
  IF FirstMarker(w) = 0 THEN "" ELSE IF FirstMarker(w) <= 2 THEN "saltbox" ELSE "sandbox"

-----------------------------------------------------------------------------
(***************************************************************************)
(* Scans.                                                                  *)
(***************************************************************************)

\* What a walk passes on its way to p: no .git directory and no excluded one.
Walked(w, prefixes, dir, p) ==
  \A i \in (Len(dir) + 1)..(Len(p) - 1) :
    /\ p[i] # ".git"
    /\ ~ExcludedBy(prefixes, SubSeq(p, 1, i))
    /\ SubSeq(p, 1, i) \notin DOMAIN w.link

\* The names a directory offers before anything is read: from Git's listing, or
\* from the walk where there is no Git.
Candidates(w, listing, prefixes, dir, selected) ==
  LET offered == IF w.git THEN {p \in listing : IsPrefix(dir, p)}
                 ELSE {p \in Paths : /\ Under(dir, p) /\ Inside(p)
                                     /\ IsFile(w, p) \/ p \in DOMAIN w.link
                                     /\ Walked(w, prefixes, dir, p)}
  IN {p \in offered : DirectorySource(p, selected) \/ (selected /\ w.narrow)}

\* directoryAdmitsSource: admission once the structure is known.
DirectoryAdmits(p, kind, selected) ==
  \/ selected /\ kind = "template"
  \/ /\ DirectorySource(p, selected)
     /\ selected /\ Classified(p) = "generic" => kind = "playbook"

\* directoryWouldSelect, for a source already read.
WouldSelect(w, listing, source) ==
  /\ ~source.excluded
  /\ DirectoryAdmits(source.path, source.kind, TRUE)
  /\ w.git => source.path \in listing
  /\ IsFile(w, Resolve(w, source.path))

-----------------------------------------------------------------------------
(***************************************************************************)
(* The context of a source: contextRequirements, contextDirectories and    *)
(* contextFiles, with the requirements of the registered rules.            *)
(***************************************************************************)

Requirements(kind) ==
  (IF kind \in {"defaults", "tasks", "handlers", "template"} THEN {"owning-role"} ELSE {})
  \cup (IF kind = "tasks" THEN {"shared-docker"} ELSE {})
  \cup (IF kind # "template" THEN {"project-identity"} ELSE {})
  \cup (IF kind = "defaults" THEN {"role-namespaces"} ELSE {})
  \cup (IF kind \in {"defaults", "vars", "inventory"} THEN {"variable-declarations"} ELSE {})

DockerTasks == <<"resources", "tasks", "docker">>

\* Where a role a name could belong to may live.  The code adds the directory beside
\* the source's own role, which classify has put in one of these two.
ReferenceRolePaths(source, role) == {<<"roles", role>>, <<"resources", "roles", role>>}

\* The roles whose directories are read for a source: a template's lexical
\* spellings count besides its canonical owner.
OwningRoles(source) ==
  ({source.rolePath} \cup (IF source.kind = "template"
      THEN {RolePath(source.path)} \cup {RolePath(s) : s \in source.spellings \ {<<>>}}
      ELSE {})) \ {<<>>}

NamespaceDirectories(source) ==
  {Append(r, area) : r \in UNION {ReferenceRolePaths(source, role) :
                                    role \in Declares[source.data] \ {source.role}},
                     area \in RoleKinds}

ContextDirectories(source) ==
  IF source.excluded THEN {} ELSE
  (IF "owning-role" \in Requirements(source.kind)
   THEN {Append(r, area) : r \in OwningRoles(source), area \in RoleKinds \cup {"templates"}}
   ELSE {})
  \cup (IF source.kind = "tasks" /\ Under(DockerTasks, source.path)
        THEN {DockerTasks} ELSE {})
  \cup (IF source.kind = "defaults" /\ source.data \notin Broken
        THEN NamespaceDirectories(source) ELSE {})
  \cup (IF source.data \notin Broken /\ DeclaresVariables(source.path, source.kind)
        THEN VariableDirectories ELSE {})

\* referenceContextDirectories: where a role a source names may be declared.
ReferenceDirectories(source) ==
  IF source.excluded THEN {} ELSE
  {<<d>> : d \in {"group_vars", "host_vars", "inventory", "inventories"}}
  \cup {Append(r, area) :
          r \in ({source.rolePath} \ {<<>>})
               \cup UNION {ReferenceRolePaths(source, role) : role \in Reads[source.data]},
          area \in RoleKinds \cup {"templates"}}

ContextFiles(source) ==
  IF /\ ~source.excluded /\ source.data \notin Broken
     /\ DeclaresVariables(source.path, source.kind)
  THEN InventoryFiles \cup VariableFiles ELSE {}
=============================================================================
