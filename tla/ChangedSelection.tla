-------------------------- MODULE ChangedSelection --------------------------
(***************************************************************************)
(* check --changed-since (lint/changed.go) over the dependency record      *)
(* (lint/dependencies.go): Git says which names differ from a commit, the  *)
(* whole current graph is loaded, and the primaries that the changed names *)
(* may reach are selected, while somebody works on the tree.               *)
(***************************************************************************)
EXTENDS Worktree

CONSTANTS
  Commits,      \* the worktrees as committed
  Edits,        \* what an editor may write
  LinkTargets,  \* where a link may be made to lead
  IgnoreRules,  \* what .gitignore may say
  Configs,      \* what .saltbox-lint may say
  MaxMoves      \* bound: edits

VARIABLES
  base,      \* the worktree of the commit
  w,         \* the current worktree
  flagged,   \* the tracked names marked assume-unchanged or skip-worktree
  moves,     \* edits so far
  pc,        \* the stage of the command
  changed,   \* the names Git reported as changed
  uncertain, \* the flagged names Git reported
  graph,     \* the sources of the full load
  selection, \* the selected sources, each with the kinds of its reasons
  calm       \* observed: nobody has edited since the command began

vars == <<base, w, flagged, moves, pc, changed, uncertain, graph, selection, calm>>

Configuration == <<".saltbox-lint">>
\* The ignore rules may come from a directory above a nested source root.
ControlName == IF w.nested THEN <<"..", ".gitignore">> ELSE <<".gitignore">>

NoSources == [p \in {} |-> 0]

Init ==
  /\ base \in Commits /\ w = base /\ flagged = {} /\ moves = 0
  /\ pc = "idle" /\ changed = {} /\ uncertain = {}
  /\ graph = NoSources /\ selection = NoSources /\ calm = TRUE

-----------------------------------------------------------------------------
(***************************************************************************)
(* Work on the tree.                                                       *)
(***************************************************************************)

Ended == pc \in {"done", "failed"}

Edited(next, marks) ==
  /\ moves < MaxMoves /\ moves' = moves + 1 /\ ~Ended
  /\ w' = next /\ flagged' = marks /\ calm' = (pc = "idle")
  /\ UNCHANGED <<base, pc, changed, uncertain, graph, selection>>

Free(p) == CHOOSE i \in DOMAIN w.bytes : w.bytes[i].home = p

Write(p, c) ==
  Edited([w EXCEPT !.file[p] = Free(p), !.bytes[Free(p)].data = c,
                   !.link = [q \in DOMAIN @ \ {p} |-> @[q]]], flagged)
Delete(p) ==
  /\ p \in DOMAIN w.link \/ w.file[p] # 0
  /\ Edited([w EXCEPT !.file[p] = 0, !.link = [q \in DOMAIN @ \ {p} |-> @[q]]], flagged)
Redirect(p, target) ==
  Edited([w EXCEPT !.file[p] = 0,
            !.link = [q \in DOMAIN @ \cup {p} |-> IF q = p THEN target ELSE @[q]]],
         flagged)
Track(p) == Edited([w EXCEPT !.tracked = @ \cup {p}], flagged)
Untrack(p) ==
  /\ p \in w.tracked /\ Edited([w EXCEPT !.tracked = @ \ {p}], flagged \ {p})
Flag(p) == p \in w.tracked /\ Edited(w, flagged \cup {p})

Editing ==
  \/ \E p \in Paths : \/ Delete(p) \/ Track(p) \/ Untrack(p) \/ Flag(p)
                      \/ \E c \in Edits : Write(p, c)
                      \/ \E target \in LinkTargets \ {p} : Redirect(p, target)
  \/ \E rules \in IgnoreRules : Edited([w EXCEPT !.ignored = rules], flagged)
  \/ \E config \in Configs : Edited([w EXCEPT !.config = config], flagged)

-----------------------------------------------------------------------------
(***************************************************************************)
(* What Git compares: entries, not what links lead to.                     *)
(***************************************************************************)

Entry(v, p) ==
  IF p \in DOMAIN v.link THEN <<"link", v.link[p]>>
  ELSE IF p \in Paths /\ v.file[p] # 0 THEN <<"file", Data(v, p)>> ELSE <<"none">>

GitDiff ==
  {p \in base.tracked \ w.tracked : Entry(base, p) # <<"none">>}
  \cup {p \in w.tracked \ base.tracked : Entry(w, p) # <<"none">>}
  \cup {p \in (base.tracked \cap w.tracked) \ flagged : Entry(base, p) # Entry(w, p)}
  \cup (IF w.ignored # base.ignored THEN {ControlName} ELSE {})
  \cup (IF w.config # base.config THEN {Configuration} ELSE {})

GitOthers ==
  {p \in Paths \ w.tracked : Inside(p) /\ Entry(w, p) # <<"none">> /\ ~IgnoredByGit(w, p)}

-----------------------------------------------------------------------------
(***************************************************************************)
(* The full load of one worktree: a scan of the root.  Whatever a context  *)
(* directory could add is a primary of that scan already.                  *)
(***************************************************************************)

Nothing == [n \in {} |-> FALSE]

NotExcluded(v, prefixes, names) == {p \in names : ~Excluded(v, prefixes, Nothing, p)}
OfferedUnder(v, prefixes) ==
  NotExcluded(v, prefixes, Candidates(v, GitListing(v), prefixes, <<>>, TRUE))
OfferedNames(v) == OfferedUnder(v, ExcludePaths(v))

ScannedKind(v, p, owner) ==
  IF v.narrow \/ IsTemplate(p) \/ IsTemplate(owner) THEN "template"
  ELSE ParsedKind(p, Data(v, owner))
SourceNamed(v, p, owner, kind, named) ==
  [path |-> p, owner |-> owner, data |-> Data(v, owner), excluded |-> FALSE, kind |-> kind,
   role |-> Role(named), rolePath |-> RolePath(named),
   spellings |-> IF v.narrow \/ IsTemplate(p) THEN {p} ELSE {}]
SourceOf(v, p, owner, kind) ==
  SourceNamed(v, p, owner, kind, IF kind = "template" THEN owner ELSE p)
SourceOwned(v, p, owner) == SourceOf(v, p, owner, ScannedKind(v, p, owner))
ScannedSource(v, p) == SourceOwned(v, p, Owned(v, p))

OwnerAdmitted(v, p, owner) ==
  owner \notin Refusals /\ DirectoryAdmits(p, ScannedKind(v, p, owner), TRUE)
Primaries(v) == {p \in OfferedNames(v) : OwnerAdmitted(v, p, Owned(v, p))}

Graph(v) == [p \in Primaries(v) |-> ScannedSource(v, p)]

Unreadable(v, owner) == owner = Escaped \/ (owner # Missing /\ ~IsFile(v, owner))
LoadFails(v) ==
  \/ ~ConfigurationValid(v) \/ IdentityFails(v) \/ ~ControlsAdmitted(v)
  \/ \E p \in OfferedNames(v) : Unreadable(v, Owned(v, p))

-----------------------------------------------------------------------------
(***************************************************************************)
(* dependencyRecord, as far as dependencyReason looks at it.               *)
(***************************************************************************)

VariablesOnly(d) == d \in VariableDirectories

ScopesOf(v, s) ==
  {d \in ContextDirectories(s) : ~Excluded(v, ExcludePaths(v), Nothing, d)}

Members(g, d) ==
  {p \in DOMAIN g : /\ Under(d, p)
                    /\ VariablesOnly(d) => VariableDeclarationPath(p)}

\* The literal sources of the role's template tasks, whether they exist or not.
TemplateSources(g, s) ==
  IF "owning-role" \notin Requirements(s.kind) \/ s.rolePath = <<>> THEN {}
  ELSE UNION {{t.rolePath \o <<"templates", c>> : c \in Copies[t.data]} :
                t \in {g[p] : p \in {p \in DOMAIN g :
                         /\ g[p].rolePath = s.rolePath
                         /\ g[p].kind \in {"tasks", "handlers"}}}}

Observations(v, g, s) ==
  LET scopes == ScopesOf(v, s)
      named == {s.path, Configuration}
               \cup {p \in ContextFiles(s) : ~Excluded(v, ExcludePaths(v), Nothing, p)}
               \cup TemplateSources(g, s)
               \cup UNION {Members(g, d) : d \in scopes}
  IN [ path |-> s.path, directories |-> scopes,
       files |-> named \cup {g[p].owner : p \in {p \in named \cap DOMAIN g :
                                                  g[p].kind = "template"}},
       identity |-> IF "project-identity" \in Requirements(s.kind) THEN Markers ELSE {} ]

\* dependencyReason: how one changed name affects a source, "" if it does not.
DependencyReason(record, name) ==
  IF record.path = name THEN "changed-primary"
  ELSE IF DiscoveryControl(name) THEN "discovery-policy"
  ELSE IF name \in record.files THEN "dependency-file"
  ELSE IF name \in record.identity THEN "project-identity"
  ELSE IF \E d \in record.directories :
            /\ VariablesOnly(d) => VariableDeclarationPath(name)
            /\ IsPrefix(d, name)
       THEN "dependency-scope" ELSE ""

-----------------------------------------------------------------------------
(***************************************************************************)
(* The command.                                                            *)
(***************************************************************************)

At(stage, next) ==
  pc = stage /\ pc' = next /\ UNCHANGED <<base, w, flagged, moves>>

Fail ==
  /\ ~Ended /\ pc' = "failed" /\ selection' = NoSources
  /\ UNCHANGED <<base, w, flagged, moves, changed, uncertain, graph, calm>>

\* Only a worktree of Git has changes; the controls are admitted before Git may
\* read them, and the revision resolves to a commit.
Resolved ==
  /\ At("idle", "changes") /\ w.git /\ ControlsAdmitted(w)
  /\ calm' = TRUE /\ UNCHANGED <<changed, uncertain, graph, selection>>

\* Two reports of Git, one after the other.
ListChanged ==
  /\ At("changes", "others") /\ changed' = GitDiff
  /\ UNCHANGED <<uncertain, graph, selection, calm>>
ListOthers ==
  /\ At("others", "flags") /\ changed' = changed \cup GitOthers
  /\ UNCHANGED <<uncertain, graph, selection, calm>>

ListFlags ==
  /\ At("flags", "load") /\ uncertain' = flagged
  /\ UNCHANGED <<changed, graph, selection, calm>>

LoadGraph ==
  /\ At("load", "select") /\ ~LoadFails(w) /\ graph' = Graph(w)
  /\ UNCHANGED <<changed, uncertain, selection, calm>>

CandidateNames == changed \cup uncertain

\* A disappeared context can have erased its earlier edges.
Fallback ==
  \E n \in CandidateNames :
    /\ DirectorySource(n, FALSE) \/ DiscoveryControl(n) \/ n \in Markers
    /\ Owned(w, n) = Missing

\* Mutant: an alias is looked for under its own name only.
MutLexical(n) == {n}
\* Git reports a symlinked source's changed bytes under the resolved target.
SpellingsOf(n) == {n} \cup {p \in DOMAIN graph : graph[p].owner = n}

ReasonKinds(record) ==
  {IF x[1] \in changed THEN DependencyReason(record, x[2]) ELSE "git-index-flag" :
     x \in {x \in UNION {{n} \X SpellingsOf(n) : n \in CandidateNames} :
              DependencyReason(record, x[2]) # ""}}
  \cup (IF Fallback THEN {"conservative-fallback"} ELSE {})

\* affectedSelection
Select ==
  LET kinds == [p \in DOMAIN graph |-> ReasonKinds(Observations(w, graph, graph[p]))] IN
  /\ At("select", "done")
  /\ selection' = [p \in {p \in DOMAIN graph : kinds[p] # {}} |-> kinds[p]]
  /\ UNCHANGED <<changed, uncertain, graph, calm>>

Command ==
  Resolved \/ ListChanged \/ ListOthers \/ ListFlags \/ LoadGraph \/ Select \/ Fail

Next == Command \/ Editing
Spec == Init /\ [][Next]_vars

-----------------------------------------------------------------------------
(***************************************************************************)
(* Properties.                                                             *)
(***************************************************************************)

Kinds == {"changed-primary", "discovery-policy", "dependency-file",
          "project-identity", "dependency-scope", "git-index-flag",
          "conservative-fallback"}

TypeOK ==
  /\ moves \in 0..MaxMoves /\ flagged \subseteq w.tracked
  /\ pc \in {"idle", "changes", "others", "flags", "load", "select", "done", "failed"}
  /\ DOMAIN selection \subseteq DOMAIN graph
  /\ \A p \in DOMAIN selection : selection[p] # {} /\ selection[p] \subseteq Kinds

\* The sources that the rules look at besides a source s: those of its roles, of the
\* shared Docker tasks, of the other roles its names begin with, and all variable
\* declarations.
Peers(g, s) ==
  IF "owning-role" \in Requirements(s.kind)
  THEN {q \in DOMAIN g : g[q].rolePath \in OwningRoles(s) /\ g[q].kind # "template"} ELSE {}
DockerPeers(g, s) ==
  IF s.kind = "tasks" /\ Under(DockerTasks, s.path)
  THEN {q \in DOMAIN g : Under(DockerTasks, q)} ELSE {}
ForeignPeers(g, s) ==
  IF s.kind = "defaults" /\ s.data \notin Broken
  THEN {q \in DOMAIN g : /\ g[q].rolePath # <<>> /\ g[q].kind \in RoleKinds
                         /\ g[q].role \in Declares[s.data] \ {s.role}} ELSE {}
VariablePeers(g, s) ==
  IF DeclaresVariables(s.path, s.kind) /\ s.data \notin Broken
  THEN {q \in DOMAIN g : DeclaresVariables(q, g[q].kind)} ELSE {}

\* What they see from p: its own bytes and place, those sources and the templates that
\* its roles copy, the project's name and the configuration.  A source that does not
\* parse declares nothing.
Seen(g, S) == {<<q, g[q].kind, g[q].data>> : q \in S}
View(v, g, p) ==
  LET s == g[p] IN
  [ own |-> s, config |-> v.config.fields,
    name |-> IF s.kind = "template" THEN "" ELSE ProjectName(v),
    roles |-> Seen(g, Peers(g, s)), targets |-> Seen(g, DOMAIN g \cap TemplateSources(g, s)),
    docker |-> Seen(g, DockerPeers(g, s)), foreign |-> Seen(g, ForeignPeers(g, s)),
    variables |-> Seen(g, VariablePeers(g, s)) ]

\* An alias whose target lost its name: nothing of the graph remembers it.  See
\* the README.
LostTarget ==
  \E p \in Primaries(base) :
    /\ Owned(base, p) # p /\ ~DirectorySource(Owned(base, p), FALSE)
    /\ Owned(w, p) = Missing

\* No source that the edits could have changed a finding of is left out: a
\* primary that is new, or whose view differs from the one at the commit, is
\* selected, although only the current graph is ever loaded.
AffectedAreSelected ==
  pc = "done" /\ calm /\ ~LoadFails(base) /\ ~LostTarget =>
    LET before == Graph(base) IN
    \A p \in DOMAIN graph \ DOMAIN selection :
      p \in DOMAIN before /\ View(w, graph, p) = View(base, before, p)

\* A tree that was edited back to the commit selects nothing, unless a flag
\* hides what Git could compare.
UnchangedSelectsNothing ==
  pc = "done" /\ calm /\ w = base /\ flagged = {} => DOMAIN selection = {}

\* README: "A changed symlink target selects the sources that resolve to it."
ResolvedBytesAreSelected ==
  pc = "done" /\ calm /\ ~LoadFails(base) =>
    LET before == Graph(base) IN
    \A p \in DOMAIN graph \cap DOMAIN before :
      graph[p].data # before[p].data => p \in DOMAIN selection
=============================================================================
