---------------------------- MODULE MCReferences ----------------------------
(***************************************************************************)
(* A small repository edited under role lookups: an author declares, calls, *)
(* breaks, mends and ignores, and between two edits anyone may ask.        *)
(***************************************************************************)
EXTENDS References, TLC

CONSTANT MaxEdits

VARIABLES
  files,     \* path -> its declarations, its calls, whether it parses and is ignored
  edits

vars == <<files, edits>>

\* The conventional place of each file: its kind and its role.
Places ==
  [tasks     |-> [kind |-> "tasks",     role |-> "alpha", rolePath |-> <<"roles", "alpha">>],
   own       |-> [kind |-> "defaults",  role |-> "alpha", rolePath |-> <<"roles", "alpha">>],
   defaults  |-> [kind |-> "defaults",  role |-> "be-ta", rolePath |-> <<"roles", "be-ta">>],
   resource  |-> [kind |-> "vars",      role |-> "be-ta", rolePath |-> <<"resources/roles", "be-ta">>],
   template  |-> [kind |-> "template",  role |-> "be-ta", rolePath |-> <<"roles", "be-ta">>],
   other     |-> [kind |-> "defaults",  role |-> "gamma", rolePath |-> <<"roles", "gamma">>],
   inventory |-> [kind |-> "inventory", role |-> "",      rolePath |-> <<>>],
   vars      |-> [kind |-> "vars",      role |-> "",      rolePath |-> <<>>]]

Paths == DOMAIN Places

DashedParts == ("be-ta" :> "be_ta")

Text(text) == [kind |-> "string", text |-> text, dynamic |-> FALSE]
Templated == [kind |-> "string", text |-> "", dynamic |-> TRUE]
Null == [kind |-> "null", text |-> "", dynamic |-> FALSE]

Ported == <<"be-ta", "_port">>
Named == <<"be-ta", "_name">>

\* The names a file is worth to declare, each at an offset of its own.
Names ==
  [own       |-> <<Ported, <<"alpha", "_role", "_port">>, <<"traefik_role_var">>>>,
   defaults  |-> <<Ported, <<"be_ta", "_role", "_port">>, Named, <<"be-ta", "_role", "_web", "_domain">>>>,
   resource  |-> <<<<"be_ta", "_port">>, <<"aka", "_port">>>>,
   other     |-> <<Ported>>,
   inventory |-> <<Ported, Named, <<"traefik_role_var">>>>,
   vars      |-> <<<<"aka", "_port">>>>]

Values(name) ==
  IF name \in {Named, <<"traefik_role_var">>} THEN {Text("aka"), Templated} ELSE IF name = Ported THEN {Text("x"), Null} ELSE {Text("x")}

Declared(at, name, value, provenance, scope) ==
  [at |-> at, name |-> name, value |-> value, provenance |-> provenance, scope |-> scope, plain |-> TRUE]

\* What a file may declare: a task, for itself or as a fact.
Declarable(path) ==
  IF path = "tasks" THEN
    {Declared(where[3], name, Text("aka"), where[1], where[2]) :
       <<name, where>> \in {Named, Ported} \X {<<"task-vars", <<0, 29>>, 1>>, <<"set-fact", <<>>, 2>>}}
  ELSE IF path = "template" THEN {}
  ELSE {Declared(k, Names[path][k], value, Places[path].kind, <<>>) :
          <<k, value>> \in UNION {{k} \X Values(Names[path][k]) : k \in DOMAIN Names[path]}}

Call(from, to, plugin, role, suffix) ==
  [from |-> from, to |-> to, plugin |-> plugin, role |-> role, suffix |-> suffix, closed |-> TRUE, bound |-> FALSE]

\* The second task starts at 30; the call at 14 is inside that at 12.
LookupCalls ==
  {Call(12, 20, "role_var", "be-ta", "_port"), Call(14, 18, "role_var", "none", "_port"),
   Call(32, 40, "role_web", "be-ta", "_web"), Call(32, 40, "role_var", "be-ta", "_port"),
   Call(22, 26, "role_var", "be-ta", "_name"), [Call(32, 40, "role_var", "be-ta", "_port") EXCEPT !.bound = TRUE],
   Call(32, 40, "role_var", "dynamic", "_port"), Call(32, 40, "role_web", "none", "_web"),
   Call(32, 40, "other.role_var", "be-ta", "_port")}

CallsOf(path) == IF path = "tasks" THEN LookupCalls ELSE IF path \in {"template", "own"} THEN {Call(12, 20, "role_var", "be-ta", "_port")} ELSE {}

SourceAt(path) ==
  [path |-> path, kind |-> Places[path].kind, role |-> Places[path].role, rolePath |-> Places[path].rolePath,
   parses |-> files[path].parses, excluded |-> files[path].excluded,
   declarations |-> files[path].declarations, calls |-> files[path].calls]

Existing == {path \in Paths : files[path].exists}

Tree == {SourceAt(path) : path \in Existing}

NoFile == [exists |-> FALSE, parses |-> TRUE, excluded |-> FALSE, declarations |-> {}, calls |-> {}]

Init ==
  /\ files = [path \in Paths |-> [NoFile EXCEPT !.exists = path = "tasks"]]
  /\ edits = 0

Edit(path, file) ==
  /\ edits < MaxEdits
  /\ edits' = edits + 1
  /\ files' = [files EXCEPT ![path] = file]

Declare(path) ==
  \E d \in Declarable(path) :
    /\ \A other \in files[path].declarations : other.at # d.at
    /\ Edit(path, [files[path] EXCEPT !.exists = TRUE, !.declarations = @ \cup {d}])

Lookup(path) ==
  \E call \in CallsOf(path) :
    /\ \A other \in files[path].calls : other.from # call.from
    /\ Edit(path, [files[path] EXCEPT !.exists = TRUE, !.calls = @ \cup {call}])

Create(path) == path \notin Existing /\ Edit(path, [NoFile EXCEPT !.exists = TRUE])

Break(path) == path \in Existing /\ files[path].parses /\ path # "template" /\ Edit(path, [files[path] EXCEPT !.parses = FALSE])

Ignore(path) == path \in Existing /\ ~files[path].excluded /\ Edit(path, [files[path] EXCEPT !.excluded = TRUE])

Next == \E path \in Paths : Declare(path) \/ Lookup(path) \/ Create(path) \/ Break(path) \/ Ignore(path)

Spec == Init /\ [][Next]_vars

-----------------------------------------------------------------------------
Readable == {s \in Tree : s.parses /\ ~s.excluded}

\* A read resolves the same among the context that `references` loads and in
\* the whole repository that a query loads (references.go referenceContextDirectories).
LoadsAgree ==
  \A s \in Readable : \A r \in SourceRoleReferences(s) :
    Resolve(NarrowProject(Tree, s), s, r) = Resolve(FullProject(Tree, s), s, r)

Uses(tree, s, r) == {<<r, d.key>> : d \in Query(tree, s, "definition", r.from).declarations}
Used(tree, readable) == UNION {UNION {Uses(tree, s, r) : r \in SourceRoleReferences(s)} : s \in readable}
Listed(tree, d) == {<<r, d.key>> : r \in Query(tree, SourceAt(d.path), "references", d.key[2]).reads}

\* Navigation has an inverse: a definition leads from a lookup to a declaration
\* exactly when the references of the declaration list the lookup, whatever file
\* each was asked in (query.go Query).
NavigationIsInverse == Used(Tree, Readable) = UNION {Listed(Tree, d) : d \in Index(Readable)}

\* What completion offers for a suffix without dashes is what the lookup would
\* find with it, under every spelling it tries (query.go queryCompletions).
CompletionsResolve ==
  \A s \in Readable : \A r \in SourceRoleReferences(s) :
    r.plugin = "role_var" /\ r.state # "dynamic" =>
      \A suffix \in {<<"_port">>, <<"_name">>} :
        suffix \in SuffixCompletions(FullProject(Tree, s), s, r)
          <=> Resolve(FullProject(Tree, s), s, [r EXCEPT !.suffixes = {suffix}]).candidates # {}

KeptOrUnavailable(before, after) ==
  after = before \/ (after.state = "unavailable" /\ "invalid-target-context" \in after.reasons)
Kept(s, before, after) ==
  \A r \in SourceRoleReferences(s) :
    KeptOrUnavailable(Resolve(FullProject(before, s), s, r), Resolve(FullProject(after, s), s, r))
BreakKeeps ==
  \A path \in Existing : files[path].parses /\ ~files'[path].parses =>
    \A other \in Existing \ {path} : SourceAt(other) \in Readable => Kept(SourceAt(other), Tree, Tree')

\* When a file stops parsing, no other file's lookup moves to another answer: it
\* keeps the one it had or is unavailable for its context (references.go resolve).
BrokenIsUnavailable == [][BreakKeeps]_vars
=============================================================================
