------------------------------ MODULE References ------------------------------
(***************************************************************************)
(* Role lookups and their declarations (lint/references.go, query.go).     *)
(* A lookup names a role and a suffix; the declarations it may read are    *)
(* found by name in the sources that could provide them.  A project is a   *)
(* set of sources, each with its declarations and its lookup calls; a name *)
(* is a sequence of the parts the code joins.                              *)
(***************************************************************************)
EXTENDS Integers, Sequences, FiniteSets

CONSTANTS
  Dashed,       \* a part with dashes: part -> the part with underscores
  NotLiteral    \* targets that are no literal role names

Contexts == {"defaults", "vars", "tasks", "handlers"}

\* The roles a target may be, seen from a source.
ReferenceRolePaths(source, target) ==
  IF target \in NotLiteral THEN {}
  ELSE {<<"roles", target>>, <<"resources/roles", target>>}
       \cup (IF source.rolePath = <<>> THEN {} ELSE {<<source.rolePath[1], target>>})

-----------------------------------------------------------------------------
(***************************************************************************)
(* Calls.                                                                  *)
(***************************************************************************)

Reference(source, call, target, kind, suffixes, reasons, dynamic) ==
  [path |-> source.path, from |-> call.from, to |-> call.to, plugin |-> call.plugin, target |-> target, kind |-> kind,
   suffixes |-> suffixes, reasons |-> reasons, state |-> IF dynamic THEN "dynamic" ELSE "unavailable"]

External(call) == call.plugin \notin {"role_var", "role_web"}

\* What a call says for itself: its target, its suffixes, and whether both are known.
Interpreted(source, call) ==
  LET implicit == call.role = "none"
      own == call.plugin = "role_var" /\ source.role # ""
      known == IF implicit THEN own ELSE call.role # "dynamic"
      suffixKnown == External(call) \/ call.suffix # "dynamic"
      reasons == (IF call.bound THEN {"local-callee-binding"} ELSE {})
                 \cup (IF call.closed THEN {} ELSE {"unsupported-call-arguments"})
                 \cup (IF External(call) THEN {"external-plugin-contract"} ELSE {})
                 \cup (IF ~implicit THEN {} ELSE IF call.plugin = "role_var" THEN {"runtime-role-name"}
                       ELSE {"required-target-unavailable"})
                 \cup (IF known THEN {} ELSE {"dynamic-target"})
                 \cup (IF suffixKnown THEN {} ELSE {"dynamic-suffix"})
      suffixes == IF External(call) \/ ~suffixKnown THEN {}
                  ELSE IF call.plugin = "role_var" THEN {<<call.suffix>>}
                  ELSE {<<call.suffix, "_subdomain">>, <<call.suffix, "_domain">>}
  IN Reference(source, call, IF ~known THEN "" ELSE IF implicit THEN source.role ELSE call.role,
               IF implicit THEN "implicit" ELSE "explicit", suffixes, reasons,
               call.bound \/ ~call.closed \/ ~known \/ ~suffixKnown)

SourceRoleReferences(source) == {Interpreted(source, call) : call \in source.calls}

-----------------------------------------------------------------------------
(***************************************************************************)
(* Declarations.                                                           *)
(***************************************************************************)

\* The index has no declaration of a template or of a source that is not YAML, and
\* none whose key is no plain string.
Index(project) ==
  UNION {{[key |-> <<s.path, d.at>>, name |-> d.name, value |-> d.value, provenance |-> d.provenance,
           rolePath |-> s.rolePath, path |-> s.path, scope |-> d.scope] : d \in {d \in s.declarations : d.plain}} :
         s \in {s \in project : s.parses /\ s.kind # "template"}}

\* A declaration of a task is for the calls of the task; others reach by their place.
Eligible(source, read, d) ==
  IF d.scope # <<>> THEN d.path = source.path /\ read.from >= d.scope[1] /\ read.to <= d.scope[2]
  ELSE \/ d.path = source.path
       \/ d.rolePath \in ReferenceRolePaths(source, read.target)
       \/ source.rolePath # <<>> /\ d.rolePath = source.rolePath
       \/ d.provenance = "inventory"
       \/ d.rolePath = <<>> /\ d.provenance = "vars"

LiteralValue(d) == d.value.kind = "string" /\ ~d.value.dynamic

AliasName(read) == IF read.kind = "implicit" THEN <<"traefik_role_var">> ELSE <<read.target, "_name">>

AliasDeclarations(source, read, index) == {d \in index : Eligible(source, read, d) /\ d.name = AliasName(read)}

Aliases(read, aliases) ==
  (IF read.kind = "explicit" THEN {read.target} ELSE {})
  \cup {d.value.text : d \in {d \in aliases : LiteralValue(d) /\ d.value.text # ""}}

Fallback(read, suffix) ==
  IF suffix = <<"_name">> THEN <<read.target>> \o suffix ELSE <<read.target, "_role">> \o suffix

Underscored(name) == [k \in DOMAIN name |-> IF name[k] \in DOMAIN Dashed THEN Dashed[name[k]] ELSE name[k]]

\* The names the lookup tries for a suffix, each with what it is.
LookupNames(read, aliases, suffix) ==
  LET primary == {<<alias>> \o suffix : alias \in aliases}
      layer(name) == IF name = Fallback(read, suffix) THEN "fallback" ELSE "possible-primary"
      spelled == {Fallback(read, suffix)} \cup primary
      origin(name) == CHOOSE other \in spelled : Underscored(other) = name
  IN [name \in spelled \cup {Underscored(other) : other \in spelled} |->
        IF name \in spelled THEN layer(name) ELSE layer(origin(name)) \o "-underscore"]

-----------------------------------------------------------------------------
(***************************************************************************)
(* Resolution.                                                             *)
(***************************************************************************)

Candidates(source, read, index, aliases) ==
  {[suffix |-> suffix, layer |-> LookupNames(read, aliases, suffix)[d.name], declaration |-> d] :
     <<suffix, d>> \in {pair \in read.suffixes \X {d \in index : Eligible(source, read, d)} :
                          pair[2].name \in DOMAIN LookupNames(read, aliases, pair[1])}}

\* Mutant: the sources of the calling role are not asked for.
MutIncomplete(project, source, read) ==
  \E s \in project : ~s.parses /\
    \/ s.kind = "inventory" \/ (s.kind = "vars" /\ s.rolePath = <<>>)
    \/ s.rolePath \in ReferenceRolePaths(source, read.target) /\ s.kind \in Contexts

\* A source that could declare something cannot be read.
Incomplete(project, source, read) ==
  \E s \in project : ~s.parses /\
    \/ s.kind = "inventory" \/ (s.kind = "vars" /\ s.rolePath = <<>>)
    \/ source.rolePath # <<>> /\ s.rolePath = source.rolePath /\ s.kind \in Contexts
    \/ s.rolePath \in ReferenceRolePaths(source, read.target) /\ s.kind \in Contexts

FoundLocal(project, source, read) ==
  \E s \in project : s.rolePath \in ReferenceRolePaths(source, read.target) /\ s.kind \in Contexts \cup {"template"}

CandidateReasons(candidates) ==
  (IF \E c \in candidates : c.declaration.value.kind = "null" THEN {"literal-null-declaration-skipped-at-runtime"} ELSE {})
  \cup (IF \E c \in candidates : c.declaration.provenance = "set-fact" THEN {"set-fact-execution-unmodeled"} ELSE {})
  \cup (IF \E c \in candidates : c.declaration.provenance = "inventory" THEN {"inventory-scope-unmodeled"} ELSE {})

Unresolved(read, reasons) == [state |-> read.state, reasons |-> read.reasons \cup reasons, candidates |-> {}, aliases |-> {}]

\* The state of a read with these candidates, and what makes it unavailable.
Verdict(project, source, read, count) ==
  IF Incomplete(project, source, read) THEN <<"unavailable", {"invalid-target-context"}>>
  ELSE IF ~FoundLocal(project, source, read) THEN <<"unavailable", {"local-target-context-unavailable"}>>
  ELSE IF \E suffix \in read.suffixes : count[suffix] = 0 THEN <<"unavailable", {"no-indexed-declaration"}>>
  ELSE IF \E suffix \in read.suffixes : count[suffix] > 1 THEN <<"ambiguous", {}>> ELSE <<"resolved", {}>>

Concluded(read, candidates, aliases, verdict) ==
  [state |-> verdict[1], candidates |-> candidates, aliases |-> aliases,
   reasons |-> read.reasons \cup {"runtime-alias-unmodeled"} \cup CandidateReasons(candidates) \cup verdict[2]
               \cup (IF \E d \in aliases : ~LiteralValue(d) \/ d.value.text = "" THEN {"dynamic-alias-declaration"} ELSE {})]

FromCandidates(project, source, read, candidates, aliases) ==
  Concluded(read, candidates, aliases,
    Verdict(project, source, read, [suffix \in read.suffixes |-> Cardinality({c \in candidates : c.suffix = suffix})]))

FromAliases(project, source, read, index, aliases) ==
  FromCandidates(project, source, read, Candidates(source, read, index, Aliases(read, aliases)), aliases)

FromIndex(project, source, read, index) ==
  FromAliases(project, source, read, index, AliasDeclarations(source, read, index))

Resolve(project, source, read) ==
  IF read.state = "dynamic" \/ "external-plugin-contract" \in read.reasons THEN Unresolved(read, {})
  ELSE IF ReferenceRolePaths(source, read.target) = {} THEN Unresolved(read, {"external-or-unavailable-target"})
  ELSE FromIndex(project, source, read, Index(project))

-----------------------------------------------------------------------------
(***************************************************************************)
(* What is loaded: for `references`, the selected source and its context;  *)
(* for a query, the conventional sources below the root.                   *)
(***************************************************************************)

ReferenceContext(tree, source) ==
  LET roles == {source.rolePath} \cup UNION {ReferenceRolePaths(source, r.target) : r \in SourceRoleReferences(source)}
  IN {s \in tree : s.kind = "inventory" \/ (s.kind = "vars" /\ s.rolePath = <<>>)
                   \/ (s.rolePath # <<>> /\ s.rolePath \in roles /\ s.kind \in Contexts \cup {"template"})}

Admitted(sources) == {s \in sources : ~s.excluded}

NarrowProject(tree, source) == {source} \cup Admitted(ReferenceContext(tree, source))

FullProject(tree, source) == {source} \cup Admitted({s \in tree : s.kind # "generic"})

-----------------------------------------------------------------------------
(***************************************************************************)
(* Completion and navigation.                                              *)
(***************************************************************************)

Spellings(prefix) == {prefix, Underscored(prefix)}

IsPrefixOf(prefix, name) == Len(prefix) < Len(name) /\ SubSeq(name, 1, Len(prefix)) = prefix

\* The suffixes that are offered: each that some name has after a prefix, if the
\* resolver finds a declaration with it.
Prefixes(read, aliases) ==
  {<<read.target, "_role">>} \cup (IF read.kind = "explicit" THEN {<<read.target>>} ELSE {})
  \cup {<<d.value.text>> : d \in {d \in aliases : LiteralValue(d)}}

Cut(names, prefixes) ==
  {SubSeq(name, Len(prefix) + 1, Len(name)) :
     <<name, prefix>> \in {pair \in names \X UNION {Spellings(prefix) : prefix \in prefixes} : IsPrefixOf(pair[2], pair[1])}}

ReadWith(read, suffix) == [read EXCEPT !.suffixes = {suffix}, !.state = "unavailable", !.reasons = {}]

SuffixCompletions(project, source, read) ==
  IF read.state = "dynamic" \/ "external-plugin-contract" \in read.reasons THEN {}
  ELSE {suffix \in {<<"_name">>} \cup Cut({d.name : d \in Index(project)}, Prefixes(read, Resolve(project, source, read).aliases)) :
          Resolve(project, source, ReadWith(read, suffix)).candidates # {}}

Covers(read, path, offset) == read.path = path /\ read.from <= offset /\ offset < read.to

\* Mutant: the first of the calls around the offset, not the innermost.
MutInnermost(reads) == {r \in reads : \A other \in reads : r.from <= other.from}

Innermost(reads) == {r \in reads : \A other \in reads : r.to - r.from <= other.to - other.from}

\* Every lookup of the project, resolved.
Resolved(project) ==
  UNION {{[read |-> r, found |-> Resolve(project, s, r)] : r \in SourceRoleReferences(s)} : s \in {s \in project : s.parses}}

NoAnswer(state) == [state |-> state, declarations |-> {}, reads |-> {}, incomplete |-> TRUE]

\* A query at an offset of a source: the declarations of the lookup there, or the
\* declaration there; for references also the lookups that may read them.
Chosen(all, path, offset) ==
  LET around == {r \in {x.read : x \in all} : Covers(r, path, offset)} IN {x \in all : x.read \in Innermost(around)}

Wanted(project, source, operation, offset, chosen) ==
  IF chosen # {} THEN UNION {{c.declaration : c \in x.found.candidates} : x \in chosen}
  ELSE IF operation = "references" THEN {d \in Index(project) : d.key = <<source.path, offset>>} ELSE {}

Readers(all, keys) ==
  {x.read : x \in {x \in all : x.found.state # "dynamic" /\ \E c \in x.found.candidates : c.declaration.key \in keys}}

Answer(project, operation, all, chosen, declarations) ==
  [state |-> IF chosen # {} THEN (CHOOSE x \in chosen : TRUE).found.state
             ELSE IF declarations # {} THEN "resolved" ELSE "none",
   declarations |-> declarations,
   reads |-> IF operation = "references" THEN Readers(all, {d.key : d \in declarations}) ELSE {},
   incomplete |-> \/ \E s \in project : ~s.parses
                  \/ operation = "references" /\ \E x \in all : x.found.state = "dynamic"]

AnswerFrom(project, source, operation, offset, all, chosen) ==
  Answer(project, operation, all, chosen, Wanted(project, source, operation, offset, chosen))

AnswerAmong(project, source, operation, offset, all) ==
  AnswerFrom(project, source, operation, offset, all, Chosen(all, source.path, offset))

Query(tree, source, operation, offset) ==
  LET project == FullProject(tree, source)
  IN IF source.excluded \/ ~source.parses THEN NoAnswer("unavailable")
     ELSE AnswerAmong(project, source, operation, offset, Resolved(project))
=============================================================================
