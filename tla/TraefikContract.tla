--------------------------- MODULE TraefikContract ---------------------------
(* Who reports what about a role's Traefik contract                             *)
(* (src/lint/rules_traefik.go, analysis.go, template_configuration.go and the   *)
(* ownership in template.go).  A role declares Traefik in its defaults, its     *)
(* tasks render the contract themselves or through templates, or forward an     *)
(* adapter to another role; each defect belongs to one of the sources.          *)
(*                                                                              *)
(* `project` is [sources, selected, disk]: the loaded sources by path, the      *)
(* paths the user asked for, and what a template's path leads to on disk now.   *)
EXTENDS TraefikOutput

CONSTANTS
  PathOrder,        \* every path, in the order of the linter
  RoleOfPath,       \* the role a path is in
  MainPaths,        \* the paths that are the main file of their kind
  TemplatePath,     \* the path of a role's template, by its name
  AdapterLiteral    \* the literal a lookup of an adapter's suffix has

VARIABLES
  project,   \* [sources, selected, disk]
  edits      \* edits and selections left

vars == <<project, edits>>

Paths == {PathOrder[i] : i \in DOMAIN PathOrder}

TraefikAPISuffixes == <<"traefik_middleware_default_api", "traefik_middleware_custom_api", "traefik_api_enabled", "traefik_api_endpoint">>
AdapterSuffixes == ToSet(TraefikAPISuffixes) \cup {"traefik_sso_middleware", "traefik_middleware_default", "traefik_middleware_custom",
  "traefik_certresolver", "traefik_enabled"}

SourcePaths(p, role, kinds) ==
  SelectSeq(PathOrder, LAMBDA path :
    path \in DOMAIN p.sources /\ p.sources[path].role = role /\ p.sources[path].kind \in kinds)

InvalidTraefikContext(p, paths) == \E i \in DOMAIN paths : p.sources[paths[i]].invalid

-----------------------------------------------------------------------------
\* What a template's path means to the tasks that name it.

TemplateSourceReason(task) ==
  IF task.arguments = "unknown" THEN "arguments"
  ELSE IF task.src.status # "static" THEN task.src.status ELSE ""

TemplateTaskUsesDefaultGrammar(task) ==
  task.arguments = "known" /\ task.src.string /\ ~task.delimiters /\ ~task.moduleDefaults

SameTemplateIdentity(a, b) == a.kind = "template" /\ b.kind = "template" /\ a.canonical = b.canonical
SameTemplateSource(a, b) == SameTemplateIdentity(a, b) /\ a.template = b.template

\* Whether a task of `owner` renders the template at `path`, or why it is unknown.
\* The code answers at once for a source without a canonical template path; readSource
\* gives every template one, so the disk is always asked.
TemplateTaskOwnsSource(p, owner, path, name) ==
  LET selected == p.sources[path]
      target == TemplatePath[owner.role, name]
      resolved == p.disk[target]
      admitted == target \in DOMAIN p.sources
  IN CASE resolved = "missing" ->
            [owns |-> FALSE, reason |-> IF admitted /\ SameTemplateIdentity(p.sources[target], selected)
                                        THEN "now missing" ELSE ""]
       [] resolved = "foreign" -> [owns |-> FALSE, reason |-> "resolution"]
       [] OTHER ->
            IF RoleOfPath[resolved] # owner.role THEN [owns |-> FALSE, reason |-> "resolution"]
            ELSE IF admitted /\ p.sources[target].canonical # resolved THEN [owns |-> FALSE, reason |-> "identity changed"]
            ELSE [owns |-> resolved = selected.canonical, reason |-> ""]

\* Why the grammar of the template at `path` is not known: a task of a role that it
\* belongs to by any spelling may render it with other delimiters.
TemplateTaskConfigurationReasons(p, path) ==
  LET s == p.sources[path]
      roles == {s.role, RoleOfPath[path]}
               \cup {RoleOfPath[q] : q \in {q \in DOMAIN p.sources : SameTemplateIdentity(p.sources[q], s)}}
      owners == {q \in DOMAIN p.sources : p.sources[q].role \in roles \ {""} /\ p.sources[q].kind \in {"tasks", "handlers"}}
      reasons(owner, task) ==
        LET own == TemplateTaskOwnsSource(p, owner, path, task.src.name)
        IN CASE TemplateSourceReason(task) # "" ->
                  IF TemplateTaskUsesDefaultGrammar(task) THEN {} ELSE {TemplateSourceReason(task)}
             [] TemplateSourceReason(task) = "" /\ own.reason # "" -> {own.reason}
             [] TemplateSourceReason(task) = "" /\ own.reason = "" ->
                  IF ~own.owns THEN {}
                  ELSE IF task.moduleDefaults THEN {"module defaults"}
                  ELSE IF task.delimiters THEN {"delimiters"} ELSE {}
  IN UNION {IF p.sources[q].invalid THEN {"invalid owner"}
            ELSE UNION {reasons(p.sources[q], p.sources[q].tasks[i]) :
                          i \in {i \in DOMAIN p.sources[q].tasks : p.sources[q].tasks[i].module \in {"template", "legacy template"}}} :
              q \in owners}

ScanOf(p, path) == ScanProjectTemplate(p.sources[path].template, TemplateTaskConfigurationReasons(p, path))

-----------------------------------------------------------------------------
\* The renderers of a role.

Implicit(tokens) == [kind |-> "implicit", tokens |-> tokens, complete |-> TRUE, hash |-> FALSE, before |-> "text", deeper |-> FALSE]

\* The source a task's output is read from: its own, or its template's; else "".
OutputOf(p, path, task) ==
  LET target == TemplatePath[p.sources[path].role, task.src.name]
  IN IF task.module \in {"copy", "container"} THEN path
     ELSE IF TemplateSourceReason(task) = "" /\ target \in DOMAIN p.sources THEN target ELSE ""

\* A renderer is the output path of one task.
BareRenderer(p, path, i, task) ==
  [source |-> path, task |-> i, kind |-> task.module, output |-> OutputOf(p, path, task), alone |-> task.alone,
   missingTemplate |-> FALSE, expressions |-> <<>>, conditions |-> [k \in DOMAIN task.when |-> Implicit(task.when[k])],
   unavailable |-> {}, invalid |-> FALSE]

ReadFrom(r, scan) ==
  [r EXCEPT !.expressions = TraefikOutputExpressions(scan.expressions), !.unavailable = TemplateContractReasons(scan),
            !.invalid = scan.diagnostics # <<>>]

Rendering(p, r, task) ==
  IF r.output = r.source THEN [r EXCEPT !.expressions = TraefikOutputExpressions(task.value)]
  ELSE IF TemplateSourceReason(task) # "" THEN [r EXCEPT !.unavailable = {TemplateSourceReason(task)}]
  ELSE IF r.output # "" THEN ReadFrom(r, ScanOf(p, r.output))
  ELSE [r EXCEPT !.missingTemplate = TRUE]

RendererOf(p, path, i, task) == Rendering(p, BareRenderer(p, path, i, task), task)

Renders(task) == task.module = "template" \/ (task.module \in {"copy", "container"} /\ task.given)

TraefikRenderers(p, paths) ==
  FlattenSeq([k \in DOMAIN paths |->
    LET tasks == p.sources[paths[k]].tasks
        rendering == SelectSeq([i \in DOMAIN tasks |-> i], LAMBDA i : Renders(tasks[i]))
    IN [j \in DOMAIN rendering |-> RendererOf(p, paths[k], rendering[j], tasks[rendering[j]])]])

InvalidTraefikRenderer(r) == r.invalid \/ IncompleteRenderer(r)

HasTraefikDockerHelper(p, paths) ==
  \E k \in DOMAIN paths : \E i \in DOMAIN p.sources[paths[k]].tasks : p.sources[paths[k]].tasks[i].module = "docker helper"

\* A role that only warns that it is retired, perhaps after its migration.
RetiredTraefikRole(p, paths) ==
  \E k \in DOMAIN paths :
    LET list == p.sources[paths[k]].tasks
        fail == list[Len(list)]
        condition == StripGrouping(fail.when[1])
        tag == TraefikMigrationGuard(condition, TRUE)
    IN /\ paths[k] \in MainPaths
       /\ Len(list) \in 1..2 /\ fail.module = "fail" /\ fail.simple /\ fail.deprecates
       /\ IF fail.when = <<>> THEN Len(list) = 1
          ELSE \/ condition = <<"not", "continuous_integration">> /\ Len(list) = 1
               \/ /\ Len(list) = 2 /\ list[1].module = "migration" /\ tag # None
                  /\ list[1].when # <<>> /\ TraefikMigrationGuard(list[1].when[1], FALSE) = tag

\* deriveTraefikRole: what one analysis finds of a role, once.
Declares(s, adapter, suffix) == \E i \in DOMAIN s.declared : s.declared[i] = <<adapter, suffix>>
Proves(r, role) ==
  /\ r.unavailable = {} /\ ~r.missingTemplate /\ ~InvalidTraefikRenderer(r)
  /\ TraefikDockerLabelsOutput(r) \/ MissingTraefikConsumption(r, role) = {}

FactsOf(p, role, anchor, invalidDefaults, tasks, renderers) ==
  [anchor |-> anchor,
   invalidDefaults |-> invalidDefaults,
   invalidTasks |-> (anchor # "" \/ invalidDefaults) /\ InvalidTraefikContext(p, tasks),
   renderers |-> renderers,
   complete |-> anchor # "" /\ \/ HasTraefikDockerHelper(p, tasks) \/ RetiredTraefikRole(p, tasks)
                               \/ \E i \in DOMAIN renderers : Proves(renderers[i], role)]

TraefikFacts(p, role) ==
  LET defaults == SourcePaths(p, role, {"defaults"})
      declaring == SelectSeq(defaults, LAMBDA d : Declares(p.sources[d], "", "traefik_enabled"))
      tasks == SourcePaths(p, role, {"tasks", "handlers"})
      invalid == InvalidTraefikContext(p, defaults)
  IN FactsOf(p, role, IF declaring = <<>> THEN "" ELSE declaring[1], invalid, tasks,
             IF declaring # <<>> \/ invalid THEN TraefikRenderers(p, tasks) ELSE <<>>)

-----------------------------------------------------------------------------
\* The renderer rule.  A finding is [in, of, what]: the source it is reported in,
\* the renderer (its source and task) it is about, and the defect.

Finding(in, r, what) == [in |-> in, of |-> <<r.source, r.task>>, what |-> what]

TraefikRendererDiagnostics(facts, r, in) ==
  CASE facts.invalidDefaults -> {Finding(in, r, "invalid context")}
    [] ~facts.invalidDefaults /\ (facts.anchor = "" \/ facts.complete) -> {}
    [] OTHER -> IF facts.invalidTasks \/ InvalidTraefikRenderer(r) THEN {Finding(in, r, "invalid context")}
                ELSE IF r.unavailable # {} THEN {}
                ELSE {Finding(in, r, "missing consumption")}

\* Mutant: every selected spelling owns its own finding.
MutSelectedTemplateOwner(p, path) == IF path \in p.selected THEN path ELSE ""

SelectedTemplateOwner(p, path) ==
  LET owners == SelectSeq(PathOrder, LAMBDA q : q \in p.selected /\ SameTemplateSource(p.sources[q], p.sources[path]))
  IN IF owners = <<>> THEN "" ELSE owners[1]

\* Mutant: the task keeps quiet about whatever template is selected.
MutTraefikTaskRendererDiagnostics(p, facts, r) ==
  IF r.output # "" /\ p.sources[r.output].kind = "template" /\ SelectedTemplateOwner(p, r.output) # "" THEN {}
  ELSE TraefikRendererDiagnostics(facts, r, r.source)

\* The task keeps quiet about a template whose own source reports.
TraefikTaskRendererDiagnostics(p, facts, r) ==
  IF /\ r.output # "" /\ p.sources[r.output].kind = "template" /\ SelectedTemplateOwner(p, r.output) # ""
     /\ r.unavailable = {} \/ facts.invalidTasks
     /\ ~InvalidTraefikRenderer(r)
  THEN {} ELSE TraefikRendererDiagnostics(facts, r, r.source)

\* checkTemplateRenderer: the first renderer of the template's role that writes it.
CheckTemplateRenderer(p, facts, path) ==
  LET own == SelectSeq(facts.renderers, LAMBDA r : r.output # "" /\ SameTemplateSource(p.sources[r.output], p.sources[path]))
  IN IF p.sources[path].role = "" \/ SelectedTemplateOwner(p, path) # path \/ own = <<>> THEN {}
     ELSE IF (own[1].unavailable # {} /\ ~facts.invalidTasks) \/ InvalidTraefikRenderer(own[1]) THEN {}
     ELSE TraefikRendererDiagnostics(facts, own[1], path)

RendererContract(p, facts, path) ==
  LET s == p.sources[path]
      own == SelectSeq(facts.renderers, LAMBDA r : r.source = path)
      ofOwn == IF own = <<>> THEN {} ELSE TraefikTaskRendererDiagnostics(p, facts, own[1])
      atAnchor(what) == IF path = facts.anchor THEN {[in |-> path, of |-> <<path, 0>>, what |-> what]} ELSE {}
  IN CASE s.kind = "template" -> CheckTemplateRenderer(p, facts, path)
       [] s.kind # "template" /\ s.role = "" -> {}
       [] s.kind # "template" /\ s.role # "" ->
            CASE facts.invalidDefaults /\ s.kind # "defaults" /\ own # <<>> -> ofOwn
              [] ~(facts.invalidDefaults /\ s.kind # "defaults" /\ own # <<>>) /\ (facts.anchor = "" \/ facts.complete) -> {}
              [] OTHER ->
                   IF facts.invalidTasks THEN (IF path = facts.anchor THEN atAnchor("invalid context") ELSE ofOwn)
                   ELSE IF facts.renderers = <<>> THEN atAnchor("no renderer")
                   ELSE IF facts.renderers[1].source = path THEN TraefikTaskRendererDiagnostics(p, facts, facts.renderers[1])
                   ELSE {}

CheckTraefikRendererContract(p, path) == RendererContract(p, TraefikFacts(p, p.sources[path].role), path)

-----------------------------------------------------------------------------
\* The adapter rule.

\* A value forwards a suffix when it is exactly the lookup of it in this role.
TraefikForwardedValue(role, value, literal) ==
  /\ value.string /\ value.alone
  /\ \E call \in DirectLookups(StripGrouping(value.tokens), "role_var") :
       NamedLiteral(call, "role") = role /\ PositionalLiteral(call, 1) = literal

\* The includes of a source that forward an adapter's subdomain.
TraefikAdapters(s) ==
  {i \in DOMAIN s.tasks :
     /\ s.tasks[i].module = "include_role" /\ "web_subdomain" \in DOMAIN s.tasks[i].vars
     /\ TraefikForwardedValue(s.role, s.tasks[i].vars["web_subdomain"], AdapterLiteral[s.tasks[i].adapter, "web_subdomain"])}

\* The source that declares the namespace, else the main one, else the first.
TraefikAdapterDefaults(p, defaults, adapter) ==
  LET declaring == SelectSeq(defaults, LAMBDA d : Declares(p.sources[d], adapter, "web_subdomain"))
      main == SelectSeq(defaults, LAMBDA d : d \in MainPaths)
      first == declaring \o main \o defaults
  IN IF first = <<>> THEN "" ELSE first[1]

CheckTraefikAdapterContract(p, path) ==
  LET s == p.sources[path]
      defaults == SourcePaths(p, s.role, {"defaults"})
      tasks == SourcePaths(p, s.role, {"tasks", "handlers"})
      namespaced == \E i \in DOMAIN s.declared : s.declared[i][1] # "" /\ s.declared[i][2] = "web_subdomain"
      owned == {<<q, i>> \in UNION {{q} \X TraefikAdapters(p.sources[q]) : q \in {tasks[k] : k \in DOMAIN tasks}} :
                  TraefikAdapterDefaults(p, defaults, p.sources[q].tasks[i].adapter) = path}
      undeclared(adapter) == {x \in AdapterSuffixes \cup {"web_subdomain"} : ~Declares(s, adapter, x)}
      unforwarded(task) ==
        {x \in AdapterSuffixes : x \notin DOMAIN task.vars
                                   \/ ~TraefikForwardedValue(s.role, task.vars[x], AdapterLiteral[task.adapter, x])}
      at(of, what) == [in |-> path, of |-> of, what |-> what]
  IN IF s.role = "" THEN {}
     ELSE IF s.kind = "defaults"
     THEN IF InvalidTraefikContext(p, tasks) /\ namespaced THEN {at(<<path, 0>>, "invalid context")}
          ELSE {at(use, "missing defaults") : use \in {u \in owned : undeclared(p.sources[u[1]].tasks[u[2]].adapter) # {}}}
     ELSE IF InvalidTraefikContext(p, defaults) THEN {at(<<path, i>>, "invalid context") : i \in TraefikAdapters(s)}
     ELSE (IF defaults = <<>> THEN {at(<<path, i>>, "no defaults") : i \in TraefikAdapters(s)} ELSE {})
          \cup {at(<<path, i>>, "missing forwarding") : i \in {i \in TraefikAdapters(s) : unforwarded(s.tasks[i]) # {}}}

-----------------------------------------------------------------------------
\* The engine asks the rules of every selected source.  Between two checks an
\* author edits the project or selects more of it.

RendererFindings(p) == UNION {CheckTraefikRendererContract(p, path) : path \in p.selected}
AdapterFindings(p) == UNION {CheckTraefikAdapterContract(p, path) : path \in p.selected}

CONSTANTS InitialProjects,   \* where an author starts
          MaxEdits,          \* edits and selections of one author
          TaskEdits,         \* the tasks an author may write
          TemplateEdits,     \* the templates
          Declarations       \* the declarations of a defaults file

Init == project \in InitialProjects /\ edits = MaxEdits

Edit == edits > 0 /\ edits' = edits - 1

Select ==
  /\ Edit
  /\ \E path \in DOMAIN project.sources \ project.selected : project' = [project EXCEPT !.selected = @ \cup {path}]

\* What the parser makes of a broken file is all of it, or nothing.
BreakSource ==
  /\ Edit
  /\ \E path \in DOMAIN project.sources :
       /\ project.sources[path].kind # "template" /\ ~project.sources[path].invalid
       /\ \/ project' = [project EXCEPT !.sources[path].invalid = TRUE]
          \/ project' = [project EXCEPT !.sources[path].invalid = TRUE, !.sources[path].tasks = <<>>,
                                        !.sources[path].declared = <<>>]

WriteTasks ==
  /\ Edit
  /\ \E path \in DOMAIN project.sources, tasks \in TaskEdits :
       /\ project.sources[path].kind \in {"tasks", "handlers"} /\ ~project.sources[path].invalid
       /\ project.sources[path].tasks # tasks
       /\ project' = [project EXCEPT !.sources[path].tasks = tasks]

\* All spellings of a template have its bytes.
WriteTemplate ==
  /\ Edit
  /\ \E path \in DOMAIN project.sources, template \in TemplateEdits :
       /\ project.sources[path].kind = "template" /\ project.sources[path].template # template
       /\ project' = [project EXCEPT !.sources = [q \in DOMAIN @ |->
                         IF SameTemplateIdentity(@[q], @[path]) THEN [@[q] EXCEPT !.template = template] ELSE @[q]]]

Declare ==
  /\ Edit
  /\ \E path \in DOMAIN project.sources, declared \in Declarations :
       /\ project.sources[path].kind = "defaults" /\ ~project.sources[path].invalid
       /\ project.sources[path].declared # declared
       /\ project' = [project EXCEPT !.sources[path].declared = declared]

\* A template's path leads elsewhere after the sources were loaded.
MoveTemplate ==
  /\ Edit
  /\ \E path \in DOMAIN project.disk, target \in DOMAIN project.disk \cup {"missing", "foreign"} :
       /\ project.disk[path] # target
       /\ project' = [project EXCEPT !.disk[path] = target]

Next == Select \/ BreakSource \/ WriteTasks \/ WriteTemplate \/ Declare \/ MoveTemplate

Spec == Init /\ [][Next]_vars

-----------------------------------------------------------------------------
\* A renderer whose template is an alias of another role's: that role's facts
\* decide, and the invalid context of the task's role is not told (see README).
AliasOfAnotherRole(p, of) ==
  /\ of[2] > 0
  /\ LET output == OutputOf(p, of[1], p.sources[of[1]].tasks[of[2]])
     IN output # "" /\ p.sources[output].role # p.sources[of[1]].role

\* Two renderers of one output are one to the reader.
SameOutput(p, a, b) ==
  \/ a = b
  \/ /\ a[2] > 0 /\ b[2] > 0
     /\ LET first == OutputOf(p, a[1], p.sources[a[1]].tasks[a[2]])
            second == OutputOf(p, b[1], p.sources[b[1]].tasks[b[2]])
        IN first # "" /\ second # "" /\ SameTemplateSource(p.sources[first], p.sources[second])

Roles(p) == {p.sources[path].role : path \in DOMAIN p.sources} \ {""}

OnePlaceEach(findings) == \A f \in findings, g \in findings : f.of = g.of => f = g

\* A renderer's defect has one place: the task, or the first selected spelling of
\* its template (checkTemplateRenderer, traefikTaskRendererDiagnostics).
RendererReportedOnce == OnePlaceEach(RendererFindings(project))

Lacks(facts) ==
  /\ facts.anchor # "" /\ ~facts.invalidDefaults /\ ~facts.invalidTasks /\ ~facts.complete
  /\ facts.renderers # <<>> => facts.renderers[1].unavailable = {}

\* A role that declares Traefik and whose first output can be read and does not
\* prove the contract has a finding, whichever source gives it
\* (checkTraefikRendererContract).
DefectIsReported ==
  \A role \in Roles(project) :
    /\ {path \in DOMAIN project.sources : project.sources[path].role = role} \subseteq project.selected
    /\ Lacks(TraefikFacts(project, role))
    => \E f \in RendererFindings(project) : project.sources[f.of[1]].role = role

KeptIn(f, findings) == \E g \in findings : g.what = f.what /\ SameOutput(project, g.of, f.of)
AllKept(before, after) == \A f \in before : ~AliasOfAnotherRole(project, f.of) => KeptIn(f, after)
KeepsFindings ==
  project'.sources = project.sources /\ project'.disk = project.disk =>
    AllKept(RendererFindings(project), RendererFindings(project'))

\* Selecting a source moves findings and loses none (selectedTemplateOwner).
SelectionKeepsFindings == [][KeepsFindings]_vars

Current(r) ==
  r.kind = "template" /\ r.output # "" /\ r.unavailable = {} => project.disk[r.output] = project.sources[r.output].canonical
AllCurrent(renderers) == \A i \in DOMAIN renderers : Current(renderers[i])

\* A template proves the contract only while its task's path still leads to the
\* file that was read (templateTaskOwnsSource).
EvidenceIsCurrent == \A role \in Roles(project) : AllCurrent(TraefikFacts(project, role).renderers)

\* An adapter of a valid role without findings has all its defaults in one file
\* and forwards each of them, and one that has is not reported, unless a second
\* file declares the namespace as well; missing defaults are one file's
\* (traefikAdapterDefaults).
AdapterDefectsOwned ==
  \A path \in DOMAIN project.sources :
    LET s == project.sources[path]
        own == {q \in DOMAIN project.sources : project.sources[q].role = s.role}
        adapter(i) == s.tasks[i].adapter
        declaring(i) == {d \in own : Declares(project.sources[d], adapter(i), "web_subdomain")}
        complete(i) ==
          /\ \E d \in declaring(i) : \A x \in AdapterSuffixes : Declares(project.sources[d], adapter(i), x)
          /\ \A x \in AdapterSuffixes :
               /\ x \in DOMAIN s.tasks[i].vars /\ s.tasks[i].vars[x].alone
               /\ DirectRoleVarLookup(s.tasks[i].vars[x].tokens) = <<AdapterLiteral[adapter(i), x], s.role>>
        about(i) == {f \in AdapterFindings(project) : f.of = <<path, i>>}
    IN /\ own \subseteq project.selected /\ s.kind \in {"tasks", "handlers"}
       /\ \A q \in own : ~project.sources[q].invalid
       => \A i \in TraefikAdapters(s) :
            /\ about(i) = {} => complete(i)
            /\ complete(i) /\ Cardinality(declaring(i)) = 1 => about(i) = {}
            /\ Cardinality({f \in about(i) : f.what = "missing defaults"}) <= 1
=============================================================================
