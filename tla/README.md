# Verification of saltbox-lint

saltbox-lint is a linter and formatter for Saltbox/Sandbox YAML. A Go program
(`src/main.go`, `src/cmd`, `src/lint`, `src/format`, `src/report`, ...) checks,
formats, fixes and scaffolds; a VS Code extension (`src/extension/src`) runs that
program as a child process and turns its reports into diagnostics, code actions
and formatting. The extension is a single-threaded event loop in which requests,
watcher events, timers and child processes overlap. The Go program is mostly
sequential, but it works on files that others change under it, renders reports
with several workers, and repairs texts in passes that must agree with the rules
that asked for them. The models cover both.

## Inventory

| Component | Source | State it keeps | Operations | What makes it correct |
|---|---|---|---|---|
| Request lane | `extension/src/scheduler.ts` | queue by key, the active request, stopped | submit, cancel, cancelAll, dispose, join, caller's signal | nothing lost, latest key wins, explicit work preempts typing, nothing stale delivered |
| Dependency graph | `extension/src/dependencies.ts` | sources, fingerprints, event fences, floor | begin, reserve, release, complete, accept, remove | a stale result is noticed; pending events reject reports; checks do not retry for ever |
| Editor | `extension/src/editor.ts` | documents' results, pending files and refreshes, timers, context queue | open, change, save, close, refresh, checkSnapshot, checkSaved, flushFiles, dispose | drives the two above; every change is eventually checked |
| Typing checks | `extension/src/live-checks.ts` | one entry per document: timer, active run, ready, cancelled | schedule, start, cancel, dispose, join | the last edit is checked, superseded runs are aborted, the limit holds |
| Marked roots | `extension/src/roots.ts` | one root per folder: revision, canonical root, marker identity, watchers | configure, probe, refresh, ready, dispose | the root converges on the marker; ready means the current probes are done |
| Child processes | `extension/src/process.ts`, `native-group.ts` | child, failure, process group | run, cancel, time out, sweep, close | first failure wins, settles once, group killed and joined |
| Editor process lifetime | `internal/editorprocess`, `main.go` | lifetime pipe, cancellation | watch, owner loss, termination | no process outlives its editor |
| Check command | `cmd/check.go`, `lint/fixes.go`, `lint/source_identity.go` | sources, plan, files on disk | load, plan, preflight, replace, recheck | files are replaced whole and only when unchanged; the status tells the disk |
| Scaffold | `cmd/scaffold.go`, `scaffold/role.go` | the files of a role | plan, preview, create | existing files are never overwritten; what was created is reported |
| Loading | `lint/discovery.go`, `exclusions.go`, `config.go`, `loading_parallel.go`, `source.go` | sources, scopes, batches | configure, list, admit, scan, read, publish | bytes belong to the recorded owner; the context is complete |
| Changed selection | `lint/changed.go`, `lint/dependencies.go` | changed names, dependency graph | select | every affected primary is selected |
| Human report | `report/human.go`, `human_parallel.go` | queue, channels, workers, context | render, consume, cancel, join | output is a prefix of the sequential report; it always returns |
| Jinja and expression rules | `lint/jinja*.go`, `expression_*.go`, `rules_when_list.go`, `rules_parentheses.go`, `rules_web.go` | none | two readings of an expression, findings, repairs | the readings agree; repairs keep the meaning and settle |
| Fixes and layout | `lint/structural_fixes.go`, `fixes.go`, `jinja_layout.go`, `ignores.go`, `engine.go` | edits of a text | plan, compose, verify, write, again | edits mean their text; what is offered is written; fixing ends |
| Header, healthcheck | `lint/rules_ansible.go`, `rules_healthcheck.go`, `representation_fixes.go` | none | check, fix | a fix settles and keeps comments |
| Template scan | `lint/template.go` | block stack, limits | scan, reasons | nesting is judged as the grammar does; evidence is whole |
| Traefik contract | `lint/rules_traefik.go`, `analysis.go`, `traefik_endpoint.go`, `template_configuration.go` | the loaded project | evidence, owners, findings | a defect is reported once, at its owner |
| References and queries | `lint/references.go`, `query.go` | index of declarations | resolve, navigate, complete | one answer for every load and every way to ask |
| Formatter | `format/*.go` | stages of edits | build, compose, verify, plan | values, comments and blank lines stay; formatting settles |
| Others | other rules and report layouts, other commands, highlighting, YAML index, protocol parsing, rule help, Windows, vendored and tooling code | | | not modelled, see below |

How they interact. `extension.ts` creates one Editor. The Editor owns two request
lanes (lint, formatting) and one per query kind; every check, scan and format is
submitted to a lane, whose operation spawns the Go program through `process.ts`.
The Editor asks Dependencies for a token before a check, hands watcher events to
it as fences, and asks it to accept each report. LiveChecks calls the Editor's
check with a signal that the lane listens to. MarkedRoots tells the Editor when a
folder's root appears or goes, which drops results and graph of that folder. In
the Go program `cmd/check.go` loads a project (all of it, or what changed since a
commit), analyses it, plans fixes, writes them and analyses again, and hands the
findings to a report.

Hard behaviour: answers that arrive after the request they belong to was
superseded; watcher events that arrive before, after or together with the report
that already saw the change; timers shared by several causes; disposal while
work is being joined; child processes that ignore their termination; files that
change between planning a fix and writing it, and a program killed between two
replacements; links that are redirected between resolving and reading; goroutines
that fail out of order; repairs whose result another rule reads again. The hazards
are listed line by line in `PROJECT.json`, each with the properties that would
catch it.

## How the models are cut

JavaScript runs a callback to completion, so one action is one callback: from the
event, timer or resolved promise that starts it to the next `await` or the end.
A Go action is what lies between two system calls, channel operations or looks at
a shared variable. Everything a step changes, the calls it makes included, is in
its action. A file's content is a version number or a member of a small set; a text
is a sequence of units (a token, a comment, a space, a line end), each with its
width where columns matter. Parsing YAML and Git are external tables.

| Module | Models | State | Actions or operators |
|---|---|---|---|
| `Lane` | what a lane promises, abstractly | each request's stage and result, the withdrawn requests | one step: every request keeps, enters, starts, is dropped or settles |
| `Scheduler` | `scheduler.ts` | the Map `pending`, `active`, the controllers (`abort`), promises (`outcome`), listeners (`attached`), `stopped`, the joiner; `turn`, `clock` and `asked` are history | `Submit`, `Cancel`, `CancelAll`, `Dispose`, `SignalAbort`, `Return` and `Finish` (the two halves of `execute`), `JoinCall`, `JoinResume` |
| `Dependencies` | `dependencies.ts` with the part of `editor.ts` that drives it | the folder's State (fences, floor, events, fingerprints, entries), the context queue, one check per source, the displayed results | `Edit`, `Save`, `Deliver`, `Context`, `Refresh`, `Withdraw`, `Open`, and `Editor(s)`: submit, read, observe, accept, retry |
| `LiveChecks` | `live-checks.ts` | `entries` in insertion order, timers, active runs, ready and cancelled flags; `due` is history | `Schedule`, `Fire`, `Finish`, `Cancel`, `Dispose`, `JoinCall`, `JoinReturn` |
| `MarkedRoots` | `roots.ts` | marker on disk, each folder's root, the probes in flight, watchers, the ready() caller | `Configure`, `Change`, `Echo`, `Notice`, `Refresh`, `Probe`, `WatchSource`, `ForgetSource`, `ReadyCall`, `ReadyResume`, `Dispose` |
| `OwnedProcess` | `runOwnedProcess` of `process.ts` on POSIX with `internal/editorprocess` and `main.go` | promise and first failure, the child, its helpers and pipes, the child's watch over its owner | abort, timeout, pipe error, spawn error, `Reap`, `Sweep`, `Close`, `Observe`, `Fork`, `HelperEnds`, `ChildExits`, `ChildFails`, `HostDies`, `OwnerLost`, `TerminateLostOwner` |
| `FolderRefresh` | how `editor.ts` keeps marked folders checked, with `results.ts` and a simplified `dependencies.ts` | the editor's fields as one record `e`; the disk; undelivered events | `World` (the disk and the user) and `Editor` (timers, queue, flush, scans), with `Continue` for promises that are already resolved |
| `CheckCommand` | `cmd/check.go`, `fixes.go`, `source_identity.go` | the names of a directory with inode, bytes, mode, links, owner; the private sibling; the running command's stage and admitted entries | one action per stage (`LoadSources` ... `Report`) and per system call of `replaceFile`; `Kill`, `PowerLoss`, `Interrupt` and what other programs do |
| `Scaffold` | `cmd/scaffold.go`, `scaffold/role.go` | a graph of directories, two commands with their handles | one action per check or creation; `Move` and `Chmod` of others |
| `Worktree` | classification, resolution, exclusion and scopes of paths | none: operators over one moment of a tree | |
| `Discovery` | the load | requests, listing, buffer, jobs and reader slots, the project | configuration, Git, targets, batches of readers, publication; moves of others between any two |
| `ChangedSelection` | `check --changed-since` | the tree, the commit, reports, graph, selection | reports of names, untracked names, load, selection; edits between them |
| `HumanReport` | `human.go`, `human_parallel.go` | groups, queue, channels, workers, the first failure, the highlighter | one action per channel operation; cancellation by the caller |
| `Jinja`, `ExpressionRules`, `Expressions` | tokens and tree of an expression; the rules and repairs over them; every expression of a vocabulary | the tokens so far | `Scan` adds a phrase |
| `Edits`, `Layout`, `FixPlan` | the edit algebra; the layout rounds; findings to a written file | source, pass, findings, plan, phase | analyse, plan, write, again |
| `Representation` | the source header and the healthcheck of a role's defaults: two checks with their fixes | none | operators |
| `TemplateScan`, `TraefikOutput`, `TraefikContract` | the static scan of a template; the evidence of a rendered contract; who reports what | `project`: sources, selection, disk | an author's edits and selections |
| `References` | lookups, declarations and queries | none | operators |
| `YamlText`, `CanonicalFormat`, `FormatPlan` | documents, the stages of edits and their owners; the canonical builder; the verified plan | none | operators |

The `MC*` modules give these modules to TLC, the `*Proofs` modules hold the theorems
about them. `map` in `PROJECT.json` gives the lines of the definitions; a helper without
a row of its own lies within the lines of the definition that uses it. `Scheduler` is shown
to implement `Lane` (`ImplementsLane`, by `INSTANCE` with the stage computed from
queue, active request and promise). `FolderRefresh` composes with `MarkedRoots` only
through the set of marked folders, which it takes as an input. `MCLoad` EXTENDS
`Discovery`, and `MCFolderRefresh` instantiates `FolderRefreshProofs` once for each of its
settings (and `MCDependencies` `DependenciesProofs`): the theorems then speak of the
very instances TLC runs.

Granularity that is coarser than the code, on purpose:

- Observing one file (open, read, stat, resolve) is one step; observing several is
  several steps in Dependencies, one in FolderRefresh.
- In FolderRefresh the text of an open document does not change: edits are the
  subject of LiveChecks and Dependencies. It keeps no list of fences: it models what
  they give the scans. The only failure of a check is a named file that is missing.
- In OwnedProcess the group query answers in one step, and process numbers are not
  reused while a member of the group lives.
- In MarkedRoots creating a watcher succeeds (`roots.ts:315` may throw).
- In CheckCommand what the planner makes of a content is a table (`Repaired`), and a
  template has no fixes; FixPlan is about the texts.
- In Discovery a spelling outside of the root gives no context; the code first looks for
  an alias of the root among its ancestors (`rememberTemplateSpelling`).
- ExpressionRules speaks of scalars without tags and anchors, to which
  `expression_fixes.go` offers no bare conditional.
- In Scaffold a canceled context may be noticed at any check; two looks of
  `validateOwners` are one step each. Two windows are open in the code and therefore
  in the model: between Mkdir and the Lstat after it, and between a check and the
  OpenFile it protects; the properties exempt exactly a move that fell into one
  (`gapped`).
- FixPlan does not model the second parser's comparison (`independent_yaml.go`), and of
  the first one's (`equivalentNode`) only the tokens of the expressions: its texts have
  nothing else an edit could change. Joining closing braces can lengthen a
  conditional, so a second pass may be needed (`MaxPasses` = 3). Canonical format has documents of one tree with comments at line
  ends; comments on lines of their own, tags, directives, CRLF and section spacing are
  left out, and so are the streams of `cmd/format.go`.
- The header and template models leave out the search for opening delimiters and
  radix integers. TraefikContract leaves out the order of the API defaults
  (`CheckTraefikAPIContract`, lines 19-50) and the syntax of endpoint rules.
- References leave out spelling suggestions, comments, the binding of names by YAML
  constructs, target hashes and the dependency record; templates' YAML does not break.

## The runs

Components that do not interact share a run, told apart by `part` (`setting` in
the editor's runs): the initial state chooses one, no step changes it, and the run's
state space is the union of theirs. Every property of such a run is guarded by its part,
or holds of the idle component as well. A bound is a constant or a named `CONSTRAINT`.

| Run | Bounds | What it shows |
|---|---|---|
| `lane` | 3 requests, 2 keys, 3 priorities, queue of 1, 1 signal | nothing is lost, delivered stale or aborted on another's behalf; explicit work preempts typing; refinement of `Lane`; every promise settles |
| `deps` | 1 source of 2 files with 2 versions and 1 move of the root; 2 sources of 1 file with an event list of 2 | an outdated result is noticed; pending events reject the reports they must and reach every result they outdate; checks end |
| `folders` | 1 folder with 2 closed files and a `.gitignore`, 2 events, disposal; 2 folders, 1 closed file, 1 open document, 2 events, the user's commands; marked roots: 2 folders over a directory and its alias, 3 inputs, `FewProbes` | the full scan a root owes is never lost and nothing is pending without a timer; closed files become current; an open document's check is lost only to a replaced timer; eligibility, watchers and the editor follow the marker; ready() means probed |
| `endings` | typing: 3 documents, 2 slots, 6 edits; process: 2 helpers, any denial; report: 4 findings in 3 files, 2 workers, channels of 1; folder: 1 vanishing file, 1 document, 1 `.gitignore`, 1 event, disposal | exactly the owed checks are served; settled runs leave nothing alive unreported and name the first cause; the report is a prefix of the sequential one; everything comes to rest |
| `writes` | check: 3 files (1 template), 2 runs, 1 move of another program; scaffold: 2 commands with 0 to 2 moves | no half-written name, no lost foreign work, no partly admitted batch, a truthful status; a role created exactly and nothing overwritten |
| `load` | load: 12 requests over 9 worktrees, 2 readers, 1 move; changed: 4 commits, 2 edits | bytes of the recorded owner; templates stay templates; the excluded is not parsed; complete context; no affected primary left out |
| `languages` | 7 vocabularies up to 6 phrases; bodies of 4 characters, texts of 5 phrases, templates of 3 tags under small limits; 2 roles with 2 edits; lookups with 3 edits | one reading of an expression; final repairs; comments kept; scans judged; contract reported once; one answer to a lookup |
| `fixes` | sources of one or two expressions in many layouts, 3 passes; documents with 3 departures, 3 edits, 3 siblings | edits mean their text; fixing and formatting settle; text is kept |
| `deps_late_report` | 2 sources, 1 file, 2 versions | violation, see Findings |
| `folder_peers` | 2 closed files, one vanishing, 3 events, `Covered` | violation, see Findings |
| `folder_readded` | 2 folders, 2 events, `LastMarked` | violation, see Findings |
| `changed_chain` | a link to a link, 1 edit | violation, see Findings |

Why the bounds are enough. The lane: an eviction needs a queued request and a
newcomer, a supersession during a run needs an active and a queued request of one
key, and both beside a bystander need three requests; the queue of one makes every
submission beside a queued one an eviction. `Ordered` in `MCScheduler` numbers the
requests with a signal, and those without, in the order of their priorities and gives
the first of all the first key: every other assignment is one of these after renaming,
and unlike `SYMMETRY` it is sound for liveness. Dependencies: an event and a report
cross with one change of a file; the second file makes a report fresh in one and stale
in the other; one root change suffices to replace the graph under an event. `StaleNoticed`
has one reader per file, because two readers meet the finding `deps_late_report`.
Typing: the third document finds both slots taken; the served edit of `OwedIsServed` is
followed for one document, the documents being alike. Roots: an overtaken probe needs
two in flight, and a replacement of both a third. Folders: two events are a change and a
cause that revokes its check, or a marker and the queued coverage that replaces its timer.
That replacement is a finding (`folder_readded`): the history variable `replaced` of
`MCFolderRefresh` remembers the documents it left without a check, and `DocumentsAreOwed`
says that nothing else leaves one so, whatever comes in whatever order. Report: two workers, one of them ahead of the writer, and
a path that comes back. Writes: one file the fixes clean, one they only improve and a
template; one foreign move at each of the system calls; two runs, so that a second one
finds what a killed one left. Load: one foreign move between resolving, opening and
looking again. Expressions: six phrases hold two nested conditionals or a lookup beside
an operator. Each property has a mutant of the code that breaks it within these bounds,
which shows that its case happens in them.

Exemptions inside of properties, each a case the code decides otherwise on purpose:
`AffectedAreSelected` leaves out a primary whose only relation to the change was a
target the current graph has lost (`changed.go:214` loads the current graph only), and
a template shared by an alias between roles; `EndpointLiteralElides` the comment
`{#-#}`; `OutsideOfCaptures` block statements on comment lines; suffixes with dashes in
`CompletionsResolve`; an alias of another role's template in `EvidenceIsCurrent`; in
the format properties a comment on the line of a marker (`candidate.go:76-81`) and a
sequence dashed twice. An expression `L1 ~ x == y ~ L2` is reported as a composed
endpoint (`rules_web.go:296`), as the tokens say.

## Fairness

Weak fairness only, of what the runtime does on its own: a resolved promise resumes
its caller, a timer fires, a watcher delivers the events of a file that changed, a
child process answers or is killed and reaped, a goroutine is scheduled. Nothing
obliges a user to act, the disk to change, an owner to dispose, or a child or helper to
exit by itself. In Scheduler, `Operation` (an operation returns) is fair because every
operation is a process under a timeout; OwnedProcess shows that one settles as long as
the host lives and the kernel does not refuse the signals (`ComesToRest`). In
LiveChecks a run ends because it is a lane request (`EveryRequestSettles`). In
FolderRefresh `Continue` is the microtask queue, which runs before any other event. The
composites state the fairness of each part over that part's variables.

## Proofs

`SchedulerProofs` proves, for every finite set of requests, every set of keys,
every set of integer priorities and every positive limit (`LaneAssumption`), the type
invariant, the safety invariants the `lane` run checks (and `LatestKeyWins`,
`WorkConserving`, `NoListenerLeak` and `QuietAfterJoin`), the action property `NoStaleDelivery` and the
refinement of `Lane`.

The argument is one inductive invariant, `IInv`: the types, the safety properties, and
five parts that make them inductive. `PhaseOK`: there is an active request exactly when
the lane is not idle. `TurnOK`: the clock bounds every turn, and a request that was not
submitted has no turn and no reason to abort. `QueueHealthy`: nothing that still waits
was aborted; without it `Finish`, which starts the next request, could start one
whose abort nobody can justify. `HealthyIsLatest`: nothing newer was submitted
under the key of a healthy request, which is why what is delivered is the latest.
`StoppedOK`: a stopped lane has an empty queue and has aborted what it still joins.
There is one lemma per action (`DroppedInvariant`, `QueuedInvariant`,
`CancelInvariant`, ...), joined in `NextInvariant`; `BoundStep` counts the queue with
the theorems on finite sets for `BoundedQueue`; `StepMoves` says what one step can do
to one request, and `DeliveryIsCurrent` and `SchedulerImplementsLane` follow from it
without looking at an action again.

`MCEndingsProofs` proves the types and `RunsSettleCleanly` for every set of helpers
and kind of denial. Its invariant adds to them what a settled run looks back on: the recorded
failure is the first trouble (`CauseKept`), what was swept is gone or never existed
(`SweptOK`, `ChildlessOK`), the sweep left no helper up unless its signal was denied
(`GroupStopped`), and a run resolves only without a failure and without a denial
(`ResolvedOK`).

`MCFolderRefreshProofs` proves the marked roots' types, `RootsAreCurrent` and the action property
`ReadyMeansProbed` for every finite set of folders, every table of canonical paths and
every number of inputs. The strengthening is about the probes in flight: the latest
probe of a root is a probe of that root's folder (`ProbesOwned`), and on its way it has
found the marker that is on disk now, unless an event is about to say otherwise
(`FoundCurrent`). Without that exception the invariant is not inductive; without the second half of
it (an event that is ignored because the root is eligible for that very marker) it would
be too weak to let a probe make a root eligible.

`MCWritesProofs` proves of the check command, for every set of names, templates and contents and every
number of runs and foreign moves: the types, `FilesStayWhole`, `OnlyAdmittedFixesWrite`,
`RefusedBatchWritesNothing`, `VerdictMatchesDisk` and, where one pass of fixes is enough,
`VerdictTellsDisk`. `IInv` says what each stage has in hand: the private sibling exists
only while a name is replaced and holds the repaired bytes, the mode and synced data as
far as the stage got (`TempOK`), only admitted names are planned (`PlanOK`,
`AdmittedOK`), and everything a name leads to is whole and synced (`FilesWhole`), which
is why a power failure after any step harms nothing. `CalmInv` adds, while nobody else
moves, that the loaded project is the disk as far as it is loaded (`InSync`) and that
what passed the first admission can be written (`BatchWritable`); `RepairsDone` that
only what is still to be replaced holds bytes the fixes would change.

`DependenciesProofs` proves, for every set of sources and files and every event limit:
the types; that no report which observes the file of a pending event is accepted
(`PendingIsFenced`); that a completed event asks for a check of everything displayed
that it outdates (`EventsReach`); and, where a file has one reader and the folder's
events were not trimmed, that a displayed result which differs from the disk never goes
unnoticed (`StaleNeverUnnoticed`). A waiting report is rejected by every ticket behind
it (`Fenced`): the ticket's event is still listed and newer than the report's token, or
trimming raised the floor above it, for which the list must be ordered
(`PendingOrdered`). `Past`, `OnlyReads`, `ReadsAreNew` and `ResultsAreNew` say that nobody
has seen what is not on disk yet and that the graph moves on for a source only with
its revision, so that a report that is still current read nothing older than the graph
has. The last theorem needs a second invariant: every version on disk is
announced, reserved or already seen. `MCDependenciesProofs` carries the results over to
the two folders of the run `deps`, one of them through an `INSTANCE` of the proofs.

`MCEndingsProofs` also proves two other parts of the run `endings`.

- The report (`ReportStaysSequential`), for every set of finding lists, number of workers,
  look-ahead, channel capacity and flush size. First the arithmetic: `Groups` (the groups
  of a list follow each other from the first finding to the last, by counting the starts),
  `Positions` and `Places` (the fragments of one group are neighbours and fill the
  report), `WholeReport`. The invariant `ReportInv` then says that jobs were queued in
  their order, that each is with one worker and that only this worker closes its channel
  (`Owners`); that, while the context lives, every channel holds exactly the fragments
  that follow what was received of its group, up to the one its worker renders
  (`Streams`); what is written, by stage (`Written`); and why the context is done
  (`Blames`): by the caller, by a failure already kept, or by the output, which is what
  makes the returned error the cause. `Streams` says nothing once the context is canceled,
  since fragments may then be lost; nothing is written from there on.
- Typing (`TypingStaysServed`), for every set of documents, number of slots and number of
  edits. `Remaining` says what the filter of a list keeps. `TypingInv` adds to the
  property that a timer, a live run and a ready document exclude each other (`Exclusive`:
  a document with a timer has no live run, a ready one waits behind an aborted run and
  has no timer), that each of them holds a slot (`Slots`), and that join saw every run
  (`Joins`). Without `Exclusive` the end of an aborted run could start a second
  check of a document whose timer is set.

`MCWritesProofs` also proves `ScaffoldIsExact` and the action property
`NothingExistingIsReplaced` of the run `writes`, with the types, for every set of
commands and requests, every number of moves and both spellings of the root; another
scaffold command is among the foreign programs.

- Paths. `Below` walks a path with a recursive function. The library's induction
  theorem takes an operator, so `Induction` states it for sets (a set that holds 0 and
  is closed under successor holds every number, by `WFMin` over
  `StrictSubsetOrdering`): it serves `BelowWalks` and `Least`, the first link of a path.
  `TreeShape` says where links and other people's directories can lie. From it follow
  that a path which is its own canonical form passes no link (`PhysicalPath`: each
  `Follow` in the other project shortens a path, so five of them cannot come back to it)
  and where the spelling of the root leads (`SpelledRoot`).
- Commands. `CommandInv` says what a command has decided (`Planned`), that its handles
  are open on the owners it checked (`Held`), that those are what it made unless a move
  fell between Mkdir and the Lstat after it (`Owned`), which nodes it made and reported
  by stage (`Counted`), in which directories (`Placed`), and that an undisturbed one has
  the whole role below the root (`Reached`). Every change of a record has one lemma, and
  every action one (`...Acts`). What a creation does to another command is
  `CommandGrows`: only free names are filled. What another program does is
  `DisturbedKeeps`: it moves what is there, and the commands remember that it did.
- The path of the user. `ChainLeads` follows the links of a spelling to the role that
  was created through handles: without it success would only speak of nodes.

`MCLoadProofs` proves `SourcesAreWhatTheyClaim` and `LoadIsComplete`, for every table of
worktrees, requests and contents, every number of readers and every number of moves of
other programs, with three inductive invariants on top of each other.

- `ClaimInv` holds whatever others do: a slot, a batch and the project hold bytes that
  belonged to the recorded owner when they were read, below the root; what
  is recorded as a template, a role file or an excluded name was admitted as one; what
  is asked for only grows while a phase lasts (`AskedGrows`).
- `Quiet` holds while nobody moves (`calm`): the worktree, the names and the rules agree
  (`WorldQuiet`, `NamesQuiet`), every directory below a scope was scanned, is queued or
  is in the hands of a reader, and what a scan found is published, queued or asked for.
  When nothing is queued, the context is complete (`QuietMeans`).
- `Told` adds, for a request that reads no standard input, what a named file was told
  and what a scan of the root would do with it, which is `DiscoverableIsScanned`.

A batch becomes a list of jobs by a recursive function over finite sets (`Jobs`):
`Induction` is again a statement about sets (`WFMin`), from which `JobsDef` follows, and
`OwningRolesSmall` and `ContextSmall` say that what a load asks for is finite.

It also proves `ChangesStaySelected`: for all commits, sequences of edits, rules of Git and
configurations, in worktrees without links, `ChangesAreSelected`. `SinceInv` says what each
stage of the command has from Git and from the load as long as nobody edits. The rest
compares two loads of which the command makes only one. `SameScanned`: a name that Git
does not report is in both loads or in neither, with the same bytes, whatever else
happened (`SameName`, from the entries that Git compares and the untracked names it
lists). `NothingRead`: no reported name is in the dependency record of a source that was
left out. What remains is that whatever its rules look at in either load is in that
record, although the record is made from the current load only: where the owning roles
keep a member, what the defaults of other roles are, the Docker tasks and the variable
declarations all lie below directories that are recorded by name, whether anything is in
them or not (`RoleMember`, `VariableMember`, `ScopeStays`, `ScopeRead`; `PeersRead` to
`VariableRead` for each kind). So a source that vanished or appeared between the two
loads is reported under a recorded directory, and `ViewStays` joins the parts.

`FolderRefreshProofs` proves of the coverage of marked folders, for every set of folders,
files, documents and controls and every number of events: what is pending has a timer or
a flush that will take it, and disposal stops everything (`PendingStaysArmed`); a marked
folder without complete coverage is owed a scan (`CoverageStaysOwed`). The handlers call
each other, so the unit of the proof is an operator from one record of the editor to the
next: `Sound` is what the fields hold, `Covered(state, f)` who owes folder `f` its scan,
and `Keeps(a, b, S)` says that a step from record `a` to record `b` keeps both, the second
for every folder outside of `S`. Each operator has one lemma (`RevokeKeeps`, `BumpKeeps`,
`QueueKeeps`, `ForgetKeeps`, ...), a handler is a chain of them (`KeepsChain`), and `S` is
what a later link of the chain still has to schedule: a handler that revoked a scan and
forgot to queue its successor ends with a non-empty `S`. `Covered` is stronger than
`CoverageIsOwed`: a pending refresh counts only with its timer, a queued file only with the
flush that will take it, a batch only while its flush holds the folder's authority. The
hypothesis `Vanishing = {}` is needed: with a file that is deleted `CoverageIsOwed` is
false (first entry below the list of findings). `MCFolderRefreshProofs` carries both
over to the two settings of the run (`ScansStayOwed`).

A second theorem about the same handlers, `ClosedFilesStayCurrent` (for the run
`ClosedFilesStaySettled`), says that a quiet editor shows of every closed file of a covered
root what is on the disk, in whatever order edits, echoes, observations, retries, late
reports and flushes came. It does not follow from `Sound`; its invariant is
`FilesInv == DiskOK /\ Fresh(e) /\ \A x \in Files : Current(e, x)`.

- `Current(state, x)` is the heart: a covered file shows the disk, or somebody works on it
  (`Working`: it is queued, a flush with authority over the folder took it, or it is in a
  live selected batch that will accept it or queue it again), or its change is on the way
  and will not be taken for an echo (`Noticed`). It also ties the fingerprint to what is
  shown, since a flush skips a queued file whose fingerprint has not changed.
- `Fresh` adds to `Sound` the types and what requests hold (`ScansFresh`). A report
  waiting for its turn has read what is on the disk, or an event told it of another version
  (it will be rejected and tried again), or the change is noticed (`Waits`); reports are settled in the order in which they observed, and one that
  observed later has not read less (`Ordered`), so the last one accepted is the newest;
  only one selected batch is under way. Without `Ordered` an older report could overwrite
  a newer one after the event was consumed.
- `Tends(a, b, X)` plays the part of `Keeps`: a record led to another in which every file
  outside of `X` is still current. Operators have one lemma each (`RevokeTends`,
  `QueueTends`, `RequestsTend`, ...), actions another (`...Fresh`), `StepFresh` joins them and
  `FreshIsCurrent` reads the property off in the quiet state. Which report was observed
  last is found by well-founded induction on the turns (`GreatestExists`).

Its hypothesis `Vanishing = {}` excludes what the run `folder_peers` shows: the other files
of a batch that lost one of its files stay outdated.

What is assumed. `LaneAssumption`, `GraphAssumption`, `ContentsAssumption`,
`EndingsAssumption` and `WritesAssumption` (sets are finite, limits are positive, tables
have their types, no command is the 0 that marks foreign nodes, the root is spelled in
one of two ways) are ASSUMEd where the constants are declared and evaluated by every
run; `RootsAssumption` and `RefreshAssumption` (a finite number of watched files, files
that are neither documents nor controls, a folder for each) are hypotheses of the
theorems and ASSUMEd by `MCFolderRefresh`. `Discovery` ASSUMEs what a worktree is: files
are finitely many, none lies below another or inside of `.git` (`PathsAssumption`);
what a text declares and reads is finite (`ContentsAssumption`); every file has an inode
of its own, and nothing lies below a link's own name (`WorldsAssumption`); and that what
the user types leads through at most the two links that the model's `Resolve` follows
(`RequestsAssumption`). These theorems have a hypothesis of substance.
`ChangesStaySelected` assumes `PlainTrees`: there are no links and none is made, a commit
tracks the files it holds, none of the paths lies below another, and no rule of Git ignores
a marker of the project (see Findings for what happens otherwise; the second worktree of
`MCCommits` is such a commit). `CoverageStaysOwed` and
`ClosedFilesStayCurrent`, and with them `ScansStayOwed` and `ClosedFilesStaySettled`, assume
that no file is deleted (`Vanishing = {}`). `VerdictTellsAll` assumes that one pass of
fixes is enough (`RepairAssumption`); `VerdictIsTrue` does without.
`StaleNeverUnnoticed` assumes `OneReader`, and speaks of folders whose `floor` is 0: the
run `deps_late_report` shows what two readers of a file can miss, and trimming (more
than 4096 pending events) what is listed below under Findings.

Only model-checked: all liveness (fairness and ENABLED are out of the prover's reach);
what recursive operators compute for every input (`CanonicalFormat`, `ExpressionRules`,
`Expressions`, `FixPlan`, `FormatPlan`, `Jinja`, `Layout`, `TemplateScan`,
`TraefikOutput`, `YamlText`: they declare or reach RECURSIVE operators, for which the
prover has no arithmetic; recursive functions such as `Below` are within reach of
`Induction`), and with them every property of the runs `languages` and `fixes`.
Open documents too (`DocumentsAreOwed`): that each of them ends with a current result is
not true in general, as the run `folder_readded` shows. Of
`ChangesAreSelected` the part about links: chains of links of any length through two trees,
with cases exempted that the code decides otherwise, would need an induction over the chain
for both trees.

## Findings

Disagreements between the code and what it or its documents say, each with a run that
finds it:

- `deps_late_report` (`dependencies.ts:275`): a fence is withdrawn as an echo when
  another source's report already stored the fingerprint; a source unknown so far may
  then deliver an older report, against the comment at `dependencies.ts:57-58`.
- `folder_peers` (`editor.ts:1518`): a selected batch that fails because one of its files
  was deleted is only reported; the other files, whose events are consumed, keep
  outdated results (`extension/README.md:45`).
- `folder_readded` (`editor.ts:2366`): `queueCoverage` of one folder replaces the timer
  with which `refreshFolders` of another would have checked its open documents
  (`extension/README.md:108`).
- `changed_chain` (`changed.go:226`): a source that is a link to a second link is not
  selected when the second link is redirected, although it resolves to other bytes
  (`README.md:249`).

Met while modelling and excluded by the bounds of the passing runs, without a run of their own:

- A superseded scan that still renders its report confirms a missing file and
  `forgetFile` (`editor.ts:2587-2629`) revokes the full scan which a later flush owes;
  `CoverageIsOwed` fails with `Vanishing = {x}`, so its part has no vanishing file.
- An ignore event during the first check of an open document moves admission, the check
  is dropped (`editor.ts:1182`) and the document, not yet known to the graph, is
  not queued; `OpenDocumentsAreChecked` fails with a `.gitignore`, so its part has none.
- With an event limit of 1 a trimmed fence that turns out to be an echo leaves its floor
  behind and rejects reports for ever (`dependencies.ts:323`; the real limit is 4096).
- A reservation that is trimmed while it is pending raises the floor only to the revision
  of its reservation: a token issued between the reservation and its completion is not
  rejected afterwards, against the comment at `dependencies.ts:291` (real with more than
  4096 pending events; seen with `EventLimit = 1`, two files, three versions).
- `live-checks.ts:36` drops the document that was scheduled first, not
  the one whose last edit is oldest, as `extension/README.md:33` can be read.
- A template's own check reports it even as the second incomplete output of a role,
  where the comment near `rules_traefik.go:677` says the first one.
- `explain`'s `directory_would_select` is true for an alias at a generic nested path, such
  as `lib/play.yml` that links to a template of a role (`directoryAdmitsSource`,
  `src/lint/discovery.go:1150-1156`), although no scan offers it (`directorySource`,
  lines 953-962; `docs/templates.md:24`); `DiscoverableIsScanned` leaves that alias out.
- A marker of the project (`saltbox.yml`) that is untracked and ignored by Git names the
  project, which `inspectProjectIdentity` (`src/lint/discovery.go:1092`) looks at without
  Git, but no report of Git names it (`ls-files --others --exclude-standard`,
  `src/lint/changed.go:88`): when it appears or goes, `--changed-since` selects nothing.
  The README promises the untracked files that are not ignored only; `PlainTrees`
  leaves such rules out.
- The reason "unsupported template token grammar" of `template.go` cannot be reached.

## Not modelled

Listed with reasons in `PROJECT.json`: report layouts, other rules of one parsed
document, highlighting, the YAML index, the streams of the format command, protocol
parsing and the mapping of ranges (pure functions without state), rule help, the
reservation of test supervisors, Windows process handling, standard input, vendored code
and tools.

## Plan

1. Done: the lane, dependencies, typing checks, marked roots, child processes, folder
   coverage, check command, scaffold, loading, changed selection, the report, the
   expression and template languages, fixing and formatting.
2. `Reservation` (`process-reservation.ts`, `supervisor_unix.go`), composed with
   OwnedProcess: no command starts unless its group is registered.
3. `HelpRegistry` (`help.ts:105-181`), `Navigation` snapshots and `formatDocument` of
   `editor.ts`: each composes with `Lane` instead of `Scheduler`; `planFormat`
   (`cmd/format.go`) and its streams.
4. Proofs that are left: `ChangesAreSelected` with links; the properties of fixes and
   languages that speak of one pass, once their recursive operators are written as functions.
