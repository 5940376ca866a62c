----------------------------- MODULE MCLoad -----------------------------
(***************************************************************************)
(* The loads of a worktree, for TLC: a plain load of a role, a play, a     *)
(* nested file, a link at the top level and a file outside, by several     *)
(* readers; and a check of what changed since a commit, where the defaults *)
(* of a role are a link to a file nobody scans.  They do not interact; one *)
(* run checks both, told apart by `part', which the initial state chooses  *)
(* and no step changes; the variables of the other part are None.  The     *)
(* configuration gives the constants of both.                              *)
(***************************************************************************)
EXTENDS Discovery

CONSTANTS
  Parts,   \* the loads of the run
  \* and the constants of the check since a commit, as ChangedSelection has them
  ChangedPaths, ChangedYamlNames, ChangedJinjaNames, ChangedPlays, ChangedBroken,
  ChangedDeclares, ChangedReads, ChangedCopies, Commits, Edits, ChangedTargets,
  ChangedRules, Configs, ChangedMoves

VARIABLES part, base, flagged, changed, uncertain, graph, selection

changedVars == <<base, flagged, changed, uncertain, graph, selection>>
loadVars == <<fresh, req, prefixes, listing, answers, buffer, spelled, jobs, job,
              slots, project>>
mcVars == <<part, w, moves, pc, calm, changedVars, loadVars>>

Since == INSTANCE ChangedSelection WITH
  Paths <- ChangedPaths, YamlNames <- ChangedYamlNames, JinjaNames <- ChangedJinjaNames,
  Plays <- ChangedPlays, Broken <- ChangedBroken, Declares <- ChangedDeclares,
  Reads <- ChangedReads, Copies <- ChangedCopies, LinkTargets <- ChangedTargets,
  IgnoreRules <- ChangedRules, MaxMoves <- ChangedMoves

-----------------------------------------------------------------------------
(* The check since a commit.                                               *)

Tasks == <<"roles", "app", "tasks", "main.yml">>
Defaults == <<"roles", "app", "defaults", "main.yml">>
Template == <<"roles", "app", "templates", "conf.j2">>
Base == <<"roles", "base", "defaults", "main.yml">>
Site == <<"site.yml">>
Shared == <<"lib", "data.yml">>
Middle == <<"lib", "main.yml">>
Marker == <<"saltbox.yml">>

MCPaths == {Tasks, Defaults, Template, Base, Site, Shared, Marker}
ChainPaths == {Defaults, Shared, Middle, Site}
MCYamlNames == {"main.yml", "site.yml", "data.yml", "saltbox.yml"}
MCJinjaNames == {"conf.j2", "source.j2"}
MCEdits == {"plain", "play"}
\* "plain" declares names of the role base and copies the template.
MCDeclares == [c \in MCEdits |-> IF c = "plain" THEN {"base"} ELSE {}]
MCCopies == [c \in MCEdits |-> IF c = "plain" THEN {"conf.j2"} ELSE {}]
MCReads == [c \in MCEdits |-> {}]
MCPlays == {"play"}
MCBroken == {}

Number == [p \in MCPaths \cup {Middle} |->
  CASE p = Tasks -> 1 [] p = Defaults -> 2 [] p = Template -> 3 [] p = Base -> 4
    [] p = Site -> 5 [] p = Shared -> 6 [] p = Marker -> 7 [] p = Middle -> 8]

NoConfig == [state |-> "missing", small |-> TRUE, documents |-> 0, fields |-> <<>>]
Excluding(name) ==
  [state |-> "regular", small |-> TRUE, documents |-> 1,
   fields |-> <<[key |-> "exclude_paths", shaped |-> TRUE, names |-> <<name>>]>>]

Committed(files, link, nested) ==
  [file |-> [p \in ChangedPaths |-> IF p \in files THEN Number[p] ELSE 0], link |-> link,
   bytes |-> [i \in 1..8 |-> [data |-> IF i = 5 THEN "play" ELSE "plain", version |-> 0,
                              home |-> CHOOSE p \in DOMAIN Number : Number[p] = i]],
   config |-> NoConfig, git |-> TRUE, ignored |-> {}, nested |-> nested,
   tracked |-> files \cup DOMAIN link, escapedControls |-> {}, unavailable |-> {},
   narrow |-> FALSE]

MCCommits ==
  {Committed({Tasks, Template, Site, Shared}, [p \in {Defaults} |-> Shared], FALSE),
   Committed({Tasks, Defaults, Base, Shared}, [p \in {} |-> Shared], TRUE),
   Committed({Tasks, Defaults, Marker, Shared}, [p \in {Template} |-> Shared], FALSE),
   [Committed({Site}, [p \in {} |-> Site], FALSE) EXCEPT !.git = FALSE]}
ChainCommits ==
  {Committed({Shared, Site}, [p \in {Defaults, Middle} |->
               IF p = Defaults THEN Middle ELSE Shared], FALSE)}

MCLinkTargets == {Shared, Base}
ChainTargets == {Site, Middle}
MCIgnoreRules == {{<<"roles", "base">>}, {}}
MCConfigs == {Excluding(<<"roles", "app", "defaults">>), Excluding(<<"lib">>), NoConfig}

-----------------------------------------------------------------------------
(* The plain load.                                                         *)

LoadTemplate == <<"roles", "app", "templates", "conf.yml">>
Nested == <<"lib", "data.yml">>
Outside == <<"..", "other.yml">>
Alias == <<"play.yml">>
Disguise == <<"roles", "alt", "templates">>

LoadPaths == {Tasks, Defaults, LoadTemplate, Site, Nested, Outside, Alias}
LoadYamlNames == {"main.yml", "conf.yml", "site.yml", "data.yml", "other.yml",
                "play.yml", "vars.yml", "vars.yaml", "inventory.yml", "inventory.yaml"}
LoadJinjaNames == {"source.j2"}
LoadDeclares == [c \in {"play", "plain"} |-> IF c = "plain" THEN {"base"} ELSE {}]
LoadNothing == [c \in {"play", "plain"} |-> {}]
LoadPlays == {"play"}
LoadBroken == {}
LoadContents == {"plain"}

LoadInode == [p \in LoadPaths |-> CASE p = Tasks -> 1 [] p = Defaults -> 2 [] p = LoadTemplate -> 3
                            [] p = Site -> 4 [] p = Nested -> 5 [] p = Outside -> 6
                            [] OTHER -> 0]
Home(i) == CHOOSE p \in LoadPaths : LoadInode[p] = i

World(git, config, ignored, to) ==
  [file |-> LoadInode,
   link |-> [l \in {Alias, Disguise} |-> IF l = Alias THEN to ELSE <<"lib">>],
   bytes |-> [i \in 1..6 |-> [data |-> IF i \in {3, 4} THEN "play" ELSE "plain",
                              version |-> 0, home |-> Home(i)]],
   config |-> config, git |-> git, ignored |-> ignored,
   tracked |-> {Site, Tasks}, escapedControls |-> {}, unavailable |-> {},
   narrow |-> FALSE]

IgnoredTemplates == {<<"roles", "app", "templates">>}

LoadWorlds ==
  {World(TRUE, NoConfig, {}, LoadTemplate), World(FALSE, NoConfig, {}, Nested)}
  \cup {World(git, Excluding(<<"lib">>), {}, Nested) : git \in BOOLEAN}
  \cup {World(TRUE, NoConfig, IgnoredTemplates, LoadTemplate),
        World(TRUE, NoConfig, {}, Outside),
        World(FALSE, Excluding(<<>>), {}, Site),
        [World(TRUE, NoConfig, {}, Site) EXCEPT !.escapedControls = {"exclude"}],
        [World(FALSE, NoConfig, {}, Site) EXCEPT !.narrow = TRUE, !.file[Defaults] = 0]}

Ask(paths) == [paths |-> paths, stdin |-> <<>>, source |-> <<>>, content |-> "plain",
               references |-> FALSE]

LoadRequests ==
  {Ask(<<p>>) : p \in {Alias, Nested, LoadTemplate, Disguise,
                       Disguise \o <<"data.yml">>}}
  \cup {[Ask(<<Tasks>>) EXCEPT !.references = TRUE],
        Ask(<<>>), Ask(<<<<>>>>), Ask(<<Alias, <<"roles">>>>),
        [Ask(<<Nested>>) EXCEPT !.stdin = Alias],
        [Ask(<<>>) EXCEPT !.stdin = LoadTemplate, !.source = Alias],
        [Ask(<<Alias>>) EXCEPT !.stdin = LoadTemplate]}

LoadLinkTargets == {LoadTemplate, Outside}
LoadIgnoreRules == {IgnoredTemplates}

-----------------------------------------------------------------------------
None == "none"
NoLoad ==
  /\ fresh = None /\ req = None /\ prefixes = None /\ listing = None
  /\ answers = None /\ buffer = None /\ spelled = None /\ jobs = None
  /\ job = None /\ slots = None /\ project = None
NoChanged ==
  /\ base = None /\ flagged = None /\ changed = None /\ uncertain = None
  /\ graph = None /\ selection = None

MCInit ==
  /\ part \in Parts
  /\ \/ part = "changed" /\ Since!Init /\ NoLoad
     \/ part = "load" /\ Init /\ NoChanged

MCNext ==
  \/ part = "changed" /\ Since!Next /\ UNCHANGED <<part, loadVars>>
  \/ part = "load" /\ Next /\ UNCHANGED <<part, changedVars>>

MCSpec == MCInit /\ [][MCNext]_mcVars

-----------------------------------------------------------------------------
(* Properties.                                                             *)

\* Whatever links, aliases, buffers and moves meet during a load, the bytes of a
\* source are those of its recorded owner below the root, a template never becomes
\* YAML that --fix may rewrite, and an excluded name is never parsed
\* (BytesBelongToTheOwner, TemplatesStayReadOnly, ExcludedIsNeverParsed).
SourcesAreWhatTheyClaim ==
  part = "load" =>
    /\ BytesBelongToTheOwner /\ TemplatesStayReadOnly
    /\ ExcludedIsNeverParsed

\* A load nobody disturbed holds the whole context of what it selected, and says of
\* a named file what a scan of the root would do (ContextIsComplete,
\* DiscoverableIsScanned of Discovery).
LoadIsComplete ==
  part = "load" => ContextIsComplete /\ DiscoverableIsScanned

\* A check since a commit leaves out no source that the edits could have changed a
\* finding of, and selects nothing when the tree is back at the commit
\* (AffectedAreSelected, UnchangedSelectsNothing of ChangedSelection).
ChangesAreSelected ==
  part = "changed" => Since!AffectedAreSelected /\ Since!UnchangedSelectsNothing

\* What the README says of links, which the code does not keep for a link to a link
\* (ResolvedBytesAreSelected of ChangedSelection).
ResolvedBytesAreSelected == part = "changed" => Since!ResolvedBytesAreSelected

=============================================================================
