----------------------------- MODULE MCLanguages -----------------------------
(***************************************************************************)
(* What the linter reads, for TLC: the texts of MCSources, expressions of  *)
(* small vocabularies, the Traefik contract of two roles and the role      *)
(* lookups of MCReferences.  They share the grammar and nothing else; *)
(* one run checks them all, told apart by `part', which the initial state  *)
(* chooses and no step changes; the variables of the other parts are None. *)
(* The contract is judged under the limits of the program, the texts under *)
(* small ones.                                                             *)
(***************************************************************************)
EXTENDS TraefikContract, TLC

CONSTANTS
  HeaderLimit, Comments, Codes, MaxCharacters, MaxPhrases, MaxTags,   \* of the texts
  Vocabularies, Shapes,                                               \* of the expressions
  Dashed, NotLiteral                                                  \* of the lookups

VARIABLES part, source, vocabulary, phrases, open, tokens, files

expressionVars == <<vocabulary, phrases, open, tokens>>
mcVars == <<part, source, vars, expressionVars, files>>

Texts == INSTANCE MCSources WITH
  DiagnosticLimit <- 2, TagLimit <- 4, BlockLimit <- 2, TokenLimit <- 4, TotalTokens <- 10,
  DelimiterLimit <- 2, Letters <- {"a", "e"}, MaxEdits <- 2
Grammar == INSTANCE Expressions
Navigation == INSTANCE MCReferences WITH MaxEdits <- 3

ASSUME Texts!HeaderAssumption

-----------------------------------------------------------------------------
(* The Traefik contract: role a declares Traefik, renders a template or copies  *)
(* its output, and forwards an adapter; role b has a task and a template of its *)
(* own or an alias of a's.                                                      *)

Order == <<"a/defaults/main", "a/defaults/more", "a/handlers", "a/tasks/main", "a/x", "b/defaults/main", "b/tasks/main", "b/x">>
RolesOfPaths == [path \in ToSet(Order) |-> IF path \in {"b/defaults/main", "b/tasks/main", "b/x"} THEN "b" ELSE "a"]
Mains == {"a/defaults/main", "b/defaults/main", "a/tasks/main", "b/tasks/main"}
Templates == [k \in {"a", "b"} \X {"x"} |-> IF k[1] = "a" THEN "a/x" ELSE "b/x"]

\* A token of a string is what the string says.
Forwarded == AdapterSuffixes \cup {"web_subdomain"}
Strings == [t \in Forwarded \cup {"'role_var'", "'a'", "'b'", "'migration'"} |->
              CASE t = "'role_var'" -> "role_var" [] t = "'a'" -> "a" [] t = "'b'" -> "b"
                [] t = "'migration'" -> "migration" [] OTHER -> t]
AdapterLiterals == [k \in {"n"} \X Forwarded |-> k[2]]
Variables == [k \in {"a", "b"} \X {APIEnabled, APIEndpoint} |->
                CASE k = <<"a", APIEnabled>> -> "a_enabled" [] k = <<"a", APIEndpoint>> -> "a_endpoint"
                  [] k = <<"b", APIEnabled>> -> "b_enabled" [] OTHER -> "b_endpoint"]
Tag(kind, words) ==
  [kind |-> kind, closed |-> "yes", limit |-> "none", tokens |-> words, hash |-> FALSE, before |-> "text", deeper |-> FALSE]
Text(tags) == [excluded |-> FALSE, unreadable |-> FALSE, header |-> [present |-> FALSE], tags |-> tags]
Consumption == <<Tag("statement", <<"if", "a_enabled">>), Tag("output", <<Middleware>>), Tag("output", <<"a_endpoint">>),
                 Tag("statement", <<"endif">>)>>
Complete == Text(Consumption)
Unguarded == Text(<<Tag("output", <<Middleware>>), Tag("output", <<"a_endpoint">>)>>)
Captured == Text(<<Tag("statement", <<"set", "c">>)>> \o Consumption \o <<Tag("statement", <<"endset">>)>>)
Broken == Text(<<[Tag("output", <<Middleware>>) EXCEPT !.closed = "no"]>>)
Includes == Text(<<Tag("statement", <<"include", "c">>)>>)

Task ==
  [module |-> "debug", arguments |-> "known", src |-> [status |-> "static", name |-> "x", string |-> TRUE], delimiters |-> FALSE,
   moduleDefaults |-> FALSE, alone |-> FALSE, given |-> FALSE, value |-> <<>>, when |-> <<>>, simple |-> TRUE,
   deprecates |-> FALSE, vars |-> [x \in {} |-> x], adapter |-> ""]
Renderer == [Task EXCEPT !.module = "template"]
Guarded == [Renderer EXCEPT !.when = <<<<"a_enabled">>>>]
Dynamic == [Renderer EXCEPT !.src.status = "dynamic", !.src.string = TRUE]
Redelimited == [Renderer EXCEPT !.delimiters = TRUE]
Expressed(tags) == [k \in DOMAIN tags |->
  [kind |-> tags[k].kind, tokens |-> tags[k].tokens, complete |-> TRUE, hash |-> FALSE, before |-> "text", deeper |-> FALSE]]
Copies == [Task EXCEPT !.module = "copy", !.given = TRUE, !.value = Expressed(Consumption)]
Incomplete == [Copies EXCEPT !.value = Expressed(<<Tag("output", <<Middleware>>)>>)]
Container == [Task EXCEPT !.module = "container", !.given = TRUE, !.alone = TRUE,
                          !.value = Expressed(<<Tag("output", <<"docker_labels_common">>)>>)]
Fails(guard) == [Task EXCEPT !.module = "fail", !.deprecates = TRUE, !.when = IF guard = <<>> THEN <<>> ELSE <<guard>>]
Migrates == [Task EXCEPT !.module = "migration",
                         !.when = <<<<"not", "continuous_integration", "and", "'migration'", "in", "ansible_run_tags">>>>]
Retired == <<"not", "continuous_integration", "and", "'migration'", "not", "in", "ansible_run_tags">>

LookupOf(role, x) == [string |-> TRUE, alone |-> TRUE,
                      tokens |-> <<"lookup", "(", "'role_var'", ",", x, ",", "role", "=", role, ")">>]
Forwards == [Task EXCEPT !.module = "include_role", !.adapter = "n", !.vars = [x \in Forwarded |-> LookupOf("'a'", x)]]
Forgets == [Forwards EXCEPT !.vars = [x \in Forwarded \ {"traefik_enabled"} |-> @[x]]]
Confuses == [Forwards EXCEPT !.vars["traefik_enabled"] = LookupOf("'b'", "traefik_enabled")]

SomeTasks ==
  {<<>>, <<Renderer>>, <<Guarded>>, <<Dynamic>>, <<Redelimited>>, <<Copies>>, <<Incomplete>>, <<Incomplete, Renderer>>,
   <<Container>>, <<Migrates, Fails(Retired)>>, <<Fails(Retired)>>, <<Forwards>>, <<Forgets>>, <<Confuses>>}
SomeTemplates == {Complete, Unguarded, Captured, Broken, Includes, [Complete EXCEPT !.excluded = TRUE]}
Namespace == <<"web_subdomain", "traefik_sso_middleware", "traefik_middleware_default", "traefik_middleware_custom",
               "traefik_certresolver", "traefik_enabled">> \o TraefikAPISuffixes
Adapter == [i \in DOMAIN Namespace |-> <<"n", Namespace[i]>>]
SomeDeclarations == {<<>>, <<<<"", "traefik_enabled">>>>, <<<<"n", "web_subdomain">>>>, Adapter}

File(role, kind) == [role |-> role, kind |-> kind, invalid |-> FALSE, declared |-> <<>>, tasks |-> <<>>, template |-> Complete,
                     canonical |-> ""]
Own == [path \in ToSet(Order) |->
  CASE path = "a/defaults/main" -> [File("a", "defaults") EXCEPT !.declared = <<<<"", "traefik_enabled">>>>]
    [] path = "a/defaults/more" -> File("a", "defaults")
    [] path = "a/handlers" -> File("a", "handlers")
    [] path = "a/tasks/main" -> [File("a", "tasks") EXCEPT !.tasks = <<Guarded>>]
    [] path = "a/x" -> [File("a", "template") EXCEPT !.template = Unguarded, !.canonical = "a/x"]
    [] path = "b/defaults/main" -> [File("b", "defaults") EXCEPT !.declared = <<<<"", "traefik_enabled">>>>]
    [] path = "b/tasks/main" -> [File("b", "tasks") EXCEPT !.tasks = <<Renderer>>]
    [] path = "b/x" -> [File("b", "template") EXCEPT !.template = Unguarded, !.canonical = "b/x"]]
Without(sources, paths) == [path \in DOMAIN sources \ paths |-> sources[path]]
Aliased == [Own EXCEPT !["b/x"] = [Own["a/x"] EXCEPT !.kind = "template"]]

On(own, selected, b) == [sources |-> own, selected |-> selected, disk |-> [path \in {"a/x", "b/x"} |-> IF path = "b/x" THEN b ELSE path]]
Alone == Without(Own, {"b/defaults/main", "b/tasks/main", "b/x"})
SomeProjects ==
  {On(Alone, selected, "missing") : selected \in {{"a/tasks/main"}, {"a/tasks/main", "a/x"}, DOMAIN Alone}}
  \cup {On(Own, {"a/x", "b/x"}, "b/x"), On(Aliased, {"a/x", "b/x"}, "a/x"),
        On(Aliased, {"b/tasks/main", "b/defaults/main"}, "a/x"), On(Without(Alone, {"a/x"}), {"a/tasks/main"}, "missing")}

-----------------------------------------------------------------------------
(* Small vocabularies, each with a bound on the phrases.                   *)
AllLiterals ==
  Strings @@ ("'x'" :> "x") @@ ("'app'" :> "app")
          @@ ("'_web_subdomain'" :> "_web_subdomain") @@ ("'_web_domain'" :> "_web_domain")
NumberTexts == {"0"}
Components == [s \in {"_web_subdomain", "_web_domain"} |->
                 IF s = "_web_domain" THEN <<"web", "domain">> ELSE <<"web", "subdomain">>]

Plain == [kind |-> "string", undecorated |-> TRUE, plain |-> TRUE, alone |-> TRUE]
SomeScalars == {Plain, [Plain EXCEPT !.plain = FALSE], [Plain EXCEPT !.undecorated = FALSE],
                [Plain EXCEPT !.kind = "bool"]}

Single(ts) == {<<t>> : t \in ts}
RoleVar(suffix) == <<"lookup", "(", "'role_var'", ",", suffix, ",", "role", "=", "'app'", ")">>
Domain == RoleVar("'_web_domain'")
Subdomain == RoleVar("'_web_subdomain'")

Conditions == Single({"a", "true", "if", "else", "and", "or", "not", "(", ")"})
Postfixes == Single({"a", "and", "if", "else", "is", "not", "in", ".", "|", "==", "'x'"})
CallsAndItems == Single({"a", "lookup", "(", ")", ",", "=", "if", "else", "[", "]"})
Booleans == {<<"a">>, <<"a", "==", "'x'">>, <<"is", "not", "defined">>, <<"and">>, <<"or">>, <<"not">>, <<"(">>, <<")">>, <<",">>}
Fallbacks == {Domain, Subdomain, <<"if">>, <<"|", "length", ">", "0", "else">>, <<"omit">>, <<"(">>, <<")">>}
Compositions == {Domain, Subdomain, <<"~">>, <<"(">>, <<")">>, <<",">>, <<"[">>, <<"]">>, <<"if">>}
InLookups == {<<"lookup", "(", "'x'", ",">>, <<"a">>, <<"if">>, <<"else">>, <<")">>, <<",">>, <<"role", "=">>, <<"[">>, <<"]">>}

Small == {<<Conditions, 6>>, <<Postfixes, 5>>, <<CallsAndItems, 5>>, <<Booleans, 5>>,
          <<Fallbacks, 5>>, <<Compositions, 6>>, <<InLookups, 6>>}

DashedParts == "be-ta" :> "be_ta"

-----------------------------------------------------------------------------
NoExpression == vocabulary = None /\ phrases = None /\ open = None /\ tokens = None

MCInit ==
  \/ part = "text" /\ Texts!Init /\ NoExpression /\ project = None /\ files = None
  \/ part = "expression" /\ Grammar!Init /\ source = None /\ edits = None /\ project = None /\ files = None
  \/ part = "contract" /\ Init /\ source = None /\ NoExpression /\ files = None
  \/ part = "lookup" /\ Navigation!Init /\ source = None /\ NoExpression /\ project = None

MCNext ==
  \/ part = "text" /\ Texts!Next /\ UNCHANGED <<part, expressionVars, project, files>>
  \/ part = "expression" /\ Grammar!Next /\ UNCHANGED <<part, source, vars, files>>
  \/ part = "contract" /\ Next /\ UNCHANGED <<part, source, expressionVars, files>>
  \/ part = "lookup" /\ Navigation!Next /\ UNCHANGED <<part, source, expressionVars, project>>

MCSpec == MCInit /\ [][MCNext]_mcVars

-----------------------------------------------------------------------------
(* Properties.                                                             *)

\* The tokens and the tree tell one story of an expression, and the lookup rules,
\* which read spans, agree with both (ViewsAgree, LookupsAgree of Expressions).
ExpressionsHaveOneReading == part = "expression" => Grammar!ViewsAgree /\ Grammar!LookupsAgree

\* A repair keeps what an expression means and is the last one it needs
\* (RepairsKeepMeaning, RepairsSettle of Expressions).
RepairsAreFinal == part = "expression" => Grammar!RepairsKeepMeaning /\ Grammar!RepairsSettle

\* A fixed header satisfies the check that asked for it, and a fixed header or test
\* keeps each of its comments (HeaderSettles, HeaderKeepsComments, TestKeepsComments
\* of MCSources).
FixesKeepComments == part = "text" => Texts!HeaderSettles /\ Texts!HeaderKeepsComments /\ Texts!TestKeepsComments

\* A tag ends where the lexer ends it, and a literal is its text without the comments
\* (TagsAgree, CommentsElided of MCSources).
TagsAreDelimited == part = "text" => Texts!TagsAgree /\ Texts!CommentsElided

\* The linear scan judges nesting, and what it yields as evidence is all there is
\* (BlocksAreJudged, EvidenceIsWhole, CapturesAgree of MCSources).
TemplatesAreScanned == part = "text" => Texts!BlocksAreJudged /\ Texts!EvidenceIsWhole /\ Texts!CapturesAgree

\* A defect of a Traefik output or adapter is reported, once, at its owner, and on
\* evidence that is current (RendererReportedOnce, DefectIsReported,
\* EvidenceIsCurrent, AdapterDefectsOwned of TraefikContract).
ContractIsReported ==
  part = "contract" =>
    /\ RendererReportedOnce /\ DefectIsReported
    /\ EvidenceIsCurrent /\ AdapterDefectsOwned

\* Selecting a source moves the contract's findings and loses none
\* (SelectionKeepsFindings of TraefikContract).
SelectionMovesFindings == [][part = "contract" => KeepsFindings]_mcVars

\* A lookup has one answer for every load, every question and its inverse, and
\* completion offers what it would find (LoadsAgree, NavigationIsInverse,
\* CompletionsResolve of MCReferences).
LookupsHaveOneAnswer ==
  part = "lookup" =>
    Navigation!LoadsAgree /\ Navigation!NavigationIsInverse /\ Navigation!CompletionsResolve

\* When a file stops parsing, no other file's lookup moves to another answer
\* (BrokenIsUnavailable of MCReferences).
BrokenFilesMoveNoLookup == [][part = "lookup" => Navigation!BreakKeeps]_mcVars
=============================================================================
