---------------------------- MODULE TraefikOutput ----------------------------
(* What proves that a renderer emits the Traefik contract                       *)
(* (src/lint/rules_traefik.go), the retirement guard of a role, and the static  *)
(* part of an endpoint's value (src/lint/traefik_endpoint.go).                  *)
(*                                                                              *)
(* A renderer's expressions are in the order of the text; each is [kind,        *)
(* tokens, complete, hash, before, deeper]: `hash` when it is on a comment line *)
(* of the output, `before` the text between it and the one before it, and       *)
(* `deeper` when its line is indented deeper than `labels:`.                    *)
EXTENDS TemplateScan

CONSTANTS RoleVariable     \* the token of a role's variable, by its role and suffix

Middleware == "traefik_middleware_api"
APIEnabled == "_traefik_api_enabled"
APIEndpoint == "_traefik_api_endpoint"

\* Expressions on a comment line of the generated file are no evidence.
TraefikOutputExpressions(es) == SelectSeq(es, LAMBDA e : ~e.hash)

Captures(ts) ==
  LET separators == {i \in DOMAIN ts : ts[i] \in {"=", "|"}}
      first == CHOOSE i \in separators : \A j \in separators : i <= j
  IN \/ ts[1] \in {"macro", "call", "filter"}
     \/ ts[1] = "set" /\ (separators = {} \/ ts[first] = "|")
Releases(ts) == ts[1] \in {"endmacro", "endcall", "endfilter", "endset"}
Statements(e) == e.kind = "statement" /\ e.complete /\ e.tokens # <<>>

\* What is captured cannot be followed to the output.
TraefikUncapturedExpressions(es) ==
  LET DepthAt[k \in 0..Len(es)] ==
        IF k = 0 THEN 0
        ELSE IF Statements(es[k]) /\ Captures(es[k].tokens) THEN DepthAt[k - 1] + 1
        ELSE IF Statements(es[k]) /\ Releases(es[k].tokens) /\ DepthAt[k - 1] > 0 THEN DepthAt[k - 1] - 1
        ELSE DepthAt[k - 1]
      outside == SelectSeq([k \in DOMAIN es |-> k], LAMBDA k : DepthAt[k] = 0)
  IN [k \in DOMAIN outside |-> es[outside[k]]]

-----------------------------------------------------------------------------
\* The Docker labels.

TraefikOutputName(e, name) == e.complete /\ e.kind = "output" /\ StripGrouping(e.tokens) = <<name>> /\ Kind(name) = "name"

\* The name itself, through filters that keep it.
TraefikLabelValue(e, name) ==
  LET ts == e.tokens
  IN /\ e.complete /\ e.kind = "output" /\ ts # <<>> /\ ts[1] = name /\ Kind(name) = "name"
     /\ Len(ts) % 2 = 1
     /\ \A i \in 2..Len(ts) : IF i % 2 = 0 THEN ts[i] = "|" ELSE ts[i] \in {"string", "to_json"}

IsStatement(e, ts) == e.complete /\ e.kind = "statement" /\ e.tokens = ts

\* A labels mapping that writes its sorted pairs, and nothing else, under `labels:`.
LabelsLoop(es, i) ==
  LET ts == es[i].tokens
  IN /\ es[i].kind = "statement" /\ es[i].complete /\ Len(ts) = 8 /\ i + 3 <= Len(es)
     /\ ts[1] = "for" /\ Kind(ts[2]) = "name" /\ ts[3] = "," /\ Kind(ts[4]) = "name" /\ ts[2] # ts[4]
     /\ SubSeq(ts, 5, 8) = <<"in", "docker_labels_common", "|", "dictsort">>
     /\ TraefikOutputName(es[i + 1], ts[2]) /\ TraefikLabelValue(es[i + 2], ts[4])
     /\ IsStatement(es[i + 3], <<"endfor">>)
     /\ es[i].before = "labels:" /\ es[i + 1].before = "blank" /\ es[i + 2].before = ":" /\ es[i + 3].before = "blank"
     /\ es[i + 1].deeper

\* `value` is the text of a container's labels: whether it is the one expression.
TraefikDockerLabelsOutput(renderer) ==
  LET es == TraefikUncapturedExpressions(renderer.expressions)
  IN IF renderer.kind = "container"
     THEN renderer.alone /\ Len(es) = 1 /\ TraefikOutputName(es[1], "docker_labels_common")
     ELSE \E i \in DOMAIN es : LabelsLoop(es, i)

-----------------------------------------------------------------------------
\* The API contract.

TraefikReads(es, name) ==
  \E k \in DOMAIN es : es[k].complete /\ \E i \in VariableReads(es[k].kind, es[k].tokens) : es[k].tokens[i] = name

HasExplicitRoleVarLookup(es, suffix, role) ==
  \E k \in DOMAIN es : \E call \in Calls(es[k].kind, es[k].tokens, "lookup") :
    /\ LookupPlugin(call) = "role_var" /\ PositionalLiteral(call, 1) = suffix /\ NamedLiteral(call, "role") = role

\* A loop over the split middleware that emits its item at once.
TraefikMiddlewareLoopOutput(es) ==
  \E i \in 1..(Len(es) - 2) :
    LET ts == es[i].tokens output == es[i + 1] value == output.tokens
        stripped == IF Len(value) >= 5 /\ SubSeq(value, 2, 5) = <<".", "strip", "(", ")">>
                    THEN <<value[1]>> \o SubSeq(value, 6, Len(value)) ELSE value
    IN /\ es[i].complete /\ es[i].kind = "statement" /\ Len(ts) = 9
       /\ ts[1] = "for" /\ Kind(ts[2]) = "name"
       /\ SubSeq(ts, 3, 7) = <<"in", Middleware, ".", "split", "(">> /\ ts[9] = ")"
       /\ StringLiteral(<<ts[8]>>) = ","
       /\ IsStatement(es[i + 2], <<"endfor">>)
       /\ TraefikLabelValue([output EXCEPT !.tokens = stripped], ts[2])

\* The outputs, and the guards each was under.
GuardedOutputs(es) ==
  FoldLeft(LAMBDA s, e :
    CASE e.kind = "output" -> [s EXCEPT !.outputs = Append(@, e), !.guards = @ \o s.active]
      [] e.kind = "statement" /\ e.tokens # <<>> /\ e.tokens[1] = "if" -> [s EXCEPT !.active = Append(@, e)]
      [] e.kind = "statement" /\ e.tokens # <<>> /\ e.tokens[1] = "elif" /\ s.active # <<>> ->
           [s EXCEPT !.active = Append(Front(@), e)]
      [] e.kind = "statement" /\ e.tokens # <<>> /\ e.tokens[1] = "endif" /\ s.active # <<>> -> [s EXCEPT !.active = Front(@)]
      [] OTHER -> s,
    [outputs |-> <<>>, guards |-> <<>>, active |-> <<>>], es)

\* Enabling may be read by a guard or by the task's own condition.
MissingTraefikConsumption(renderer, role) ==
  LET es == TraefikUncapturedExpressions(renderer.expressions)
      g == GuardedOutputs(es)
      consumes(within, suffix) == \/ TraefikReads(within, RoleVariable[role, suffix])
                                  \/ HasExplicitRoleVarLookup(within, suffix, role)
  IN (IF TraefikReads(g.outputs, Middleware) \/ TraefikMiddlewareLoopOutput(es) THEN {} ELSE {Middleware})
     \cup (IF consumes(g.outputs \o g.guards \o renderer.conditions, APIEnabled) THEN {} ELSE {APIEnabled})
     \cup (IF consumes(g.outputs, APIEndpoint) THEN {} ELSE {APIEndpoint})

IncompleteRenderer(renderer) == \E k \in DOMAIN renderer.expressions : ~renderer.expressions[k].complete

-----------------------------------------------------------------------------
\* The guard of a retired role: not CI and (not) the migration tag in the run's
\* tags.  The tag's token, or none.
TraefikMigrationGuard(tokens, excluded) ==
  LET ts == StripGrouping(tokens)
      ands == {i \in Outermost(ts) : ts[i] = "and"}
      first == CHOOSE i \in ands : \A j \in ands : i <= j
      left == StripGrouping(Slice(ts, 1, first - 1))
      right == StripGrouping(Slice(ts, first + 1, Len(ts)))
      tested == IF excluded THEN (IF Len(right) = 4 /\ right[2] = "not" THEN <<right[1]>> \o SubSeq(right, 3, 4) ELSE <<>>)
                ELSE right
  IN IF ands = {} THEN None
     ELSE IF left = <<"not", "continuous_integration">> /\ Len(tested) = 3 /\ SubSeq(tested, 2, 3) = <<"in", "ansible_run_tags">>
     THEN StringLiteral(<<tested[1]>>) ELSE None

-----------------------------------------------------------------------------
\* An endpoint's text without its comments; not static when it has an output or a
\* statement, or a comment that does not end.  A text is a sequence of characters.
Visible(text) == {i \in DOMAIN text : text[i] # " "}
TrimLeft(text) == IF Visible(text) = {} THEN <<>>
                  ELSE SubSeq(text, CHOOSE i \in Visible(text) : \A j \in Visible(text) : i <= j, Len(text))
TrimRight(text) == Reverse(TrimLeft(Reverse(text)))
First(text, from, word) ==
  LET found == {i \in from..Len(text) : HasAt(text, i, word)}
  IN IF found = {} THEN 0 ELSE CHOOSE i \in found : \A j \in found : i <= j

\* A comment trims the segment next to it and never reaches over an earlier one.
Elided(literal, segment, dashed) == literal \o (IF dashed THEN TrimRight(segment) ELSE segment)

Unknown == [static |-> FALSE, text |-> <<>>]

\* `literal` is what the text before gave.
RECURSIVE TraefikEndpointLiteral(_, _)
TraefikEndpointLiteral(text, literal) ==
  LET start == First(text, 1, <<"{">>)
      segment == SubSeq(text, 1, start - 1)
      rest == SubSeq(text, start, Len(text))
      end == First(rest, 3, <<"#", "}">>)
      after == SubSeq(rest, end + 2, Len(rest))
      kept == Elided(literal, segment, HasAt(rest, 1, <<"{", "#", "-">>))
  IN CASE start = 0 -> [static |-> TRUE, text |-> literal \o text]
       [] start > 0 /\ (HasAt(rest, 1, <<"{", "{">>) \/ HasAt(rest, 1, <<"{", "%">>)) -> Unknown
       [] start > 0 /\ HasAt(rest, 1, <<"{", "#">>) ->
            IF end = 0 THEN Unknown
            ELSE TraefikEndpointLiteral(IF rest[end - 1] = "-" THEN TrimLeft(after) ELSE after, kept)
       [] OTHER -> TraefikEndpointLiteral(Tail(rest), Append(literal \o segment, "{"))

-----------------------------------------------------------------------------
\* In a template whose blocks nest, and none of whose comment lines opens or ends
\* one, the uncaptured expressions are those outside of every capturing block.
OutsideOfCaptures(scan) ==
  LET es == scan.expressions
      closes(e) == e.kind = "statement" /\ e.tokens[1] \in DOMAIN Ending
      Balance(i, j) == Cardinality({k \in i..j : Opens(es[k])}) - Cardinality({k \in i..j : closes(es[k])})
      partner(i) == CHOOSE j \in i..Len(es) : Balance(i, j) = 0 /\ \A k \in i..(j - 1) : Balance(i, k) > 0
      inside == UNION {i..(partner(i) - 1) : i \in {i \in DOMAIN es : Opens(es[i]) /\ es[i].tokens[1] \in {"macro", "call", "filter", "set"}}}
      outside == SelectSeq([k \in DOMAIN es |-> k], LAMBDA k : k \notin inside /\ ~es[k].hash)
  IN /\ scan.diagnostics = <<>> /\ \A r \in scan.reasons : r.kind # "other"
     /\ \A k \in DOMAIN es : es[k].hash => es[k].kind = "output"
     => TraefikUncapturedExpressions(TraefikOutputExpressions(es)) = [k \in DOMAIN outside |-> es[outside[k]]]
UncapturedIsOutside(tags) == OutsideOfCaptures(ScanProjectTemplate(PlainTemplate(tags), {}))

\* The literal has every character that no comment covers and none trims.  A
\* comment starts where none is open, and `{#-#}`, whose one dash the code takes
\* for both ends, is set aside.
EndpointLiteralElides(text) ==
  LET end(i) == First(text, i + 2, <<"#", "}">>)
      Starts[i \in DOMAIN text] ==
        /\ HasAt(text, i, <<"{", "#">>) /\ end(i) # 0
        /\ \A j \in 1..(i - 1) : Starts[j] => end(j) + 1 < i
      comments == {i \in DOMAIN text : Starts[i]}
      covered == UNION {i..(end(i) + 1) : i \in comments}
      blank(i, j) == \A k \in i..j : text[k] = " " /\ k \notin covered
      trimmed(k) == \/ \E i \in comments : k < i /\ HasAt(text, i, <<"{", "#", "-">>) /\ blank(k, i - 1)
                    \/ \E i \in comments : end(i) + 1 < k /\ text[end(i) - 1] = "-" /\ blank(end(i) + 2, k)
      kept == SelectSeq([k \in DOMAIN text |-> k], LAMBDA k : k \notin covered /\ ~trimmed(k))
      literal == TraefikEndpointLiteral(text, <<>>)
  IN literal.static /\ ~(\E i \in comments : HasAt(text, i, <<"{", "#", "-", "#", "}">>)) =>
       literal.text = [k \in DOMAIN kept |-> text[kept[k]]]
=============================================================================
