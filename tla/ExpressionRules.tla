---------------------------- MODULE ExpressionRules ----------------------------
(***************************************************************************)
(* What the linter says of one expression, and how it repairs it: the      *)
(* shape of `when` conditions and of conditional results                   *)
(* (lint/rules_when_list.go, rules_parentheses.go, expression_fixes.go)    *)
(* and the lookups of role variables (rules_web.go, checkLookupConditional *)
(* of rules.go).  ts are the tokens of the expression, n the scalar that   *)
(* holds it.                                                               *)
(***************************************************************************)
EXTENDS Jinja

CONSTANTS
  ComponentOf   \* the lookup suffixes "_<endpoint>_<component>", as pairs

\* A scalar: its kind, whether it carries no tag, anchor or comment of its own
\* (undecorated), is plain and spelled as it reads, and stands alone after `when:`.
Scalar == [kind : {"string", "bool"}, undecorated : BOOLEAN, plain : BOOLEAN, alone : BOOLEAN]

-----------------------------------------------------------------------------
(***************************************************************************)
(* Conditions.                                                             *)
(***************************************************************************)

\* What stands between the cuts, when something stands between any two.
Operands(ts, cuts) ==
  IF \E k \in 2..Len(cuts) : cuts[k] = cuts[k - 1] + 1 THEN <<>>
  ELSE [k \in 1..(Len(cuts) - 1) |-> Slice(ts, cuts[k] + 1, cuts[k + 1] - 1)]

\* Mutant: a conjunction beneath an `or` is split as well.
MutConjuncts(ts, s) ==
  IF s.if # 0 \/ s.and = <<>> THEN <<>> ELSE Operands(ts, <<0>> \o s.and \o <<Len(ts) + 1>>)

Conjuncts(ts, s) ==
  IF s.if # 0 \/ s.or \/ s.and = <<>> THEN <<>>
  ELSE Operands(ts, <<0>> \o s.and \o <<Len(ts) + 1>>)

\* rootConjunction: the operands of an `and` that nothing encloses.
RootConjunction(ts) ==
  IF ConditionalResultTuple(ts) THEN <<>> ELSE Conjuncts(ts, InspectRegion(ts))

\* directVariableReference: fields and items of a variable, without computed keys.
RECURSIVE References(_, _)
References(ts, i) ==
  IF i > Len(ts) THEN TRUE ELSE
  LET end == BalancedEnd(ts, i) key == Slice(ts, i + 1, end - 1) IN
  CASE ts[i] = "." -> KindAt(ts, i + 1) \in {"name", "number"} /\ References(ts, i + 2)
    [] ts[i] = "[" ->
         /\ end # 0
         /\ \/ Len(key) = 1 /\ (Kind(key[1]) \in {"string", "number"} \/ key[1] \in Constants)
            \/ /\ key # <<>> /\ Kind(key[1]) = "name" /\ ~JinjaReadKeyword(key[1])
               /\ References(key, 2)
         /\ References(ts, end + 1)
    [] OTHER -> FALSE

DirectVariableReference(ts) ==
  ts # <<>> /\ Kind(ts[1]) = "name" /\ ~JinjaReadKeyword(ts[1]) /\ References(ts, 2)

\* A lookup that is the whole of the condition is one read.
StandaloneWhenLookup(ts) ==
  /\ ts # <<>> /\ ts[1] \in {"lookup", "query", "q"}
  /\ \E call \in Calls("implicit", ts, ts[1]) : call.from = 1 /\ call.to = Len(ts)

WhenConditionGroupedOrRead(ts) ==
  StripGrouping(ts) # ts \/ DirectVariableReference(ts) \/ StandaloneWhenLookup(ts)

CheckWhenList(n, ts) == n.kind = "string" /\ RootConjunction(ts) # <<>>

CheckWhenParentheses(n, ts) ==
  \/ n.kind = "bool"
  \/ /\ n.kind = "string" /\ ts # <<>>
     /\ RootConjunction(ts) = <<>> /\ ~WhenConditionGroupedOrRead(ts)

Wrapped(ts) == <<"(">> \o ts \o <<")">>

\* whenListData: the items that the hint and the preview show of the operands.
WhenListData(operands) ==
  [k \in DOMAIN operands |->
     IF WhenConditionGroupedOrRead(operands[k]) THEN operands[k] ELSE Wrapped(operands[k])]

\* Only a plain scalar that stands alone after its key becomes a list.
WhenListPreview(n, ts) ==
  IF n.kind = "string" /\ n.undecorated /\ n.plain /\ n.alone
  THEN WhenListData(RootConjunction(ts)) ELSE <<>>

\* An item of the repaired list.
WhenListItem(operand) == IF StripGrouping(operand) = operand THEN Wrapped(operand) ELSE operand

\* An expression the grammar of repairs knows to be boolean.
KnownBoolean(r) == r.ok /\ r.b
ItemsOfList(operands) ==
  IF \A k \in DOMAIN operands : KnownBoolean(ParseFix(operands[k]))
  THEN [k \in DOMAIN operands |-> WhenListItem(operands[k])] ELSE <<>>

\* whenListFix: the list instead of the conjunction, when every operand is known
\* to be boolean; <<>> when the repair declines.
WhenListFix(n, ts) ==
  IF /\ n.kind = "string" /\ n.undecorated /\ n.plain /\ n.alone
     /\ KnownBoolean(ParseFix(ts))
  THEN ItemsOfList(RootConjunction(ts)) ELSE <<>>

\* expressionStructuralFixes: the pair around a condition, <<>> when it declines.
WhenParenthesesFix(n, ts) ==
  IF n.undecorated /\ n.kind = "string" /\ CheckWhenParentheses(n, ts) /\ ParseFix(ts).ok
  THEN Wrapped(ts) ELSE <<>>

\* A conditional that is the whole result needs no pair around it; a tuple does.
WholeConditional(s, length) == s.if > 1 /\ s.else > s.if + 1 /\ s.else < length
ConditionalInside(ts, inner) ==
  /\ inner # ts /\ ~ConditionalResultTuple(inner)
  /\ WholeConditional(InspectRegion(inner), Len(inner))
CheckConditionalResult(ts) == ConditionalInside(ts, StripGrouping(ts))

\* The repaired result, checked against the signature of the original.  Expressions
\* here are those of plain scalars: one with a tag or an anchor is offered no repair.
SameConditional(r, s) == r.ok /\ r.t.op = "conditional" /\ s.ok /\ s.t = r.t
Bared(ts, inner) ==
  IF /\ inner # ts /\ ~ConditionalResultTuple(inner)
     /\ InspectRegion(inner).else # 0
     /\ SameConditional(ParseFix(ts), ParseFix(inner))
  THEN inner ELSE <<>>
ConditionalResultFix(ts) == Bared(ts, StripGrouping(ts))

-----------------------------------------------------------------------------
(***************************************************************************)
(* Lookups.                                                                *)
(***************************************************************************)

None == "none"

\* jinjaStringLiteral: one string token without escapes.
StringLiteral(ts) == IF Len(ts) = 1 /\ ts[1] \in DOMAIN Literals THEN Literals[ts[1]] ELSE None

LookupPlugin(call) ==
  IF call.arguments = <<>> THEN None
  ELSE IF call.arguments[1].name # "" THEN None ELSE StringLiteral(call.arguments[1].tokens)

\* The literal at a position among the unnamed arguments, counted from 0.
PositionalLiteral(call, index) ==
  LET unnamed == SelectSeq(call.arguments, LAMBDA a : a.name = "") IN
  IF index < Len(unnamed) THEN StringLiteral(unnamed[index + 1].tokens) ELSE None

NamedLiteral(call, name) ==
  LET named == SelectSeq(call.arguments, LAMBDA a : a.name = name) IN
  IF named = <<>> THEN None ELSE StringLiteral(named[1].tokens)

HasNamedArgument(call, name) == \E k \in DOMAIN call.arguments : call.arguments[k].name = name

\* directLookup: the calls of a plugin that are the whole of the tokens.
DirectLookups(ts, plugin) ==
  {call \in Calls("output", ts, "lookup") :
     call.from = 1 /\ call.to = Len(ts) /\ LookupPlugin(call) = plugin}

OneLookup(found) ==
  IF \E f \in found : None \notin {f[1], f[2]} THEN CHOOSE f \in found : TRUE ELSE <<>>

\* directRoleVarLookup: <<suffix, role>> of a lookup with exactly three arguments.
DirectRoleVarLookup(ts) ==
  OneLookup({<<PositionalLiteral(call, 1), NamedLiteral(call, "role")>> :
               call \in {c \in DirectLookups(ts, "role_var") : Len(c.arguments) = 3}})

\* checkRoleLookupTarget: a lookup that names no role.
CheckRoleLookupTarget(ts) ==
  {call.from : call \in {c \in Calls("output", ts, "lookup") :
     LookupPlugin(c) \in {"role_var", "role_web"} /\ ~HasNamedArgument(c, "role")}}

\* checkLookupConditional: the `if` tokens inside lookup arguments; the span is
\* remembered, so each is reported once.
ReportedConditionals(ts) ==
  UNION {UNION {Shifted(ConditionalOperators(call.arguments[k].tokens), call.arguments[k].first - 1) :
                  k \in DOMAIN call.arguments} : call \in Calls("output", ts, "lookup")}

\* What is no single concatenated value: a tuple or a conditional.
Opaque(ts) == HasTopLevelComma(ts) \/ InspectRegion(ts).if # 0

\* composedRoleVarLookups: the direct lookups a value is concatenated from.
RECURSIVE ComposedRoleVarLookups(_)
LookupsBetween(ts, cuts) ==
  IF Len(cuts) = 2 \/ Unclosed(ts) THEN <<>>
  ELSE FlattenSeq([k \in 1..(Len(cuts) - 1) |->
         ComposedRoleVarLookups(Slice(ts, cuts[k] + 1, cuts[k + 1] - 1))])
LookupsIn(ts, direct) ==
  IF ts = <<>> \/ Opaque(ts) THEN <<>>
  ELSE IF direct # <<>> THEN <<direct>>
  ELSE LookupsBetween(ts,
         SetToSortSeq({0, Len(ts) + 1} \cup {i \in Outermost(ts) : ts[i] \in {"~", "+"}}, <))
LookupsUngrouped(ts) == LookupsIn(ts, DirectRoleVarLookup(ts))
ComposedRoleVarLookups(ts) == LookupsUngrouped(StripGrouping(ts))

\* pairedEndpoint: the role and endpoint whose two components are both looked up.
PairedEndpoint(lookups) ==
  LET known == SelectSeq(lookups, LAMBDA l : l[1] \in DOMAIN ComponentOf)
      has(role, endpoint, component) ==
        \E k \in DOMAIN known : known[k][2] = role /\ ComponentOf[known[k][1]] = <<endpoint, component>>
      key(k) == <<known[k][2], ComponentOf[known[k][1]][1]>>
      pairs == {k \in DOMAIN known : has(key(k)[1], key(k)[2], "subdomain") /\ has(key(k)[1], key(k)[2], "domain")}
  IN IF pairs = {} THEN <<>> ELSE key(CHOOSE k \in pairs : \A j \in pairs : k <= j)

\* The lookup whose length is tested is the value itself.
Tests(predicate, value) == predicate = value /\ value # <<>>

\* repeatedRoleVarFallback: value if lookup | length > 0 else omit or a lookup.
TestsLength(condition, closing, value) ==
  /\ closing # 0
  /\ Tests(DirectRoleVarLookup(Slice(condition, 1, closing)), value)
  /\ Slice(condition, closing + 1, Len(condition)) = <<"|", "length", ">", "0">>
TestsItsLength(condition, value) ==
  /\ Len(condition) >= 5 /\ condition[1] = "lookup" /\ condition[2] = "("
  /\ TestsLength(condition, BalancedEnd(condition, 2), value)
FallbackIn(ts, s) ==
  /\ s.if # 0 /\ s.else # 0
  /\ TestsItsLength(StripGrouping(Slice(ts, s.if + 1, s.else - 1)),
                    DirectRoleVarLookup(Slice(ts, 1, s.if - 1)))
  /\ LET fallback == StripGrouping(Slice(ts, s.else + 1, Len(ts))) IN
     fallback = <<"omit">> \/ DirectRoleVarLookup(fallback) # <<>>
RepeatedRoleVarFallback(ts) == FallbackIn(ts, InspectRegion(ts))
=============================================================================
