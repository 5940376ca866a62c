------------------------------ MODULE Expressions ------------------------------
(***************************************************************************)
(* Every expression up to a length, over small vocabularies: the two views *)
(* of Jinja.tla against each other, and the rules and repairs of           *)
(* ExpressionRules.tla against the tree.                                   *)
(***************************************************************************)
EXTENDS ExpressionRules

CONSTANTS
  Vocabularies, \* pairs: the phrases an expression is made of, and how many
  Shapes        \* the scalars that hold it

VARIABLES
  vocabulary,   \* the vocabulary at work
  phrases,      \* how many phrases there are
  open,         \* the delimiters that are still open
  tokens        \* the expression so far

vars == <<vocabulary, phrases, open, tokens>>

Matching == [d \in Closers |-> CASE d = ")" -> "(" [] d = "]" -> "[" [] d = "}" -> "{"]

\* The scanner's stack: a delimiter that does not match ends the expression.
RECURSIVE Opened(_, _)
Opened(stack, ts) ==
  IF ts = <<>> THEN stack
  ELSE IF Head(ts) \in Openers THEN Opened(Append(stack, Head(ts)), Tail(ts))
  ELSE IF Head(ts) \in Closers
  THEN IF stack # <<>> /\ Last(stack) = Matching[Head(ts)] THEN Opened(Front(stack), Tail(ts))
       ELSE <<"mismatch">>
  ELSE Opened(stack, Tail(ts))

Init == /\ vocabulary \in Vocabularies
        /\ phrases = 0 /\ open = <<>> /\ tokens = <<>>

\* Bound: no two operands or operators in a row; a name may be spelled like an
\* operator where a mere name is expected.
Infix == {"and", "or", "if", "else", "in", "is", "==", ">", "~", "=", ",", ".", "|"}
Follows(t) ==
  LET last == IF tokens = <<>> THEN "(" ELSE Last(tokens)
      value == last \notin Infix \cup Openers \cup {"not"}
  IN CASE last \in {".", "|"} -> Kind(t) = "name"
       [] last \in {"is", "not"} -> Kind(t) # "punctuation" \/ t = "("
       [] t \in Infix \ {","} -> value
       [] t \in Closers \cup {","} -> value \/ last \in Openers \cup {","}
       [] t \in Openers -> TRUE
       [] OTHER -> ~value \/ t = "not"

\* scanExpressionTokens: one phrase more; an expression ends only at depth 0.
Scan == \E phrase \in vocabulary[1] :
  /\ phrases + Len(open) < vocabulary[2] + (IF phrase[1] \in Closers THEN 1 ELSE 0)
  /\ Follows(phrase[1]) /\ Opened(open, phrase) # <<"mismatch">>
  /\ open' = Opened(open, phrase)
  /\ tokens' = tokens \o phrase
  /\ phrases' = phrases + 1
  /\ UNCHANGED vocabulary

Next == Scan
Spec == Init /\ [][Next]_vars

Complete == open = <<>> /\ tokens # <<>>

-----------------------------------------------------------------------------
(***************************************************************************)
(* The tree as a reference.                                                *)
(***************************************************************************)

RECURSIVE Nodes(_, _)
\* The nodes of a tree with an operator, from left to right.
Nodes(t, op) ==
  FlattenSeq([i \in DOMAIN t.kids |-> Nodes(t.kids[i], op)])
  \o (IF t.op = op THEN <<t>> ELSE <<>>)

RECURSIVE NamesRead(_)
\* The names a tree reads, from left to right: no callees, no constants.
NamesRead(t) ==
  CASE t.op = "name" -> IF JinjaReadKeyword(t.text[1]) THEN <<>> ELSE t.text
    [] t.op = "call" /\ t.kids[1].op = "name" ->
         FlattenSeq([i \in 1..(Len(t.kids) - 1) |-> NamesRead(t.kids[i + 1])])
    [] OTHER -> FlattenSeq([i \in DOMAIN t.kids |-> NamesRead(t.kids[i])])

IsCallOf(t, name) ==
  t.op = "call" /\ t.kids[1].op = "name" /\ t.kids[1].text = <<name>>

Conjunction(ts) == \* of the trees of the items, from left to right
  FoldLeft(LAMBDA t, item : [op |-> "and", text |-> <<>>, kids |-> <<t, ParseFix(item).t>>],
           ParseFix(ts[1]).t, Tail(ts))

SameTree(r, s) == r.ok /\ r.t = s.t
SameMeaning(ts, us) == SameTree(ParseFix(us), ParseFix(ts))

Ungrouped == StripGrouping(tokens) = tokens
\* A callee in parentheses is a read for the tokens and a callee for the tree.
GroupedCallee == \E i \in 1..(Len(tokens) - 1) : tokens[i] = ")" /\ tokens[i + 1] = "("

\* Statements that bind names around an expression.
Statements ==
  {<<<<"set", "x", "=">>, <<>>>>, <<<<"for", "x", ",", "y", "in">>, <<>>>>,
   <<<<"macro", "m", "(", "x", ",", "y", "=">>, <<")">>>>,
   <<<<"call", "(", "x", "=">>, <<",", "y", ")">>>>, <<<<"if">>, <<>>>>,
   <<<<"filter", "f", "(">>, <<")">>>>}

-----------------------------------------------------------------------------
(***************************************************************************)
(* Properties.                                                             *)
(***************************************************************************)

\* The tokens and the tree tell one story of every expression the grammar of
\* templates accepts: the operator that owns it and its operands, the number
\* of conditionals at any depth, the names read and the functions called.  A
\* statement around the expression reads the same names and none that it binds.
ViewsAgree ==
  LET r == ParseExpression(tokens, TRUE)
      s == InspectRegion(tokens)
      part(lo, hi) == ParseExpression(Slice(tokens, lo, hi), TRUE).t
      reads == SetToSortSeq(VariableReads("output", tokens), <)
  IN (Complete /\ r.ok) =>
     /\ s.if # 0 <=> Ungrouped /\ r.t.op = "conditional"
     /\ s.if # 0 => r.t.kids = IF s.else = 0
          THEN <<part(1, s.if - 1), part(s.if + 1, Len(tokens))>>
          ELSE <<part(1, s.if - 1), part(s.if + 1, s.else - 1), part(s.else + 1, Len(tokens))>>
     /\ (s.if = 0 /\ Ungrouped) => (s.or <=> r.t.op = "or")
     /\ Cardinality(ConditionalOperators(tokens)) = Len(Nodes(r.t, "conditional"))
     /\ ~GroupedCallee => [k \in DOMAIN reads |-> tokens[reads[k]]] = NamesRead(r.t)
     /\ \A around \in Statements :
          VariableReads("statement", around[1] \o tokens \o around[2])
            = Shifted(VariableReads("output", tokens), Len(around[1]))
     /\ ~GroupedCallee => Cardinality(Calls("output", tokens, "lookup"))
          = Len(SelectSeq(Nodes(r.t, "call"), LAMBDA t : IsCallOf(t, "lookup")))

SplitKeeps(list, r) == list # <<>> => Conjunction(list) = r.t
RepairKeeps(repaired) == repaired # <<>> => SameMeaning(tokens, repaired)

\* A repair never changes what an expression means: the items of a list are the
\* conjuncts in their order, and a pair of parentheses that is added or taken
\* away groups what was grouped before.  What the report previews for an
\* expression the repairs understand keeps its meaning, too.
RepairsKeepMeaning ==
  Complete =>
    /\ \A n \in Shapes :
         /\ SplitKeeps(WhenListFix(n, tokens), ParseFix(tokens))
         /\ ParseFix(tokens).ok => SplitKeeps(WhenListPreview(n, tokens), ParseFix(tokens))
         /\ RepairKeeps(WhenParenthesesFix(n, tokens))
    /\ RepairKeeps(ConditionalResultFix(tokens))

Silent(n, ts) == ~CheckWhenList(n, ts) /\ ~CheckWhenParentheses(n, ts)
ListSettles(n, list, preview) ==
  /\ list # <<>> => CheckWhenList(n, tokens) /\ preview = list
  /\ \A k \in DOMAIN preview : Silent([n EXCEPT !.kind = "string"], preview[k])
PairSettles(n, pair) == pair # <<>> => CheckWhenParentheses(n, tokens) /\ Silent(n, pair)
BareSettles(bare) == bare # <<>> => CheckConditionalResult(tokens) /\ ~CheckConditionalResult(bare)

\* One repair is enough: what it leaves violates neither rule of conditions, a
\* repair answers a finding of its own rule, a condition has at most one
\* finding, and the list that is written is the list that was previewed.
RepairsSettle ==
  Complete =>
    /\ \A n \in Shapes :
         /\ ~(CheckWhenList(n, tokens) /\ CheckWhenParentheses(n, tokens))
         /\ ListSettles(n, WhenListFix(n, tokens), WhenListPreview(n, tokens))
         /\ PairSettles(n, WhenParenthesesFix(n, tokens))
    /\ BareSettles(ConditionalResultFix(tokens))

RECURSIVE Concatenated(_)
\* The operands of a concatenation, as trees.
Concatenated(t) ==
  IF t.op = "arithmetic" /\ t.text[1] \in {"~", "+"}
  THEN Concatenated(t.kids[1]) \o Concatenated(t.kids[2]) ELSE <<t>>

RoleVarOf(t) == \* <<suffix, role>> of a tree, <<>> when it is no such lookup
  LET unnamed == SelectSeq(Tail(t.kids), LAMBDA a : a.text = <<"">>)
      role == SelectSeq(Tail(t.kids), LAMBDA a : a.text = <<"role">>)
      literal(a) == IF a.kids[1].op = "string" THEN Literals[a.kids[1].text[1]] ELSE None
  IN IF ~IsCallOf(t, "lookup") \/ Len(t.kids) # 4 \/ Len(unnamed) < 2 \/ role = <<>> THEN <<>>
     ELSE IF literal(unnamed[1]) # "role_var" \/ None \in {literal(unnamed[2]), literal(role[1])}
     THEN <<>> ELSE <<literal(unnamed[2]), literal(role[1])>>

\* The lookup rules read token spans where a parser would read a tree, and agree
\* with it: a composed default is a concatenation of two matching lookups, a
\* repeated fallback is a conditional on the length of its own value, and every
\* conditional inside a lookup is reported once, at its own token.
LookupsAgree ==
  LET r == ParseExpression(tokens, TRUE)
      lookups == SelectSeq([k \in DOMAIN Concatenated(r.t) |-> RoleVarOf(Concatenated(r.t)[k])],
                           LAMBDA l : l # <<>>)
      test == r.t.kids[2]
      fallback == r.t.kids[3]
  IN (Complete /\ r.ok) =>
     /\ PairedEndpoint(ComposedRoleVarLookups(tokens)) =
          (IF r.t.op = "arithmetic" THEN PairedEndpoint(lookups) ELSE <<>>)
     /\ RepeatedRoleVarFallback(tokens) <=>
          /\ Ungrouped /\ r.t.op = "conditional" /\ Len(r.t.kids) = 3
          /\ RoleVarOf(r.t.kids[1]) # <<>>
          /\ test.op = "compare" /\ test.text = <<">">> /\ test.kids[2].text = <<"0">>
          /\ test.kids[1].op = "filter" /\ test.kids[1].text = <<"length">>
          /\ Len(test.kids[1].kids) = 1
          /\ RoleVarOf(test.kids[1].kids[1]) = RoleVarOf(r.t.kids[1])
          /\ (fallback.op = "name" /\ fallback.text = <<"omit">>) \/ RoleVarOf(fallback) # <<>>
     /\ ReportedConditionals(tokens) =
          {i \in ConditionalOperators(tokens) :
             \E call \in Calls("output", tokens, "lookup") : call.from < i /\ i < call.to}
=============================================================================
