--------------------------------- MODULE Jinja ---------------------------------
(***************************************************************************)
(* How the linter reads one Jinja expression: twice.  The rules look at    *)
(* the tokens (lint/jinja_conditions.go, jinja_reads.go, Calls of          *)
(* jinja.go): which `if` owns a region, which operands a conjunction has,  *)
(* which names are read and called.  The repairs look at a tree            *)
(* (lint/expression_syntax.go): a bounded grammar whose signature ignores  *)
(* grouping and keeps precedence and every operation.                      *)
(*                                                                         *)
(* A token is its text; its kind follows from it.  Indices count from 1,   *)
(* and 0 stands for an absent one.                                         *)
(***************************************************************************)
EXTENDS Naturals, Sequences, SequencesExt, FiniteSets

CONSTANTS
  Literals,     \* the string tokens, with what is between their quotes
  Numbers       \* the number tokens

Openers == {"(", "[", "{"}
Closers == {")", "]", "}"}
Punctuation == Openers \cup Closers \cup
  {",", ":", "=", ".", "|", "==", "!=", "<", ">", "<=", ">=", "+", "-", "~",
   "*", "/", "//", "%", "**"}

Kind(t) == IF t \in Punctuation THEN "punctuation"
           ELSE IF t \in DOMAIN Literals THEN "string"
           ELSE IF t \in Numbers THEN "number" ELSE "name"

Constants == {"true", "false", "none", "True", "False", "None"}
JinjaReadKeyword(t) ==
  t \in {"and", "or", "not", "in", "is", "as", "if", "else", "for"} \cup Constants

\* The tokens from lo to hi, hi included.
Slice(ts, lo, hi) == SubSeq(ts, lo, hi)

Depth(ts, i, j) ==
  Cardinality({k \in i..j : ts[k] \in Openers}) - Cardinality({k \in i..j : ts[k] \in Closers})

\* Where the delimiter opened at i is closed: the first closer at depth 0.
RECURSIVE Closing(_, _, _)
Closing(ts, j, depth) ==
  IF j > Len(ts) THEN 0
  ELSE IF ts[j] \in Openers THEN Closing(ts, j + 1, depth + 1)
  ELSE IF ts[j] \notin Closers THEN Closing(ts, j + 1, depth)
  ELSE IF depth = 1 THEN j ELSE Closing(ts, j + 1, depth - 1)

BalancedEnd(ts, i) == Closing(ts, i, 0)

\* The indices outside of every pair of delimiters, up to one that never closes;
\* the delimiters themselves count.
Outermost(ts) ==
  LET pairs == {<<k, BalancedEnd(ts, k)>> : k \in {k \in 1..Len(ts) : ts[k] \in Openers}} IN
  {i \in 1..Len(ts) : \A pair \in pairs : pair[1] < i => pair[2] \in 1..i}

Unclosed(ts) == \E i \in Outermost(ts) : ts[i] \in Openers /\ BalancedEnd(ts, i) = 0

-----------------------------------------------------------------------------
(***************************************************************************)
(* The view of the tokens.                                                 *)
(***************************************************************************)

NoOperators == [if |-> 0, else |-> 0, and |-> <<>>, or |-> FALSE, calls |-> {}]

\* Mutant: the first `if` keeps the region, as if an omitted else bound to it.
MutOwner(s, i) == IF s.if = 0 THEN i ELSE s.if

\* The last `if` before the first else owns the region.
Owner(s, i) == i

\* inspectRegion from token i on.  expects is what may stand there: an operand, an
\* operator, a mere name (of an attribute or filter), or the name of a test.
RECURSIVE Inspect(_, _, _, _)
Inspect(ts, i, expects, s) ==
  IF i > Len(ts) THEN s ELSE
  LET t == ts[i] close == BalancedEnd(ts, i) IN
  CASE expects = "test" /\ t = "not" -> Inspect(ts, i + 1, "name", s)
    [] expects \in {"name", "test"} /\ ~(expects = "test" /\ t = "not") ->
         Inspect(ts, i + 1, "operator", s)
    [] expects \in {"operand", "operator"} /\ t \in Openers ->
         LET called == IF t = "(" /\ expects = "operator" THEN [s EXCEPT !.calls = @ \cup {i}] ELSE s
         IN IF close = 0 THEN called ELSE Inspect(ts, close + 1, "operator", called)
    [] expects = "operand" /\ Kind(t) = "name" ->
         Inspect(ts, i + 1, IF t = "not" THEN "operand" ELSE "operator", s)
    [] expects = "operator" /\ Kind(t) = "name" ->
         CASE t = "if" -> Inspect(ts, i + 1, "operand", [s EXCEPT !.if = Owner(s, i)])
           [] t = "else" -> IF s.if # 0 THEN [s EXCEPT !.else = i]
                            ELSE Inspect(ts, i + 1, "operator", s)
           [] t = "and" -> Inspect(ts, i + 1, "operand", [s EXCEPT !.and = Append(@, i)])
           [] t = "or" -> Inspect(ts, i + 1, "operand", [s EXCEPT !.or = TRUE])
           [] t = "in" -> Inspect(ts, i + 1, "operand", s)
           [] t = "not" -> IF i < Len(ts) /\ ts[i + 1] = "in" THEN Inspect(ts, i + 2, "operand", s)
                           ELSE Inspect(ts, i + 1, "operator", s)
           [] t = "is" -> Inspect(ts, i + 1, "test", s)
           [] t = "for" -> [s EXCEPT !.if = 0, !.and = <<>>]
           [] OTHER -> Inspect(ts, i + 1, "operator", s)
    [] expects \in {"operand", "operator"} /\ Kind(t) \in {"string", "number"} ->
         Inspect(ts, i + 1, "operator", s)
    [] OTHER -> Inspect(ts, i + 1, IF t \in {".", "|"} THEN "name" ELSE "operand", s)

InspectRegion(ts) == Inspect(ts, 1, "operand", NoOperators)

Shifted(indices, n) == {i + n : i \in indices}

\* conditionalOperators: commas, colons and equals signs separate regions; the
\* operator found splits its own, and without one the nested pairs are visited.
RECURSIVE ConditionalOperators(_)
ConditionalOperators(ts) ==
  LET in(lo, hi) == Shifted(ConditionalOperators(Slice(ts, lo, hi)), lo - 1)
      cuts == {i \in Outermost(ts) : ts[i] \in {",", ":", "="}}
      ends == cuts \cup {Len(ts) + 1}
      from(e) == CHOOSE c \in {0} \cup cuts : c < e /\ \A d \in cuts : d < e => d <= c
      s == InspectRegion(ts)
      pairs == {i \in Outermost(ts) : ts[i] \in Openers /\ BalancedEnd(ts, i) # 0}
  IN CASE ts = <<>> -> {}
       [] ts # <<>> /\ Unclosed(ts) ->
            UNION {in(from(e) + 1, e - 1) : e \in cuts}
       [] ts # <<>> /\ ~Unclosed(ts) /\ cuts # {} ->
            UNION {in(from(e) + 1, e - 1) : e \in ends}
       [] ts # <<>> /\ ~Unclosed(ts) /\ cuts = {} /\ s.if # 0 ->
            {s.if} \cup in(1, s.if - 1)
            \cup (IF s.else = 0 THEN in(s.if + 1, Len(ts))
                  ELSE in(s.if + 1, s.else - 1) \cup in(s.else + 1, Len(ts)))
       [] OTHER -> UNION {in(i + 1, BalancedEnd(ts, i) - 1) : i \in pairs}

\* markAssignmentBindings: what stands before the equals sign of every segment.
RECURSIVE AssignmentBindings(_, _, _, _)
AssignmentBindings(ts, i, end, inValue) ==
  IF i >= end THEN {} ELSE
  LET close == BalancedEnd(Slice(ts, 1, end - 1), i) IN
  CASE ts[i] = "=" -> AssignmentBindings(ts, i + 1, end, TRUE)
    [] ts[i] = "," -> AssignmentBindings(ts, i + 1, end, FALSE)
    [] ts[i] \in Openers ->
         IF close = 0 THEN {}
         ELSE (IF inValue THEN {} ELSE i..close) \cup AssignmentBindings(ts, close + 1, end, inValue)
    [] OTHER -> (IF inValue THEN {} ELSE {i}) \cup AssignmentBindings(ts, i + 1, end, inValue)

ParameterBindings(ts, open) ==
  LET close == BalancedEnd(ts, open) IN
  IF close = 0 THEN {} ELSE AssignmentBindings(ts, open + 1, close, FALSE)

\* The indices from i up to the first token among stops.
Until(ts, i, stops) == {j \in i..Len(ts) : \A k \in i..j : ts[k] \notin stops}

\* statementBindings: the names a statement tag binds instead of reading.
StatementBindings(kind, ts) ==
  IF kind # "statement" \/ ts = <<>> THEN {} ELSE {1} \cup
  CASE ts[1] = "set" -> Until(ts, 2, {"=", "|"})
    [] ts[1] = "for" -> Until(ts, 2, {"in"})
    [] ts[1] = "from" ->
         UNION {i..Len(ts) : i \in {i \in 1..Len(ts) : ts[i] = "import"}}
    [] ts[1] = "filter" -> {2}
    [] ts[1] = "macro" ->
         {2} \cup (IF Len(ts) > 2 /\ ts[3] = "(" THEN ParameterBindings(ts, 3) ELSE {})
    [] ts[1] = "call" -> IF Len(ts) > 1 /\ ts[2] = "(" THEN ParameterBindings(ts, 2) ELSE {}
    [] OTHER -> {}

\* nameReference: a name that can refer to a global variable or function.
NameReference(ts, i, bindings) ==
  /\ Kind(ts[i]) = "name" /\ i \notin bindings /\ ~JinjaReadKeyword(ts[i])
  /\ i > 1 => ts[i - 1] \notin {".", "|", "is", "as"}
  /\ ~(i > 2 /\ ts[i - 1] = "not" /\ ts[i - 2] = "is")
  /\ i = Len(ts) \/ ts[i + 1] # "="

VariableReads(kind, ts) ==
  {i \in 1..Len(ts) : /\ NameReference(ts, i, StatementBindings(kind, ts))
                      /\ i = Len(ts) \/ ts[i + 1] # "("}

\* The arguments of the call whose parenthesis opens at i, as index pairs.
ArgumentSpans(ts, i) ==
  LET close == BalancedEnd(ts, i)
      cuts == {j \in (i + 1)..(close - 1) : ts[j] = "," /\ Depth(ts, i, j) = 1}
      ends == SetToSortSeq(cuts \cup {close}, <)
      first(k) == IF k = 1 THEN i + 1 ELSE ends[k - 1] + 1
  IN SelectSeq([k \in 1..Len(ends) |-> <<first(k), ends[k] - 1>>], LAMBDA s : s[1] <= s[2])

\* An argument: its name ("" when it has none) and its tokens.
ArgumentOf(ts, span) ==
  IF span[2] > span[1] /\ Kind(ts[span[1]]) = "name" /\ ts[span[1] + 1] = "="
  THEN [name |-> ts[span[1]], first |-> span[1] + 2, tokens |-> Slice(ts, span[1] + 2, span[2])]
  ELSE [name |-> "", first |-> span[1], tokens |-> Slice(ts, span[1], span[2])]

\* Calls: the direct calls of a name, with their arguments and their extent.
Calls(kind, ts, name) ==
  {[from |-> i, to |-> BalancedEnd(ts, i + 1),
    arguments |-> LET spans == ArgumentSpans(ts, i + 1) IN
                  [k \in 1..Len(spans) |-> ArgumentOf(ts, spans[k])]] :
     i \in {i \in 1..(Len(ts) - 1) :
              /\ ts[i] = name /\ ts[i + 1] = "(" /\ BalancedEnd(ts, i + 1) # 0
              /\ NameReference(ts, i, StatementBindings(kind, ts))}}

\* stripGrouping: the pairs of parentheses around the whole.
RECURSIVE StripGrouping(_)
StripGrouping(ts) ==
  IF Len(ts) >= 2 /\ ts[1] = "(" /\ BalancedEnd(ts, 1) = Len(ts)
  THEN StripGrouping(Slice(ts, 2, Len(ts) - 1)) ELSE ts

\* hasTopLevelComma: a comma of its own makes the region a tuple.
HasTopLevelComma(ts) == \E i \in Outermost(ts) : ts[i] = ","

\* conditionalResultTuple takes an unclosed pair for a tuple as well.
ConditionalResultTuple(ts) == HasTopLevelComma(ts) \/ Unclosed(ts)

-----------------------------------------------------------------------------
(***************************************************************************)
(* The tree.  A parse result is a tree t, whether its value is boolean (b),*)
(* the next index (p) and whether the grammar was met (ok).  x selects the *)
(* wider grammar of templates.                                             *)
(***************************************************************************)

Takes(ts, p, t) == p <= Len(ts) /\ ts[p] = t
KindAt(ts, p) == IF p <= Len(ts) THEN Kind(ts[p]) ELSE "end"

Tree(op, text, kids) == [op |-> op, text |-> text, kids |-> [i \in DOMAIN kids |-> kids[i].t]]

\* expressionTree, for operands parsed one after the other.
Parsed(op, text, boolean, kids, p) ==
  [t |-> Tree(op, text, kids), b |-> boolean, p |-> p, ok |-> \A i \in DOMAIN kids : kids[i].ok]

Invalid(p) == [t |-> [op |-> "invalid", text |-> <<>>, kids |-> <<>>], b |-> FALSE, p |-> p, ok |-> FALSE]

BooleanTests == {"defined", "undefined", "none", "boolean", "true", "false", "string",
                 "number", "integer", "float", "mapping", "sequence", "iterable"}
Comparisons == {"==", "!=", "<", ">", "<=", ">=", "in"}
TemplateArithmetic == [sum |-> {"+", "-"}, joined |-> {"~"}, product |-> {"*", "/", "//", "%"}]

\* What the operands of a level are made of, where the levels loop over an operator.
Tighter == [or |-> "and", and |-> "not", sum |-> "joined", joined |-> "product", product |-> "power"]

\* name: a dotted name; p is where it ends, 0 when there is none.
RECURSIVE NameEnd(_, _)
NameEnd(ts, p) ==
  IF KindAt(ts, p) # "name" THEN 0
  ELSE IF Takes(ts, p + 1, ".") THEN NameEnd(ts, p + 2) ELSE p + 1

\* The production named, from token p on.
RECURSIVE Parse(_, _, _, _)

\* Omitted-else conditionals associate to the left, an else to the right.
RECURSIVE Ifs(_, _, _)
WithElse(left, test, other) ==
  Parsed("conditional", <<>>, FALSE, <<left, test, other>>, other.p)
WithTest(ts, left, test, x) ==
  IF ~test.ok THEN test
  ELSE IF Takes(ts, test.p, "else")
  THEN WithElse(left, test, Parse("conditional", ts, test.p + 1, x))
  ELSE Ifs(ts, Parsed("conditional", <<>>, FALSE, <<left, test>>, test.p), x)

Ifs(ts, left, x) ==
  IF left.ok /\ Takes(ts, left.p, "if")
  THEN WithTest(ts, left, Parse("or", ts, left.p + 1, x), x) ELSE left

Joined(op, text, boolean, left, right) == Parsed(op, text, boolean, <<left, right>>, right.p)

\* binary at the levels of or and and.
RECURSIVE More(_, _, _, _)
MoreWith(ts, left, right, level, x) ==
  More(ts, Joined(level, <<>>, left.b /\ right.b, left, right), level, x)
More(ts, left, level, x) ==
  IF left.ok /\ Takes(ts, left.p, level)
  THEN MoreWith(ts, left, Parse(Tighter[level], ts, left.p + 1, x), level, x) ELSE left

Negated(op, text, boolean, operand) == Parsed(op, text, boolean, <<operand>>, operand.p)

\* compare: a chain of comparisons is one node.
RECURSIVE Compared(_, _, _, _, _)
Compared(ts, left, operands, ops, x) ==
  LET at == IF operands = <<>> THEN left ELSE Last(operands)
      notIn == Takes(ts, at.p, "not") /\ Takes(ts, at.p + 1, "in")
  IN IF at.ok /\ at.p <= Len(ts) /\ (ts[at.p] \in Comparisons \/ notIn)
     THEN Compared(ts, left,
            Append(operands, Parse("operand", ts, at.p + IF notIn THEN 2 ELSE 1, x)),
            Append(ops, IF notIn THEN "not in" ELSE ts[at.p]), x)
     ELSE IF operands = <<>> THEN left
     ELSE Parsed("compare", ops, TRUE, <<left>> \o operands, at.p)

\* arithmetic.
RECURSIVE MoreArithmetic(_, _, _, _)
MoreArithmetic(ts, left, level, x) ==
  IF ~left.ok \/ left.p > Len(ts) THEN left
  ELSE IF ts[left.p] \notin TemplateArithmetic[level] THEN left
  ELSE MoreArithmetic(ts, Joined("arithmetic", <<ts[left.p]>>, FALSE, left,
                                 Parse(Tighter[level], ts, left.p + 1, x)), level, x)

RECURSIVE Power(_, _, _)
Power(ts, left, x) ==
  IF left.ok /\ Takes(ts, left.p, "**")
  THEN Power(ts, Joined("arithmetic", <<"**">>, FALSE, left, Parse("unary", ts, left.p + 1, x)), x)
  ELSE left

\* collection: a list or dict literal; p is where the next item or the end is.
RECURSIVE Items(_, _, _, _, _)
MoreItems(ts, dict, items, item, x) ==
  IF item.ok THEN Items(ts, item.p, dict, Append(items, item), x) ELSE item

DictPair(key, value) == Parsed("pair", <<>>, FALSE, <<key, value>>, value.p)
ItemFrom(ts, dict, key, x) ==
  IF ~dict THEN key
  ELSE IF ~key.ok \/ ~Takes(ts, key.p, ":") THEN Invalid(key.p)
  ELSE DictPair(key, Parse("conditional", ts, key.p + 1, x))

Items(ts, p, dict, items, x) ==
  LET q == IF items = <<>> THEN p ELSE p + 1
      closes(i) == Takes(ts, i, IF dict THEN "}" ELSE "]")
  IN IF closes(p) \/ (Takes(ts, p, ",") /\ items # <<>> /\ closes(q))
     THEN Parsed(IF dict THEN "dict" ELSE "list", <<>>, FALSE, items, IF closes(p) THEN p + 1 ELSE q + 1)
     ELSE IF items # <<>> /\ ~Takes(ts, p, ",") THEN Invalid(p)
     ELSE MoreItems(ts, dict, items, ItemFrom(ts, dict, Parse("conditional", ts, q, x), x), x)

Parenthesised(ts, inner) ==
  IF inner.ok /\ Takes(ts, inner.p, ")") THEN [inner EXCEPT !.p = @ + 1] ELSE Invalid(inner.p)

Atom(ts, p, x) ==
  IF p > Len(ts) THEN Invalid(p) ELSE
  CASE ts[p] = "(" -> Parenthesised(ts, Parse("conditional", ts, p + 1, x))
    [] x /\ ts[p] \in {"[", "{"} -> Items(ts, p + 1, ts[p] = "{", <<>>, x)
    [] Kind(ts[p]) = "name" /\ ts[p] \notin {"and", "or", "not", "if", "else", "is", "in", "for"} ->
         Parsed("name", <<ts[p]>>, ts[p] \in {"true", "false", "True", "False"}, <<>>, p + 1)
    [] Kind(ts[p]) \in {"string", "number"} -> Parsed(Kind(ts[p]), <<ts[p]>>, FALSE, <<>>, p + 1)
    [] OTHER -> Invalid(p)

\* arguments from the parenthesis or comma at p; the keyword ones come last, each once.
RECURSIVE Arguments(_, _, _, _, _)
Key(ts, p) == IF KindAt(ts, p) = "name" /\ Takes(ts, p + 1, "=") THEN ts[p] ELSE ""
Argument(key, value) == Parsed("argument", <<key>>, FALSE, <<value>>, value.p)
ArgumentList(args, p, ok) == [args |-> args, p |-> p, ok |-> ok]

MoreArguments(ts, args, keywords, last, x) ==
  IF last.ok /\ Takes(ts, last.p, ",") THEN Arguments(ts, last.p, Append(args, last), keywords, x)
  ELSE ArgumentList(Append(args, last), last.p + 1, last.ok /\ Takes(ts, last.p, ")"))

WithKey(ts, q, key, args, keywords, x) ==
  IF key \in keywords \/ (key = "" /\ keywords # {}) THEN ArgumentList(args, q, FALSE)
  ELSE MoreArguments(ts, args, keywords \cup ({key} \ {""}),
         Argument(key, Parse("conditional", ts, IF key = "" THEN q ELSE q + 2, x)), x)

Arguments(ts, p, args, keywords, x) ==
  IF Takes(ts, p + 1, ")") THEN ArgumentList(args, p + 2, TRUE)
  ELSE WithKey(ts, p + 1, Key(ts, p + 1), args, keywords, x)

OptionalArguments(ts, p, x) ==
  IF Takes(ts, p, "(") THEN Arguments(ts, p, <<>>, {}, x) ELSE ArgumentList(<<>>, p, TRUE)

\* value: the attributes, items, calls, filters and tests of r, an atom to begin with.
Applied(op, text, boolean, r, list) ==
  IF list.ok THEN Parsed(op, text, boolean, <<r>> \o list.args, list.p) ELSE Invalid(list.p)

Attribute(ts, r, end) ==
  IF end = 0 THEN Invalid(r.p)
  ELSE Parsed("attribute", Slice(ts, r.p + 1, end - 1), FALSE, <<r>>, end)

Subscript(ts, r, key) ==
  IF key.ok /\ Takes(ts, key.p, "]") THEN Parsed("item", <<>>, FALSE, <<r, key>>, key.p + 1)
  ELSE Invalid(r.p)

Filter(ts, r, end, x) ==
  IF end = 0 THEN Invalid(r.p)
  ELSE Applied("filter", Slice(ts, r.p + 1, end - 1), FALSE, r, OptionalArguments(ts, end, x))

\* Only tests without arguments whose answer is boolean count as boolean.
TestOf(ts, r, name, list) ==
  IF Takes(ts, list.p, "is") THEN Invalid(r.p)
  ELSE Applied("test", name,
         list.args = <<>> /\ Last(name) \in BooleanTests
           /\ Len(name) = (IF Head(name) = "not" THEN 2 ELSE 1), r, list)

Test(ts, r, end, x) ==
  IF end = 0 THEN Invalid(r.p)
  ELSE TestOf(ts, r, Slice(ts, r.p + 1, end - 1), OptionalArguments(ts, end, x))

RECURSIVE Postfix(_, _, _, _)
Postfix(ts, r, filtered, x) ==
  IF ~r.ok \/ r.p > Len(ts) THEN r ELSE
  CASE ts[r.p] \in {".", "["} /\ x /\ filtered -> Invalid(r.p)
    [] ts[r.p] = "." /\ ~(x /\ filtered) ->
         Postfix(ts, Attribute(ts, r, NameEnd(ts, r.p + 1)), filtered, x)
    [] ts[r.p] = "[" /\ ~(x /\ filtered) ->
         Postfix(ts, Subscript(ts, r, Parse("conditional", ts, r.p + 1, x)), filtered, x)
    [] ts[r.p] = "(" ->
         Postfix(ts, Applied("call", <<>>, FALSE, r, Arguments(ts, r.p, <<>>, {}, x)), filtered, x)
    [] ts[r.p] = "|" -> Postfix(ts, Filter(ts, r, NameEnd(ts, r.p + 1), x), TRUE, x)
    [] ts[r.p] = "is" ->
         Postfix(ts, Test(ts, r, NameEnd(ts, r.p + IF Takes(ts, r.p + 1, "not") THEN 2 ELSE 1), x),
                 TRUE, x)
    [] OTHER -> r

Parse(production, ts, p, x) ==
  CASE production = "conditional" -> Ifs(ts, Parse("or", ts, p, x), x)
    [] production \in {"or", "and"} ->
         More(ts, Parse(Tighter[production], ts, p, x), production, x)
    [] production = "not" ->
         IF Takes(ts, p, "not") THEN Negated("not", <<>>, TRUE, Parse("not", ts, p + 1, x))
         ELSE Compared(ts, Parse("operand", ts, p, x), <<>>, <<>>, x)
    [] production = "operand" -> Parse(IF x THEN "sum" ELSE "value", ts, p, x)
    [] production \in DOMAIN TemplateArithmetic ->
         MoreArithmetic(ts, Parse(Tighter[production], ts, p, x), production, x)
    [] production = "power" -> Power(ts, Parse("unary", ts, p, x), x)
    [] production = "unary" ->
         IF Takes(ts, p, "-") THEN Negated("unary", <<"-">>, FALSE, Parse("unary", ts, p + 1, x))
         ELSE Parse("value", ts, p, x)
    [] production = "value" -> Postfix(ts, Atom(ts, p, x), FALSE, x)

\* parseFixExpression: the whole of the tokens must be one expression.
WholeOf(ts, r) == [r EXCEPT !.ok = @ /\ r.p = Len(ts) + 1 /\ ts # <<>>]
ParseExpression(ts, x) == WholeOf(ts, Parse("conditional", ts, 1, x))

ParseFix(ts) == ParseExpression(ts, FALSE)
=============================================================================
