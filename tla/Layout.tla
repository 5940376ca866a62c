-------------------------------- MODULE Layout --------------------------------
(***************************************************************************)
(* How expressions are laid out (lint/jinja_layout.go): which whitespace   *)
(* an expression of several lines must have between its tokens.  The       *)
(* edits are found against the columns of the text as it is, so that one   *)
(* round of edits may call for another one.                                *)
(***************************************************************************)
EXTENDS ExpressionRules, Edits

Spaces(n) == [k \in 1..n |-> " "]

\* A block scalar is announced by its header on the line of its key.
BlockHeader == ">-"

\* The output expressions of a text: their delimiters and the offsets of their tokens.
Expressions(data) ==
  {LET close == Min({j \in i..Len(data) : data[j] = "}}"})
   IN [open |-> i, close |-> close,
       at |-> Ascending({j \in (i + 1)..(close - 1) : data[j] \notin Space})] :
     i \in {i \in DOMAIN data : data[i] = "{{"}}

Tokens(data, e) == [k \in DOMAIN e.at |-> data[e.at[k]]]

\* pureBlock: the expression is all that a block scalar holds.  (Its key is at the
\* margin, so that the scalar's indentation is two spaces.)
PureBlock(data, e) ==
  LET header == {i \in 1..(e.open - 1) : data[i] = BlockHeader} IN
  /\ header # {} /\ AllSpace(SubSeq(data, Max(header) + 1, e.open - 1))
  /\ AllSpace(SubSeq(data, e.close + 1, Len(data)))
Base == 2

-----------------------------------------------------------------------------
(***************************************************************************)
(* The edits.                                                              *)
(***************************************************************************)

\* layoutAnalysis.gap: what lies between two offsets, if it is whitespace.
Gap(data, from, to, want) ==
  LET old == SubSeq(data, from + 1, to)
  IN IF from > to \/ old = want \/ ~AllSpace(old) THEN {} ELSE {Edit(from, to, want)}

Indent(data, pos, col) ==
  IF AtLineStart(data, pos) THEN Gap(data, LineStart(data, pos), pos, Spaces(col)) ELSE {}

BreakBefore(data, at, i, col) ==
  IF i = 1 THEN {}
  ELSE Gap(data, at[i - 1], at[i] - 1, LineNewline(data, at[i - 1]) \o Spaces(col))

\* The column a call's arguments are aligned with in a block: past its callee.
RECURSIVE Callee(_, _, _)
Callee(ts, lo, i) ==
  IF i >= lo + 2 /\ ts[i - 1] = "." /\ Kind(ts[i - 2]) = "name" THEN Callee(ts, lo, i - 2) ELSE i

\* Where the else branch begins, once the conditional is wrapped.
Branch(column, conditional, wrap) == IF wrap THEN conditional + 5 ELSE column + 5

\* layoutAnalysis.region on the tokens lo to hi.  d is the expression at hand (its
\* text, offsets, tokens, style and whether the length fixer asks), a the anchor of
\* contents and of conditionals, and whether wrapping is forced.
RECURSIVE Region(_, _, _, _)
Region(d, lo, hi, a) ==
  IF lo > hi THEN {} ELSE
  LET s == InspectRegion(Slice(d.ts, lo, hi))
      pos(i) == d.at[i] - 1
      line(i) == Line(d.data, pos(i))
      column(i) == Column(d.data, pos(i))
      if == lo - 1 + s.if
      else == IF s.else = 0 THEN 0 ELSE lo - 1 + s.else
      wrap == line(lo) # line(hi) \/ a.force
      anchored(c, force) == [content |-> c, conditional |-> c, force |-> force]
      branch == Branch(column(else), a.conditional, wrap)
      operators == {i \in Shifted(Outermost(Slice(d.ts, lo, hi)), lo - 1) : d.ts[i] \in {"|", "+"}}
      openers == {i \in Shifted(Outermost(Slice(d.ts, lo, hi)), lo - 1) :
                    d.ts[i] \in Openers /\ BalancedEnd(d.ts, i) # 0}
      inside(i) ==
        LET close == BalancedEnd(d.ts, i)
            called == i - lo + 1 \in s.calls
            inner == CASE d.ts[i] = "{" /\ i + 1 < close -> column(i + 1)
                       [] d.block /\ called -> column(Callee(d.ts, lo, i - 1)) + 2
                       [] OTHER -> column(i) + 1
            lookup == called /\ d.ts[i - 1] = "lookup" /\ line(i) # line(close)
            part(x, y) ==
              LET named == x + 1 < y /\ d.ts[x + 1] \in {"=", ":"}
                  first == IF named THEN x + 2 ELSE x
              IN (IF lookup THEN IF x = i + 1 THEN Gap(d.data, d.at[i], pos(x), <<>>)
                                 ELSE BreakBefore(d.data, d.at, x, inner)
                  ELSE IF called \/ d.ts[i] = "{" \/ d.block THEN Indent(d.data, pos(x), inner)
                  ELSE {})
                 \cup Region(d, first, y, anchored(IF named THEN column(first) ELSE inner,
                                                   a.force /\ d.nested))
        IN UNION {part(p[1], p[2]) : p \in ToSet(ArgumentSpans(d.ts, i))}
           \cup IF d.block /\ d.ts[i] = "(" /\ AtLineStart(d.data, pos(close))
                THEN Indent(d.data, pos(close),
                       LET start == LineStart(d.data, pos(i)) IN
                       Min({k \in 0..(pos(i) - start) : d.data[start + k + 1] # " "}))
                ELSE {}
  IN IF s.if # 0
     THEN (IF wrap THEN BreakBefore(d.data, d.at, if, a.conditional)
                        \cup (IF else = 0 THEN {} ELSE BreakBefore(d.data, d.at, else, a.conditional))
           ELSE {})
          \cup Region(d, lo, if - 1, [a EXCEPT !.force = FALSE])
          \cup Region(d, if + 1, IF else = 0 THEN hi ELSE else - 1, anchored(a.conditional + 3, FALSE))
          \cup (IF else = 0 THEN {} ELSE Region(d, else + 1, hi, anchored(branch, wrap)))
     ELSE UNION {Indent(d.data, pos(i), a.content) : i \in operators}
          \cup UNION {inside(i) : i \in openers}

Analysis(data, e, nested) ==
  [data |-> data, at |-> e.at, ts |-> Tokens(data, e), block |-> PureBlock(data, e), nested |-> nested]

\* layoutFindings on one expression.
LayoutOf(data, e) ==
  LET block == PureBlock(data, e)
      first == e.at[1] - 1
      last == e.at[Len(e.at)]
      below == Line(data, e.open - 1) # Line(data, first)
      content == IF block THEN (IF below THEN Base + 2 ELSE Base) ELSE Column(data, first)
      conditional == CASE block -> content
                       [] ~block /\ AtLineStart(data, first) -> content
                       [] OTHER -> Column(data, e.open - 1)
  IN IF e.at = <<>> \/ Line(data, e.open - 1) = Line(data, e.close - 1) THEN {}
     ELSE (IF block THEN Indent(data, e.open - 1, Base)
                         \cup (IF below THEN Indent(data, first, content) ELSE {})
                         \cup Indent(data, e.close - 1, Base)
           ELSE IF Line(data, last - 1) # Line(data, e.close - 1) THEN Gap(data, last, e.close - 1, <<" ">>)
           ELSE {})
          \cup Region(Analysis(data, e, FALSE), 1, Len(e.at),
                      [content |-> content, conditional |-> conditional, force |-> FALSE])

LayoutEdits(data) == UNION {LayoutOf(data, e) : e \in Expressions(data)}

-----------------------------------------------------------------------------
(***************************************************************************)
(* Long lines.                                                             *)
(***************************************************************************)

CONSTANT MaxColumns   \* the length of a line a conditional may be on

\* checkConditionalLength: a conditional wholly on one line that is too long.
LongConditionals(data) ==
  {e \in Expressions(data) :
     /\ ConditionalOperators(Tokens(data, e)) # {}
     /\ Line(data, e.open - 1) = Line(data, e.close - 1)
     /\ LET start == LineStart(data, e.open - 1)
            next == {i \in e.close..Len(data) : data[i] = "\n"}
            end == IF next = {} THEN Len(data) ELSE Min(next) - 1
            line == Between(data, start, end)
        IN FoldLeft(LAMBDA sum, u : sum + Width(u), 0, line) > MaxColumns}

\* The wrapping of a conditional that is too long, in every argument of it, too.
WrapEdits(data) ==
  UNION {Region(Analysis(data, e, TRUE), 1, Len(e.at),
                [content |-> Column(data, e.at[1] - 1), conditional |-> Column(data, e.open - 1),
                 force |-> TRUE]) : e \in LongConditionals(data)}

-----------------------------------------------------------------------------
(***************************************************************************)
(* Section banners and comments.                                           *)
(***************************************************************************)

Banner == "#B"       \* the three lines of a section's banner
SkipDocs == "#S"     \* the comment that keeps a default out of the docs
Keys == {"v:", "lookup:"}

CommentLine(text) == text # <<>> /\ text[1] \in DOMAIN Comments
Declaration(text) == text # <<>> /\ text[1] \in Keys

\* sectionGaps: no blank line between a banner and the variable (with its comments)
\* below it.
SectionGaps(data) ==
  LET starts == LineStarts(data)
      below(n) == {k \in (n + 1)..Len(starts) :
                     /\ Declaration(LineText(data, k))
                     /\ \A j \in (n + 1)..(k - 1) :
                          CommentLine(LineText(data, j)) /\ LineText(data, j) # <<Banner>>}
      at(n) == starts[n + 1]
  IN {[key |-> starts[Min(below(n))],
       edit |-> Edit(at(n), at(n), IF at(n) >= 2 /\ data[at(n) - 1] = "\r" THEN <<"\r", "\n">> ELSE <<"\n">>)] :
        n \in {n \in DOMAIN starts : LineText(data, n) = <<Banner>> /\ below(n) # {}}}

SectionEdits(data) == {gap.edit : gap \in SectionGaps(data)}

\* checkComputedDefaultDocumentation: where a lookup is declared without the comment.
UndocumentedLookups(data) ==
  {start \in ToSet(LineStarts(data)) :
     /\ start < Len(data) /\ data[start + 1] = "lookup:"
     /\ Line(data, start) = 1 \/ LineText(data, Line(data, start) - 1) # <<SkipDocs>>}

\* representationNewline: all lines end alike, or nothing is inserted.
Newlines(data) == {IF i > 1 /\ data[i - 1] = "\r" THEN <<"\r", "\n">> ELSE <<"\n">> :
                     i \in {i \in DOMAIN data : data[i] = "\n"}}

DocumentationEdits(data) ==
  IF Cardinality(Newlines(data)) > 1 THEN {}
  ELSE {Edit(start, start, <<SkipDocs>> \o (CHOOSE n \in Newlines(data) \cup {<<"\n">>} :
                                              Newlines(data) # {} => n \in Newlines(data))) :
          start \in UndocumentedLookups(data)}
=============================================================================
