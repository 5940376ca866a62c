---------------------------- MODULE TemplateScan ----------------------------
(* The static scan of a Jinja template (src/lint/template.go): where a tag      *)
(* ends, which statements the bounded grammar supports, how blocks nest, and    *)
(* which of the scan's reasons leave a contract's evidence in doubt.  The       *)
(* template is its tags in order.  A tag is [kind, closed, limit, tokens] and      *)
(* where it stands (see TraefikOutput); `closed` is "deep" when its brackets     *)
(* nest beyond the limit and "no" when it does not end; `limit` is "size" when   *)
(* it is too long to be read, "boundary" when a token of it cuts a character,    *)
(* and "none" for all others.  A tag that ends has whole tokens                  *)
(* (TagEndsBetweenTokens), so the scan's case of an incomplete one is not there. *)
EXTENDS ExpressionRules, Integers

CONSTANTS DiagnosticLimit, TagLimit, BlockLimit, TokenLimit, TotalTokens,  \* 128, 4096, 128, 512, 32768
          DelimiterLimit,                                \* characters of a delimiter: 32
          Letters, Digits                                \* characters of names and numbers

-----------------------------------------------------------------------------
\* Where a tag ends.  A text is a sequence of characters.

Quotes == {"'", "\""}
HasAt(text, i, word) == i + Len(word) - 1 <= Len(text) /\ SubSeq(text, i, i + Len(word) - 1) = word
ClosedBy(a, b) == <<a, b>> \in {<<"(", ")">>, <<"[", "]">>, <<"{", "}">>}

\* After the string whose quote is at i; 0 when it does not end.
RECURSIVE StringEnd(_, _, _)
StringEnd(text, i, quote) ==
  IF i > Len(text) THEN 0
  ELSE IF text[i] = "\\" THEN StringEnd(text, i + 2, quote)
  ELSE IF text[i] = quote THEN i + 1 ELSE StringEnd(text, i + 1, quote)

\* templateTagEnd from i on, with the open brackets: where the closing delimiter
\* and its trim marker start; 0 when the tag does not end.
RECURSIVE TagEnd(_, _, _, _, _)
TagEnd(text, i, ending, statement, open) ==
  IF i > Len(text) THEN 0 ELSE
  LET c == text[i] string == StringEnd(text, i + 1, c)
  IN CASE open = <<>> /\ HasAt(text, i, ending) -> i
       [] open = <<>> /\ ~HasAt(text, i, ending)
          /\ c \in (IF statement THEN {"-", "+"} ELSE {"-"}) /\ HasAt(text, i + 1, ending) -> i
       [] OTHER ->
            CASE c \in Quotes -> IF string = 0 THEN 0 ELSE TagEnd(text, string, ending, statement, open)
              [] c \in Openers -> TagEnd(text, i + 1, ending, statement, Append(open, c))
              [] c \in Closers ->
                   IF open # <<>> /\ ClosedBy(open[Len(open)], c)
                   THEN TagEnd(text, i + 1, ending, statement, Front(open)) ELSE 0
              [] OTHER -> TagEnd(text, i + 1, ending, statement, open)

\* Where the token at i ends: names, numbers with a fraction or an exponent, and
\* operators of two characters are as long as they can be.  (Other bases than ten
\* are left out.)
Group(t) == /\ t # <<>> /\ t[1] \in Digits /\ t[Len(t)] \in Digits
            /\ \A k \in DOMAIN t : t[k] \in Digits \cup {"_"} /\ (t[k] = "_" => t[k - 1] # "_")
Fraction(t) == t = <<>> \/ (t[1] = "." /\ Group(Tail(t)))
Exponent(t) == /\ Len(t) > 1 /\ t[1] = "e"
               /\ Group(Tail(t)) \/ (t[2] \in {"+", "-"} /\ Group(SubSeq(t, 3, Len(t))))
Float(t) == \E k \in 1..Len(t) :
  /\ Group(SubSeq(t, 1, k))
  /\ \/ k < Len(t) /\ Fraction(SubSeq(t, k + 1, Len(t)))
     \/ \E l \in k..Len(t) : Fraction(SubSeq(t, k + 1, l)) /\ Exponent(SubSeq(t, l + 1, Len(t)))
Integer(t) == Group(t) /\ (t[1] = "0" => \A k \in DOMAIN t : t[k] \in {"0", "_"})
DoubledOperators == {<<"=", "=">>, <<"!", "=">>, <<"<", "=">>, <<">", "=">>, <<"*", "*">>, <<"/", "/">>}

TokenEnd(text, i) ==
  LET longest(Matches(_)) ==
        LET ends == {j \in i..Len(text) : Matches(SubSeq(text, i, j))}
        IN IF ends = {} THEN 0 ELSE (CHOOSE j \in ends : \A k \in ends : k <= j) + 1
      float == IF i > 1 /\ text[i - 1] = "." THEN 0 ELSE longest(Float)
  IN CASE text[i] \in Letters \cup {"_"} -> longest(LAMBDA t : \A k \in DOMAIN t : t[k] \in Letters \cup Digits \cup {"_"})
       [] text[i] \in Digits -> IF float # 0 THEN float ELSE longest(Integer)
       [] OTHER -> IF i < Len(text) /\ SubSeq(text, i, i + 1) \in DoubledOperators THEN i + 2 ELSE i + 1

\* scanExpressionTokens: whether the text from i on is read to its end, or to the
\* closing delimiter when there is one, how far it is read, and where tokens start.
RECURSIVE Lexed(_, _, _, _, _)
Lexed(text, i, close, open, starts) ==
  LET read(end, complete) == [end |-> end, complete |-> complete, starts |-> starts \cup {i}]
      next(j, brackets) == Lexed(text, j, close, brackets, starts \cup {i})
      c == text[i] string == StringEnd(text, i + 1, c)
      closes == close # <<>> /\ open = <<>>
                /\ (HasAt(text, i, close) \/ (c \in {"-", "+"} /\ HasAt(text, i + 1, close)))
  IN CASE i > Len(text) -> read(i, close = <<>> /\ open = <<>>)
       [] i <= Len(text) /\ closes -> read(i, TRUE)
       [] i <= Len(text) /\ ~closes ->
            CASE c = " " -> Lexed(text, i + 1, close, open, starts)
              [] c \in Quotes -> IF string = 0 THEN read(Len(text) + 1, FALSE) ELSE next(string, open)
              [] c \in Openers -> next(i + 1, Append(open, c))
              [] c \in Closers ->
                   IF open # <<>> /\ ClosedBy(open[Len(open)], c) THEN next(i + 1, Front(open)) ELSE read(i + 1, FALSE)
              [] OTHER -> next(TokenEnd(text, i), open)

-----------------------------------------------------------------------------
\* The #jinja2 header.  An option is [key, paired, word, plain, text]: `plain` when
\* its value is a quoted string without escapes, whose characters are the text.

DelimiterOptions == [variable_start_string |-> 1, block_start_string |-> 2, comment_start_string |-> 3,
                     variable_end_string |-> 4, block_end_string |-> 5, comment_end_string |-> 6]
DefaultDelimiters == <<<<"{", "{">>, <<"{", "%">>, <<"{", "#">>, <<"}", "}">>, <<"%", "}">>, <<"#", "}">>>>

OptionReason(option) ==
  CASE option.key \in {"trim_blocks", "lstrip_blocks", "keep_trailing_newline"} ->
         IF option.word \in {"True", "False"} THEN "" ELSE "requires a boolean"
    [] option.key \in {"line_statement_prefix", "line_comment_prefix"} ->
         IF option.word = "None" THEN "" ELSE "line statements"
    [] option.key \in DOMAIN DelimiterOptions ->
         IF ~option.plain \/ option.text = <<>> THEN "not a plain string"
         ELSE IF Len(option.text) > DelimiterLimit \/ option.text[1] = " " \/ option.text[Len(option.text)] = " "
         THEN "size or whitespace" ELSE ""
    [] OTHER -> "unsupported option"

\* Mutant: only names and operators count.
MutSplitsToken(ending) == ending[1] \in Letters \cup {"_", ".", "=", "*", "/"}

\* An ending that could start inside of a name, a number or an operator.
SplitsToken(ending) ==
  \/ ending[1] \in Letters \cup Digits \cup {"_", ".", "=", "*", "/"}
  \/ ending[1] \in {"+", "-"} /\ (Len(ending) = 1 \/ ending[2] \in Digits)

Delimiters(options) ==
  [i \in 1..6 |->
     LET set == SelectSeq(options, LAMBDA o : o.key \in DOMAIN DelimiterOptions /\ DelimiterOptions[o.key] = i)
     IN IF set = <<>> THEN DefaultDelimiters[i] ELSE set[1].text]

TemplateConfiguration(header) ==
  LET d == Delimiters(header.options)
      bad == {i \in DOMAIN header.options :
                \/ ~header.options[i].paired
                \/ \E j \in 1..(i - 1) : header.options[j].key = header.options[i].key
                \/ OptionReason(header.options[i]) # ""}
  IN IF ~header.present THEN {}
     ELSE IF header.long \/ ~header.newline THEN {"header line"}
     ELSE IF bad # {} THEN {"header option"}
     ELSE IF \E i, j \in 1..6 : i # j /\ IsPrefix(d[i], d[j]) THEN {"overlapping delimiters"}
     ELSE IF SplitsToken(d[4]) \/ SplitsToken(d[5]) THEN {"splitting delimiter"} ELSE {}

-----------------------------------------------------------------------------
\* The bounded grammar of statements.

AssignableName(t) == Kind(t) = "name" /\ t \notin Constants
ParseTemplate(ts) == ParseExpression(ts, TRUE)
Whole(ts, end) == end = Len(ts) + 1 /\ ts # <<>>
From(ts, i) == Slice(ts, i, Len(ts))

\* The regions between the commas outside of brackets.
Segments(ts) ==
  LET cuts == {0, Len(ts) + 1} \cup {i \in Outermost(ts) : ts[i] = ","}
      starts == SelectSeq([i \in 1..(Len(ts) + 1) |-> i - 1], LAMBDA i : i \in cuts)
      end(c) == CHOOSE e \in cuts : e > c /\ \A d \in cuts : d > c => e <= d
  IN [k \in DOMAIN starts |-> Slice(ts, starts[k] + 1, end(starts[k]) - 1)]

\* If and elif: a condition without a conditional expression at its top.
EndOf(r) == IF r.ok THEN r.p ELSE 0
SupportedTemplateCondition(ts) == Whole(ts, EndOf(Parse("or", ts, 1, TRUE)))

RECURSIVE SupportedTemplateFilter(_)
FiltersAfter(ts, args) ==
  args.ok /\ (Whole(ts, args.p) \/ (Takes(ts, args.p, "|") /\ SupportedTemplateFilter(From(ts, args.p + 1))))
SupportedTemplateFilter(ts) ==
  NameEnd(ts, 1) # 0 /\ FiltersAfter(ts, OptionalArguments(ts, NameEnd(ts, 1), TRUE))

\* The target of a for: names, separated by commas and grouped; 0 for another one.
RECURSIVE ForTarget(_, _)
GroupEnd(ts, inner) == IF inner # 0 /\ Takes(ts, inner, ")") THEN inner + 1 ELSE 0
TargetEnd(ts, p) ==
  IF p > Len(ts) THEN 0
  ELSE IF ts[p] = "(" THEN GroupEnd(ts, ForTarget(ts, p + 1))
  ELSE IF AssignableName(ts[p]) /\ ts[p] # "in" THEN p + 1 ELSE 0
TargetsFrom(ts, q) ==
  IF q = 0 \/ ~Takes(ts, q, ",") THEN q
  ELSE IF Takes(ts, q + 1, "in") \/ Takes(ts, q + 1, ")") THEN q + 1 ELSE ForTarget(ts, q + 1)
ForTarget(ts, p) == TargetsFrom(ts, TargetEnd(ts, p))

\* What it iterates over, up to the loop filter.
RECURSIVE Iterables(_, _)
NoIterable(ts, p) == p > Len(ts) \/ Takes(ts, p, "if") \/ Takes(ts, p, "recursive")
IterablesAfter(ts, q) ==
  IF q = 0 \/ ~Takes(ts, q, ",") THEN q
  ELSE IF NoIterable(ts, q + 1) THEN q + 1 ELSE Iterables(ts, q + 1)
Iterables(ts, p) ==
  IF NoIterable(ts, p) THEN 0 ELSE IterablesAfter(ts, EndOf(Parse("or", ts, p, TRUE)))

WholeLoop(ts, end) ==
  end # 0 /\ Whole(ts, IF Takes(ts, end, "recursive") THEN end + 1 ELSE end)
FilteredLoop(ts, over) ==
  WholeLoop(ts, IF over # 0 /\ Takes(ts, over, "if")
                THEN EndOf(Parse("conditional", ts, over + 1, TRUE)) ELSE over)
LoopOver(ts, target) ==
  target # 0 /\ Takes(ts, target, "in") /\ FilteredLoop(ts, Iterables(ts, target + 1))
SupportedTemplateFor(ts) == LoopOver(ts, ForTarget(ts, 1))

TemplateSignature(ts) ==
  LET params == Segments(Slice(ts, 2, Len(ts) - 1))
      plain == {k \in DOMAIN params : Len(params[k]) = 1}
  IN /\ Len(ts) >= 2 /\ ts[1] = "(" /\ ts[Len(ts)] = ")"
     /\ \/ Len(ts) = 2
        \/ /\ \A k \in DOMAIN params :
                /\ params[k] # <<>> /\ AssignableName(params[k][1])
                /\ \A j \in 1..(k - 1) : params[j][1] # params[k][1]
                /\ k \notin plain => params[k][2] = "=" /\ ParseTemplate(From(params[k], 3)).ok
           /\ \A k \in plain : \A j \in 1..k : j \in plain

IsCall(r) == r.ok /\ r.t.op = "call"
SupportedTemplateStatement(ts) ==
  LET name == ts[1] rest == From(ts, 2)
      close == IF Takes(rest, 1, "(") THEN BalancedEnd(rest, 1) ELSE 0
  IN CASE name = "if" -> SupportedTemplateCondition(rest)
       [] name = "autoescape" -> ParseTemplate(rest).ok
       [] name = "for" -> SupportedTemplateFor(rest)
       [] name = "block" -> Len(ts) \in 2..3 /\ Kind(ts[2]) = "name" /\ (Len(ts) = 3 => ts[3] = "scoped")
       [] name = "set" -> \/ Len(ts) = 2 /\ AssignableName(ts[2])
                          \/ Len(ts) > 3 /\ AssignableName(ts[2]) /\ ts[3] = "=" /\ ParseTemplate(From(ts, 4)).ok
       [] name = "filter" -> SupportedTemplateFilter(rest)
       [] name = "macro" -> Len(ts) > 3 /\ AssignableName(ts[2]) /\ TemplateSignature(From(ts, 3))
       [] name = "call" -> /\ Takes(rest, 1, "(") => close # 0 /\ TemplateSignature(Slice(rest, 1, close))
                           /\ IsCall(ParseTemplate(From(rest, close + 1)))
       [] name = "with" -> Len(ts) = 1
       [] OTHER -> FALSE

TemplateAssignment(ts) == \E i \in DOMAIN ts : ts[i] = "=" /\ Depth(ts, 1, i) = 0

-----------------------------------------------------------------------------
\* The scan.

Opening == {"if", "for", "macro", "call", "block", "filter", "with", "autoescape"}
Ending == [end \in {"endif", "endfor", "endmacro", "endcall", "endblock", "endfilter", "endwith",
                    "endautoescape", "endset", "endraw"} |->
             CASE end = "endif" -> "if" [] end = "endfor" -> "for" [] end = "endmacro" -> "macro"
               [] end = "endcall" -> "call" [] end = "endblock" -> "block" [] end = "endfilter" -> "filter"
               [] end = "endwith" -> "with" [] end = "endautoescape" -> "autoescape"
               [] end = "endset" -> "set" [] end = "endraw" -> "raw"]

Failed(h, what) ==
  IF Len(h.diagnostics) = DiagnosticLimit
  THEN [h EXCEPT !.limited = TRUE, !.reasons = @ \cup {[kind |-> "other", of |-> "diagnostics"]}]
  ELSE [h EXCEPT !.diagnostics = Append(@, what)]
FailedIf(h, condition, what) == IF condition THEN Failed(h, what) ELSE h
Partial(h, kind, of) == [h EXCEPT !.reasons = @ \cup {[kind |-> kind, of |-> of]}]
PartialUnless(h, supported, kind, of) == IF supported THEN h ELSE Partial(h, kind, of)
Unreliable(h) == [h EXCEPT !.reliable = FALSE, !.blocks = <<>>]
Stopped(h) == [h EXCEPT !.stopped = TRUE]
Top(h) == h.blocks[Len(h.blocks)]
Push(h, name, label) ==
  IF h.reliable THEN [h EXCEPT !.blocks = Append(@, [name |-> name, label |-> label, alternate |-> FALSE])] ELSE h

\* Mutant: a loop has an elif as well.
MutAlternates(block, name) == block.name \in {"if", "for"}

\* Whether an elif or else belongs to the block.
Alternates(block, name) == block.name = "if" \/ (name = "else" /\ block.name = "for")

\* What the statement is to the grammar: its own kind of reason for the contract.
Supported(h, ts) ==
  PartialUnless(h, SupportedTemplateStatement(ts), IF ts[1] \in {"if", "set"} THEN ts[1] ELSE "other", ts[1])

\* The effect of one statement on the open blocks.
Statement(h, ts) ==
  LET name == ts[1]
      matched == h.blocks # <<>> /\ Alternates(Top(h), name)
      alternate == [h EXCEPT !.blocks[Len(h.blocks)].alternate = @ \/ name = "else"]
      popped == [h EXCEPT !.blocks = Front(@)]
  IN CASE name \in Opening ->
            Supported(Push(FailedIf(h, Len(ts) = 1 /\ name # "with", "requires arguments"), name,
                           IF name \in {"block", "macro"} /\ Len(ts) > 1 THEN ts[2] ELSE ""), ts)
       [] name = "set" ->
            LET checked == FailedIf(h, Len(ts) = 1, "requires a target")
            IN Supported(IF TemplateAssignment(ts) THEN checked ELSE Push(checked, "set", ""), ts)
       [] name \in {"elif", "else"} ->
            IF ~h.reliable THEN h
            ELSE IF ~matched THEN Failed(h, "no matching if or for")
            ELSE LET followed == FailedIf(alternate, Top(h).alternate, "follows an else")
                     argued == FailedIf(followed, (Len(ts) = 1) = (name = "elif"), "arguments")
                 IN IF name = "else" THEN argued
                    ELSE PartialUnless(argued, SupportedTemplateCondition(From(ts, 2)), "elif", name)
       [] name \in DOMAIN Ending ->
            IF ~h.reliable THEN h
            ELSE IF h.blocks = <<>> THEN Failed(h, "unexpected ending")
            ELSE IF Top(h).name # Ending[name] THEN Failed(h, "unexpected ending")
            ELSE FailedIf(popped, Len(ts) > 1 /\ ~(name = "endblock" /\ Len(ts) = 2 /\ ts[2] = Top(h).label), "label")
       [] name \in {"include", "import", "from", "extends"} -> Partial(h, "other", name)
       [] OTHER -> Stopped(Unreliable(Partial(h, "other", "unsupported statement")))

\* One tag.  A raw block hides all tags up to its endraw; what grammar or limit the
\* scan meets decides whether it can still tell how blocks nest.
ScanTag(g, tag) ==
  LET h == [g EXCEPT !.tags = @ + 1]
      counted == [h EXCEPT !.tokens = @ + Len(tag.tokens)]
      expression == [kind |-> tag.kind, tokens |-> tag.tokens, complete |-> TRUE,
                     hash |-> tag.hash, before |-> tag.before, deeper |-> tag.deeper]
      kept == [counted EXCEPT !.expressions = Append(@, expression)]
      nested == IF Len(h.blocks) >= BlockLimit THEN Unreliable(Partial(kept, "other", "nesting")) ELSE kept
      statement == tag.kind = "statement"
  IN CASE g.stopped \/ g.limited -> g
       [] ~(g.stopped \/ g.limited) /\ g.raw ->
            IF statement /\ tag.tokens = <<"endraw">> /\ tag.closed = "yes" THEN [g EXCEPT !.raw = FALSE] ELSE g
       [] OTHER ->
            CASE h.tags > TagLimit -> Stopped(Unreliable(Partial(h, "other", "tags")))
              [] h.tags <= TagLimit /\ tag.closed = "deep" -> Stopped(Unreliable(Partial(h, "other", "brackets")))
              [] h.tags <= TagLimit /\ tag.closed = "no" -> Stopped(Failed(h, "unterminated"))
              [] h.tags <= TagLimit /\ tag.closed = "yes" ->
                   CASE tag.kind = "comment" -> h
                     [] tag.kind # "comment" /\ tag.limit = "size" ->
                          IF statement THEN Stopped(Unreliable(Partial(h, "other", "size"))) ELSE Partial(h, "other", "size")
                     [] tag.kind # "comment" /\ tag.limit # "size" ->
                          CASE counted.tokens > TotalTokens -> Stopped(Unreliable(Partial(counted, "other", "total tokens")))
                            [] counted.tokens <= TotalTokens /\ tag.limit = "boundary" ->
                                 IF statement THEN Stopped(Unreliable(Partial(counted, "other", "boundary")))
                                 ELSE Partial(counted, "other", "boundary")
                            [] /\ counted.tokens <= TotalTokens /\ tag.limit = "none"
                               /\ Len(tag.tokens) > TokenLimit ->
                                 Unreliable(Partial(counted, "other", "tokens"))
                            [] /\ counted.tokens <= TotalTokens /\ tag.limit = "none"
                               /\ tag.tokens = <<>> -> Failed(counted, "empty")
                            [] OTHER ->
                                 IF ~statement
                                 THEN PartialUnless(kept, ParseTemplate(tag.tokens).ok, "expression", "expression")
                                 ELSE IF tag.tokens[1] = "raw"
                                 THEN [FailedIf(counted, Len(tag.tokens) # 1, "arguments") EXCEPT !.raw = TRUE]
                                 ELSE Statement(nested, tag.tokens)

\* A raw block that never ends fails, and so does each block that is still open.
\* `tasks` are the reasons the owning tasks give against reading it at all.
Start == [tags |-> 0, tokens |-> 0, blocks |-> <<>>, reliable |-> TRUE, raw |-> FALSE, stopped |-> FALSE,
          limited |-> FALSE, expressions |-> <<>>, diagnostics |-> <<>>, reasons |-> {}]
EndRaw(h) == FailedIf(h, h.raw /\ ~h.limited, "missing endraw")
EndBlocks(h) ==
  FoldLeft(LAMBDA g, block : Failed(g, "missing end"), h,
           IF h.reliable /\ ~h.limited THEN h.blocks ELSE <<>>)
Outcome(end) ==
  [expressions |-> IF end.reliable /\ ~end.limited THEN end.expressions ELSE <<>>,
   diagnostics |-> end.diagnostics, reasons |-> end.reasons, unavailable |-> FALSE]

ScanProjectTemplate(template, tasks) ==
  LET header == TemplateConfiguration(template.header)
      unavailable(reasons) == [expressions |-> <<>>, diagnostics |-> <<>>, reasons |-> reasons, unavailable |-> TRUE]
  IN IF template.excluded THEN unavailable({[kind |-> "other", of |-> "source-excluded"]})
     ELSE IF tasks # {} THEN unavailable({[kind |-> "other", of |-> r] : r \in tasks})
     ELSE IF template.unreadable THEN [unavailable({[kind |-> "other", of |-> "unreadable"]}) EXCEPT !.unavailable = FALSE]
     ELSE IF header # {} THEN unavailable({[kind |-> "other", of |-> r] : r \in header})
     ELSE Outcome(EndBlocks(EndRaw(FoldLeft(ScanTag, Start, template.tags))))

\* A guard that the contract's recognizer reads: an expression, or a list of them.
TraefikContractGuard(ts) ==
  LET items == Segments(Slice(ts, 2, Len(ts) - 1))
  IN \/ ParseTemplate(ts).ok
     \/ /\ Len(ts) >= 3 /\ ts[1] = "[" /\ ts[Len(ts)] = "]"
        /\ \A k \in DOMAIN items : \/ ParseTemplate(items[k]).ok
                                   \/ k = Len(items) /\ k > 1 /\ items[k] = <<>>

\* Statements beyond the grammar that leave the contract's evidence as it is.
ContractTolerates(e) ==
  LET ts == e.tokens condition == From(ts, 2)
  IN CASE e.kind = "output" -> ParseTemplate(ts).ok
       [] e.kind # "output" /\ ts[1] = "set" ->
            \/ SupportedTemplateStatement(ts)
            \/ /\ Len(ts) >= 4 /\ AssignableName(ts[2])
               /\ \/ ts[3] = "|" /\ SupportedTemplateFilter(From(ts, 4)) /\ ~TemplateAssignment(ts)
                  \/ ts[3] = "=" /\ TraefikContractGuard(From(ts, 4))
       [] e.kind # "output" /\ ts[1] \in {"if", "elif"} ->
            \/ SupportedTemplateCondition(condition)
            \/ Len(condition) >= 3 /\ condition[1] = "[" /\ condition[Len(condition)] = "]"
               /\ TraefikContractGuard(condition)
       [] OTHER -> TRUE

TemplateContractReasons(scan) ==
  IF \A k \in DOMAIN scan.expressions : ContractTolerates(scan.expressions[k])
  THEN {r \in scan.reasons : r.kind = "other"} ELSE scan.reasons

-----------------------------------------------------------------------------
\* What the scan promises.

\* A tag ends at the border of a token, its body is complete, and the lexer of
\* the expressions ends it there as well; only the lexer lets a plus sign trim an
\* output.
TagEndsBetweenTokens(text, ending, statement) ==
  LET end == TagEnd(text, 1, ending, statement, <<>>)
      lexed == Lexed(text, 1, ending, <<>>, {})
  IN /\ end # 0 => /\ end \in Lexed(text, 1, <<>>, <<>>, {}).starts
                   /\ Lexed(SubSeq(text, 1, end - 1), 1, <<>>, <<>>, {}).complete
     /\ Len(ending) = 2 => /\ lexed.complete <=> end # 0
                           /\ lexed.complete => \/ lexed.end = end
                                                \/ ~statement /\ text[lexed.end] = "+" /\ lexed.end + 1 = end

PlainTemplate(tags) ==
  [excluded |-> FALSE, unreadable |-> FALSE, header |-> [present |-> FALSE], tags |-> tags]

Says(tag, name) == tag.kind = "statement" /\ tag.closed = "yes" /\ tag.tokens[1] = name
Opens(tag) == tag.kind = "statement" /\ (tag.tokens[1] \in Opening \/ (tag.tokens[1] = "set" /\ ~TemplateAssignment(tag.tokens)))
Ends(tag, opener) == \E end \in DOMAIN Ending : Ending[end] = opener.tokens[1] /\ Says(tag, end)

\* Whether the tags from i to j nest, inside of an `if` or a `for` (whose else has
\* passed or not) or of nothing that has an alternative.
RECURSIVE Nests(_, _, _, _)
Nests(tags, i, j, inside) ==
  LET tag == tags[i]
      first == CHOOSE k \in i..j : Says(tags[k], "endraw") /\ \A m \in i..(k - 1) : ~Says(tags[m], "endraw")
  IN IF i > j THEN TRUE
     ELSE IF tag.closed # "yes" THEN FALSE
     ELSE IF Says(tag, "raw") THEN (\E k \in i..j : Says(tags[k], "endraw")) /\ Nests(tags, first + 1, j, inside)
     ELSE IF Says(tag, "elif") THEN inside = "if" /\ Nests(tags, i + 1, j, inside)
     ELSE IF Says(tag, "else") THEN inside \in {"if", "for"} /\ Nests(tags, i + 1, j, "")
     ELSE IF Opens(tag)
     THEN \E k \in (i + 1)..j : /\ Ends(tags[k], tag) /\ Nests(tags, i + 1, k - 1, tag.tokens[1])
                                /\ Nests(tags, k + 1, j, inside)
     ELSE /\ tag.kind = "statement" => tag.tokens[1] \notin DOMAIN Ending
          /\ Nests(tags, i + 1, j, inside)

\* Without a limit or a foreign statement, the scan finds no fault exactly when
\* the blocks nest.
JudgesNesting(scan, tags) ==
  (\A r \in scan.reasons : r.kind # "other") => (scan.diagnostics = <<>> <=> Nests(tags, 1, Len(tags), ""))
ScanJudgesNesting(tags) == JudgesNesting(ScanProjectTemplate(PlainTemplate(tags), {}), tags)

\* A scan without faults and reasons has every tag that is not hidden by a raw block.
HasEveryTag(scan, tags) ==
  LET Hidden[k \in DOMAIN tags] ==
        \E i \in 1..(k - 1) : /\ Says(tags[i], "raw") /\ ~Hidden[i]
                              /\ \A m \in (i + 1)..(k - 1) : ~Says(tags[m], "endraw")
      shown == SelectSeq([k \in DOMAIN tags |-> k], LAMBDA k :
                 ~Hidden[k] /\ tags[k].kind # "comment" /\ ~Says(tags[k], "raw"))
  IN [k \in DOMAIN scan.expressions |-> scan.expressions[k].tokens] = [k \in DOMAIN shown |-> tags[shown[k]].tokens]
WholeWhenClean(scan, tags) ==
  scan.diagnostics = <<>> /\ TemplateContractReasons(scan) = {} => HasEveryTag(scan, tags)
CleanScanIsWhole(tags) == WholeWhenClean(ScanProjectTemplate(PlainTemplate(tags), {}), tags)
=============================================================================
