------------------------------ MODULE MCSources ------------------------------
(* Instances for TLC: an author writes lines around the fields of a header,     *)
(* breaks and comments the gaps of a healthcheck's list, or writes the body of  *)
(* a tag, the text of an endpoint or the tags of a template, piece by piece.    *)
EXTENDS Representation, TraefikOutput

CONSTANTS MaxEdits,          \* edits of one header or list
          MaxCharacters,     \* of a tag's body
          MaxPhrases,        \* of an endpoint's text
          MaxTags            \* of a template

VARIABLES source, edits
vars == <<source, edits>>

Headers ==
  {<<"title", "author", "url", "gpl", "v1">>, <<"title", "url", "author", "gpl", "v1">>,
   <<"gpl", "title", "author", "url", "v1">>, <<"title", "author", "url", "v1">>,
   <<"title", "title", "author", "url", "gpl", "v1">>, <<"border", "title", "author", "url", "gpl", "---", "v1">>}
HeaderLines == Comments \cup Codes \cup {"border", "short", "---", "skip", "directive", "blank"}

Item(kind, value, style, features) ==
  [kind |-> kind, value |-> value, blank |-> value = " ", style |-> style, decorated |-> FALSE, lines |-> 1, features |-> features]
Marker(value) == Item("string", value, "double-quoted", {})
ListArguments == {Item("string", "x", "plain", {}), Item("string", " ", "single-quoted", {}), Item("number", "1", "plain", {}),
              Item("string", "?x", "plain", {"indicator"}), Item("null", "", "plain", {})}
Lists == {<<Marker("NONE")>>} \cup {<<Marker(m), a>> : m \in {"CMD", "CMD-SHELL"}, a \in ListArguments}
         \cup {<<Marker("CMD"), Item("string", "x", "plain", {}), Item("number", "1", "plain", {})>>}

Flow(items) ==
  [style |-> "flow", plainKey |-> TRUE, items |-> items, tail |-> Absent,
   gaps |-> [g \in 1..(Len(items) + 1) |-> <<[commas |-> IF g \in 2..Len(items) THEN 1 ELSE 0, comment |-> Absent]>>]]
Declaration(items) == [part |-> "healthcheck", plainBlock |-> TRUE, tests |-> <<Flow(items)>>]

\* The characters of a tag's body, and endings beside the default ones.
Characters == {"'", "(", ")", "{", "}", "%", "-", "+", "a", "e", "1", ".", "="}
CustomEndings == {<<"a">>, <<"1">>, <<"-">>, <<"+", "1">>, <<"-", "a">>, <<".">>, <<"=">>, <<"]", "]">>, <<"%">>}
Ended(ending) ==
  [present |-> TRUE, long |-> FALSE, newline |-> TRUE,
   options |-> <<[key |-> "variable_end_string", paired |-> TRUE, word |-> "", plain |-> TRUE, text |-> ending]>>]

Phrases == {<<"{", "#">>, <<"{", "#", "-">>, <<"#", "}">>, <<"-", "#", "}">>, <<"{">>, <<" ">>, <<"a">>, <<"-">>}

Written(kind, tokens) ==
  [kind |-> kind, closed |-> "yes", limit |-> "none", tokens |-> tokens, hash |-> FALSE, before |-> "text", deeper |-> FALSE]
Tags ==
  {Written("output", <<"a">>), Written("output", <<"a", "a">>), Written("comment", <<>>),
   [Written("output", <<"a">>) EXCEPT !.hash = TRUE], [Written("output", <<"a">>) EXCEPT !.closed = "no"], [Written("output", <<"a">>) EXCEPT !.limit = "size"],
   [Written("statement", <<"if", "a">>) EXCEPT !.limit = "boundary"]}
  \cup {Written("statement", tokens) : tokens \in
          {<<"if", "a">>, <<"else">>, <<"elif", "a">>, <<"endif">>, <<"for", "b", "in", "a">>, <<"endfor">>,
           <<"set", "b">>, <<"set", "b", "=", "a">>, <<"endset">>, <<"raw">>, <<"endraw">>, <<"include", "a">>,
           <<"block", "b">>, <<"endblock", "b">>, <<"macro", "b", "(", ")">>, <<"endmacro">>}}

Init ==
  /\ edits = 0
  /\ \/ source \in {[part |-> "tag", text |-> <<>>], [part |-> "endpoint", text |-> <<>>], [part |-> "template", tags |-> <<>>]}
     \/ \E lines \in Headers : source = [part |-> "header", lines |-> lines]
     \/ \E items \in Lists : source = Declaration(items)

Edit == edits < MaxEdits /\ edits' = edits + 1

InsertLine ==
  /\ Edit /\ source.part = "header"
  /\ \E i \in 0..Len(source.lines), line \in HeaderLines : source' = [source EXCEPT !.lines = InsertAt(@, i + 1, line)]

\* A gap is broken before or after its comma, with a comment or without.
BreakGap ==
  /\ Edit /\ source.part = "healthcheck"
  /\ \E g \in DOMAIN source.tests[1].gaps, comment \in {Absent, Allowance, "#a", "#b"}, comma \in 0..1 :
       LET gap == source.tests[1].gaps[g] IN
       /\ comma <= gap[1].commas
       /\ source' = [source EXCEPT !.tests[1].gaps[g] =
                       <<[commas |-> gap[1].commas - comma, comment |-> comment],
                         [commas |-> comma, comment |-> gap[1].comment]>> \o Tail(gap)]
       /\ gap[1].comment # Absent => Len(gap) > 1

AddComma ==
  /\ Edit /\ source.part = "healthcheck"
  /\ \E g \in DOMAIN source.tests[1].gaps : source' = [source EXCEPT !.tests[1].gaps[g][1].commas = @ + 1]

CommentTail ==
  /\ Edit /\ source.part = "healthcheck" /\ source.tests[1].tail = Absent
  /\ \E comment \in {Allowance, "#a"} : source' = [source EXCEPT !.tests[1].tail = comment]

WriteCharacter ==
  /\ source.part = "tag" /\ Len(source.text) < MaxCharacters
  /\ \E c \in Characters : source' = [source EXCEPT !.text = Append(@, c)]
  /\ UNCHANGED edits

WritePhrase ==
  /\ source.part = "endpoint" /\ edits < MaxPhrases
  /\ edits' = edits + 1
  /\ \E phrase \in Phrases : source' = [source EXCEPT !.text = @ \o phrase]

WriteTag ==
  /\ source.part = "template" /\ Len(source.tags) < MaxTags
  /\ \E tag \in Tags : source' = [source EXCEPT !.tags = Append(@, tag)]
  /\ UNCHANGED edits

Next == InsertLine \/ BreakGap \/ AddComma \/ CommentTail \/ WriteCharacter \/ WritePhrase \/ WriteTag

Spec == Init /\ [][Next]_vars

\* A fixed header satisfies the check that asked for it (sourceHeaderFix).
HeaderSettles == source.part = "header" => HeaderFixSettles(source.lines)

\* A fixed header keeps each comment in its block and on its side of the code
\* (sourceHeaderFix).
HeaderKeepsComments == source.part = "header" => HeaderFixKeepsComments(source.lines)

\* A converted list has the items, the comments and the allowance it had
\* (healthcheckFlowFix).
TestKeepsComments == source.part = "healthcheck" => ConversionKeepsTheTest(source)

\* A tag ends where the lexer ends it, at the border of a token and after a
\* complete body, under every ending that is admitted (templateTagEnd).
TagsAgree == source.part = "tag" =>
  /\ \A ending \in CustomEndings \cup {<<"}", "}">>} :
       TemplateConfiguration(Ended(ending)) = {} => TagEndsBetweenTokens(source.text, ending, FALSE)
  /\ TagEndsBetweenTokens(source.text, <<"%", "}">>, TRUE)

\* An endpoint's literal is its text without the comments and what they trim
\* (traefikEndpointLiteral).
CommentsElided == source.part = "endpoint" => EndpointLiteralElides(source.text)

\* The linear scan accepts exactly the templates whose blocks nest
\* (scanProjectTemplate).
BlocksAreJudged == source.part = "template" => ScanJudgesNesting(source.tags)

\* What the contract takes for complete evidence is every visible tag
\* (templateContractReasons).
EvidenceIsWhole == source.part = "template" => CleanScanIsWhole(source.tags)

\* A tag counts as output unless a block captures it (traefikUncapturedExpressions).
CapturesAgree == source.part = "template" => UncapturedIsOutside(source.tags)
=============================================================================
