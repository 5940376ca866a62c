--------------------------- MODULE Representation ---------------------------
(* Two checks of how a role is written, with the fixes that rewrite it          *)
(* (src/lint/representation_fixes.go): the header of a source, and the `test`   *)
(* list of a healthcheck.                                                       *)
EXTENDS Integers, Sequences, SequencesExt, FiniteSets

(******************************************************************************)
(* The standard header of a role's YAML source: the check of its ordered lines  *)
(* (src/lint/rules_ansible.go) and the fix that reorders what a source has of   *)
(* it (src/lint/representation_fixes.go).  A line is what the two tell apart:   *)
(* a border, a short border, one of the four fields, "---", "# Skip docs", a    *)
(* directive ("..." or "%"), a blank line, a comment or code; the comments and  *)
(* the code are distinct values.  Line endings are left out: the fix writes the *)
(* one its caller found.                                                        *)

CONSTANTS HeaderLimit,   \* lines in which the header ends (20 in the code)
          Comments,      \* comment lines that are no field and no border
          Codes          \* lines of YAML

HeaderAssumption == HeaderLimit \in Nat \ {0}

Fields == <<"title", "author", "url", "gpl">>
Declined == <<>>

\* The first line is a border, and the fields come in order before "---", all of
\* it in the first lines of the source.
ValidHeader(lines) ==
  LET head == SubSeq(lines, 1, IF Len(lines) < HeaderLimit THEN Len(lines) ELSE HeaderLimit)
      ends == {i \in DOMAIN head : head[i] = "---"}
      end == IF ends = {} THEN Len(head) + 1 ELSE CHOOSE i \in ends : \A j \in ends : i <= j
      Field[i \in 0..(end - 1)] ==       \* the fields found in order up to line i
        IF i = 0 THEN 0
        ELSE IF Field[i - 1] < 4 /\ head[i] = Fields[Field[i - 1] + 1] THEN Field[i - 1] + 1 ELSE Field[i - 1]
  IN /\ lines # <<>> /\ lines[1] = "border"
     /\ ends # {}
     /\ Field[end - 1] = 4

CompleteHeaderGroups(groups) == \A f \in 1..4 : groups[f] # <<>>

\* One line of the header under the fix's scan.  `payload` is the first line the
\* header does not own, 0 until it is found, and `failed` ends the scan.
ScanHeaderLine(h, i, line) ==
  LET field == IF \E f \in 1..4 : Fields[f] = line THEN CHOOSE f \in 1..4 : Fields[f] = line ELSE 0
      group == IF field > 0 THEN field ELSE h.group
      complete == CompleteHeaderGroups(h.groups)
  IN CASE h.failed -> h
       [] ~h.failed /\ line = "---" ->
            IF h.marker \/ h.payload > 0 THEN [h EXCEPT !.failed = TRUE]
            ELSE IF complete THEN [h EXCEPT !.marker = TRUE, !.unbounded = FALSE, !.payload = i + 1]
            ELSE [h EXCEPT !.marker = TRUE]
       [] ~h.failed /\ line = "directive" -> [h EXCEPT !.failed = TRUE]
       [] ~h.failed /\ line \notin {"---", "directive"} /\ h.payload > 0 -> h
       [] ~h.failed /\ h.payload = 0 /\ (line \in Codes \/ (line = "skip" /\ complete)) -> [h EXCEPT !.payload = i]
       [] ~h.failed /\ h.payload = 0 /\ line \in {"border", "short"} /\ ~h.bordered /\ h.group = 0 ->
            [h EXCEPT !.bordered = TRUE,
                      !.preamble = IF \A k \in DOMAIN @ : @[k] = "blank" THEN <<>> ELSE @]
       [] OTHER ->
            IF field > 0 /\ h.groups[field] # <<>> THEN [h EXCEPT !.failed = TRUE]
            ELSE [h EXCEPT !.group = group,
                           !.unbounded = @ \/ (field = 0 /\ complete),
                           !.groups = IF group > 0 THEN [@ EXCEPT ![group] = Append(@, line)] ELSE @,
                           !.preamble = IF group = 0 THEN Append(@, line) ELSE @]

ScanHeader(lines) ==
  FoldLeft(LAMBDA h, i : ScanHeaderLine(h, i, lines[i]),
           [groups |-> [f \in 1..4 |-> <<>>], preamble |-> <<>>, group |-> 0, marker |-> FALSE, payload |-> 0,
            unbounded |-> FALSE, bordered |-> FALSE, failed |-> FALSE],
           [i \in DOMAIN lines |-> i])

\* The lines after the fix; none when it has nothing to offer.
SourceHeaderFix(lines) ==
  LET h == ScanHeader(lines)
      header == <<"border">> \o h.preamble \o FlattenSeq(h.groups) \o <<"---">>
  IN IF \/ ValidHeader(lines)
        \/ h.failed \/ h.payload = 0 \/ h.payload > Len(lines) \/ h.unbounded
        \/ ~CompleteHeaderGroups(h.groups)
        \/ Len(header) > HeaderLimit
     THEN Declined
     ELSE header \o SubSeq(lines, h.payload, Len(lines))

-----------------------------------------------------------------------------
\* What the fix promises.

\* What a comment documents: the YAML when code, or the end of a whole header, is
\* above it, or else the field it follows, or nothing when it comes before all.
Block(lines, i) ==
  LET above == SubSeq(lines, 1, i - 1)
      before == {j \in DOMAIN above : above[j] \in ToSet(Fields)}
  IN IF \E j \in DOMAIN above :
          \/ above[j] \in Codes
          \/ above[j] \in {"---", "skip"} /\ ToSet(Fields) \subseteq ToSet(SubSeq(above, 1, j))
     THEN "payload"
     ELSE IF before = {} THEN "preamble" ELSE above[CHOOSE j \in before : \A k \in before : k <= j]

\* A fixed header satisfies the check that asked for it.
HeaderFixSettles(lines) ==
  LET fixed == SourceHeaderFix(lines) IN fixed # Declined => ValidHeader(fixed)

\* Each comment and each field is kept once, a comment stays in its block, and no
\* comment changes sides with the code: what stood above the first YAML line
\* still does.
HeaderFixKeepsComments(lines) ==
  LET fixed == SourceHeaderFix(lines)
      At(ls, c) == CHOOSE i \in DOMAIN ls : ls[i] = c
      Occurrences(ls, c) == Cardinality({i \in DOMAIN ls : ls[i] = c})
  IN fixed # Declined =>
       \A c \in Comments \cup Codes \cup ToSet(Fields) \cup {"skip"} :
         /\ Occurrences(fixed, c) = Occurrences(lines, c)
         /\ c \in Comments /\ Occurrences(lines, c) = 1 =>
              /\ Block(fixed, At(fixed, c)) = Block(lines, At(lines, c))
              /\ \A code \in Codes : Occurrences(lines, code) = 1 =>
                   ((At(fixed, c) < At(fixed, code)) <=> (At(lines, c) < At(lines, code)))

(******************************************************************************)
(* The `test` list of a Docker healthcheck: its shape, its shell allowance and  *)
(* the directives (src/lint/rules_healthcheck.go), and the fix that rewrites a  *)
(* flow list as a block list with its comments                                  *)
(* (src/lint/representation_fixes.go).                                          *)
(*                                                                              *)
(* A flow list is [items, gaps, tail]: gaps[1] stands before the first item,    *)
(* gaps[i + 1] after item i; a gap is a sequence of lines, each its number of   *)
(* commas and its comment, and only the last line of a gap ends without a line  *)
(* break, so it has no comment.  `tail` is what follows the bracket on its      *)
(* line.  The text the fix writes is a sequence of tokens <<kind, value>>: a     *)
(* line break, an indentation, a dash, an item by its place or a comment.       *)

Absent == "absent"
Allowance == "# saltbox-lint allow cmd-shell"
Refused == [ok |-> FALSE, text |-> <<>>]

\* An item is [kind, value, blank, style, decorated, lines, features]; `features`
\* are those of a plain spelling that a block list might read in another way.
HealthcheckMarker(items) == IF items # <<>> /\ items[1].kind = "string" THEN items[1].value ELSE ""

HealthcheckCommandValue(item, nonempty) ==
  \/ item.kind = "string" /\ (nonempty => ~item.blank)
  \/ item.kind \in {"number", "bool"}

\* The shape of a list, apart from its style.
HealthcheckShape(items) ==
  \/ HealthcheckMarker(items) = "NONE" /\ Len(items) = 1
  \/ /\ HealthcheckMarker(items) = "CMD" /\ Len(items) >= 2
     /\ \A i \in 2..Len(items) : HealthcheckCommandValue(items[i], i = 2)
  \/ /\ HealthcheckMarker(items) = "CMD-SHELL" /\ Len(items) = 2
     /\ HealthcheckCommandValue(items[2], TRUE)

CheckDockerHealthcheckShape(declaration) ==
  \/ Len(declaration.tests) # 1
  \/ declaration.tests[1].style # "block" \/ ~HealthcheckShape(declaration.tests[1].items)

-----------------------------------------------------------------------------
\* Where the comments of a flow list are.

\* The comment on the line of the key: the first one of the first gap with a line
\* break, or the tail when the list is on one line.
KeyComment(test) ==
  LET broken == {g \in DOMAIN test.gaps : Len(test.gaps[g]) > 1}
  IN IF broken = {} THEN test.tail ELSE test.gaps[CHOOSE g \in broken : \A h \in broken : g <= h][1].comment

HasShellAllowance(keyComment) == keyComment = Allowance

DockerHealthcheckMode(items, keyComment) == HealthcheckMarker(items) = "CMD-SHELL" /\ ~HasShellAllowance(keyComment)

\* What is said of the allowances among a list's comments: those that are not on
\* the key's line, and the one there when the list has its shape and no shell.
LintDirectives(shaped, items, keyComment, comments) ==
  LET allowed == HasShellAllowance(keyComment)
  IN [misplaced |-> Len(SelectSeq(comments, LAMBDA c : c = Allowance)) - (IF allowed THEN 1 ELSE 0),
      unnecessary |-> allowed /\ shaped /\ HealthcheckMarker(items) # "CMD-SHELL"]

-----------------------------------------------------------------------------
\* The rewriting.

Break == <<<<"break", Absent>>>>
Indent == <<<<"indent", Absent>>>>
Comment(comment) == IF comment = Absent THEN <<>> ELSE <<<<"comment", comment>>>>

\* Mutant: only the comment next to the item is carried over.
MutHealthcheckGap(gap, minCommas, maxCommas, afterItem) ==
  [ok |-> TRUE, text |-> IF afterItem THEN Comment(gap[1].comment) \o Break ELSE <<>>]

\* The text of one gap: commas go, each comment keeps its line, the first line of
\* a gap after an item ends that item's line.
HealthcheckGap(gap, minCommas, maxCommas, afterItem) ==
  LET Line(i) ==
        IF afterItem /\ i = 1 THEN Comment(gap[i].comment) \o Break
        ELSE IF gap[i].comment = Absent THEN <<>> ELSE Indent \o Comment(gap[i].comment) \o Break
      commas == FoldLeft(LAMBDA n, line : n + line.commas, 0, gap)
  IN [ok |-> minCommas <= commas /\ commas <= maxCommas,
      text |-> FlattenSeq([i \in DOMAIN gap |-> Line(i)])]

FlowPlainKeepsBlockMeaning(item) == item.features = {}

Copyable(item) ==
  /\ item.lines = 1 /\ ~item.decorated
  /\ item.style \in {"plain", "single-quoted", "double-quoted"}
  /\ item.style = "plain" => FlowPlainKeepsBlockMeaning(item)

\* An allowance on the key's line must stay there: it is the tail, or all of the
\* first line of the opening, which then takes the place of the tail.
HealthcheckFlowFix(test) ==
  LET allowed == HasShellAllowance(KeyComment(test))
      opening == test.gaps[1]
      moved == allowed /\ test.tail # Allowance
      keyComment == IF moved THEN opening[1].comment ELSE test.tail
      first == HealthcheckGap(IF moved THEN Tail(opening) ELSE opening, 0, 0, FALSE)
      n == Len(test.items)
      Gap(i) == HealthcheckGap(test.gaps[i + 1], IF i < n THEN 1 ELSE 0, 1, TRUE)
      \* The last line break is the one the source has after the bracket.
      last == SubSeq(Gap(n).text, 1, Len(Gap(n).text) - 1)
  IN IF /\ test.plainKey
        /\ \A i \in DOMAIN test.items : Copyable(test.items[i])
        /\ test.tail = Allowance => allowed
        /\ moved => /\ test.tail = Absent /\ Len(opening) > 1
                    /\ opening[1].commas = 0 /\ opening[1].comment = Allowance
        /\ first.ok
        /\ \A i \in DOMAIN test.items : Gap(i).ok
     THEN [ok |-> TRUE,
           text |-> <<<<"key", Absent>>>> \o Comment(keyComment) \o Break \o first.text
                    \o FlattenSeq([i \in DOMAIN test.items |->
                         Indent \o <<<<"dash", Absent>>, <<"item", i>>>> \o (IF i < n THEN Gap(i).text ELSE last)])]
     ELSE Refused

\* A declaration without tag or anchor that is a block mapping with one `test`, a
\* flow list without tag or anchor.
HealthcheckStructuralFixes(declaration) ==
  IF declaration.plainBlock /\ Len(declaration.tests) = 1 /\ declaration.tests[1].style = "flow"
     /\ HealthcheckShape(declaration.tests[1].items)
  THEN HealthcheckFlowFix(declaration.tests[1]) ELSE Refused

-----------------------------------------------------------------------------
\* What the fix promises.

\* Each comment of a flow list: how many items are before it, and whether it must
\* be beside the last of them (or the key) on its line.
SourceComments(test) ==
  FlattenSeq([g \in DOMAIN test.gaps |->
    FlattenSeq([k \in DOMAIN test.gaps[g] |->
      IF test.gaps[g][k].comment = Absent THEN <<>>
      ELSE <<[comment |-> test.gaps[g][k].comment, after |-> g - 1, beside |-> g > 1 /\ k = 1]>>])])

TextComments(text) ==
  LET comments == SelectSeq([k \in DOMAIN text |-> k], LAMBDA k : text[k][1] = "comment")
  IN [c \in DOMAIN comments |->
        [comment |-> text[comments[c]][2],
         after |-> Len(SelectSeq(SubSeq(text, 1, comments[c]), LAMBDA t : t[1] = "item")),
         beside |-> text[comments[c] - 1][1] \in {"key", "item"}]]

\* The lines of a text are the key's, items behind a dash and comments of their own.
WellFormed(text) ==
  /\ text[1][1] = "key" /\ text[Len(text)][1] # "break"
  /\ \A k \in 2..Len(text) :
       CASE text[k][1] = "indent" -> text[k - 1][1] = "break"
         [] text[k][1] = "dash" -> text[k - 1][1] = "indent"
         [] text[k][1] = "item" -> text[k - 1][1] = "dash"
         [] text[k][1] = "comment" -> text[k - 1][1] \in {"key", "item", "indent"}
         [] OTHER -> text[k - 1][1] \in {"key", "item", "comment"}

\* The block list has the items of the flow list in their order and every comment
\* where it was; only the tail, or the allowance, moves to the key's line.  The
\* rules about the allowance say of it what they said of the flow list.
ConversionKeepsTheTest(declaration) ==
  LET fix == HealthcheckStructuralFixes(declaration)
      test == declaration.tests[1]
      before == SourceComments(test)
      after == TextComments(fix.text)
      key == SelectSeq(after, LAMBDA c : c.after = 0 /\ c.beside)
      keyComment == IF key = <<>> THEN Absent ELSE key[1].comment
      All(comments) == [c \in DOMAIN comments |-> comments[c].comment]
  IN fix.ok =>
       /\ WellFormed(fix.text)
       /\ SelectSeq(fix.text, LAMBDA t : t[1] = "item") = [i \in DOMAIN test.items |-> <<"item", i>>]
       /\ IF test.tail # Absent THEN Tail(after) = before /\ keyComment = test.tail
          ELSE IF key = <<>> THEN after = before
          ELSE Tail(after) = Tail(before) /\ keyComment = before[1].comment
       /\ DockerHealthcheckMode(test.items, keyComment) = DockerHealthcheckMode(test.items, KeyComment(test))
       /\ LintDirectives(TRUE, test.items, keyComment, All(after)).misplaced
            = LintDirectives(FALSE, test.items, KeyComment(test), All(before) \o (IF test.tail = Absent THEN <<>> ELSE <<test.tail>>)).misplaced
==============================================================================
