-------------------------------- MODULE FixPlan --------------------------------
(***************************************************************************)
(* From findings to a written file (lint/engine.go, fixes.go,              *)
(* structural_fixes.go): the rules find defects in one source, ignores     *)
(* suppress some, verified repairs are attached to the others, the planner *)
(* combines them into one change, and the writer checks it once more.      *)
(* Then the file is analysed again.                                        *)
(***************************************************************************)
EXTENDS Layout

CONSTANTS
  Sources,      \* the texts to begin with
  Rounds,       \* how often a layout is corrected before it is given up
  MaxPasses     \* bound: how often the file is analysed

VARIABLES
  source,       \* the text on disk, as it was loaded
  pass,         \* how often it was analysed
  findings,     \* the diagnostics of the source, with their fixes
  plan,         \* what the planner decided on them: a state, edits and their rules
  phase         \* "load", "analyzed", "attached", "planned"

vars == <<source, pass, findings, plan, phase>>

Structural == {"parentheses", "length", "documentation"}
NoFix == [edits |-> <<>>, rules |-> {}]

-----------------------------------------------------------------------------
(***************************************************************************)
(* Verification.                                                           *)
(***************************************************************************)

\* Where whitespace may change: between the tokens of an expression, before an
\* expression that is a block of its own, and at a missing section separator.
AllowedGaps(data) ==
  UNION {{[from |-> IF k = 1 THEN e.open ELSE e.at[k - 1],
           to |-> IF k > Len(e.at) THEN e.close - 1 ELSE e.at[k] - 1] : k \in 1..(Len(e.at) + 1)}
         \cup IF PureBlock(data, e) THEN {[from |-> LineStart(data, e.open - 1), to |-> e.open - 1]} ELSE {}
         : e \in Expressions(data)}

\* whitespaceValidation.allows
Allows(data, e) ==
  /\ AllSpace(SubSeq(data, e.from + 1, e.to)) /\ AllSpace(e.text)
  /\ \/ e \in SectionEdits(data)
     \/ \E gap \in AllowedGaps(data) : gap.from <= e.from /\ e.to <= gap.to

InTextOrder(expressions) ==
  [k \in 1..Cardinality(expressions) |->
     CHOOSE e \in expressions : Cardinality({f \in expressions : f.open < e.open}) = k - 1]

TokensOfAll(data, es) == [k \in DOMAIN es |-> Tokens(data, es[k])]
TokensIn(data) == TokensOfAll(data, InTextOrder(Expressions(data)))

\* verifiedCandidate: only whitespace changed, only where it may, and the tokens of
\* every expression are what they were (equivalentNode).
VerifiedCandidate(before, after) ==
  /\ SameButSpace(before, after)
  /\ \A e \in ToSet(WhitespaceChanges(before, after)) : Allows(before, e)
  /\ TokensIn(before) = TokensIn(after)

WhitespaceChangePreservesIgnoredLines(before, after) ==
  SameButSpace(before, after) /\ FixesPreserveIgnoredLines(before, WhitespaceChanges(before, after))

-----------------------------------------------------------------------------
(***************************************************************************)
(* Structural changes: stages of edits, tracked against the original.      *)
(***************************************************************************)

\* The pairs of parentheses around a conditional result, where they may go.
PairEdits(data, e) ==
  LET ts == Tokens(data, e)
      pairs == (Len(ts) - Len(StripGrouping(ts))) \div 2
  IN IF ConditionalResultFix(ts) = <<>> THEN {}
     ELSE {Edit(e.at[k] - 1, e.at[k], <<>>) : k \in (1..pairs) \cup ((Len(ts) - pairs + 1)..Len(ts))}

StructuralEdits(data, rules) ==
  (IF "parentheses" \in rules THEN UNION {PairEdits(data, e) : e \in Expressions(data)} ELSE {})
  \cup (IF "documentation" \in rules THEN DocumentationEdits(data) ELSE {})

Declined == [ok |-> FALSE, data |-> <<>>, edits |-> <<>>, rounds |-> 0]

\* One more stage of whitespace edits on a candidate.
SpacedTo(c, data, edits) ==
  IF VerifiedCandidate(c.data, data) THEN [c EXCEPT !.data = data, !.edits = ComposeEdits(@, edits)] ELSE Declined

InOrder(c, edits) == SpacedTo(c, ApplyEdits(c.data, edits), edits)

Spaced(c, edits) == IF ~c.ok \/ Conflicting(edits) THEN Declined ELSE InOrder(c, OrderedEdits(edits))

\* normalizeFixLayout: a layout is declined that needed every round, even if the
\* last one settled it.
RECURSIVE NormalizeFixLayout(_)
Corrected(c, edits) ==
  IF c.rounds = Rounds THEN [c EXCEPT !.ok = FALSE]
  ELSE IF edits = {} THEN c
  ELSE NormalizeFixLayout([Spaced(c, edits) EXCEPT !.rounds = c.rounds + 1])
NormalizeFixLayout(c) == IF c.ok THEN Corrected(c, LayoutEdits(c.data)) ELSE c

\* structuralNodesEquivalent: the expressions are what was proposed for them, and
\* all others what they were.
Proposed(ts, fixed) == IF fixed = <<>> THEN ts ELSE fixed
ExpectedTokens(ts, rules) == IF "parentheses" \in rules THEN Proposed(ts, ConditionalResultFix(ts)) ELSE ts

StructuralNodesEquivalent(data, after, rules) ==
  LET before == TokensIn(data)
  IN [k \in DOMAIN before |-> ExpectedTokens(before[k], rules)] = TokensIn(after)

RestructuredTo(data, after, edits, rules) ==
  IF StructuralNodesEquivalent(data, after, rules) THEN [ok |-> TRUE, data |-> after, edits |-> edits, rounds |-> 0]
  ELSE Declined

RestructuredInOrder(data, edits, rules) == RestructuredTo(data, ApplyEdits(data, edits), edits, rules)

RestructuredBy(data, edits, rules) ==
  IF Conflicting(edits) THEN Declined ELSE RestructuredInOrder(data, OrderedEdits(edits), rules)

Restructured(data, rules) == RestructuredBy(data, StructuralEdits(data, rules), rules)

Wrapping(c, rules) == IF c.ok /\ "length" \in rules THEN Spaced(c, WrapEdits(c.data)) ELSE c
Separated(c, rules) == IF c.ok /\ "sections" \in rules THEN Spaced(c, SectionEdits(c.data)) ELSE c

\* buildStructuralChange before its last checks.
Staged(data, rules) ==
  NormalizeFixLayout(Separated(Wrapping(Restructured(data, rules), rules), rules))

Finished(data, c, edits) ==
  IF /\ c.ok /\ c.data # data
     /\ ApplyEdits(data, edits) = c.data /\ FixesPreserveIgnoredLines(data, edits)
  THEN [c EXCEPT !.edits = edits] ELSE Declined

Minimized(data, c) == Finished(data, c, MinimalEdits(data, c.edits))

BuildStructuralChange(data, rules) == Minimized(data, Staged(data, rules))

-----------------------------------------------------------------------------
(***************************************************************************)
(* Rules.                                                                  *)
(***************************************************************************)

\* checkLayout: the fix that every layout finding shares, unless it fails.  Only the
\* end of the rounds is verified, and the last round may settle it; a layout that
\* does not settle stays what it was.
RECURSIVE Relaid(_, _, _)
RelaidBy(data, candidate, edits, rounds) ==
  IF edits = {} THEN candidate
  ELSE IF rounds = Rounds \/ Conflicting(edits) THEN data
  ELSE Relaid(data, ApplyEdits(candidate, OrderedEdits(edits)), rounds + 1)
Relaid(data, candidate, rounds) == RelaidBy(data, candidate, LayoutEdits(candidate), rounds)

SpacingFix(data, after) ==
  IF after # data /\ VerifiedCandidate(data, after)
  THEN [edits |-> WhitespaceChanges(data, after), rules |-> {}] ELSE NoFix

LayoutFix(data) == SpacingFix(data, Relaid(data, data, 0))

\* checkSectionSpacing
SectionFix(data) ==
  LET edits == OrderedEdits(SectionEdits(data))
  IN IF VerifiedCandidate(data, ApplyEdits(data, edits)) THEN [edits |-> edits, rules |-> {}] ELSE NoFix

Finding(rule, at, fix) == [rule |-> rule, at |-> at, fix |-> fix]

\* What the rules find.
Check(data) ==
  {Finding("layout", e.to, LayoutFix(data)) : e \in LayoutEdits(data)}
  \cup {Finding("sections", gap.key, SectionFix(data)) : gap \in SectionGaps(data)}
  \cup {Finding("length", e.open - 1, NoFix) : e \in LongConditionals(data)}
  \cup {Finding("parentheses", e.at[1] - 1, NoFix) :
          e \in {e \in Expressions(data) : CheckConditionalResult(Tokens(data, e))}}
  \cup {Finding("documentation", start, NoFix) : start \in UndocumentedLookups(data)}

\* suppressLineFindings
Suppresses(data, ignore, f) ==
  f.rule = ignore.rule /\ Line(data, f.at) \in ignore.first..ignore.last

Kept(data, found) ==
  {f \in found : \A ignore \in InlineIgnores(data) : ~Suppresses(data, ignore, f)}
  \cup {Finding("directive", ignore.last, NoFix) :
          ignore \in {ignore \in InlineIgnores(data) : \A f \in found : ~Suppresses(data, ignore, f)}}

\* The findings a change settles: those whose own repair was chosen.
Chosen(data, rules, after, f) ==
  CASE f.rule = "length" -> "length" \in rules /\ LongConditionals(after) = {}
    [] f.rule = "parentheses" -> "parentheses" \in rules
         /\ \E e \in Expressions(data) : e.at[1] - 1 = f.at /\ PairEdits(data, e) # {}
    [] f.rule = "documentation" -> "documentation" \in rules /\ DocumentationEdits(data) # {}
    [] OTHER -> FALSE

\* The rules whose findings ask for a structural change, with those of the fixes
\* beside them.
RequestedRules(data, found) ==
  LET asked == {f.rule : f \in {f \in found : \/ f.rule \in {"parentheses", "length"}
                                              \/ f.rule = "documentation" /\ DocumentationEdits(data) # {}}}
  IN IF asked = {} THEN {} ELSE asked \cup {f.rule : f \in {f \in found : f.fix # NoFix}}

\* One fix for all that a change settles.
Attached(data, found, rules, c) ==
  IF ~c.ok THEN found
  ELSE {[f EXCEPT !.fix = IF f.fix # NoFix \/ Chosen(data, rules, c.data, f) THEN [edits |-> c.edits, rules |-> rules] ELSE @] :
          f \in found}

AttachStructuralFixes(data, found) ==
  LET rules == RequestedRules(data, found)
  IN IF rules = {} THEN found ELSE Attached(data, found, rules, BuildStructuralChange(data, rules))

-----------------------------------------------------------------------------
(***************************************************************************)
(* The planner and the writer.                                             *)
(***************************************************************************)

NoChange(state) == [state |-> state, after |-> <<>>, rules |-> {}, edits |-> <<>>]
Conflicts == NoChange("conflicting-edits")
Refused == NoChange("declined")
\* The rules and the edits (fixRules, fixEdits) of a structural change.
Available(after, rules, edits) ==
  [state |-> "available", after |-> after, rules |-> rules, edits |-> edits]

PlannedChange(c, edits, rules) ==
  IF c.ok /\ c.edits = edits THEN Available(c.data, rules, edits) ELSE Refused

\* Mutant: an ignored line is left to the writer.
MutPlannedSpacing(data, edits, after) ==
  IF /\ \A e \in edits : Allows(data, e)
     /\ after # data /\ VerifiedCandidate(data, after) /\ LayoutEdits(after) = {}
  THEN Available(after, {}, <<>>) ELSE Refused

PlannedSpacing(data, edits, after) ==
  IF /\ \A e \in edits : Allows(data, e)
     /\ after # data /\ WhitespaceChangePreservesIgnoredLines(data, after)
     /\ VerifiedCandidate(data, after) /\ LayoutEdits(after) = {}
  THEN Available(after, {}, <<>>) ELSE Refused

\* planFixes on one source.
PlanFixes(data, found) ==
  LET fixes == {f.fix : f \in found} \ {NoFix}
      edits == UNION {ToSet(fix.edits) : fix \in fixes}
      rules == UNION {fix.rules : fix \in fixes}
  IN IF Conflicting(edits) THEN Conflicts
     ELSE IF rules # {} THEN PlannedChange(BuildStructuralChange(data, rules), OrderedEdits(edits), rules)
     ELSE PlannedSpacing(data, edits, ApplyEdits(data, OrderedEdits(edits)))

\* PlannedFixEdits: the edits of a change, for an editor.
PlannedFixEdits(data, p) ==
  IF p.rules = {} THEN WhitespaceChanges(data, p.after)
  ELSE BuildStructuralChange(data, p.rules).edits

Rebuilds(c, p) == c.ok /\ c.data = p.after /\ c.edits = p.edits

\* verifiedChange and the layout check of WriteChanges.
VerifiedChange(data, p) ==
  /\ IF p.rules = {}
     THEN WhitespaceChangePreservesIgnoredLines(data, p.after) /\ VerifiedCandidate(data, p.after)
     ELSE Rebuilds(BuildStructuralChange(data, p.rules), p)
  /\ LayoutEdits(p.after) = {}

-----------------------------------------------------------------------------
Init ==
  /\ source \in Sources /\ pass = 1
  /\ findings = {} /\ plan = Refused /\ phase = "load"

\* Analyze: the rules and the ignores.
Analyze ==
  /\ phase = "load" /\ phase' = "analyzed"
  /\ findings' = Kept(source, Check(source))
  /\ UNCHANGED <<source, pass, plan>>

Attach ==
  /\ phase = "analyzed" /\ phase' = "attached"
  /\ findings' = AttachStructuralFixes(source, findings)
  /\ UNCHANGED <<source, pass, plan>>

Plan ==
  /\ phase = "attached" /\ phase' = "planned"
  /\ plan' = PlanFixes(source, findings)
  /\ UNCHANGED <<source, pass, findings>>

\* WriteChanges, and the next analysis of what is written.
Write ==
  /\ phase = "planned" /\ plan.state = "available" /\ VerifiedChange(source, plan)
  /\ pass < MaxPasses
  /\ source' = plan.after /\ pass' = pass + 1
  /\ findings' = {} /\ plan' = Refused /\ phase' = "load"

Next == Analyze \/ Attach \/ Plan \/ Write
Spec == Init /\ [][Next]_vars

-----------------------------------------------------------------------------
(***************************************************************************)
(* Properties.                                                             *)
(***************************************************************************)

Offered == phase = "planned" /\ plan.state = "available"

\* Edits that an editor can apply and that give the text.
ExactEdits(edits, data) ==
  /\ ApplyEdits(source, edits) = data
  /\ \A e \in ToSet(edits) : Boundary(source, e.from) /\ Boundary(source, e.to)

ExactStage(c) == c.ok => ApplyEdits(source, c.edits) = c.data /\ ExactEdits(MinimalEdits(source, c.edits), c.data)

ExactFrom(wrapped, rules) == ExactStage(wrapped) /\ ExactStage(NormalizeFixLayout(Separated(wrapped, rules)))
ExactStages(restructured, rules) == ExactStage(restructured) /\ ExactFrom(Wrapping(restructured, rules), rules)
ExactChange(rules) == ExactStages(Restructured(source, rules), rules)

\* Every stage of a structural change is tracked exactly: its edits on the
\* original text give the text of the stage, the smallest ones give the same, and
\* none of them begins or ends inside of a line's end.
EditsAreExact ==
  /\ phase = "analyzed" => ExactChange(RequestedRules(source, findings))
  /\ Offered => ExactEdits(PlannedFixEdits(source, plan), plan.after)

\* "A change shown by --diff is never refused by --fix": the writer verifies what
\* the planner proposes.
OfferedIsWritten == Offered => VerifiedChange(source, plan)

\* The lines that an ignore covers come out of a change as they went in.
IgnoredLinesKept ==
  Offered => \A ignore \in InlineIgnores(source) :
    LET starts == LineStarts(source)
        from == starts[ignore.first]
        to == IF ignore.last < Len(starts) THEN starts[ignore.last + 1] ELSE Len(source)
    IN \E start \in ToSet(LineStarts(plan.after)) :
         /\ start + to - from <= Len(plan.after)
         /\ SubSeq(plan.after, start + 1, start + to - from) = SubSeq(source, from + 1, to)

NoneRecurs(later) ==
  \A rule \in {f.rule : f \in findings} :
    Cardinality({f \in later : f.rule = rule}) <= Cardinality({f \in findings : f.rule = rule /\ f.fix = NoFix})

\* Repairs come to an end: a rule finds nothing more where a change had a fix for
\* all that it found, a joined line may become too long once, and then no change is
\* left.  No layout is given up for want of rounds.
FixesSettle ==
  /\ Offered => NoneRecurs(Kept(plan.after, Check(plan.after)))
  /\ pass = MaxPasses => ~Offered
  /\ phase = "analyzed" => Staged(source, RequestedRules(source, findings)).rounds < Rounds
=============================================================================
