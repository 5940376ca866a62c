------------------------------ MODULE FormatPlan ------------------------------
(***************************************************************************)
(* The plan of the formatter (format/format.go) and what it verifies       *)
(* before it offers edits (format/verify.go, verify_scalars.go): the       *)
(* candidate of the builder, then the corrections of Jinja, and no finding *)
(* that was not there.                                                     *)
(***************************************************************************)
EXTENDS CanonicalFormat

CONSTANTS
  Limit,    \* columns of a line with a conditional
  Broken    \* scalars with Jinja that no correction lays out

-----------------------------------------------------------------------------
(***************************************************************************)
(* What a text says: two readings, the source model's and an independent   *)
(* one that also gives every comment an owner.                             *)
(***************************************************************************)

FinalNewline(t) == t # <<>> /\ Last(t) = "\n"

BlankLineSignature(t) == SelectSeq(Lines(t), LAMBDA line : "\n" \in ToSet(line) /\ BlankLine(line))

DocumentSyntax(t) == SelectSeq(t, LAMBDA u : u = "---")

LaidOut(units) == [k \in DOMAIN units |-> IF units[k] \in DOMAIN JinjaLayout THEN JinjaLayout[units[k]] ELSE units[k]]

\* The shape of a node: what both readings compare, but for values.
Shape(n) == [kind |-> n.kind, anchor |-> n.anchor, literal |-> n.style = "literal", size |-> Len(n.entries)]

\* equivalentSource and equivalentYAML, without comments.  The second verification
\* also takes a scalar for the one its corrections lay out.
Said(t, n, jinja) == IF Collection(n) THEN <<>> ELSE IF jinja THEN LaidOut(Value(t, n)) ELSE Value(t, n)

Readings(t, nodes, jinja) == {<<x[1], Shape(x[2]), Said(t, x[2], jinja)>> : x \in nodes}

Equivalent(before, after, old, new, jinja) == Readings(before, old, jinja) = Readings(after, new, jinja)

\* A comment at the end of a line belongs to the innermost node that ends there.
Deepest(nodes) == {x[1] : x \in {y \in nodes : \A z \in nodes : Len(z[1]) <= Len(y[1])}}
EndingAt(nodes, end) == {x \in nodes : x[2].to = end /\ x[2].from < x[2].to}

CommentOwners(t, nodes) ==
  {<<t[i], Deepest(EndingAt(nodes, Max({0} \cup {k \in 1..(i - 1) : t[k] # " "})))>> : i \in {i \in DOMAIN t : IsComment(t[i])}}

SameComments(before, after, old, new) == CommentOwners(before, old) = CommentOwners(after, new)

-----------------------------------------------------------------------------
(***************************************************************************)
(* Scalars keep their spelling.                                            *)
(***************************************************************************)

\* blockRaw: without the indentation of the line after it.
BlockRaw(t, n) ==
  LET lines == Lines(Raw(t, n))
  IN IF n.to < Len(t) /\ Len(lines) > 1 /\ ToSet(Last(lines)) \subseteq {" "} THEN Front(lines) ELSE lines

\* Every line that is not blank moves by the same columns.
BlockSpellingEqual(a, b) ==
  LET moved(k) == Leading(b[k]) - Leading(a[k])
      said == {k \in 2..Len(a) : ~BlankLine(a[k])}
  IN /\ Len(a) = Len(b) /\ a[1] = b[1]
     /\ \A k \in 2..Len(a) : Unindented(a[k]) = Unindented(b[k]) /\ (k \notin said => a[k] = b[k])
     /\ \A k, j \in said : moved(k) = moved(j)

ScalarKept(before, after, old, new) ==
  IF old.style = "literal" THEN BlockSpellingEqual(BlockRaw(before, old), BlockRaw(after, new))
  ELSE Raw(after, new) \in {Raw(before, old), CanonicalScalar(Raw(before, old))}

VerifyScalarSyntax(before, after, old, new) ==
  \A x \in old, y \in new :
    x[1] = y[1] /\ ~Collection(x[2]) => ScalarKept(before, after, x[2], y[2])

-----------------------------------------------------------------------------
(***************************************************************************)
(* Corrections and findings of one source.                                 *)
(***************************************************************************)

\* FormattingEdits: the layout of Jinja.
FormattingEdits(t) ==
  LET raw == Ascending({i \in DOMAIN t : t[i] \in DOMAIN JinjaLayout})
  IN [k \in DOMAIN raw |-> Edit(raw[k] - 1, raw[k], <<JinjaLayout[t[raw[k]]]>>)]

Unsupported(t) == ToSet(t) \cap Broken # {}

SourceLocalDiagnostics(t) ==
  {[rule |-> "jinja-layout", from |-> i - 1, to |-> i] : i \in {i \in DOMAIN t : t[i] \in DOMAIN JinjaLayout}}
  \cup {[rule |-> "jinja-conditional-length", from |-> i - 1, to |-> i] :
          i \in {i \in DOMAIN t : t[i] \in DOMAIN Widths /\ Column(t, i) > Limit}}

\* newOwnerIndex: the document and its nodes.
RECURSIVE OwnerNode(_, _)
OwnerNode(n, path) ==
  LET children(k) == (IF n.kind = "mapping" THEN <<OwnerNode(n.entries[k].key, Append(path, <<"key", k>>))>> ELSE <<>>)
                     \o <<OwnerNode(n.entries[k].value, Append(path, <<"value", k>>))>>
  IN [from |-> n.from, to |-> n.to, path |-> path,
      children |-> FlattenSeq([k \in DOMAIN n.entries |-> children(k)])]

NewOwnerIndex(t, nodes) ==
  [from |-> 0, to |-> Len(t), path |-> <<>>, children |-> <<OwnerNode(Root(nodes), <<<<"value", 0>>>>)>>]

Identity(index, d) == [rule |-> d.rule, owner |-> Owner(index, d.from, d.to)]

\* No finding that was not there, as often, with the same owner.
NoneAdded(old, new) ==
  \A d \in DOMAIN new : d.rule # "jinja-layout" =>
    Cardinality({e \in DOMAIN new : new[e] = new[d]}) <= Cardinality({e \in DOMAIN old : old[e] = new[d]})

Identities(t, index) == [d \in SourceLocalDiagnostics(t) |-> Identity(index, d)]

VerifyDiagnostics(before, after, old, new) ==
  NoneAdded(Identities(before, NewOwnerIndex(before, old)), Identities(after, NewOwnerIndex(after, new)))

-----------------------------------------------------------------------------
(***************************************************************************)
(* The plan.                                                               *)
(***************************************************************************)

\* Why the verification refuses a text; "" when it does not.
Verify(before, after, old, new, jinja) ==
  IF FinalNewline(before) # FinalNewline(after) THEN "final newline"
  ELSE IF ~jinja /\ BlankLineSignature(before) # BlankLineSignature(after) THEN "blank lines"
  ELSE IF jinja /\ ApplyEdits(before, FormattingEdits(before)) # after THEN "corrections"
  ELSE IF DocumentSyntax(before) # DocumentSyntax(after) THEN "document markers"
  ELSE IF ~Equivalent(before, after, old, new, jinja) THEN "structure"
  ELSE IF ~SameComments(before, after, old, new) THEN "comment attachment"
  ELSE IF ~jinja /\ ~VerifyScalarSyntax(before, after, old, new) THEN "scalar spelling"
  ELSE ""

Skipped(why) == [status |-> "skipped", why |-> why, edits |-> <<>>, final |-> <<>>]

\* The first reason to skip, or the plan.
Unless(why, plan) == IF why # "" THEN Skipped(why) ELSE plan
Malforms(nodes, why) == IF Root(nodes).kind = "malformed" THEN why ELSE ""

Finished(t, edits, final) ==
  IF t = final THEN [status |-> "unchanged", why |-> "", edits |-> <<>>, final |-> t]
  ELSE Unless(IF ApplyEdits(t, edits) # final THEN "composition" ELSE "",
              [status |-> "ready", why |-> "", edits |-> edits, final |-> final])

\* The candidate of the final text has nothing to do.
Unsettled(again, final) ==
  IF again.why # "" THEN again.why
  ELSE IF again.edits # <<>> \/ FormattingEdits(final) # <<>> THEN "not idempotent" ELSE ""

\* The texts with their nodes: `old` of the source, `middle` of the candidate, `new`
\* of the final text.
PlanFinal(t, old, built, candidate, middle, corrections, final, new) ==
  Unless(Malforms(new, "malformed correction"),
  Unless(Verify(candidate, final, middle, new, TRUE),
  Unless(IF VerifyDiagnostics(t, final, old, new) THEN "" ELSE "new finding",
  Unless(Unsettled(CanonicalCandidate(final, Root(new)), final),
         Finished(t, ComposeStages(t, <<built.edits, corrections>>), final)))))

\* FormattingEdits refuses corrections that leave some of the layout to do.
PlanCorrected(t, old, built, candidate, middle, corrections, final) ==
  Unless(IF FormattingEdits(final) # <<>> THEN "unsupported Jinja" ELSE "",
         PlanFinal(t, old, built, candidate, middle, corrections, final, Nodes(final)))

PlanCorrecting(t, old, built, candidate, middle, corrections) ==
  PlanCorrected(t, old, built, candidate, middle, corrections, ApplyEdits(candidate, corrections))

PlanRead(t, old, built, candidate, middle) ==
  Unless(Malforms(middle, "malformed candidate"),
  Unless(Verify(t, candidate, old, middle, FALSE),
  Unless(IF Unsupported(candidate) THEN "unsupported Jinja" ELSE "",
         PlanCorrecting(t, old, built, candidate, middle, FormattingEdits(candidate)))))

PlanCandidate(t, old, built, candidate) == PlanRead(t, old, built, candidate, Nodes(candidate))

PlanBuilt(t, old, built) == Unless(built.why, PlanCandidate(t, old, built, ApplyEdits(t, built.edits)))

PlanSource(t, old) == Unless(Malforms(old, "malformed"), PlanBuilt(t, old, CanonicalCandidate(t, Root(old))))

Plan(t) == PlanSource(t, Nodes(t))

-----------------------------------------------------------------------------
(***************************************************************************)
(* What a plan promises.                                                   *)
(***************************************************************************)

KeepsText(t, plan, old, new) ==
  /\ Separate(plan.edits) /\ ApplyEdits(t, plan.edits) = plan.final
  /\ Equivalent(t, plan.final, old, new, TRUE)
  /\ BlankLineSignature(t) = BlankLineSignature(plan.final)
  /\ CommentOwners(t, old) = CommentOwners(plan.final, new)
  /\ PlanSource(plan.final, new).status = "unchanged"

\* The edits of a plan keep every value, blank line and comment where it was, and
\* the text they produce is canonical: nothing is left to format (Plan, verify).
PlanKeepsText(t, plan) == plan.status = "ready" => KeepsText(t, plan, Nodes(t), Nodes(plan.final))

\* The paths of the values that are too long.
LongValues(t) ==
  {x[1] : x \in {y \in Nodes(t) :
    /\ ~Collection(y[2])
    /\ \E i \in (y[2].from + 1)..y[2].to : t[i] \in DOMAIN Widths /\ Column(t, i) > Limit}}

\* No value becomes too long that was not (verifyDiagnostics).
PlanLengthensNothing(t, plan) == plan.status = "ready" => LongValues(plan.final) \subseteq LongValues(t)
=============================================================================
