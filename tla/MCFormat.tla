------------------------------- MODULE MCFormat -------------------------------
(* Documents for TLC.  An author departs from a plain document in a few places: *)
(* every text is a start with holes, and each choice fills one; a hole that is  *)
(* left has its plainest filling.  Other parts: two stages of edits of a short  *)
(* text, and siblings with any spans.                                           *)
EXTENDS FormatPlan

CONSTANTS MaxChoices,   \* departures from the plain document
          MaxEdits,     \* edits of the two stages together
          MaxSiblings

VARIABLE source
vars == <<source>>

-----------------------------------------------------------------------------
(* Holes: V value of a key, E what follows an entry, I item of a dash, D what follows it, F a flow  *)
(* collection, X its member, G its gap; the digit is the column of the owner.    *)

Plainest(u) ==
  CASE u \in {"V0", "V2", "V4"} -> <<" ", "x">>
    [] u \in {"I0", "I2", "I4"} -> <<" ", "x">>
    [] u = "F" -> <<"[", "x", "]">>
    [] u = "X" -> <<"x">>
    [] u \in {"E0", "E2", "E4", "D2", "D4", "G"} -> <<>>
    [] OTHER -> <<u>>

Text(holes) == FlattenSeq([k \in DOMAIN holes |-> Plainest(holes[k])])

Scalars == {<<"'q'">>, <<"{{j}}">>, <<"{{ c }}">>}

\* What an owner in column c may have: V, E, I and D for the column `deeper`.
Nested(deeper, V, E, I, D) ==
  {<<"\n">> \o Spaces(deeper) \o <<"a", ":", V, E>>, <<"\n">> \o Spaces(deeper) \o <<"-", I, D>>}
Literal(column) == <<" ", "|", "\n">> \o Spaces(column + 3) \o <<"x", "\n", "\n">> \o Spaces(column + 5) \o <<"x">>

ValueOptions ==
  {<<>>, <<" ", " ", "x">>, <<" ", "F">>, <<" ", "&v", " ", "F">>, <<" ", "&v", "\n", "\n", " ", " ", " ", "F">>, <<" ", "#c">>}
  \cup {<<" ">> \o s : s \in Scalars}

Options(u) ==
  CASE u = "V0" -> ValueOptions \cup Nested(2, "V2", "E2", "I2", "D2") \cup Nested(4, "V4", "E4", "I4", "D4")
                   \cup {<<"\n", "-", "I0">>, <<"\n", "\n", " ", " ", " ", " ", "F">>, Literal(0)}
    [] u = "V2" -> ValueOptions \cup Nested(4, "V4", "E4", "I4", "D4") \cup {<<"\n", " ", " ", "-", "I2">>, Literal(2)}
    [] u = "V4" -> {<<" ", "F">>, Literal(4)} \cup {<<" ">> \o s : s \in Scalars}
    [] u = "I0" -> {<<>>, <<" ", "F">>, <<" ", "a", ":", "V2">>, <<" ", " ", " ", "a", ":", "V4">>, <<" ", "-", "I2">>, Literal(0),
                    <<" ", "&v", " ", "F">>, <<"\n", " ", " ", " ", " ", "F">>, <<" ", "a", ":", "V2", "\n", " ", " ", "b", ":", "V2">>}
                   \cup {<<" ">> \o s : s \in Scalars}
    [] u = "I2" -> {<<" ", "F">>, <<" ", "a", ":", "V4">>, <<" ", "-", "I4">>, Literal(2)}
    [] u = "I4" -> {<<" ", "F">>, Literal(4)}
    [] u = "E0" -> {<<"\n", "b", ":", "V0">>, <<"\n", "\n", "b", " ", ":", "V0">>, <<" ", "#c">>, <<" ", "#c", "\n", "b", ":", "V0">>}
    [] u = "E2" -> {<<"\n", " ", " ", "b", ":", "V2">>, <<" ", "#c">>}
    [] u = "E4" -> {<<"\n", " ", " ", " ", " ", "b", ":", "V4">>, <<" ", "#c">>}
    [] u = "D2" -> {<<"\n", " ", " ", "-", "I2">>, <<"\n", "\n", " ", " ", "-", " ", " ", " ", "x">>, <<" ", "#c">>}
    [] u = "D4" -> {<<"\n", " ", " ", " ", " ", "-", "I4">>}
    [] u = "F" -> {<<"[", "G", "]">>, <<"[", "{{ c }}", "]">>, <<"[", "G", "X", "G", "]">>, <<"[", "G", "X", ",", "G", "X", "G", "]">>, <<"[", "X", ",", "G", "]">>,
                   <<"{", "G", "}">>, <<"{", "G", "a", ":", "G", "X", "G", "}">>, <<"{", "a", ":", " ", "X", ",", "G", "b", ":", " ", "X", "G", "}">>,
                   <<"{", "a", "}">>, <<"{", "a", ":", "}">>}
    [] u = "X" -> {<<s[1]>> : s \in Scalars} \cup {<<"F">>, <<"&v", " ", "F">>, <<"&v", " ", "'q'">>}
    [] u = "G" -> {<<" ">>, <<"\n", " ">>, <<"\n", "\n", " ">>, <<" ", "#c", "\n">>}
    [] OTHER -> {}

Starts ==
  {<<"a", ":", "V0", "E0", "\n">>, <<"a", ":", "V0", "E0">>, <<"-", "I0", "\n">>, <<"-", "I0", "\n", "-", "I0", "\n">>,
   <<"F", "\n">>, <<"F">>, <<"[", "X", ",", "G", "X", "]", "\n">>, <<"---", " ", "F", "\n">>, <<" ", " ", "F", " ", "#c", "\n">>, <<"---", "\n", "a", ":", "V0", "E0", "\n">>}

-----------------------------------------------------------------------------
(* Stages and siblings.                                                          *)

Original == <<"1", "2", "3">>
Texts == {<<>>, <<"x", "y">>}

Spans == {[from |-> a, to |-> b, path |-> <<>>, children |-> <<>>] : <<a, b>> \in {s \in (0..3) \X (0..3) : s[1] <= s[2]}}
Index(siblings) ==
  [from |-> 0, to |-> 3, path |-> <<0>>, children |-> [k \in DOMAIN siblings |-> [siblings[k] EXCEPT !.path = <<0, k>>]]]

Init ==
  \/ \E start \in Starts : source = [part |-> "document", holes |-> start, choices |-> 0, plan |-> Plan(Text(start))]
  \/ source = [part |-> "stages", first |-> {}, second |-> {}]
  \/ source = [part |-> "siblings", spans |-> <<>>]

Fill ==
  /\ source.part = "document" /\ source.choices < MaxChoices
  /\ \E k \in DOMAIN source.holes : \E option \in Options(source.holes[k]) :
       LET holes == SubSeq(source.holes, 1, k - 1) \o option \o SubSeq(source.holes, k + 1, Len(source.holes))
       IN source' = [source EXCEPT !.choices = @ + 1, !.holes = holes, !.plan = Plan(Text(holes))]

Admitted(edits, e) == ~Overlapping(edits \cup {e}) /\ ~(\E f \in edits : f.from = e.from /\ f.to = e.to)
Between1(edits) == ApplyEdits(Original, OrderEdits(edits))

EditFirst ==
  /\ source.part = "stages" /\ source.second = {} /\ Cardinality(source.first) < MaxEdits - 1
  /\ \E a, b \in 0..3, text \in Texts :
       /\ a <= b /\ (a < b \/ text # <<>>)
       /\ Admitted(source.first, Edit(a, b, text))
       /\ source' = [source EXCEPT !.first = @ \cup {Edit(a, b, text)}]

EditSecond ==
  /\ source.part = "stages" /\ Cardinality(source.first) + Cardinality(source.second) < MaxEdits
  /\ LET length == Len(Between1(source.first)) IN
     \E a, b \in 0..length, text \in Texts :
       /\ a <= b /\ (a < b \/ text # <<>>)
       /\ Admitted(source.second, Edit(a, b, text))
       /\ source' = [source EXCEPT !.second = @ \cup {Edit(a, b, text)}]

AddSibling ==
  /\ source.part = "siblings" /\ Len(source.spans) < MaxSiblings
  /\ \E span \in Spans : source' = [source EXCEPT !.spans = Append(@, span)]

Next == Fill \/ EditFirst \/ EditSecond \/ AddSibling

Spec == Init /\ [][Next]_vars

-----------------------------------------------------------------------------
\* What only the builder could have done wrong.
OwnRefusals == {"malformed candidate", "final newline", "blank lines", "document markers", "structure", "scalar spelling",
                "malformed correction", "corrections", "not idempotent", "composition", "overlapping edits"}

\* A collection after the document's marker would open on the marker's line.
OnMarkerLine(t) == At(t, Skip(t, 0)) = "---" /\ Line(t, Skip(t, Skip(t, 0) + 1)) = Line(t, Skip(t, 0))

\* A literal behind two dashes: its lines move by what the first dash takes, each time.
DashedTwice(t) == \E i \in DOMAIN t :
  /\ t[i] = "|"
  /\ LET first == SkipSpaces(t, LineStart(t, i))
     IN At(t, first) = "-" /\ At(t, SkipSpaces(t, first + 1)) = "-"

\* What the builder writes passes the verification and formats to itself: a plan is
\* skipped for the source's sake only (canonicalCandidate).
CandidateVerifies == source.part = "document" =>
  LET t == Text(source.holes) IN OnMarkerLine(t) \/ DashedTwice(t) \/ source.plan.why \notin OwnRefusals

\* An offered plan keeps values, blank lines and comments and settles (Plan).
TextIsKept == source.part = "document" => PlanKeepsText(Text(source.holes), source.plan)

\* An offered plan makes no value too long (verifyDiagnostics).
NothingLengthened == source.part = "document" => PlanLengthensNothing(Text(source.holes), source.plan)

\* Composed stages are the stages one after the other, with no edit that could be
\* two or none (composeEdits).
StagesCompose == source.part = "stages" =>
  LET first == OrderEdits(source.first)
      second == OrderEdits(source.second)
      composed == ComposeStages(Original, <<first, second>>)
  IN /\ ApplyEdits(Original, composed) = ApplyEdits(ApplyEdits(Original, first), second)
     /\ Separate(composed)

\* The two bisections find the first sibling that holds a span, whatever the spans
\* (ownerIndex.owner).
OwnersAgree == source.part = "siblings" =>
  \A s \in Spans : Owner(Index(source.spans), s.from, s.to) = FirstOwner(Index(source.spans), s.from, s.to)
=============================================================================
