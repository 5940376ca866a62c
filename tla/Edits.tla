--------------------------------- MODULE Edits ---------------------------------
(***************************************************************************)
(* Source edits (lint/jinja_layout.go, structural_fixes.go, ignores.go).   *)
(* A text is a sequence of units: a whitespace character, or anything that *)
(* no edit may split, with its width in columns.  An edit replaces the     *)
(* units from + 1 to `to`; offsets are between units.                      *)
(***************************************************************************)
EXTENDS Integers, Sequences, SequencesExt, FiniteSets, FiniteSetsExt

CONSTANTS
  Widths,       \* the columns of the units that are wider than one
  Comments      \* the units that are comments; an ignore comment names a rule

Space == {" ", "\n", "\r"}

Edit(from, to, text) == [from |-> from, to |-> to, text |-> text]

AllSpace(text) == \A i \in DOMAIN text : text[i] \in Space

\* A set of offsets as a sequence.
Ascending(S) ==
  IF S = {} THEN <<>> ELSE SelectSeq([k \in 1..(Max(S) + 1) |-> k - 1], LAMBDA k : k \in S)

Width(unit) == IF unit \in DOMAIN Widths THEN Widths[unit] ELSE 1

-----------------------------------------------------------------------------
(***************************************************************************)
(* Positions.                                                              *)
(***************************************************************************)

LineStart(data, pos) == Max({0} \cup {i \in 1..pos : data[i] = "\n"})

Line(data, pos) == 1 + Cardinality({i \in 1..pos : data[i] = "\n"})

LineStarts(data) == Ascending({0} \cup {i \in DOMAIN data : data[i] = "\n"})

\* The units from a to b, without those of the line's end.
Between(data, a, b) == SelectSeq(SubSeq(data, a + 1, b), LAMBDA u : u \notin {"\n", "\r"})

Column(data, pos) == \* from 0
  LET start == LineStart(data, pos)
  IN FoldLeft(LAMBDA sum, unit : sum + Width(unit), 0, SubSeq(data, start + 1, pos))

AtLineStart(data, pos) == AllSpace(SubSeq(data, LineStart(data, pos) + 1, pos))

\* The line n, its ending taken away; a line past the last one is empty.
LineText(data, n) ==
  LET starts == LineStarts(data) IN
  IF n > Len(starts) THEN <<>>
  ELSE Between(data, starts[n], IF n < Len(starts) THEN starts[n + 1] ELSE Len(data))

\* lineNewline: how the line of pos ends, or the one before an unterminated line.
LineNewline(data, pos) ==
  LET next == {i \in (pos + 1)..Len(data) : data[i] = "\n"}
      end == IF next # {} THEN Min(next) ELSE LineStart(data, pos)
  IN IF end > 1 /\ data[end - 1] = "\r" THEN <<"\r", "\n">> ELSE <<"\n">>

-----------------------------------------------------------------------------
(***************************************************************************)
(* Order, application and composition.                                     *)
(***************************************************************************)

\* orderedEdits fails: two different edits overlap or start together.
Conflicting(edits) == \E e, f \in edits :
  e # f /\ e.from <= f.from /\ (f.from < e.to \/ f.from = e.from)

OrderedEdits(edits) == 
  LET starts == Ascending({e.from : e \in edits})
  IN [k \in DOMAIN starts |-> CHOOSE e \in edits : e.from = starts[k]]

ApplyEdits(data, edits) ==
  LET done(k) == IF k = 0 THEN 0 ELSE edits[k].to IN
  FlattenSeq([k \in DOMAIN edits |->
                SubSeq(data, done(k - 1) + 1, edits[k].from) \o edits[k].text])
  \o SubSeq(data, done(Len(edits)) + 1, Len(data))

Replace(edits, lo, hi, edit) == SubSeq(edits, 1, lo) \o <<edit>> \o SubSeq(edits, hi + 1, Len(edits))

\* How far edits move what follows the first k of them.
Shift(edits, k) ==
  FoldLeft(LAMBDA sum, e : sum + Len(e.text) - (e.to - e.from), 0, SubSeq(edits, 1, k))

\* Mutant: what an earlier replacement had after the later edit is dropped.
MutMergeEdit(edits, e) ==
  LET start(k) == edits[k].from + Shift(edits, k - 1)
      lo == Cardinality({k \in DOMAIN edits : start(k) + Len(edits[k].text) < e.from})
      hi == lo + Cardinality({k \in (lo + 1)..Len(edits) : start(k) <= e.to})
      left == lo < hi /\ start(lo + 1) <= e.from
      right == lo < hi /\ start(hi) + Len(edits[hi].text) >= e.to
  IN Replace(edits, lo, hi,
       Edit(IF left THEN edits[lo + 1].from ELSE e.from - Shift(edits, lo),
            IF right THEN edits[hi].to ELSE e.to - Shift(edits, hi),
            (IF left THEN SubSeq(edits[lo + 1].text, 1, e.from - start(lo + 1)) ELSE <<>>) \o e.text))

\* One edit of the text that edits produce, as part of them: what it touches
\* becomes one replacement.
MergeEdit(edits, e) ==
  LET start(k) == edits[k].from + Shift(edits, k - 1)
      lo == Cardinality({k \in DOMAIN edits : start(k) + Len(edits[k].text) < e.from})
      hi == lo + Cardinality({k \in (lo + 1)..Len(edits) : start(k) <= e.to})
      left == lo < hi /\ start(lo + 1) <= e.from
      right == lo < hi /\ start(hi) + Len(edits[hi].text) >= e.to
  IN Replace(edits, lo, hi,
       Edit(IF left THEN edits[lo + 1].from ELSE e.from - Shift(edits, lo),
            IF right THEN edits[hi].to ELSE e.to - Shift(edits, hi),
            (IF left THEN SubSeq(edits[lo + 1].text, 1, e.from - start(lo + 1)) ELSE <<>>)
            \o e.text
            \o (IF right THEN SubSeq(edits[hi].text, e.to - start(hi) + 1, Len(edits[hi].text)) ELSE <<>>)))

\* composeEdits: the later edits first, so that the offsets before them hold.
ComposeEdits(prior, next) == FoldRight(LAMBDA e, edits : MergeEdit(edits, e), next, prior)

-----------------------------------------------------------------------------
(***************************************************************************)
(* The smallest edits.                                                     *)
(***************************************************************************)

\* Adjacent replacements become one.
Coalesced(edits) ==
  FoldLeft(LAMBDA done, e : IF done # <<>> /\ Last(done).to = e.from
                            THEN Append(Front(done), Edit(Last(done).from, e.to, Last(done).text \o e.text))
                            ELSE Append(done, e), <<>>, edits)

\* How much of the beginning two texts share, up to max.
Common(a, b, max) == Max({0} \cup {k \in 1..max : \A i \in 1..k : a[i] = b[i]})

Smaller(a, b) == IF a < b THEN a ELSE b

\* An offset an editor can name: never inside of a line's end.
Boundary(base, pos) ==
  pos <= 0 \/ pos >= Len(base) \/ base[pos + 1] # "\n" \/ base[pos] # "\r"

\* One edit without what it keeps at its ends.
Trimmed(base, e) ==
  LET old == SubSeq(base, e.from + 1, e.to)
      prefix == Max({k \in 0..Common(old, e.text, Smaller(Len(old), Len(e.text))) :
                       k = 0 \/ Boundary(base, e.from + k)})
      rest == Smaller(Len(old), Len(e.text)) - prefix
      suffix == Max({k \in 0..Common(Reverse(old), Reverse(e.text), rest) :
                       k = 0 \/ Boundary(base, e.to - k)})
  IN Edit(e.from + prefix, e.to - suffix, SubSeq(e.text, prefix + 1, Len(e.text) - suffix))

MinimalEdits(base, edits) ==
  SelectSeq([k \in DOMAIN Coalesced(edits) |-> Trimmed(base, Coalesced(edits)[k])],
            LAMBDA e : e.from # e.to \/ e.text # <<>>)

\* The offsets of the units that are not whitespace.
Solid(data) == Ascending({i \in DOMAIN data : data[i] \notin Space})

SameButSpace(before, after) ==
  SelectSeq(before, LAMBDA u : u \notin Space) = SelectSeq(after, LAMBDA u : u \notin Space)

\* whitespaceChanges: the differing runs of whitespace, trimmed at both ends; only
\* for texts that are the same but for whitespace.
WhitespaceChanges(before, after) ==
  LET from(at, k) == IF k = 1 THEN 0 ELSE at[k - 1]
      to(at, data, k) == IF k > Len(at) THEN Len(data) ELSE at[k] - 1
      x == Solid(before) y == Solid(after)
      run(k) == LET a == from(x, k) b == to(x, before, k)
                    text == SubSeq(after, from(y, k) + 1, to(y, after, k))
                    old == SubSeq(before, a + 1, b)
                    p == Common(old, text, Smaller(Len(old), Len(text)))
                    s == Common(Reverse(old), Reverse(text), Smaller(Len(old), Len(text)) - p)
                IN IF old = text THEN <<>>
                   ELSE <<Edit(a + p, b - s, SubSeq(text, p + 1, Len(text) - s))>>
  IN FlattenSeq([k \in 1..(Len(x) + 1) |-> run(k)])

-----------------------------------------------------------------------------
(***************************************************************************)
(* Inline ignores.                                                         *)
(***************************************************************************)

\* Where the flow scalar opens that ends on the line of the comment at i.
ScalarStart(data, i) ==
  LET quotes == {k \in 1..(i - 1) : data[k] = "'"}
      end == Max({0} \cup quotes)
      inside == {k \in quotes : k < end}
  IN IF inside # {} /\ Line(data, end) = Line(data, i) THEN Max(inside) ELSE i

\* inlineIgnores: an ignore covers its line and, after a scalar of several lines,
\* every line of the scalar; a comment without code before it ignores nothing.
InlineIgnores(data) ==
  {[rule |-> Comments[data[i]], first |-> Line(data, ScalarStart(data, i) - 1), last |-> Line(data, i - 1)] :
     i \in {i \in DOMAIN data : /\ data[i] \in DOMAIN Comments /\ Comments[data[i]] # "none"
                                /\ ~AtLineStart(data, i - 1)}}

\* What an ignore protects from edits.
Protected(data, ignore) ==
  LET starts == LineStarts(data)
  IN [from |-> starts[ignore.first],
      to |-> IF ignore.last < Len(starts) THEN starts[ignore.last + 1] ELSE Len(data)]

FixesPreserveIgnoredLines(data, edits) ==
  \A ignore \in InlineIgnores(data), k \in DOMAIN edits :
    LET lines == Protected(data, ignore) e == edits[k] IN
    ~(e.from < lines.to /\ (e.to > lines.from \/ (e.from = e.to /\ e.from >= lines.from)))
=============================================================================
