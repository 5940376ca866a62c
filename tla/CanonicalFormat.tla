--------------------------- MODULE CanonicalFormat ---------------------------
(***************************************************************************)
(* The canonical format (format/candidate.go, flow.go): two columns for    *)
(* each level, block style, one space after a mark, double quotes.  The    *)
(* builder goes through the nodes and collects edits, or fails.            *)
(***************************************************************************)
EXTENDS YamlText

Spaces(n) == [k \in 1..n |-> " "]
Newline == <<"\n">>

\* What a part of the builder returns.
Built(edits) == [edits |-> edits, why |-> ""]
Failure(why) == [edits |-> {}, why |-> why]
Then(a, b) ==
  IF a.why # "" THEN a ELSE [edits |-> a.edits \cup b.edits, why |-> b.why]

\* The first failure of several parts, or all they build.
All(parts) == FoldLeft(Then, Built({}), parts)

Change(t, from, to, text) ==
  Built(IF SubSeq(t, from + 1, to) = text THEN {} ELSE {Edit(from, to, text)})

Indent(t, offset, depth) ==
  IF AtLineStart(t, offset) THEN Change(t, LineStart(t, offset), offset, Spaces(depth)) ELSE Built({})

CanonicalScalar(units) ==
  [k \in DOMAIN units |-> IF units[k] \in DOMAIN SingleQuoted THEN SingleQuoted[units[k]] ELSE units[k]]

-----------------------------------------------------------------------------
(***************************************************************************)
(* Flow collections become block collections.  The blank lines of a gap    *)
(* stay: those before the first entry and after the last one travel with   *)
(* the rendering until what is around it has a place for them.             *)
(***************************************************************************)

Rendering(leading, body, trailing) == [leading |-> leading, body |-> body, trailing |-> trailing, why |-> ""]
NoRendering(why) == [Rendering(<<>>, <<>>, <<>>) EXCEPT !.why = why]

\* The blank lines that are complete between two offsets.
BlankLines(t, from, to) ==
  LET ends == Ascending({i \in (from + 1)..to : t[i] = "\n"})
      line(k) == SubSeq(t, ends[k - 1] + 1, ends[k])
  IN FlattenSeq([k \in DOMAIN ends |-> IF k > 1 /\ AllSpace(line(k)) THEN line(k) ELSE <<>>])

\* Mutant: the blank lines after an entry are left where the delimiter was.
MutAppended(result, entry, separator) ==
  IF result.why # "" THEN result
  ELSE [result EXCEPT !.body = @ \o separator \o entry.body, !.trailing = entry.trailing, !.why = entry.why]

\* An entry after those before it, the blank lines they left and the separator.
Appended(result, entry, separator) ==
  IF result.why # "" THEN result
  ELSE [result EXCEPT !.body = @ \o (IF separator = <<>> THEN <<>>
                                     ELSE Newline \o result.trailing \o Tail(separator)) \o entry.body,
                      !.trailing = entry.trailing, !.why = entry.why]

RECURSIVE FlowBody(_, _, _)

FlowValueBody(t, n, depth) ==
  IF Collection(n) THEN FlowBody(t, n, depth)
  ELSE IF "\n" \in ToSet(Raw(t, n)) THEN NoRendering("multiline scalar")
  ELSE Rendering(<<>>, CanonicalScalar(Raw(t, n)), <<>>)

\* What comes between a key, or a dash, and a value.
FlowGap(e, value, blank, depth) ==
  IF blank # <<>> \/ value.leading # <<>> \/ (Nonempty(e.value) /\ e.value.anchor = "")
  THEN Newline \o blank \o value.leading \o Spaces(depth + 2) ELSE <<" ">>

FlowMarker(value, depth) ==
  IF value.leading = <<>> THEN <<"-", " ">> ELSE <<"-">> \o Newline \o value.leading \o Spaces(depth + 2)

FlowItem(value, depth) ==
  IF value.why # "" THEN value ELSE Rendering(<<>>, FlowMarker(value, depth) \o value.body, value.trailing)

FlowPairBody(t, e, key, value, depth) ==
  IF e.value.from < e.key.to THEN NoRendering("key and value overlap")
  ELSE IF Collection(e.key) THEN NoRendering("complex key")
  ELSE IF key.why # "" THEN key
  ELSE IF value.why # "" THEN value
  ELSE Rendering(<<>>, key.body \o <<":">> \o FlowGap(e, value, BlankLines(t, e.key.to, e.value.from), depth) \o value.body,
                 value.trailing)

FlowEntry(t, n, e, depth) ==
  IF n.kind = "mapping" THEN FlowPairBody(t, e, FlowValueBody(t, e.key, depth), FlowValueBody(t, e.value, depth + 2), depth)
  ELSE FlowItem(FlowValueBody(t, e.value, depth + 2), depth)

\* The blank lines after an anchor, after the opening delimiter and before the closing one.
OwnLine(blanks, depth) == Newline \o blanks \o Spaces(depth)

EmptyFlow(t, n, opening, blanks, depth) ==
  <<t[opening + 1]>> \o (IF blanks = <<>> THEN <<>> ELSE OwnLine(blanks, depth)) \o <<t[n.to]>>

AnchoredEmpty(n, empty, blanks, depth) ==
  IF n.anchor = "" THEN empty ELSE <<n.anchor>> \o (IF blanks = <<>> THEN <<" ">> ELSE OwnLine(blanks, depth)) \o empty

AnchoredFlow(n, blanks, leading, result, trailing, depth) ==
  IF result.why # "" THEN result
  ELSE IF n.anchor = "" THEN Rendering(leading, result.body, result.trailing \o trailing)
  ELSE Rendering(<<>>, <<n.anchor>> \o OwnLine(blanks \o leading, depth) \o result.body, result.trailing \o trailing)

\* The entries, with what lies between them.
EntryFrom(n, k) == IF n.kind = "mapping" THEN n.entries[k].key.from ELSE n.entries[k].value.from

EntryBreak(t, n, k, depth) ==
  IF k = 1 THEN <<>> ELSE OwnLine(BlankLines(t, n.entries[k - 1].value.to, EntryFrom(n, k)), depth)

EntryBodies(t, n, depth) ==
  FoldLeftDomain(LAMBDA result, k : Appended(result, FlowEntry(t, n, n.entries[k], depth), EntryBreak(t, n, k, depth)),
                 Rendering(<<>>, <<>>, <<>>), n.entries)

FlowBodyFrom(t, n, opening, depth) ==
  LET blanks == BlankLines(t, n.from + (IF n.anchor = "" THEN 0 ELSE 1), opening)
  IN IF ~Nonempty(n)
     THEN Rendering(<<>>, AnchoredEmpty(n, EmptyFlow(t, n, opening, BlankLines(t, opening + 1, n.to - 1), depth), blanks, depth),
                    <<>>)
     ELSE AnchoredFlow(n, blanks, BlankLines(t, opening + 1, EntryFrom(n, 1)), EntryBodies(t, n, depth),
                       BlankLines(t, Last(n.entries).value.to, n.to - 1), depth)

FlowBody(t, n, depth) ==
  IF \E k \in (n.from + 1)..n.to : IsComment(t[k]) THEN NoRendering("comment inside of a flow collection")
  ELSE FlowBodyFrom(t, n, Min({k \in n.from..(n.to - 1) : t[k + 1] \in {"[", "{"}}), depth)

\* The rendering in its place: after what was before it on the line, or below.
FlowPlaced(t, n, depth, prefixStart, prefix, rendered) ==
  LET breaks == {k \in DOMAIN prefix : prefix[k] = "\n"}
      placed == IF breaks # {} THEN SubSeq(prefix, 1, Max(breaks)) \o rendered.leading \o Spaces(depth)
                ELSE IF rendered.leading = <<>> THEN prefix
                ELSE (IF prefix # <<>> \/ ~AtLineStart(t, prefixStart) THEN Newline ELSE <<>>)
                     \o rendered.leading \o Spaces(depth)
      ends == {i \in (n.to + 1)..Len(t) : t[i] = "\n"}
      end == IF rendered.trailing = <<>> THEN n.to ELSE Min(ends)
      kept == IF rendered.trailing = <<>> THEN <<>> ELSE SubSeq(t, n.to + 1, end) \o rendered.trailing
  IN IF rendered.why # "" THEN Failure(rendered.why)
     ELSE IF rendered.trailing # <<>> /\ ends = {} THEN Failure("blank gap at the end of the file")
     ELSE Then(Change(t, prefixStart, n.from, placed), Change(t, n.from, end, rendered.body \o kept))

FlowEdit(t, n, depth, prefixStart, prefix) == FlowPlaced(t, n, depth, prefixStart, prefix, FlowBody(t, n, depth))

-----------------------------------------------------------------------------
(***************************************************************************)
(* Scalars.                                                                *)
(***************************************************************************)

\* The lines of a literal move with its owner.
LiteralEdits(t, n, depth) ==
  LET start == LineStart(t, n.from)
      indentation == SkipSpaces(t, start) - start
      dashed == At(t, start + indentation) = "-" /\ At(t, start + indentation + 1) = " "
      delta == depth - (indentation + (IF dashed THEN 2 ELSE 0))
      lines == {i \in (n.from + 1)..n.to : t[i] = "\n"}
      text(i) == SkipSpaces(t, i)
      said == {i \in lines : text(i) < n.to /\ t[text(i) + 1] # "\n"}
  IN IF \E i \in said : text(i) - i + delta < 0 THEN Failure("literal cannot move")
     ELSE Built(UNION {Change(t, i, text(i), Spaces(text(i) - i + delta)).edits : i \in said})

ScalarEdits(t, n, depth) ==
  IF n.style = "literal" THEN LiteralEdits(t, n, depth)
  ELSE Change(t, n.from, n.to, CanonicalScalar(Raw(t, n)))

-----------------------------------------------------------------------------
(***************************************************************************)
(* Block collections.                                                      *)
(***************************************************************************)

RECURSIVE NodeEdits(_, _, _)

MapEntryEdits(t, e, depth) ==
  LET value == e.value
      colon == SkipSpaces(t, e.key.to)
      gap == SubSeq(t, colon + 2, value.from)
      childDepth == IF Collection(value) THEN depth + 2 ELSE depth
      want == IF \E u \in ToSet(gap) : u = "\n" \/ IsComment(u) THEN gap
              ELSE IF value.from = value.to THEN <<>>
              ELSE IF Nonempty(value) /\ value.anchor = "" THEN Newline \o Spaces(childDepth)
              ELSE <<" ">>
  IN All(<<Indent(t, e.key.from, depth), ScalarEdits(t, e.key, depth), Change(t, e.key.to, colon, <<>>)>>
         \o (IF value.style = "flow" THEN <<FlowEdit(t, value, childDepth, colon + 1, want)>>
             ELSE <<Change(t, colon + 1, value.from, want), NodeEdits(t, value, childDepth)>>))

ItemEdits(t, item, depth) ==
  LET dash == Max({k \in 0..(item.from - 1) : t[k + 1] = "-"})
      gap == SubSeq(t, dash + 2, item.from)
      want == IF \E u \in ToSet(gap) : u # " " THEN gap
              ELSE IF item.from = item.to THEN <<>> ELSE <<" ">>
  IN All(<<Indent(t, dash, depth)>>
         \o (IF item.style = "flow" THEN <<FlowEdit(t, item, depth + 2, dash + 1, want)>>
             ELSE <<Change(t, dash + 1, item.from, want), NodeEdits(t, item, depth + 2)>>))

NodeEdits(t, n, depth) ==
  IF n.style = "flow" THEN
    FlowEdit(t, n, depth, IF AtLineStart(t, n.from) THEN LineStart(t, n.from) ELSE n.from, Spaces(depth))
  ELSE IF n.kind = "mapping" THEN
    All([k \in DOMAIN n.entries |-> MapEntryEdits(t, n.entries[k], depth)])
  ELSE IF n.kind = "sequence" THEN
    All([k \in DOMAIN n.entries |-> ItemEdits(t, n.entries[k].value, depth)])
  ELSE ScalarEdits(t, n, depth)

\* canonicalCandidate: the edits in order, or why there are none.
Candidate(built) ==
  IF built.why # "" THEN [edits |-> <<>>, why |-> built.why]
  ELSE IF Overlapping(built.edits) THEN [edits |-> <<>>, why |-> "overlapping edits"]
  ELSE [edits |-> OrderEdits(built.edits), why |-> ""]

CanonicalCandidate(t, n) == Candidate(NodeEdits(t, n, 0))
=============================================================================
