------------------------------- MODULE YamlText -------------------------------
(***************************************************************************)
(* YAML documents as the source model reads them (lint/source.go adapt,    *)
(* over an external lexer and parser).  A text is a sequence of units: a   *)
(* space, a line's end, a delimiter, a scalar, an anchor or a comment.  A  *)
(* node holds the units from + 1 to `to`.  The text has one document, of   *)
(* mappings and sequences in block or flow style, scalars and literals.    *)
(***************************************************************************)
EXTENDS Edits

CONSTANTS
  Anchors,      \* units that are anchors
  SingleQuoted, \* units that are single-quoted scalars: unit -> its canonical form
  JinjaLayout   \* units with Jinja that lacks its layout: unit -> laid out

Delimiters == {"[", "]", "{", "}", ",", ":", "-", "|", "---"}

IsComment(unit) == unit \in DOMAIN Comments
IsScalar(unit) == ~(unit \in Space \cup Delimiters \cup Anchors \/ IsComment(unit))

At(t, p) == IF p < Len(t) THEN t[p + 1] ELSE "end"

\* The offset of the next unit that says something, from p on.
Skip(t, p) == Min({Len(t)} \cup {k \in p..(Len(t) - 1) : t[k + 1] \notin Space /\ ~IsComment(t[k + 1])})

SkipSpaces(t, p) == Min({Len(t)} \cup {k \in p..(Len(t) - 1) : t[k + 1] # " "})

Node(kind, style, from, to, entries) ==
  [kind |-> kind, style |-> style, from |-> from, to |-> to, entries |-> entries, anchor |-> ""]
Null(p) == Node("null", "plain", p, p, <<>>)
Malformed(p) == Node("malformed", "plain", p, p, <<>>)

\* An entry of a mapping or an item of a sequence; the key of an item is no node.
Entry(key, value) == [key |-> key, value |-> value]
NoKey == Null(0)

Nonempty(n) == n.entries # <<>>
Collection(n) == n.kind \in {"mapping", "sequence"}

\* The end of an entry, and of the entries of a collection.
EndOf(entries, p) == Max({p} \cup {entries[k].value.to : k \in DOMAIN entries})

RECURSIVE WellFormed(_)
WellFormed(n) ==
  /\ n.kind # "malformed"
  /\ \A k \in DOMAIN n.entries : WellFormed(n.entries[k].value)

ScalarNode(t, p) ==
  Node("string", IF t[p + 1] \in DOMAIN SingleQuoted THEN "single-quoted" ELSE "plain", p, p + 1, <<>>)

-----------------------------------------------------------------------------
(***************************************************************************)
(* Flow collections.  A colonless entry of a mapping has a null inside of  *)
(* its key.                                                                *)
(***************************************************************************)

RECURSIVE FlowValue(_, _), FlowEntries(_, _, _)

FlowCollection(t, p, closing, entries) ==
  LET last == IF entries = <<>> THEN p + 1 ELSE Last(entries).value.to
      key == IF entries = <<>> THEN p ELSE Last(entries).key.to
      q == Skip(t, IF last > key THEN last ELSE key)
      end == IF At(t, q) = "," THEN Skip(t, q + 1) ELSE q
  IN IF At(t, end) = closing THEN Node(IF closing = "]" THEN "sequence" ELSE "mapping", "flow", p, end + 1, entries)
     ELSE Malformed(p)

FlowValue(t, p) ==
  LET unit == At(t, p) IN
  CASE unit \in Anchors ->
         LET q == Skip(t, p + 1)
             child == IF At(t, q) \in {",", "]", "}"} THEN Null(p + 1) ELSE FlowValue(t, q)
         IN [child EXCEPT !.from = p, !.anchor = unit]
    [] unit \in {"[", "{"} ->
         LET closing == IF unit = "[" THEN "]" ELSE "}"
         IN FlowCollection(t, p, closing, FlowEntries(t, Skip(t, p + 1), closing))
    [] IsScalar(unit) /\ p < Len(t) -> ScalarNode(t, p)
    [] OTHER -> Malformed(p)

FlowPair(t, first, closing, colon) ==
  LET value == Skip(t, colon + 1)
  IN IF closing = "]" THEN Entry(NoKey, first)
     ELSE IF At(t, colon) # ":" THEN Entry(first, Null(first.from))
     ELSE IF At(t, value) \in {",", "}"} THEN Entry(first, Null(colon + 1))
     ELSE Entry(first, FlowValue(t, value))

MoreEntries(t, first, entry, closing) ==
  LET comma == Skip(t, IF entry.value.to > first.to THEN entry.value.to ELSE first.to)
  IN <<entry>> \o (IF At(t, comma) = "," THEN FlowEntries(t, Skip(t, comma + 1), closing) ELSE <<>>)

EntriesFrom(t, first, closing) ==
  IF first.kind = "malformed" THEN <<Entry(NoKey, first)>>
  ELSE MoreEntries(t, first, FlowPair(t, first, closing, Skip(t, first.to)), closing)

FlowEntries(t, p, closing) ==
  IF At(t, p) \in {closing, "end"} THEN <<>> ELSE EntriesFrom(t, FlowValue(t, p), closing)

-----------------------------------------------------------------------------
(***************************************************************************)
(* Block collections.  What belongs to an owner starts on the owner's line *)
(* or deeper than its column; a dash may stand in the column of a key.     *)
(***************************************************************************)

\* A literal's source runs to the next line that is not deeper than its owner.
LiteralEnd(t, p, column) ==
  Min({Len(t)} \cup {k \in p..(Len(t) - 1) : /\ t[k + 1] \notin Space /\ AtLineStart(t, k)
                                             /\ Line(t, k) > Line(t, p) /\ Column(t, k) <= column})

RECURSIVE Block(_, _, _), ValueAfter(_, _, _, _), MapEntries(_, _, _), Items(_, _, _)

\* The value of the owner in `column` whose mark ends at p.
OpensBlock(n) == Collection(n) /\ n.style = "block"

Inline(child, sameLine, dashes) ==
  IF sameLine /\ dashes /\ OpensBlock(child) /\ child.anchor = "" THEN Malformed(child.from) ELSE child

ValueAfter(t, p, column, dashes) ==
  LET q == Skip(t, p)
      deeper == Column(t, q) > column \/ (dashes /\ Column(t, q) = column /\ At(t, q) = "-")
  IN IF q = Len(t) \/ (Line(t, q) # Line(t, p) /\ ~deeper) THEN Null(p)
     ELSE Inline(Block(t, q, column), Line(t, q) = Line(t, p), dashes)

\* Another entry begins at p, in its column.
EntryAt(t, p, column) == p < Len(t) /\ AtLineStart(t, p) /\ Column(t, p) = column

MapEntriesFrom(t, p, column, value, next) ==
  <<Entry(ScalarNode(t, p), value)>>
  \o (IF EntryAt(t, next, column) /\ At(t, next) # "-" THEN MapEntries(t, next, column) ELSE <<>>)

MapEntry(t, p, column, value) == MapEntriesFrom(t, p, column, value, Skip(t, value.to))

MapEntries(t, p, column) ==
  LET colon == SkipSpaces(t, p + 1)
  IN IF ~IsScalar(At(t, p)) \/ At(t, colon) # ":" THEN <<Entry(NoKey, Malformed(p))>>
     ELSE MapEntry(t, p, column, ValueAfter(t, colon + 1, column, TRUE))

ItemsFrom(t, column, item, next) ==
  <<Entry(NoKey, item)>>
  \o (IF EntryAt(t, next, column) /\ At(t, next) = "-" THEN Items(t, next, column) ELSE <<>>)

BlockItem(t, column, item) == ItemsFrom(t, column, item, Skip(t, item.to))

Items(t, p, column) == BlockItem(t, column, ValueAfter(t, p + 1, column, FALSE))

\* The node at p, of an owner in `owner` (-1 for the document).
Anchored(t, p, child) ==
  IF Line(t, child.from) = Line(t, p) /\ OpensBlock(child) THEN Malformed(p)
  ELSE [child EXCEPT !.from = p, !.anchor = At(t, p)]

BlockNode(kind, p, entries) == Node(kind, "block", p, EndOf(entries, p + 1), entries)

Block(t, p, owner) ==
  LET unit == At(t, p) IN
  CASE unit \in Anchors -> Anchored(t, p, ValueAfter(t, p + 1, owner, FALSE))
    [] unit \in {"[", "{"} -> FlowValue(t, p)
    [] unit = "-" -> BlockNode("sequence", p, Items(t, p, Column(t, p)))
    [] unit = "|" -> Node("string", "literal", p, LiteralEnd(t, p, owner), <<>>)
    [] IsScalar(unit) /\ At(t, SkipSpaces(t, p + 1)) = ":" -> BlockNode("mapping", p, MapEntries(t, p, Column(t, p)))
    [] IsScalar(unit) -> ScalarNode(t, p)
    [] OTHER -> Malformed(p)

\* The document of a text; malformed when something is left over.
Document(t, n, onMarkerLine) ==
  IF ~WellFormed(n) \/ Skip(t, n.to) < Len(t) \/ (onMarkerLine /\ OpensBlock(n)) THEN Malformed(0) ELSE n

Parse(t) ==
  LET p == Skip(t, 0)
      marked == At(t, p) = "---"
      start == IF marked THEN Skip(t, p + 1) ELSE p
  IN IF start = Len(t) THEN Malformed(0)
     ELSE Document(t, Block(t, start, -1), marked /\ Line(t, start) = Line(t, p))

-----------------------------------------------------------------------------
(***************************************************************************)
(* What a node says.                                                       *)
(***************************************************************************)

Raw(t, n) == SubSeq(t, n.from + 1, n.to)

\* The lines of a sequence of units, with their ends.
Lines(units) ==
  LET ends == Ascending({i \in DOMAIN units : units[i] = "\n"} \cup {Len(units)})
      from(k) == IF k = 1 THEN 0 ELSE ends[k - 1]
  IN IF units = <<>> THEN <<>> ELSE [k \in DOMAIN ends |-> SubSeq(units, from(k) + 1, ends[k])]

Leading(line) == Min({Len(line)} \cup {k \in 0..(Len(line) - 1) : line[k + 1] # " "})
Unindented(line) == SubSeq(line, Leading(line) + 1, Len(line))
BlankLine(line) == AllSpace(line)

\* The value of a literal: its lines, indented from its first line that is not blank.
LiteralValue(t, n) ==
  LET lines == Tail(Lines(Raw(t, n)))
      said == {k \in DOMAIN lines : ~BlankLine(lines[k])}
      base == IF said = {} THEN 0 ELSE Leading(lines[Min(said)])
  IN [k \in 1..Max({0} \cup said) |-> IF BlankLine(lines[k]) THEN <<>>
                                      ELSE SubSeq(lines[k], 1 + base, Len(lines[k]))]

\* The value of a scalar; a quote is not part of it.
Value(t, n) ==
  IF n.style = "literal" THEN LiteralValue(t, n)
  ELSE LET units == SelectSeq(Raw(t, n), IsScalar)
       IN [k \in DOMAIN units |-> IF units[k] \in DOMAIN SingleQuoted THEN SingleQuoted[units[k]] ELSE units[k]]

\* The paths of the nodes: each with its node.
RECURSIVE Paths(_, _)
Paths(n, path) ==
  {<<path, n>>} \cup UNION {
    Paths(n.entries[k].value, Append(path, <<"value", k>>))
    \cup (IF n.kind = "mapping" THEN {<<Append(path, <<"key", k>>), n.entries[k].key>>} ELSE {}) : k \in DOMAIN n.entries}

\* A text as it was read: every path of it with its node.
Nodes(t) == Paths(Parse(t), <<>>)
Root(nodes) == (CHOOSE x \in nodes : x[1] = <<>>)[2]

-----------------------------------------------------------------------------
(***************************************************************************)
(* Edit plans of the formatter (format/edits.go) and the owners of         *)
(* findings (format/owner_index.go).  A stage is a sequence of edits of    *)
(* the text the stage before it leaves.                                    *)
(***************************************************************************)

(***************************************************************************)
(* Order: by start, then by end; the same edit twice counts once.          *)
(***************************************************************************)

Overlapping(edits) == \E e, f \in edits :
  e # f /\ (e.from < f.from \/ (e.from = f.from /\ e.to <= f.to)) /\ e.to > f.from

OrderEdits(edits) ==
  LET starts == Ascending({e.from : e \in edits})
      ends(s) == Ascending({e.to : e \in {f \in edits : f.from = s}})
  IN FlattenSeq([k \in DOMAIN starts |->
       [j \in DOMAIN ends(starts[k]) |->
          CHOOSE e \in edits : e.from = starts[k] /\ e.to = ends(starts[k])[j]]])

-----------------------------------------------------------------------------
(***************************************************************************)
(* Composition.  The text between two stages is a sequence of pieces: kept *)
(* units of the original, from..to, or the text of an edit.                *)
(***************************************************************************)

Kept(from, to) == [inserted |-> FALSE, from |-> from, to |-> to, text |-> <<>>]
Inserted(text) == [inserted |-> TRUE, from |-> 0, to |-> 0, text |-> text]

PieceLength(p) == IF p.inserted THEN Len(p.text) ELSE p.to - p.from

\* The units of a piece after the first `offset`, `take` of them.
Part(p, offset, take) ==
  IF p.inserted THEN Inserted(SubSeq(p.text, offset + 1, offset + take))
  ELSE Kept(p.from + offset, p.from + offset + take)

Reader(pieces) == [pieces |-> pieces, index |-> 1, offset |-> 0, out |-> <<>>]

RECURSIVE Consume(_, _, _)
Consume(reader, size, keep) ==
  IF size <= 0 THEN reader ELSE
  LET p == reader.pieces[reader.index]
      take == Smaller(size, PieceLength(p) - reader.offset)
      done == reader.offset + take = PieceLength(p)
  IN Consume([reader EXCEPT !.out = IF keep THEN Append(@, Part(p, reader.offset, take)) ELSE @,
                            !.index = IF done THEN @ + 1 ELSE @,
                            !.offset = IF done THEN 0 ELSE @ + take], size - take, keep)

Remainder(reader) ==
  IF reader.index > Len(reader.pieces) THEN reader.out ELSE
  LET p == reader.pieces[reader.index]
      rest == Part(p, reader.offset, PieceLength(p) - reader.offset)
  IN reader.out \o (IF PieceLength(rest) > 0 THEN <<rest>> ELSE <<>>)
     \o SubSeq(reader.pieces, reader.index + 1, Len(reader.pieces))

Staged(pieces, stage) ==
  LET position(k) == IF k = 1 THEN 0 ELSE stage[k - 1].to
      step(reader, k) ==
        LET e == stage[k]
            cut == Consume(Consume(reader, e.from - position(k), TRUE), e.to - e.from, FALSE)
        IN IF e.text = <<>> THEN cut ELSE [cut EXCEPT !.out = Append(@, Inserted(e.text))]
  IN Remainder(FoldLeftDomain(LAMBDA reader, k : step(reader, k), Reader(pieces), stage))

\* What lies between the kept pieces, as edits of the original.
EditsOf(pieces, length) ==
  LET close(state, p) ==
        IF p.inserted THEN [state EXCEPT !.text = @ \o p.text]
        ELSE [edits |-> IF state.cursor = p.from /\ state.text = <<>> THEN state.edits
                        ELSE Append(state.edits, Edit(state.cursor, p.from, state.text)),
              cursor |-> p.to, text |-> <<>>]
  IN FoldLeft(close, [edits |-> <<>>, cursor |-> 0, text |-> <<>>],
              Append(pieces, Kept(length, length))).edits

ComposeStages(original, stages) ==
  EditsOf(FoldLeft(Staged, <<Kept(0, Len(original))>>, stages), Len(original))

-----------------------------------------------------------------------------
(***************************************************************************)
(* Owners.  An owner has a span, a path and the owners inside of it.       *)
(***************************************************************************)

Holds(owner, from, to) == owner.from <= from /\ to <= owner.to

\* indexChildren: by start, those that start together in the order they came.
IndexChildren(children) ==
  LET starts == Ascending({c.from : c \in ToSet(children)})
  IN FlattenSeq([k \in DOMAIN starts |-> SelectSeq(children, LAMBDA c : c.from = starts[k])])

MaximumEnd(children, i) == Max({children[j].to : j \in 1..i})

\* sort.Search over 1..n: bisection, exact where the condition once true stays true.
RECURSIVE Search(_, _, _)
Search(low, high, holds) ==
  IF low = high THEN low ELSE
  LET middle == (low + high) \div 2
  IN IF holds[middle] THEN Search(low, middle, holds) ELSE Search(middle + 1, high, holds)

RECURSIVE Owner(_, _, _)
Owner(index, from, to) ==
  LET children == IndexChildren(index.children)
      limit == Search(1, Len(children) + 1, [i \in DOMAIN children |-> children[i].from > from])
      child == Search(1, limit, [i \in 1..(limit - 1) |-> MaximumEnd(children, i) >= to])
  IN IF child = limit THEN index.path ELSE Owner(children[child], from, to)

\* The promise of the index: the first child, in source order, that holds the
\* span owns it, and the node itself when none does.
RECURSIVE FirstOwner(_, _, _)
FirstOwner(index, from, to) ==
  LET children == IndexChildren(index.children)
      holding == {i \in DOMAIN children : Holds(children[i], from, to)}
  IN IF holding = {} THEN index.path ELSE FirstOwner(children[Min(holding)], from, to)

\* Every edit of a composition takes or brings something, and they are apart: in
\* order, with a kept unit between any two.
Separate(edits) ==
  /\ \A k \in DOMAIN edits : edits[k].from < edits[k].to \/ edits[k].text # <<>>
  /\ \A k \in DOMAIN edits : k > 1 => edits[k - 1].to < edits[k].from
===============================================================================
