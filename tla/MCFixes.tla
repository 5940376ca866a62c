------------------------------- MODULE MCFixes -------------------------------
(***************************************************************************)
(* The two commands that rewrite a text, for TLC: check --fix on one       *)
(* source, pass after pass, and format on one document.  They share only   *)
(* the edits; one run checks both, told apart by `part', which the initial *)
(* state chooses and no step changes; the variables of the other part are  *)
(* None.                                                                   *)
(***************************************************************************)
EXTENDS FixPlan, TLC

CONSTANTS
  Anchors, SingleQuoted, JinjaLayout, Limit, Broken,   \* of the documents
  MaxChoices, MaxEdits, MaxSiblings

VARIABLES part, document

mcVars == <<part, vars, document>>

Format == INSTANCE MCFormat WITH source <- document

-----------------------------------------------------------------------------
(* Sources: one variable whose value is an expression, with the whitespace that *)
(* a pattern's gaps may have, comments and line endings.                        *)

Texts == [t \in {"'x'"} |-> "x"]
Digits == {"0"}
Components == [s \in {"_web_domain"} |-> <<"web", "domain">>]
UnitWidths == [u \in {"{{", "}}", "if", "v:", "else", "lookup", "lookup:", "or", ">-"} |->
                 CASE u \in {"{{", "}}", "if", "v:", "or", ">-"} -> 2 [] u = "else" -> 4
                   [] u = "lookup" -> 6 [] u = "lookup:" -> 7]
CommentUnits == [c \in {"#B", "#S", "#layout", "#sections", "#parentheses", "#length"} |->
                   CASE c \in {"#B", "#S"} -> "none" [] c = "#layout" -> "layout"
                     [] c = "#sections" -> "sections" [] c = "#parentheses" -> "parentheses"
                     [] c = "#length" -> "length"]

Short == <<"a", "if", "b", "else", "c">>
Pair == <<"(", "a", "if", "b", "else", "c", ")">>
Chain == <<"a", "if", "b", "else", "c", "if", "d", "else", "e">>
Lookup == <<"lookup", "(", "a", ",", "+", "b", ",", "c", "=", "d", ")">>
Call == <<"f", ".", "g", "(", "a", ",", "b", "=", "[", "c", ",", "d", "]", ")", "|", "h">>
Dict == <<"{", "a", ":", "b", ",", "c", ":", "+", "d", "}">>
Inner == <<"f", "(", "(", "a", "if", "b", "else", "c", ")", ",", "d", ")">>

\* The text of a pattern: gap k comes before token k, the last one before the end.
Expression(ts, gaps) ==
  <<"{{">> \o FlattenSeq([k \in DOMAIN ts |-> gaps[k] \o <<ts[k]>>]) \o gaps[Len(ts) + 1] \o <<"}}">>

Usual(ts) == [k \in 1..(Len(ts) + 1) |->
                IF k \in 2..Len(ts) /\ (ts[k] \in {")", ",", ":", "=", ".", "]", "}"} \/ ts[k - 1] \in {"(", "[", "{", "=", "."}
                                        \/ (ts[k] = "(" /\ k > 1 /\ ts[k - 1] \in {"lookup", "f", "g"}))
                THEN <<>> ELSE <<" ">>]

Gaps(ts, breaks) ==
  {[Usual(ts) EXCEPT ![i] = x, ![j] = y] : i, j \in 1..(Len(ts) + 1), x, y \in breaks}

Breaks(nl) == {nl \o Spaces(0), nl \o Spaces(7), <<" ">>}

Quoted(key, value, tail, nl) == <<key, " ", "'">> \o value \o <<"'">> \o tail \o nl
Block(key, value, tail, nl) == <<key, " ", ">-">> \o tail \o nl \o <<" ", " ">> \o value \o nl

LF == <<"\n">>
CRLF == <<"\r", "\n">>

Laid(ts, breaks) == {Quoted("v:", Expression(ts, g), <<>>, LF) : g \in Gaps(ts, breaks)}
Blocks(ts, breaks) == {Block("v:", Expression(ts, g), <<>>, LF) : g \in Gaps(ts, breaks)}

Heads(nl) == {<<>>, <<"#B">> \o nl, <<"#B">> \o nl \o <<"#S">> \o nl, <<"#B">> \o nl \o nl}
Tails == {<<>>} \cup {<<" ", c>> : c \in {"#layout", "#sections", "#parentheses", "#length"}}
Single(ts, breaks) == {[Usual(ts) EXCEPT ![i] = x] : i \in 1..(Len(ts) + 1), x \in breaks}
Commented(ts, nl, tails) ==
  {head \o Quoted(key, Expression(ts, g), tail, nl) :
     head \in Heads(nl), key \in {"v:", "lookup:"}, tail \in tails, g \in Single(ts, Breaks(nl))}

\* Two expressions in one scalar, two ignores on two lines.
Two == {Quoted("v:", Expression(Pair, g) \o Expression(Short, h), <<>>, LF) :
          g \in Single(Pair, {LF, <<" ">>}), h \in Single(Short, {LF \o Spaces(7), <<" ">>})}

SomeSources ==
  UNION {Laid(ts, Breaks(LF)) \cup Blocks(ts, Breaks(LF)) : ts \in {Short, Pair}}
  \cup UNION {Laid(ts, {LF \o Spaces(7), <<" ">>}) \cup Blocks(ts, {LF \o Spaces(7), <<" ">>}) : ts \in {Lookup, Call, Chain, Inner, Dict}}
  \cup UNION {Commented(ts, LF, Tails) \cup Commented(ts, CRLF, {<<>>, <<" ", "#layout">>}) : ts \in {Short, Pair}}
  \cup Two

\* The units of the sources and of the documents.
AllWidths == UnitWidths @@ ("{{ c }}" :> 6)
AllComments == CommentUnits @@ ("#c" :> "none")
QuotedUnits == "'q'" :> "\"q\""
JinjaUnits == "{{j}}" :> "{{ j }}"

-----------------------------------------------------------------------------
MCInit ==
  \/ part = "fix" /\ Init /\ document = None
  \/ /\ part = "format" /\ Format!Init
     /\ source = None /\ pass = None /\ findings = None /\ plan = None /\ phase = None

MCNext ==
  \/ part = "fix" /\ Next /\ UNCHANGED <<part, document>>
  \/ part = "format" /\ Format!Next /\ UNCHANGED <<part, vars>>

MCSpec == MCInit /\ [][MCNext]_mcVars

-----------------------------------------------------------------------------
(* Properties.                                                             *)

\* Edits mean what they were made for, through every stage: those of a structural
\* change, those of the two stages of a format, and the owner of a span is the
\* first that holds it (EditsAreExact of FixPlan, StagesCompose and OwnersAgree of
\* MCFormat).
EditsMeanTheirText ==
  /\ part = "fix" => EditsAreExact
  /\ part = "format" => Format!StagesCompose /\ Format!OwnersAgree

\* What --diff offers --fix writes, the ignored lines come out as they were, and
\* fixing comes to an end (OfferedIsWritten, IgnoredLinesKept, FixesSettle of
\* FixPlan).
FixesAreSettled == part = "fix" => OfferedIsWritten /\ IgnoredLinesKept /\ FixesSettle

\* The canonical text passes the formatter's own verification, a plan keeps values,
\* blank lines and comments and makes no value longer than its limit, and formatting
\* settles at once (CandidateVerifies, TextIsKept, NothingLengthened of MCFormat).
FormatKeepsText ==
  part = "format" =>
    Format!CandidateVerifies /\ Format!TextIsKept /\ Format!NothingLengthened
=============================================================================
