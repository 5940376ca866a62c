--------------------------- MODULE MCEndingsProofs ---------------------------
(***************************************************************************)
(* Theorems about the report, the typing checks and the owned processes of *)
(* MCEndings, for every list of findings, set of documents, limit and set  *)
(* of helpers.                                                             *)
(***************************************************************************)
EXTENDS MCEndings, FiniteSetTheorems, TLAPS

-----------------------------------------------------------------------------
(***************************************************************************)
(* Numbering a set of places: how many of them come up to one.             *)
(***************************************************************************)

Rank(S, i) == Cardinality({j \in S : j <= i})

\* The instanced modules count as this one does.
LEMMA SameCounts ==
  /\ \A S : Human!Cardinality(S) = Cardinality(S)
  /\ \A S : Typing!Cardinality(S) = Cardinality(S)
BY Zenon DEF Human!Cardinality, Typing!Cardinality, Cardinality

\* Every place has a number, later places have larger ones, and every number up
\* to the size of the set is somebody's.
LEMMA Ranks ==
  ASSUME NEW S \in SUBSET Nat, IsFiniteSet(S)
  PROVE  /\ Cardinality(S) \in Nat
         /\ \A i \in S : Rank(S, i) \in 1..Cardinality(S)
         /\ \A i, j \in S : i < j => Rank(S, i) < Rank(S, j)
         /\ \A k \in 1..Cardinality(S) : \E i \in S : Rank(S, i) = k
<1> DEFINE Upto(i) == {j \in S : j <= i}
<1>1. \A i \in S : /\ IsFiniteSet(Upto(i)) /\ Cardinality(Upto(i)) \in Nat
                   /\ Cardinality(Upto(i)) <= Cardinality(S)
  <2> TAKE i \in S
  <2>1. Upto(i) \in SUBSET S OBVIOUS
  <2> HIDE DEF Upto
  <2> QED BY <2>1, FS_Subset, FS_CardinalityType
<1>2. Cardinality(S) \in Nat BY FS_CardinalityType
<1>3. \A i \in S : Rank(S, i) \in 1..Cardinality(S)
  <2> TAKE i \in S
  <2>1. i \in Upto(i) OBVIOUS
  <2>2. Rank(S, i) = Cardinality(Upto(i)) BY DEF Rank
  <2> HIDE DEF Upto
  <2>3. Cardinality(Upto(i)) # 0 BY <1>1, <2>1, FS_EmptySet
  <2> QED BY <1>1, <1>2, <2>2, <2>3
<1>4. \A i, j \in S : i < j => Rank(S, i) < Rank(S, j)
  <2> SUFFICES ASSUME NEW i \in S, NEW j \in S, i < j PROVE Rank(S, i) < Rank(S, j) OBVIOUS
  <2>1. Upto(i) \in SUBSET Upto(j) /\ j \in Upto(j) /\ j \notin Upto(i)
    <3>1. i \in Nat /\ j \in Nat /\ \A k \in S : k \in Nat OBVIOUS
    <3>2. j \in Upto(j) /\ j \notin Upto(i) BY <3>1
    <3>3. \A k \in Upto(i) : k \in Upto(j)
      <4> TAKE k \in Upto(i)
      <4>1. k \in S /\ k \in Nat /\ k <= i BY <3>1
      <4> QED BY <3>1, <4>1
    <3> HIDE DEF Upto
    <3> QED BY <3>2, <3>3
  <2>2. Rank(S, i) = Cardinality(Upto(i)) /\ Rank(S, j) = Cardinality(Upto(j)) BY DEF Rank
  <2> HIDE DEF Upto
  <2>3. /\ Cardinality(Upto(i)) <= Cardinality(Upto(j))
        /\ Cardinality(Upto(j)) = Cardinality(Upto(i)) => Upto(j) = Upto(i)
    BY <1>1, <2>1, FS_Subset
  <2> QED BY <1>1, <2>1, <2>2, <2>3
<1>5. \A k \in 1..Cardinality(S) : \E i \in S : Rank(S, i) = k
  <2> DEFINE n == Cardinality(S)
             f == [i \in S |-> Rank(S, i)]
  <2>1. f \in Injection(S, 1..n)
    <3>1. f \in [S -> 1..n] BY <1>3
    <3>2. ASSUME NEW i \in S, NEW j \in S, f[i] = f[j] PROVE i = j
      <4>1. Rank(S, i) = Rank(S, j) BY <3>2
      <4>2. ~(i < j) /\ ~(j < i) BY <1>3, <1>4, <4>1
      <4> QED BY <4>2
    <3> QED BY <3>1, <3>2 DEF Injection, IsInjective
  <2>2. IsFiniteSet(1..n) /\ Cardinality(1..n) = n
    BY <1>2, FS_Interval
  <2>3. f \in Surjection(S, 1..n)
    <3> HIDE DEF f
    <3> QED BY <2>1, <2>2, FS_Injection
  <2> QED BY <2>3 DEF Surjection
<1> QED BY <1>2, <1>3, <1>4, <1>5

-----------------------------------------------------------------------------
(***************************************************************************)
(* The groups of a report's findings, and its fragments.                   *)
(***************************************************************************)

\* The groups follow each other without a gap, from the first finding to the last.
LEMMA Groups ==
  ASSUME NEW list \in Seq(STRING)
  PROVE  /\ Human!GroupCount(list) \in 0..Len(list)
         /\ list # <<>> => 1 <= Human!GroupCount(list)
         /\ \A g \in 1..Human!GroupCount(list) :
              /\ Human!First(list, g) \in 1..Len(list)
              /\ Human!Last(list, g) \in 1..Len(list)
              /\ Human!First(list, g) <= Human!Last(list, g)
              /\ g = 1 => Human!First(list, g) = 1
              /\ g = Human!GroupCount(list) => Human!Last(list, g) = Len(list)
              /\ g < Human!GroupCount(list) =>
                   Human!First(list, g + 1) = Human!Last(list, g) + 1
<1> DEFINE S == Human!Starts(list)
           G == Human!GroupCount(list)
<1>1. S \in SUBSET (1..Len(list)) /\ (list # <<>> => 1 \in S)
  BY DEF Human!Starts
<1>2. IsFiniteSet(S) /\ Cardinality(S) \in 0..Len(list)
  <2>1. Len(list) \in Nat OBVIOUS
  <2>2. IsFiniteSet(1..Len(list)) /\ Cardinality(1..Len(list)) = Len(list)
    BY <2>1, FS_Interval
  <2> HIDE DEF S
  <2>3. IsFiniteSet(S) /\ Cardinality(S) <= Len(list) BY <1>1, <2>2, FS_Subset
  <2>4. Cardinality(S) \in Nat BY <2>3, FS_CardinalityType
  <2> QED BY <2>1, <2>3, <2>4
<1>3. G = Cardinality(S) BY SameCounts DEF Human!GroupCount
<1>4. S \in SUBSET Nat BY <1>1
<1>5. /\ \A i \in S : Rank(S, i) \in 1..G
      /\ \A i, j \in S : i < j => Rank(S, i) < Rank(S, j)
      /\ \A k \in 1..G : \E i \in S : Rank(S, i) = k
  <2> HIDE DEF S, G
  <2> QED BY <1>2, <1>3, <1>4, Ranks
<1>6. \A g \in 1..G : Human!First(list, g) \in S /\ Rank(S, Human!First(list, g)) = g
  <2> TAKE g \in 1..G
  <2>1. \A i \in S : Human!Cardinality({k \in S : k <= i}) = Rank(S, i)
    BY SameCounts DEF Rank
  <2>2. PICK i \in S : Rank(S, i) = g BY <1>5
  <2>3. Human!First(list, g) = CHOOSE j \in S : Human!Cardinality({k \in S : k <= j}) = g
    BY DEF Human!First
  <2> HIDE DEF S
  <2> QED BY <2>1, <2>2, <2>3
<1>7. list # <<>> => 1 <= G
  BY <1>1, <1>2, <1>3, <1>5
<1>8. \A g \in 1..G : g = 1 => Human!First(list, g) = 1
  <2> SUFFICES ASSUME 1 \in 1..G PROVE Human!First(list, 1) = 1 OBVIOUS
  <2>1. Human!First(list, 1) \in S /\ Rank(S, Human!First(list, 1)) = 1 BY <1>6
  <2>2. list # <<>> BY <1>1, <2>1
  <2>3. 1 \in S BY <1>1, <2>2
  <2>4. Human!First(list, 1) \in 1..Len(list) BY <1>1, <2>1
  <2> HIDE DEF S, G
  <2>5. Rank(S, 1) \in 1..G BY <1>5, <2>3
  <2>6. ~(1 < Human!First(list, 1)) BY <1>5, <2>1, <2>3, <2>5, <1>2, <1>3
  <2> QED BY <2>4, <2>6
<1>9. \A g \in 1..G : g < G => Human!First(list, g) < Human!First(list, g + 1)
  <2> SUFFICES ASSUME NEW g \in 1..G, g < G
               PROVE  Human!First(list, g) < Human!First(list, g + 1) OBVIOUS
  <2>0. G \in Nat BY <1>2, <1>3
  <2> HIDE DEF S, G
  <2>1. g + 1 \in 1..G BY <2>0
  <2> DEFINE a == Human!First(list, g)
             b == Human!First(list, g + 1)
  <2>2. a \in S /\ b \in S /\ Rank(S, a) = g /\ Rank(S, b) = g + 1 BY <1>6, <2>1
  <2>3. a \in Nat /\ b \in Nat BY <1>4, <2>2
  <2> HIDE DEF a, b
  <2>4. a # b BY <2>2
  <2>5. ~(b < a) BY <1>5, <2>2
  <2>6. a < b BY <2>3, <2>4, <2>5
  <2> QED BY <2>6 DEF a, b
<1>10. G \in Nat /\ Len(list) \in Nat BY <1>2, <1>3
<1>11. \A g \in 1..G : Human!First(list, g) \in 1..Len(list) BY <1>1, <1>6
<1> HIDE DEF S, G
<1>12. ASSUME NEW g \in 1..G
       PROVE  /\ Human!Last(list, g) \in 1..Len(list)
              /\ Human!First(list, g) <= Human!Last(list, g)
              /\ g = G => Human!Last(list, g) = Len(list)
              /\ g < G => Human!First(list, g + 1) = Human!Last(list, g) + 1
  <2>1. CASE g = G
    <3>1. Human!Last(list, g) = Len(list) BY <2>1 DEF Human!Last, G
    <3> QED BY <3>1, <2>1, <1>10, <1>11
  <2>2. CASE g # G
    <3>1. Human!Last(list, g) = Human!First(list, g + 1) - 1 BY <2>2 DEF Human!Last, G
    <3>2. g < G /\ g + 1 \in 1..G BY <2>2, <1>10
    <3>3. Human!First(list, g + 1) \in 1..Len(list) /\ Human!First(list, g) \in 1..Len(list)
      BY <1>11, <3>2
    <3> QED BY <3>1, <3>2, <3>3, <1>9, <1>10
  <2> QED BY <2>1, <2>2
<1> QED BY <1>2, <1>3, <1>7, <1>8, <1>11, <1>12 DEF G

\* The place in the report of piece p of finding f.
Pos(f, p) == (f - 1) * Pieces + p

\* The fragment at that place is that piece.
LEMMA FragmentAt ==
  ASSUME NEW f \in Nat \ {0}, NEW p \in 1..Pieces, Pieces \in Nat \ {0}
  PROVE  /\ Pos(f, p) \in Nat \ {0}
         /\ Human!Fragment(Pos(f, p)) = <<f, p>>
<1> DEFINE q == f - 1
           r == p - 1
<1>1. q \in Nat /\ r \in 0..(Pieces - 1) /\ f = q + 1 /\ p = r + 1 OBVIOUS
<1>2. Pos(f, p) - 1 = q * Pieces + r BY DEF Pos
<1>3. (q * Pieces + r) \div Pieces = q /\ (q * Pieces + r) % Pieces = r
  <2> HIDE DEF q, r
  <2> QED BY <1>1
<1>4. q * Pieces \in Nat
  <2> HIDE DEF q
  <2> QED BY <1>1
<1>5. Pos(f, p) \in Nat \ {0} BY <1>1, <1>2, <1>4 DEF Pos
<1> QED BY <1>1, <1>2, <1>3, <1>5 DEF Human!Fragment

LEMMA FragmentType ==
  ASSUME NEW k \in Nat \ {0}, Pieces \in Nat \ {0}
  PROVE  Human!Fragment(k) \in Nat \X Nat
<1>1. (k - 1) \div Pieces \in Nat /\ (k - 1) % Pieces \in Nat OBVIOUS
<1> QED BY <1>1 DEF Human!Fragment

\* What comes before the fragments of group g, and its last fragment.
Base(list, g) == Pos(Human!First(list, g), 1) - 1
End(list, g) == Pos(Human!Last(list, g), Pieces)

\* The pieces of one finding, and of one after the other, are neighbours.
LEMMA Positions ==
  ASSUME Pieces \in Nat \ {0}
  PROVE  /\ \A f \in Nat \ {0} : Pos(f + 1, 1) = Pos(f, Pieces) + 1
         /\ \A f \in Nat \ {0}, p \in Nat : Pos(f, p + 1) = Pos(f, p) + 1
         /\ \A f \in Nat \ {0}, p \in Nat : Pos(f, p) \in Nat
         /\ \A f, h \in Nat \ {0}, p, q \in 1..Pieces :
              f < h \/ (f = h /\ p <= q) => Pos(f, p) <= Pos(h, q)
         /\ \A f \in Nat : Pos(f, Pieces) = f * Pieces
         /\ Pos(1, 1) = 1
<1>1. \A f \in Nat : f * Pieces \in Nat OBVIOUS
<1>2. \A f \in Nat : (f + 1) * Pieces = f * Pieces + Pieces OBVIOUS
<1>3. \A f \in Nat \ {0} : (f - 1) * Pieces + Pieces = f * Pieces OBVIOUS
<1>4. \A f, h \in Nat : f <= h => f * Pieces <= h * Pieces OBVIOUS
<1>5. \A f, h \in Nat \ {0} : f < h => (f - 1) * Pieces + Pieces <= (h - 1) * Pieces
  <2> TAKE f, h \in Nat \ {0}
  <2> HAVE f < h
  <2>1. f <= h - 1 /\ h - 1 \in Nat OBVIOUS
  <2> QED BY <1>3, <1>4, <2>1
<1>6. \A f \in Nat \ {0}, p \in Nat : (f - 1) * Pieces \in Nat /\ Pos(f, p) = (f - 1) * Pieces + p
  <2> TAKE f \in Nat \ {0}, p \in Nat
  <2>1. f - 1 \in Nat OBVIOUS
  <2> QED BY <1>1, <2>1 DEF Pos
<1>7. ASSUME NEW f \in Nat \ {0}, NEW h \in Nat \ {0},
             NEW p \in 1..Pieces, NEW q \in 1..Pieces, f < h \/ (f = h /\ p <= q)
      PROVE  Pos(f, p) <= Pos(h, q)
  <2>1. /\ Pos(f, p) = (f - 1) * Pieces + p /\ (f - 1) * Pieces \in Nat
        /\ Pos(h, q) = (h - 1) * Pieces + q /\ (h - 1) * Pieces \in Nat
    BY <1>6
  <2> DEFINE a == (f - 1) * Pieces
             b == (h - 1) * Pieces
  <2>2. f < h => a + Pieces <= b BY <1>5
  <2>3. f = h => a = b OBVIOUS
  <2>4. a \in Nat /\ b \in Nat /\ Pos(f, p) = a + p /\ Pos(h, q) = b + q BY <2>1
  <2> HIDE DEF a, b
  <2> QED BY <1>7, <2>2, <2>3, <2>4
<1>8. \A f \in Nat : Pos(f, Pieces) = f * Pieces
  <2> TAKE f \in Nat
  <2> QED BY DEF Pos
<1>9. \A f \in Nat \ {0} : Pos(f + 1, 1) = Pos(f, Pieces) + 1
  <2> TAKE f \in Nat \ {0}
  <2>1. f + 1 \in Nat \ {0} /\ (f + 1) - 1 = f OBVIOUS
  <2> QED BY <2>1, <1>1, <1>8 DEF Pos
<1>10. \A f \in Nat \ {0}, p \in Nat : Pos(f, p + 1) = Pos(f, p) + 1
  <2> TAKE f \in Nat \ {0}, p \in Nat
  <2> DEFINE a == (f - 1) * Pieces
  <2>1. a \in Nat BY <1>6
  <2>2. Pos(f, p + 1) = a + (p + 1) /\ Pos(f, p) = a + p BY DEF Pos
  <2> HIDE DEF a
  <2> QED BY <2>1, <2>2
<1>11. \A f \in Nat \ {0}, p \in Nat : Pos(f, p) \in Nat
  <2> TAKE f \in Nat \ {0}, p \in Nat
  <2> DEFINE a == (f - 1) * Pieces
  <2>1. a \in Nat /\ Pos(f, p) = a + p BY <1>6
  <2> HIDE DEF a
  <2> QED BY <2>1
<1>12. Pos(1, 1) = 1 BY DEF Pos
<1> QED BY <1>7, <1>8, <1>9, <1>10, <1>11, <1>12

\* The places of one group follow those of the group before, and fill the report.
LEMMA Places ==
  ASSUME NEW list \in Seq(STRING), Pieces \in Nat \ {0}
  PROVE  /\ Len(list) * Pieces \in Nat /\ (list # <<>> => 1 <= Len(list) * Pieces)
         /\ \A g \in 1..Human!GroupCount(list) :
              /\ Base(list, g) \in Nat /\ End(list, g) \in Nat
              /\ Base(list, g) < End(list, g) /\ End(list, g) <= Len(list) * Pieces
              /\ g = 1 => Base(list, g) = 0
              /\ g = Human!GroupCount(list) => End(list, g) = Len(list) * Pieces
              /\ g < Human!GroupCount(list) => Base(list, g + 1) = End(list, g)
              /\ \A f \in Human!First(list, g)..Human!Last(list, g), p \in 1..Pieces :
                   Base(list, g) < Pos(f, p) /\ Pos(f, p) <= End(list, g)
<1>1. Len(list) \in Nat /\ (list # <<>> => 1 <= Len(list)) OBVIOUS
<1>2. Len(list) * Pieces \in Nat /\ (list # <<>> => 1 <= Len(list) * Pieces)
  <2>1. \A n \in Nat : n * Pieces \in Nat /\ (1 <= n => 1 <= n * Pieces) OBVIOUS
  <2> QED BY <1>1, <2>1
<1>3. Len(list) * Pieces = Pos(Len(list), Pieces) BY <1>1, Positions
<1> SUFFICES ASSUME NEW g \in 1..Human!GroupCount(list)
             PROVE  /\ Base(list, g) \in Nat /\ End(list, g) \in Nat
                    /\ Base(list, g) < End(list, g) /\ End(list, g) <= Len(list) * Pieces
                    /\ g = 1 => Base(list, g) = 0
                    /\ g = Human!GroupCount(list) => End(list, g) = Len(list) * Pieces
                    /\ g < Human!GroupCount(list) => Base(list, g + 1) = End(list, g)
                    /\ \A f \in Human!First(list, g)..Human!Last(list, g), p \in 1..Pieces :
                         Base(list, g) < Pos(f, p) /\ Pos(f, p) <= End(list, g)
  BY <1>2
<1> DEFINE a == Human!First(list, g)
           b == Human!Last(list, g)
<1>4. a \in 1..Len(list) /\ b \in 1..Len(list) /\ a <= b BY Groups
<1>5. /\ g = 1 => a = 1
      /\ g = Human!GroupCount(list) => b = Len(list)
      /\ g < Human!GroupCount(list) => Human!First(list, g + 1) = b + 1
  BY Groups
<1>6. Base(list, g) = Pos(a, 1) - 1 /\ End(list, g) = Pos(b, Pieces) BY DEF Base, End
<1>7. g < Human!GroupCount(list) => Base(list, g + 1) = Pos(b + 1, 1) - 1 BY <1>5 DEF Base
<1> HIDE DEF a, b
<1>8. a \in Nat \ {0} /\ b \in Nat \ {0} /\ Len(list) \in Nat \ {0} BY <1>1, <1>4
<1>9. 1 \in 1..Pieces /\ Pieces \in 1..Pieces OBVIOUS
<1>10. Pos(a, 1) \in Nat /\ Pos(b, Pieces) \in Nat /\ Pos(b + 1, 1) = Pos(b, Pieces) + 1
  BY <1>8, Positions
<1>11. Pos(b, Pieces) <= Pos(Len(list), Pieces)
  <2>1. b < Len(list) \/ (b = Len(list) /\ Pieces <= Pieces) BY <1>4, <1>8
  <2> QED BY <1>8, <1>9, <2>1, Positions
<1>12. ASSUME NEW f \in a..b, NEW p \in 1..Pieces
       PROVE  Pos(a, 1) <= Pos(f, p) /\ Pos(f, p) <= Pos(b, Pieces) /\ Pos(f, p) \in Nat
  <2>1. f \in Nat \ {0} /\ p \in Nat /\ 1 <= p /\ p <= Pieces BY <1>8
  <2>2. (a < f \/ (a = f /\ 1 <= p)) /\ (f < b \/ (f = b /\ p <= Pieces)) BY <1>8, <2>1
  <2> QED BY <1>8, <1>9, <2>1, <2>2, Positions
<1>13. Pos(a, 1) >= 1
  <2>1. 1 < a \/ (a = 1 /\ 1 <= 1) BY <1>8
  <2>2. \A f, h \in Nat \ {0}, p, q \in 1..Pieces :
          f < h \/ (f = h /\ p <= q) => Pos(f, p) <= Pos(h, q) BY Positions
  <2>3. 1 \in Nat \ {0} OBVIOUS
  <2>4. Pos(1, 1) <= Pos(a, 1)
    <3> HIDE DEF Pos
    <3> QED BY <1>8, <1>9, <2>1, <2>2, <2>3
  <2> QED BY <1>10, <2>4, Positions
<1>14. Pos(a, 1) <= Pos(b, Pieces)
  <2>1. a \in a..b BY <1>4, <1>8
  <2> QED BY <1>9, <1>12, <2>1
<1>15. a = 1 => Pos(a, 1) = 1 BY Positions
<1>16. Base(list, g) \in Nat /\ End(list, g) \in Nat /\ Base(list, g) < End(list, g)
  BY <1>6, <1>10, <1>13, <1>14
<1>17. End(list, g) <= Len(list) * Pieces BY <1>3, <1>6, <1>11
<1>18. g = Human!GroupCount(list) => End(list, g) = Len(list) * Pieces BY <1>3, <1>5, <1>6
<1>19. g < Human!GroupCount(list) => Base(list, g + 1) = End(list, g) BY <1>6, <1>7, <1>10
<1>20. g = 1 => Base(list, g) = 0 BY <1>5, <1>6, <1>15
<1>21. \A f \in a..b, p \in 1..Pieces : Base(list, g) < Pos(f, p) /\ Pos(f, p) <= End(list, g)
  BY <1>6, <1>10, <1>12
<1> QED BY <1>16, <1>17, <1>18, <1>19, <1>20, <1>21 DEF a, b

\* The sequential report of a list with findings.
LEMMA WholeReport ==
  ASSUME NEW list \in Seq(STRING), list # <<>>, Pieces \in Nat \ {0}
  PROVE  /\ Len(Human!Whole(list)) = Len(list) * Pieces + 2
         /\ Human!Whole(list)[1] = "title"
         /\ \A k \in 1..(Len(list) * Pieces) : Human!Whole(list)[k + 1] = Human!Fragment(k)
         /\ Human!Whole(list)[Len(list) * Pieces + 2] = "summary"
<1> DEFINE n == Len(list) * Pieces
           body == [k \in 1..n |-> Human!Fragment(k)]
<1>1. n \in Nat BY Places
<1>2. Human!Whole(list) = <<"title">> \o body \o <<"summary">> BY DEF Human!Whole
<1>3. \A k \in 1..n : Human!Fragment(k) \in Nat \X Nat
  <2> HIDE DEF n
  <2> QED BY <1>1, FragmentType
<1> HIDE DEF n
<1>4. body \in Seq(Nat \X Nat) /\ Len(body) = n BY <1>1, <1>3
<1>5. \A k \in 1..n : body[k] = Human!Fragment(k) OBVIOUS
<1> HIDE DEF body
<1> DEFINE Glyphs == {"title", "summary"} \cup (Nat \X Nat)
<1>6. body \in Seq(Glyphs) /\ <<"title">> \in Seq(Glyphs) /\ <<"summary">> \in Seq(Glyphs)
  BY <1>4
<1> HIDE DEF Glyphs
<1>7. /\ Len(<<"title">> \o body \o <<"summary">>) = n + 2
      /\ (<<"title">> \o body \o <<"summary">>)[1] = "title"
      /\ \A k \in 1..n : (<<"title">> \o body \o <<"summary">>)[k + 1] = body[k]
      /\ (<<"title">> \o body \o <<"summary">>)[n + 2] = "summary"
  BY <1>1, <1>4, <1>6
<1> QED BY <1>2, <1>5, <1>7 DEF n

-----------------------------------------------------------------------------
(***************************************************************************)
(* What holds of a report at any time.                                     *)
(***************************************************************************)

Jobs == 1..Human!GroupCount(ds)
Total == Len(ds) * Pieces
WorkerStates ==
  [at : {"take", "render", "emit", "cancel", "finished", "abandon", "ended"},
   job : Nat, finding : Nat \ {0}, piece : 1..Pieces]
Glyphs == {"nothing", "title", "summary"} \cup (Nat \X Nat)

Shapes ==
  /\ ds \in Reports /\ outer \in BOOLEAN /\ canceled \in BOOLEAN
  /\ queue \in Seq(Jobs) /\ Len(queue) <= Human!QueueLimit
  /\ next \in 1..(Human!GroupCount(ds) + 1)
  /\ chunks \in [Jobs -> Seq(Nat \X Nat)] /\ closed \in [Jobs -> BOOLEAN]
  /\ \A j \in Jobs : Len(chunks[j]) <= ChunkCapacity
  /\ worker \in [Human!Workers -> WorkerStates]
  /\ failures \in Seq(Nat) /\ Len(failures) <= 1
  /\ pc \in {"title", "sequential", "prime", "consume", "write", "advance",
              "join", "summary", "returned"}
  /\ job \in 1..(Human!GroupCount(ds) + 1)
  /\ verdict \in [error : {"ok", "canceled", "output"}, failureFirst : BOOLEAN]
  /\ engine \in {"none", "open", "closed"}
  /\ out \in Seq(Glyphs)
  /\ returned \in {"running", "ok", "canceled", "output", "render"}

\* Nobody renders before the title, or when the report may return.
Rests ==
  /\ pc \in {"title", "sequential", "summary", "returned"} =>
       \A w \in Human!Workers : worker[w].at = "ended"
  /\ engine = "closed" => pc = "returned"
  /\ returned = "running" <=> pc # "returned"
  /\ pc = "sequential" => Human!WorkerCount(ds) = 1
  /\ pc = "title" => /\ next = 1 /\ queue = <<>> /\ job = 1 /\ failures = <<>>
                     /\ \A j \in Jobs : chunks[j] = <<>> /\ ~closed[j]

\* Why the context is done, and what the report will say of it.
Blames ==
  /\ canceled => outer \/ failures # <<>> \/ verdict.error = "output"
  /\ verdict.error # "ok" => pc \in {"join", "returned"}
  /\ verdict.error # "output" => verdict.failureFirst
  /\ verdict.error = "canceled" => outer \/ failures # <<>>
  /\ pc \in {"title", "sequential", "summary"} => failures = <<>>
  /\ \A w \in Human!Workers :
       /\ worker[w].at = "abandon" => canceled
       /\ worker[w].at = "cancel" => failures # <<>>

\* The jobs were queued in their order, each is with one worker, and only that
\* worker closes its channel.
Queued == next - Len(queue)
Busy(w) == worker[w].at \in {"render", "emit", "cancel", "finished", "abandon"}
Owners ==
  /\ Len(queue) < next
  /\ \A i \in 1..Len(queue) : queue[i] = Queued + i - 1
  /\ \A j \in Jobs : closed[j] => j < Queued
  /\ \A w \in Human!Workers : Busy(w) =>
       /\ worker[w].job \in Jobs /\ worker[w].job < Queued /\ ~closed[worker[w].job]
       /\ \A v \in Human!Workers : Busy(v) /\ v # w => worker[v].job # worker[w].job

\* How many fragments of the report are received up to those of group j, and sent.
Received(j) ==
  IF j < job THEN End(ds, j)
  ELSE IF j > job THEN Base(ds, j)
  ELSE IF pc = "write" THEN Len(out) ELSE Len(out) - 1
Sent(j) == Received(j) + Len(chunks[j])

\* While the report lives, every channel holds the fragments that follow what was
\* received of its group, up to what its worker renders.
InStep(j) ==
  /\ Base(ds, j) <= Sent(j) /\ Sent(j) <= End(ds, j)
  /\ \A i \in 1..Len(chunks[j]) : chunks[j][i] = Human!Fragment(Received(j) + i)
  /\ Queued <= j => Sent(j) = Base(ds, j)
  /\ closed[j] => Sent(j) = End(ds, j)
Renders(w) ==
  /\ worker[w].at \in {"render", "emit", "cancel"} =>
       /\ Human!First(ds, worker[w].job) <= worker[w].finding
       /\ worker[w].finding <= Human!Last(ds, worker[w].job)
       /\ Pos(worker[w].finding, worker[w].piece) = Sent(worker[w].job) + 1
  /\ worker[w].at = "finished" => Sent(worker[w].job) = End(ds, worker[w].job)
Reading == pc \in {"prime", "consume", "write", "advance"}
Streams ==
  Reading /\ ~canceled =>
    /\ job \in Jobs
    /\ \A j \in Jobs : InStep(j)
    /\ \A w \in Human!Workers : Renders(w)
    /\ pc = "write" => held = Human!Fragment(Len(out))
    /\ pc = "advance" => Len(out) - 1 = End(ds, job)

\* What is written, and how much of it.
Written ==
  /\ Len(out) <= Len(Human!Whole(ds))
  /\ \A i \in 1..Len(out) : out[i] = Human!Whole(ds)[i]
  /\ pc = "title" => out = <<>>
  /\ pc \notin {"title", "returned"} => ds # <<>> /\ 1 <= Len(out)
  /\ pc = "sequential" => Len(out) <= Total
  /\ pc = "join" /\ ~canceled => Len(out) = Total + 1
  /\ pc = "summary" => Len(out) = Total + 1
  /\ returned = "ok" => Len(out) = Len(Human!Whole(ds))

ReportInv ==
  /\ Shapes /\ Rests /\ Blames /\ Owners /\ Streams /\ Written
  /\ Human!CauseIsReported

LEMMA Limits ==
  /\ WorkerLimit \in Nat \ {0} /\ Lookahead \in Nat \ {0}
  /\ ChunkCapacity \in Nat \ {0} /\ Pieces \in Nat \ {0}
  /\ Reports \subseteq Seq(STRING)
BY EndingsAssumption DEF EndingsAssumption, Human!ReportAssumption

\* The findings do not change, and nothing that is derived from them.
LEMMA Frame ==
  ASSUME ds' = ds
  PROVE  /\ Jobs' = Jobs /\ Human!Jobs' = Human!Jobs /\ Human!Workers' = Human!Workers
         /\ Human!QueueLimit' = Human!QueueLimit /\ Total' = Total
BY DEF Jobs, Human!Jobs, Human!Workers, Human!QueueLimit, Total

\* The places of the jobs, for the findings of a report.
LEMMA JobPlaces ==
  ASSUME ds \in Reports
  PROVE  /\ Human!GroupCount(ds) \in Nat /\ Total \in Nat
         /\ ds # <<>> => 1 \in Jobs /\ 1 <= Total
         /\ \A j \in Jobs :
              /\ j \in Nat \ {0}
              /\ Base(ds, j) \in Nat /\ End(ds, j) \in Nat
              /\ Base(ds, j) < End(ds, j) /\ End(ds, j) <= Total
              /\ j = 1 => Base(ds, j) = 0
              /\ j = Human!GroupCount(ds) => End(ds, j) = Total
              /\ j < Human!GroupCount(ds) => Base(ds, j + 1) = End(ds, j)
<1>1. ds \in Seq(STRING) /\ Pieces \in Nat \ {0} BY Limits
<1>2. Human!GroupCount(ds) \in Nat /\ (ds # <<>> => 1 <= Human!GroupCount(ds))
  BY <1>1, Groups
<1> QED BY <1>1, <1>2, Places DEF Jobs, Total

-----------------------------------------------------------------------------
(***************************************************************************)
(* The workers.                                                            *)
(***************************************************************************)

LEMMA TakeJobStep ==
  ASSUME ReportInv, NEW w \in Human!Workers, Human!TakeJob(w)
  PROVE  ReportInv'
<1> USE DEF ReportInv
<1>0. /\ ds' = ds /\ outer' = outer /\ pc' = pc /\ job' = job /\ held' = held
      /\ verdict' = verdict /\ out' = out /\ returned' = returned
      /\ canceled' = canceled /\ next' = next /\ chunks' = chunks /\ closed' = closed
      /\ failures' = failures
      /\ worker[w].at = "take"
  BY DEF Human!TakeJob, Human!Elsewhere
<1>1. /\ Jobs' = Jobs /\ Human!Workers' = Human!Workers /\ Human!QueueLimit' = Human!QueueLimit
      /\ Total' = Total
  BY <1>0, Frame
<1>2. \/ /\ worker' = [worker EXCEPT ![w].at = "ended"] /\ queue' = queue /\ engine' = engine
      \/ /\ queue # <<>> /\ queue' = Tail(queue)
         /\ worker' = [worker EXCEPT ![w] =
              [at |-> "render", job |-> Head(queue),
               finding |-> Human!First(ds, Head(queue)), piece |-> 1]]
         /\ engine' = IF engine = "none" /\ ~canceled THEN "open" ELSE engine
  BY DEF Human!TakeJob, Human!Becomes
<1>3. pc \notin {"title", "sequential", "summary", "returned"}
  BY <1>0 DEF Rests
<1>4. CASE worker' = [worker EXCEPT ![w].at = "ended"] /\ queue' = queue /\ engine' = engine
  <2>1. Shapes'
    <3>1. [worker[w] EXCEPT !.at = "ended"] \in WorkerStates
      BY DEF Shapes, WorkerStates
    <3>2. worker' \in [Human!Workers -> WorkerStates]
      BY <1>4, <3>1 DEF Shapes
    <3> QED BY <1>0, <1>1, <1>4, <3>2 DEF Shapes
  <2>2. \A v \in Human!Workers : worker'[v] = IF v = w THEN [worker[w] EXCEPT !.at = "ended"]
                                              ELSE worker[v]
    BY <1>4 DEF Shapes
  <2>3. Rests' BY <1>0, <1>1, <1>3, <1>4 DEF Rests
  <2>4. Blames' BY <1>0, <1>1, <1>4, <2>2 DEF Blames
  <2>5. Owners' BY <1>0, <1>1, <1>4, <2>2 DEF Owners, Busy, Queued
  <2>6. Streams'
    <3>1. \A j \in Jobs : InStep(j)' <=> InStep(j)
      BY <1>0, <1>4 DEF InStep, Sent, Received, Queued
    <3>2. \A v \in Human!Workers : Renders(v) => Renders(v)'
      BY <1>0, <1>4, <2>2 DEF Renders, Sent, Received
    <3> QED BY <1>0, <1>1, <3>1, <3>2 DEF Streams, Reading
  <2>7. Written' BY <1>0, <1>1 DEF Written
  <2>8. Human!CauseIsReported' BY <1>0 DEF Human!CauseIsReported
  <2> QED BY <2>1, <2>3, <2>4, <2>5, <2>6, <2>7, <2>8
<1>5. CASE /\ queue # <<>> /\ queue' = Tail(queue)
           /\ worker' = [worker EXCEPT ![w] =
                [at |-> "render", job |-> Head(queue),
                 finding |-> Human!First(ds, Head(queue)), piece |-> 1]]
           /\ engine' = IF engine = "none" /\ ~canceled THEN "open" ELSE engine
  <2> DEFINE h == Head(queue)
             new == [at |-> "render", job |-> h, finding |-> Human!First(ds, h), piece |-> 1]
  <2>1. /\ h \in Jobs /\ h = queue[1] /\ Len(queue) \in Nat /\ Len(queue) >= 1
        /\ Tail(queue) \in Seq(Jobs) /\ Len(Tail(queue)) = Len(queue) - 1
        /\ \A i \in 1..(Len(queue) - 1) : Tail(queue)[i] = queue[i + 1]
    BY <1>5 DEF Shapes
  <2>2. next \in Nat /\ h = Queued /\ Queued' = Queued + 1 /\ Queued \in Nat
    BY <1>0, <1>5, <2>1 DEF Shapes, Owners, Queued
  <2>3. Human!First(ds, h) \in Nat \ {0} /\ Human!First(ds, h) <= Human!Last(ds, h)
    <3>1. ds \in Seq(STRING) BY Limits DEF Shapes
    <3> QED BY <2>1, <3>1, Groups DEF Jobs
  <2>4. worker' = [worker EXCEPT ![w] = new] BY <1>5
  <2>5. \A v \in Human!Workers : worker'[v] = IF v = w THEN new ELSE worker[v]
    BY <2>4 DEF Shapes
  <2>6. h \in Nat /\ 1 \in 1..Pieces BY <2>1, Limits DEF Shapes, Jobs
  <2>7. new \in WorkerStates
    BY <2>3, <2>6 DEF WorkerStates
  <2>8. new.at = "render" /\ new.job = h /\ new.finding = Human!First(ds, h) /\ new.piece = 1
    OBVIOUS
  <2> HIDE DEF new, h
  <2>9. Shapes'
    <3>1. worker' \in [Human!Workers -> WorkerStates]
      BY <2>4, <2>7 DEF Shapes
    <3>2. queue' \in Seq(Jobs) /\ Len(queue') <= Human!QueueLimit
      <4>1. Human!QueueLimit \in Int
        <5>1. Human!GroupCount(ds) \in Nat BY JobPlaces DEF Shapes
        <5>2. Human!WorkerCount(ds) \in Nat BY <5>1, Limits DEF Human!WorkerCount, Human!Least
        <5>3. \A x, y \in Nat : x * y \in Nat OBVIOUS
        <5> QED BY <5>1, <5>2, <5>3, Limits DEF Human!QueueLimit, Human!Least
      <4> QED BY <1>5, <2>1, <4>1 DEF Shapes
    <3>3. engine' \in {"none", "open", "closed"} BY <1>5 DEF Shapes
    <3> QED BY <1>0, <1>1, <3>1, <3>2, <3>3 DEF Shapes
  <2>10. Rests'
    <3>1. engine' = "closed" => engine = "closed" BY <1>5
    <3> QED BY <1>0, <1>1, <1>3, <3>1 DEF Rests
  <2>11. Blames' BY <1>0, <1>1, <2>5, <2>8 DEF Blames
  <2>12. Owners'
    <3>1. Len(queue') < next' BY <1>0, <1>5, <2>1, <2>2 DEF Owners
    <3>2. \A i \in 1..Len(queue') : queue'[i] = Queued' + i - 1
      <4> SUFFICES ASSUME NEW i \in 1..Len(queue') PROVE queue'[i] = Queued' + i - 1 OBVIOUS
      <4>1. i \in 1..(Len(queue) - 1) BY <1>5, <2>1
      <4>2. i + 1 \in 1..Len(queue) BY <2>1, <4>1
      <4>3. queue[i + 1] = Queued + (i + 1) - 1 BY <4>2 DEF Owners
      <4> QED BY <1>5, <2>1, <2>2, <4>1, <4>3
    <3>3. \A j \in Jobs : closed'[j] => j < Queued'
      BY <1>0, <2>2, JobPlaces DEF Owners, Shapes
    <3>4. ASSUME NEW v \in Human!Workers, Busy(v)'
          PROVE  /\ worker'[v].job \in Jobs /\ worker'[v].job < Queued' /\ ~closed'[worker'[v].job]
                 /\ \A u \in Human!Workers : Busy(u)' /\ u # v => worker'[u].job # worker'[v].job
      <4>1. ~closed[h] BY <2>1, <2>2 DEF Owners
      <4>2. \A u \in Human!Workers : u # w => (Busy(u)' <=> Busy(u)) /\ worker'[u] = worker[u]
        BY <2>5 DEF Busy
      <4>3. \A u \in Human!Workers : Busy(u) => worker[u].job # h
        BY <2>2 DEF Owners
      <4>4. CASE v = w
        BY <1>0, <2>1, <2>2, <2>5, <2>8, <4>1, <4>2, <4>3, <4>4
      <4>5. CASE v # w
        <5>1. Busy(v) /\ worker'[v] = worker[v] BY <3>4, <4>2, <4>5
        <5>2. worker[v].job \in Jobs /\ worker[v].job < Queued /\ ~closed[worker[v].job]
          BY <5>1 DEF Owners
        <5>3. worker[v].job < Queued' BY <2>2, <5>2, JobPlaces DEF Shapes
        <5>4. \A u \in Human!Workers : Busy(u)' /\ u # v => worker'[u].job # worker[v].job
          <6> SUFFICES ASSUME NEW u \in Human!Workers, Busy(u)', u # v
                       PROVE  worker'[u].job # worker[v].job OBVIOUS
          <6>1. CASE u = w BY <2>5, <2>8, <4>3, <5>1, <6>1
          <6>2. CASE u # w BY <4>2, <5>1, <6>2 DEF Owners
          <6> QED BY <6>1, <6>2
        <5> QED BY <1>0, <5>1, <5>2, <5>3, <5>4
      <4> QED BY <4>4, <4>5
    <3> QED BY <1>1, <3>1, <3>2, <3>3, <3>4 DEF Owners
  <2>13. Streams'
    <3> SUFFICES ASSUME Reading', ~canceled' PROVE Streams' BY DEF Streams
    <3>1. Reading /\ ~canceled BY <1>0 DEF Reading
    <3>2. \A j \in Jobs : Sent(j)' = Sent(j) /\ Received(j)' = Received(j)
      BY <1>0 DEF Sent, Received
    <3>3. \A j \in Jobs : InStep(j)'
      <4> SUFFICES ASSUME NEW j \in Jobs PROVE InStep(j)' OBVIOUS
      <4>1. InStep(j) BY <3>1 DEF Streams
      <4>2. Queued' <= j => Queued <= j BY <2>2, JobPlaces DEF Shapes
      <4> QED BY <1>0, <3>2, <4>1, <4>2 DEF InStep
    <3>4. \A v \in Human!Workers : Renders(v)'
      <4> SUFFICES ASSUME NEW v \in Human!Workers PROVE Renders(v)' OBVIOUS
      <4>1. CASE v = w
        <5>1. Sent(h) = Base(ds, h) BY <2>1, <2>2, <3>1 DEF Streams, InStep
        <5>2. Pos(Human!First(ds, h), 1) = Sent(h) + 1
          <6>1. Pos(Human!First(ds, h), 1) \in Nat BY <2>3, Positions, Limits
          <6>2. Base(ds, h) = Pos(Human!First(ds, h), 1) - 1 BY DEF Base
          <6> QED BY <5>1, <6>1, <6>2
        <5>3. worker'[v] = new BY <2>5, <4>1
        <5> QED BY <1>0, <2>3, <2>8, <5>2, <5>3 DEF Renders, Sent, Received
      <4>2. CASE v # w
        <5>1. worker'[v] = worker[v] BY <2>5, <4>2
        <5>2. Renders(v) BY <3>1 DEF Streams
        <5> QED BY <1>0, <5>1, <5>2 DEF Renders, Sent, Received
      <4> QED BY <4>1, <4>2
    <3> QED BY <1>0, <1>1, <3>1, <3>3, <3>4 DEF Streams
  <2>14. Written' BY <1>0, <1>1 DEF Written
  <2>15. Human!CauseIsReported' BY <1>0 DEF Human!CauseIsReported
  <2> QED BY <2>9, <2>10, <2>11, <2>12, <2>13, <2>14, <2>15
<1> QED BY <1>2, <1>4, <1>5

\* A worker that only changes its place keeps the job, the finding and the piece.
LEMMA Becoming ==
  ASSUME Shapes, NEW w \in Human!Workers, NEW label, Human!Becomes(w, label),
         label \in {"take", "render", "emit", "cancel", "finished", "abandon", "ended"}
  PROVE  /\ worker' \in [Human!Workers -> WorkerStates]
         /\ worker'[w].at = label /\ worker'[w].job = worker[w].job
         /\ worker'[w].finding = worker[w].finding /\ worker'[w].piece = worker[w].piece
         /\ \A v \in Human!Workers : v # w => worker'[v] = worker[v]
<1>1. worker' = [worker EXCEPT ![w].at = label] BY DEF Human!Becomes
<1>2. worker[w] \in WorkerStates BY DEF Shapes
<1>3. [worker[w] EXCEPT !.at = label] \in WorkerStates BY <1>2 DEF WorkerStates
<1>4. worker'[w] = [worker[w] EXCEPT !.at = label] BY <1>1 DEF Shapes
<1>5. worker' \in [Human!Workers -> WorkerStates] BY <1>1, <1>3 DEF Shapes
<1>6. \A v \in Human!Workers : v # w => worker'[v] = worker[v] BY <1>1 DEF Shapes
<1>7. /\ worker'[w].at = label /\ worker'[w].job = worker[w].job
      /\ worker'[w].finding = worker[w].finding /\ worker'[w].piece = worker[w].piece
  BY <1>2, <1>4 DEF WorkerStates
<1> QED BY <1>5, <1>6, <1>7

LEMMA RenderStep ==
  ASSUME ReportInv, NEW w \in Human!Workers, Human!Render(w)
  PROVE  ReportInv'
<1> USE DEF ReportInv
<1>0. /\ ds' = ds /\ outer' = outer /\ pc' = pc /\ job' = job /\ held' = held
      /\ verdict' = verdict /\ out' = out /\ returned' = returned
      /\ canceled' = canceled /\ queue' = queue /\ next' = next /\ chunks' = chunks
      /\ closed' = closed /\ engine' = engine
      /\ worker[w].at = "render"
  BY DEF Human!Render, Human!Elsewhere
<1>1. /\ Jobs' = Jobs /\ Human!Workers' = Human!Workers /\ Human!QueueLimit' = Human!QueueLimit
      /\ Total' = Total
  BY <1>0, Frame
<1>2. PICK label \in {"emit", "abandon", "cancel"} :
        /\ Human!Becomes(w, label)
        /\ label = "abandon" => canceled
        /\ label = "cancel" => failures' # <<>>
        /\ failures' = failures
           \/ failures' = IF failures = <<>> THEN <<worker[w].job>> ELSE failures
  <2>1. failures = <<>> => <<worker[w].job>> # <<>> OBVIOUS
  <2> QED BY <2>1 DEF Human!Render
<1>3. /\ worker' \in [Human!Workers -> WorkerStates]
      /\ worker'[w].at = label /\ worker'[w].job = worker[w].job
      /\ worker'[w].finding = worker[w].finding /\ worker'[w].piece = worker[w].piece
      /\ \A v \in Human!Workers : v # w => worker'[v] = worker[v]
  BY <1>2, Becoming
<1>4. failures' \in Seq(Nat) /\ Len(failures') <= 1 /\ (failures # <<>> => failures' # <<>>)
  <2>1. worker[w].job \in Nat BY DEF Shapes, WorkerStates
  <2>2. <<worker[w].job>> \in Seq(Nat) /\ Len(<<worker[w].job>>) = 1 BY <2>1
  <2>3. <<worker[w].job>> # <<>> OBVIOUS
  <2>4. failures \in Seq(Nat) /\ Len(failures) <= 1 BY DEF Shapes
  <2>5. failures' = failures \/ (failures = <<>> /\ failures' = <<worker[w].job>>) BY <1>2
  <2>6. CASE failures' = failures BY <2>4, <2>6
  <2>7. CASE failures = <<>> /\ failures' = <<worker[w].job>> BY <2>2, <2>3, <2>7
  <2> QED BY <2>5, <2>6, <2>7
<1>5. pc \notin {"title", "sequential", "summary", "returned"} BY <1>0 DEF Rests
<1>6. Shapes' BY <1>0, <1>1, <1>3, <1>4 DEF Shapes
<1>7. Rests' BY <1>0, <1>1, <1>5 DEF Rests
<1>8. Blames'
  <2>1. \A v \in Human!Workers : /\ worker'[v].at = "abandon" => canceled
                                 /\ worker'[v].at = "cancel" => failures' # <<>>
    BY <1>2, <1>3, <1>4 DEF Blames
  <2> QED BY <1>0, <1>1, <1>4, <1>5, <2>1 DEF Blames
<1>9. Owners'
  <2>1. \A v \in Human!Workers : (Busy(v)' <=> Busy(v)) /\ worker'[v].job = worker[v].job
    BY <1>0, <1>2, <1>3 DEF Busy
  <2> QED BY <1>0, <1>1, <2>1 DEF Owners, Queued
<1>10. Streams'
  <2>1. \A j \in Jobs : InStep(j)' <=> InStep(j)
    BY <1>0 DEF InStep, Sent, Received, Queued
  <2>2. \A v \in Human!Workers : ~canceled /\ Renders(v) => Renders(v)'
    BY <1>0, <1>2, <1>3 DEF Renders, Sent, Received
  <2> QED BY <1>0, <1>1, <2>1, <2>2 DEF Streams, Reading
<1>11. Written' BY <1>0, <1>1 DEF Written
<1>12. Human!CauseIsReported' BY <1>0, <1>4 DEF Human!CauseIsReported
<1> QED BY <1>6, <1>7, <1>8, <1>9, <1>10, <1>11, <1>12

LEMMA CancelAfterFailureStep ==
  ASSUME ReportInv, NEW w \in Human!Workers, Human!CancelAfterFailure(w)
  PROVE  ReportInv'
<1> USE DEF ReportInv
<1>0. /\ ds' = ds /\ outer' = outer /\ pc' = pc /\ job' = job /\ held' = held
      /\ verdict' = verdict /\ out' = out /\ returned' = returned
      /\ canceled' = TRUE /\ queue' = queue /\ next' = next /\ chunks' = chunks
      /\ closed' = closed /\ failures' = failures /\ engine' = engine
      /\ worker[w].at = "cancel"
  BY DEF Human!CancelAfterFailure, Human!Elsewhere, Human!channels
<1>1. /\ Jobs' = Jobs /\ Human!Workers' = Human!Workers /\ Human!QueueLimit' = Human!QueueLimit
      /\ Total' = Total
  BY <1>0, Frame
<1>2. Human!Becomes(w, "abandon") BY DEF Human!CancelAfterFailure
<1>3. /\ worker' \in [Human!Workers -> WorkerStates]
      /\ worker'[w].at = "abandon" /\ worker'[w].job = worker[w].job
      /\ \A v \in Human!Workers : v # w => worker'[v] = worker[v]
  BY <1>2, Becoming
<1>4. pc \notin {"title", "sequential", "summary", "returned"} BY <1>0 DEF Rests
<1>5. failures # <<>> BY <1>0 DEF Blames
<1>6. Shapes' BY <1>0, <1>1, <1>3 DEF Shapes
<1>7. Rests' BY <1>0, <1>1, <1>4 DEF Rests
<1>8. Blames' BY <1>0, <1>1, <1>3, <1>4, <1>5 DEF Blames
<1>9. Owners'
  <2>1. \A v \in Human!Workers : (Busy(v)' <=> Busy(v)) /\ worker'[v].job = worker[v].job
    BY <1>0, <1>3 DEF Busy
  <2> QED BY <1>0, <1>1, <2>1 DEF Owners, Queued
<1>10. Streams' BY <1>0 DEF Streams
<1>11. Written' BY <1>0, <1>1 DEF Written
<1>12. Human!CauseIsReported' BY <1>0 DEF Human!CauseIsReported
<1> QED BY <1>6, <1>7, <1>8, <1>9, <1>10, <1>11, <1>12

LEMMA CloseJobStep ==
  ASSUME ReportInv, NEW w \in Human!Workers, Human!CloseJob(w)
  PROVE  ReportInv'
<1> USE DEF ReportInv
<1> DEFINE label == IF worker[w].at = "finished" THEN "take" ELSE "ended"
<1>0. /\ ds' = ds /\ outer' = outer /\ pc' = pc /\ job' = job /\ held' = held
      /\ verdict' = verdict /\ out' = out /\ returned' = returned
      /\ canceled' = canceled /\ queue' = queue /\ next' = next /\ chunks' = chunks
      /\ failures' = failures /\ engine' = engine
      /\ closed' = [closed EXCEPT ![worker[w].job] = TRUE]
      /\ worker[w].at \in {"finished", "abandon"}
  BY DEF Human!CloseJob, Human!Elsewhere
<1>1. /\ Jobs' = Jobs /\ Human!Workers' = Human!Workers /\ Human!QueueLimit' = Human!QueueLimit
      /\ Total' = Total
  BY <1>0, Frame
<1>2. Human!Becomes(w, label) BY DEF Human!CloseJob
<1>3. /\ worker' \in [Human!Workers -> WorkerStates]
      /\ worker'[w].at \in {"take", "ended"}
      /\ \A v \in Human!Workers : v # w => worker'[v] = worker[v]
  BY <1>2, Becoming
<1>4. pc \notin {"title", "sequential", "summary", "returned"} BY <1>0 DEF Rests
<1>5. /\ worker[w].job \in Jobs /\ worker[w].job < Queued
      /\ \A v \in Human!Workers : Busy(v) /\ v # w => worker[v].job # worker[w].job
  BY <1>0 DEF Owners, Busy
<1>6. closed' \in [Jobs -> BOOLEAN]
      /\ \A j \in Jobs : closed'[j] <=> (j = worker[w].job \/ closed[j])
  BY <1>0, <1>5 DEF Shapes
<1>7. Shapes' BY <1>0, <1>1, <1>3, <1>6 DEF Shapes
<1>8. Rests' BY <1>0, <1>1, <1>4 DEF Rests
<1>9. Blames' BY <1>0, <1>1, <1>3, <1>4 DEF Blames
<1>10. Owners'
  <2>1. \A v \in Human!Workers : Busy(v)' => Busy(v) /\ v # w /\ worker'[v] = worker[v]
    BY <1>3 DEF Busy
  <2>2. \A j \in Jobs : closed'[j] => j < Queued BY <1>5, <1>6 DEF Owners
  <2>3. ASSUME NEW v \in Human!Workers, Busy(v)'
        PROVE  /\ worker'[v].job \in Jobs /\ worker'[v].job < Queued /\ ~closed'[worker'[v].job]
               /\ \A u \in Human!Workers : Busy(u)' /\ u # v => worker'[u].job # worker'[v].job
    <3>1. Busy(v) /\ v # w /\ worker'[v] = worker[v] BY <2>1, <2>3
    <3>2. /\ worker[v].job \in Jobs /\ worker[v].job < Queued /\ ~closed[worker[v].job]
          /\ \A u \in Human!Workers : Busy(u) /\ u # v => worker[u].job # worker[v].job
      BY <3>1 DEF Owners
    <3>3. worker[v].job # worker[w].job BY <1>5, <3>1
    <3> QED BY <1>6, <2>1, <3>1, <3>2, <3>3
  <2> QED BY <1>0, <1>1, <2>2, <2>3 DEF Owners, Queued
<1>11. Streams'
  <2> SUFFICES ASSUME Reading', ~canceled' PROVE Streams' BY DEF Streams
  <2>1. Reading /\ ~canceled BY <1>0 DEF Reading
  <2>2. worker[w].at = "finished" BY <1>0, <2>1 DEF Blames
  <2>3. Sent(worker[w].job) = End(ds, worker[w].job) BY <2>1, <2>2 DEF Streams, Renders
  <2>4. \A j \in Jobs : InStep(j)'
    <3> SUFFICES ASSUME NEW j \in Jobs PROVE InStep(j)' OBVIOUS
    <3>1. InStep(j) BY <2>1 DEF Streams
    <3>2. closed'[j] => Sent(j) = End(ds, j) BY <1>6, <2>3, <3>1 DEF InStep
    <3> QED BY <1>0, <3>1, <3>2 DEF InStep, Sent, Received, Queued
  <2>5. \A v \in Human!Workers : Renders(v)'
    <3> SUFFICES ASSUME NEW v \in Human!Workers PROVE Renders(v)' OBVIOUS
    <3>1. CASE v = w BY <1>3, <3>1 DEF Renders
    <3>2. CASE v # w
      <4>1. Renders(v) /\ worker'[v] = worker[v] BY <1>3, <2>1, <3>2 DEF Streams
      <4> QED BY <1>0, <4>1 DEF Renders, Sent, Received
    <3> QED BY <3>1, <3>2
  <2> QED BY <1>0, <1>1, <2>1, <2>4, <2>5 DEF Streams
<1>12. Written' BY <1>0, <1>1 DEF Written
<1>13. Human!CauseIsReported' BY <1>0 DEF Human!CauseIsReported
<1> QED BY <1>7, <1>8, <1>9, <1>10, <1>11, <1>12, <1>13

LEMMA EmitStep ==
  ASSUME ReportInv, NEW w \in Human!Workers, Human!Emit(w)
  PROVE  ReportInv'
<1> USE DEF ReportInv
<1> DEFINE j0 == worker[w].job
           f == worker[w].finding
           p == worker[w].piece
<1>0. /\ ds' = ds /\ outer' = outer /\ pc' = pc /\ job' = job /\ held' = held
      /\ verdict' = verdict /\ out' = out /\ returned' = returned
      /\ canceled' = canceled /\ queue' = queue /\ next' = next /\ closed' = closed
      /\ failures' = failures /\ engine' = engine
      /\ worker[w].at = "emit"
  BY DEF Human!Emit, Human!Elsewhere
<1>1. /\ Jobs' = Jobs /\ Human!Workers' = Human!Workers /\ Human!QueueLimit' = Human!QueueLimit
      /\ Total' = Total
  BY <1>0, Frame
<1>2. pc \notin {"title", "sequential", "summary", "returned"} BY <1>0 DEF Rests
<1>3. /\ j0 \in Jobs /\ j0 < Queued /\ ~closed[j0]
      /\ \A v \in Human!Workers : Busy(v) /\ v # w => worker[v].job # j0
  BY <1>0 DEF Owners, Busy
<1>4. CASE canceled /\ Human!Becomes(w, "abandon") /\ chunks' = chunks
  <2>1. /\ worker' \in [Human!Workers -> WorkerStates]
        /\ worker'[w].at = "abandon" /\ worker'[w].job = worker[w].job
        /\ \A v \in Human!Workers : v # w => worker'[v] = worker[v]
    BY <1>4, Becoming
  <2>2. Shapes' BY <1>0, <1>1, <1>4, <2>1 DEF Shapes
  <2>3. Rests' BY <1>0, <1>1, <1>2 DEF Rests
  <2>4. Blames' BY <1>0, <1>1, <1>2, <1>4, <2>1 DEF Blames
  <2>5. Owners'
    <3>1. \A v \in Human!Workers : (Busy(v)' <=> Busy(v)) /\ worker'[v].job = worker[v].job
      BY <1>0, <2>1 DEF Busy
    <3> QED BY <1>0, <1>1, <3>1 DEF Owners, Queued
  <2>6. Streams' BY <1>0, <1>4 DEF Streams
  <2>7. Written' BY <1>0, <1>1 DEF Written
  <2>8. Human!CauseIsReported' BY <1>0 DEF Human!CauseIsReported
  <2> QED BY <2>2, <2>3, <2>4, <2>5, <2>6, <2>7, <2>8
<1>5. CASE /\ Len(chunks[j0]) < ChunkCapacity
           /\ chunks' = [chunks EXCEPT ![j0] = Append(@, <<f, p>>)]
           /\ worker' = [worker EXCEPT ![w] = Human!NextFragment(w)]
  <2> DEFINE new == Human!NextFragment(w)
  <2>1. worker[w] \in WorkerStates /\ f \in Nat \ {0} /\ p \in 1..Pieces /\ Pieces \in Nat \ {0}
        /\ j0 \in Nat
    BY Limits DEF Shapes, WorkerStates
  <2>2. /\ new \in WorkerStates /\ new.job = j0
        /\ new.at \in {"render", "finished"}
        /\ new.at = "render" =>
             \/ p < Pieces /\ new.finding = f /\ new.piece = p + 1
             \/ p = Pieces /\ f < Human!Last(ds, j0) /\ new.finding = f + 1 /\ new.piece = 1
        /\ new.at = "finished" => p = Pieces /\ ~(f < Human!Last(ds, j0))
    <3>1. CASE p < Pieces
      <4>1. new = [worker[w] EXCEPT !.piece = p + 1, !.at = "render"]
        BY <3>1 DEF Human!NextFragment
      <4>2. p + 1 \in 1..Pieces BY <2>1, <3>1
      <4> HIDE DEF new
      <4> QED BY <2>1, <3>1, <4>1, <4>2 DEF WorkerStates
    <3>2. CASE ~(p < Pieces) /\ f < Human!Last(ds, j0)
      <4>1. new = [worker[w] EXCEPT !.piece = 1, !.finding = f + 1, !.at = "render"]
        BY <3>2 DEF Human!NextFragment
      <4>2. f + 1 \in Nat \ {0} /\ p = Pieces /\ 1 \in 1..Pieces BY <2>1, <3>2
      <4> HIDE DEF new
      <4> QED BY <2>1, <3>2, <4>1, <4>2 DEF WorkerStates
    <3>3. CASE ~(p < Pieces) /\ ~(f < Human!Last(ds, j0))
      <4>1. new = [worker[w] EXCEPT !.at = "finished"] BY <3>3 DEF Human!NextFragment
      <4>2. p = Pieces BY <2>1, <3>3
      <4> HIDE DEF new
      <4> QED BY <2>1, <3>3, <4>1, <4>2 DEF WorkerStates
    <3> QED BY <3>1, <3>2, <3>3
  <2> HIDE DEF new
  <2>3. /\ worker' \in [Human!Workers -> WorkerStates] /\ worker'[w] = new
        /\ \A v \in Human!Workers : v # w => worker'[v] = worker[v]
    BY <1>5, <2>2 DEF Shapes, new
  <2>4. chunks[j0] \in Seq(Nat \X Nat) /\ <<f, p>> \in Nat \X Nat
    BY <1>3, <2>1 DEF Shapes
  <2>5. /\ chunks' \in [Jobs -> Seq(Nat \X Nat)]
        /\ chunks'[j0] = Append(chunks[j0], <<f, p>>)
        /\ \A j \in Jobs : j # j0 => chunks'[j] = chunks[j]
    <3>1. Append(chunks[j0], <<f, p>>) \in Seq(Nat \X Nat) BY <2>4
    <3> QED BY <1>3, <1>5, <3>1 DEF Shapes
  <2>6. /\ Len(chunks'[j0]) = Len(chunks[j0]) + 1 /\ Len(chunks[j0]) \in Nat
        /\ chunks'[j0][Len(chunks[j0]) + 1] = <<f, p>>
        /\ \A i \in 1..Len(chunks[j0]) : chunks'[j0][i] = chunks[j0][i]
    BY <2>4, <2>5
  <2>7. Shapes'
    <3>1. \A j \in Jobs : Len(chunks'[j]) <= ChunkCapacity
      BY <1>5, <2>5, <2>6, Limits DEF Shapes
    <3> QED BY <1>0, <1>1, <2>3, <2>5, <3>1 DEF Shapes
  <2>8. Rests' BY <1>0, <1>1, <1>2 DEF Rests
  <2>9. Blames' BY <1>0, <1>1, <1>2, <2>2, <2>3 DEF Blames
  <2>10. Owners'
    <3>1. \A v \in Human!Workers : (Busy(v)' <=> Busy(v)) /\ worker'[v].job = worker[v].job
      BY <1>0, <2>2, <2>3 DEF Busy
    <3> QED BY <1>0, <1>1, <3>1 DEF Owners, Queued
  <2>11. Streams'
    <3> SUFFICES ASSUME Reading', ~canceled' PROVE Streams' BY DEF Streams
    <3>1. Reading /\ ~canceled BY <1>0 DEF Reading
    <3>2. /\ job \in Jobs /\ InStep(j0) /\ Renders(w) BY <1>3, <3>1 DEF Streams
    <3>3. \A j \in Jobs : Received(j)' = Received(j) /\ Received(j) \in Int
      BY <1>0, JobPlaces DEF Received, Shapes
    <3>4. /\ Human!First(ds, j0) <= f /\ f <= Human!Last(ds, j0)
          /\ Pos(f, p) = Sent(j0) + 1
      BY <1>0, <3>2 DEF Renders
    <3>5. /\ Human!First(ds, j0) \in Nat /\ Human!Last(ds, j0) \in Nat /\ ds \in Seq(STRING)
      BY <1>3, Limits, Groups DEF Shapes, Jobs
    <3>6. /\ Base(ds, j0) < Pos(f, p) /\ Pos(f, p) <= End(ds, j0)
          /\ Base(ds, j0) \in Nat /\ End(ds, j0) \in Nat /\ Pos(f, p) \in Nat
      <4>1. f \in Human!First(ds, j0)..Human!Last(ds, j0) BY <2>1, <3>4, <3>5
      <4>2. Pos(f, p) \in Nat BY <2>1, Positions
      <4> HIDE DEF j0, f, p
      <4> QED BY <1>3, <2>1, <3>5, <4>1, <4>2, Places DEF Jobs
    <3>7. Human!Fragment(Pos(f, p)) = <<f, p>> BY <2>1, FragmentAt
    <3>8. \A j \in Jobs : j = j0 => Sent(j)' = Sent(j) + 1 /\ Sent(j) = Received(j) + Len(chunks[j])
                                   /\ Len(chunks'[j]) = Len(chunks[j]) + 1
      BY <1>3, <2>6, <3>3 DEF Sent
    <3>9. \A j \in Jobs : j # j0 => Sent(j)' = Sent(j) BY <2>5, <3>3 DEF Sent
    <3>10. ASSUME NEW j \in Jobs PROVE InStep(j)'
      <4>1. CASE j # j0
        <5>1. InStep(j) BY <3>1 DEF Streams
        <5> QED BY <1>0, <2>5, <3>3, <3>9, <4>1, <5>1 DEF InStep, Queued
      <4>2. CASE j = j0
        <5>1. Base(ds, j) <= Sent(j)' /\ Sent(j)' <= End(ds, j)
          BY <3>3, <3>4, <3>6, <3>8, <4>2
        <5>2. \A i \in 1..Len(chunks'[j]) : chunks'[j][i] = Human!Fragment(Received(j) + i)
          <6> SUFFICES ASSUME NEW i \in 1..Len(chunks'[j])
                       PROVE  chunks'[j][i] = Human!Fragment(Received(j) + i) OBVIOUS
          <6>1. CASE i \in 1..Len(chunks[j]) BY <2>6, <3>2, <4>2, <6>1 DEF InStep
          <6>2. CASE i = Len(chunks[j]) + 1
            <7>1. Received(j) + i = Pos(f, p)
              BY <2>6, <3>3, <3>4, <3>8, <4>2, <6>2
            <7> QED BY <2>6, <3>7, <4>2, <6>2, <7>1
          <6>3. i \in 1..Len(chunks[j]) \/ i = Len(chunks[j]) + 1 BY <2>6, <4>2
          <6> QED BY <6>1, <6>2, <6>3
        <5>3. ~(Queued' <= j) /\ ~closed'[j]
          <6>1. Queued' = Queued /\ Queued \in Int BY <1>0 DEF Queued, Shapes
          <6> QED BY <1>0, <1>3, <2>1, <4>2, <6>1
        <5> QED BY <1>0, <3>3, <4>2, <5>1, <5>2, <5>3 DEF InStep
      <4> QED BY <4>1, <4>2
    <3>11. ASSUME NEW v \in Human!Workers PROVE Renders(v)'
      <4>1. CASE v # w
        <5>1. Renders(v) /\ worker'[v] = worker[v] BY <2>3, <3>1, <4>1 DEF Streams
        <5>2. CASE Busy(v)
          <6>1. worker[v].job \in Jobs /\ worker[v].job # j0 BY <1>3, <4>1, <5>2 DEF Owners
          <6>2. Len(chunks'[worker[v].job]) = Len(chunks[worker[v].job]) BY <2>5, <6>1
          <6> QED BY <1>0, <5>1, <6>2 DEF Renders, Sent, Received
        <5>3. CASE ~Busy(v) BY <5>1, <5>3 DEF Renders, Busy
        <5> QED BY <5>2, <5>3
      <4>2. CASE v = w
        <5>1. worker'[v] = new /\ worker'[v].job = j0 BY <2>2, <2>3, <4>2
        <5>2. \A j \in Jobs : j = j0 => Sent(j)' = Pos(f, p) BY <3>4, <3>8
        <5>3. new.at = "render" =>
                /\ Human!First(ds, j0) <= new.finding /\ new.finding <= Human!Last(ds, j0)
                /\ Pos(new.finding, new.piece) = Pos(f, p) + 1
          <6>1. \A g \in Nat \ {0} : Pos(g + 1, 1) = Pos(g, Pieces) + 1 BY <2>1, Positions
          <6>2. \A g \in Nat \ {0}, q \in Nat : Pos(g, q + 1) = Pos(g, q) + 1 BY <2>1, Positions
          <6> HIDE DEF f, p, j0
          <6> QED BY <2>1, <2>2, <3>4, <3>5, <6>1, <6>2
        <5>4. new.at = "finished" => Pos(f, p) = End(ds, j0)
          <6>1. new.at = "finished" => p = Pieces /\ f = Human!Last(ds, j0)
            BY <2>1, <2>2, <3>4, <3>5
          <6> QED BY <6>1 DEF End
        <5>5. \A j \in Jobs : j = j0 =>
                /\ worker'[v].at \in {"render", "emit", "cancel"} =>
                     /\ Human!First(ds', j) <= worker'[v].finding
                     /\ worker'[v].finding <= Human!Last(ds', j)
                     /\ Pos(worker'[v].finding, worker'[v].piece) = Sent(j)' + 1
                /\ worker'[v].at = "finished" => Sent(j)' = End(ds', j)
          BY <1>0, <2>2, <5>1, <5>2, <5>3, <5>4
        <5> QED BY <1>3, <5>1, <5>5 DEF Renders, Sent, Received
      <4> QED BY <4>1, <4>2
    <3> QED BY <1>0, <1>1, <3>1, <3>10, <3>11 DEF Streams
  <2>12. Written' BY <1>0, <1>1 DEF Written
  <2>13. Human!CauseIsReported' BY <1>0 DEF Human!CauseIsReported
  <2> QED BY <2>7, <2>8, <2>9, <2>10, <2>11, <2>12, <2>13
<1> QED BY <1>0, <1>4, <1>5 DEF Human!Emit

LEMMA WorkerSteps ==
  ASSUME ReportInv, NEW w \in Human!Workers, Human!WorkerStep(w)
  PROVE  ReportInv'
BY TakeJobStep, RenderStep, CancelAfterFailureStep, EmitStep, CloseJobStep DEF Human!WorkerStep

-----------------------------------------------------------------------------
(***************************************************************************)
(* The caller's goroutine.                                                 *)
(***************************************************************************)

LEMMA CallerCancelsStep ==
  ASSUME ReportInv, Human!CallerCancels
  PROVE  ReportInv'
<1> USE DEF ReportInv
<1>0. /\ ds' = ds /\ outer' = TRUE /\ canceled' = TRUE /\ queue' = queue /\ next' = next
      /\ chunks' = chunks /\ closed' = closed /\ worker' = worker /\ failures' = failures
      /\ pc' = pc /\ job' = job /\ held' = held /\ verdict' = verdict /\ engine' = engine
      /\ out' = out /\ returned' = returned
  BY DEF Human!CallerCancels, Human!channels
<1>1. /\ Jobs' = Jobs /\ Human!Workers' = Human!Workers /\ Human!QueueLimit' = Human!QueueLimit
      /\ Total' = Total
  BY <1>0, Frame
<1>2. Shapes' BY <1>0, <1>1 DEF Shapes
<1>3. Rests' BY <1>0, <1>1 DEF Rests
<1>4. Blames' BY <1>0, <1>1 DEF Blames
<1>5. Owners' BY <1>0, <1>1 DEF Owners, Busy, Queued
<1>6. Streams' BY <1>0 DEF Streams
<1>7. Written' BY <1>0, <1>1 DEF Written
<1>8. Human!CauseIsReported' BY <1>0 DEF Human!CauseIsReported
<1> QED BY <1>2, <1>3, <1>4, <1>5, <1>6, <1>7, <1>8

\* A report returns when its workers have ended, and names a cause it has.
LEMMA Returning ==
  ASSUME ReportInv, NEW error \in {"ok", "canceled", "output", "render"},
         Human!Return(error),
         ds' = ds, outer' = outer, queue' = queue, next' = next, chunks' = chunks,
         closed' = closed, failures' = failures, worker' = worker,
         \A w \in Human!Workers : worker[w].at = "ended",
         out' \in Seq(Glyphs), Len(out') <= Len(Human!Whole(ds)),
         \A i \in 1..Len(out') : out'[i] = Human!Whole(ds)[i],
         error = "ok" => Len(out') = Len(Human!Whole(ds)),
         error = "canceled" => outer,
         error = "render" /\ Human!WorkerCount(ds) > 1 => failures # <<>>
  PROVE  ReportInv'
<1> USE DEF ReportInv
<1>0. /\ pc' = "returned" /\ returned' = error
      /\ engine' = (IF engine = "open" THEN "closed" ELSE engine)
      /\ canceled' = canceled /\ job' = job /\ held' = held /\ verdict' = verdict
  BY DEF Human!Return
<1>1. /\ Jobs' = Jobs /\ Human!Workers' = Human!Workers /\ Human!QueueLimit' = Human!QueueLimit
      /\ Total' = Total
  BY Frame
<1>2. Shapes' BY <1>0, <1>1 DEF Shapes
<1>3. Rests' BY <1>0, <1>1 DEF Rests
<1>4. Blames' BY <1>0, <1>1 DEF Blames
<1>5. Owners' BY <1>0, <1>1 DEF Owners, Busy, Queued
<1>6. Streams' BY <1>0 DEF Streams, Reading
<1>7. Written' BY <1>0, <1>1 DEF Written
<1>8. Human!CauseIsReported' BY <1>0 DEF Human!CauseIsReported
<1> QED BY <1>2, <1>3, <1>4, <1>5, <1>6, <1>7, <1>8

\* The next unit of the sequential report keeps the output its prefix.
LEMMA Writing ==
  ASSUME ReportInv, NEW text \in Glyphs, Human!WriteOut(text), ds' = ds,
         Len(out) + 1 <= Len(Human!Whole(ds)), text = Human!Whole(ds)[Len(out) + 1]
  PROVE  /\ ~canceled /\ Len(out) \in Nat /\ Len(out') = Len(out) + 1
         /\ out' \in Seq(Glyphs) /\ Len(out') <= Len(Human!Whole(ds))
         /\ \A i \in 1..Len(out') : out'[i] = Human!Whole(ds)[i]
<1>1. ~canceled /\ out' = Append(out, text) BY DEF Human!WriteOut
<1>2. out \in Seq(Glyphs) BY DEF ReportInv, Shapes
<1>3. /\ Len(out) \in Nat /\ Len(out') = Len(out) + 1 /\ out' \in Seq(Glyphs)
      /\ out'[Len(out) + 1] = text /\ \A i \in 1..Len(out) : out'[i] = out[i]
  BY <1>1, <1>2
<1>4. \A i \in 1..Len(out) : out[i] = Human!Whole(ds)[i] BY DEF ReportInv, Written
<1>5. \A i \in 1..Len(out') : i \in 1..Len(out) \/ i = Len(out) + 1 BY <1>3
<1> QED BY <1>1, <1>3, <1>4, <1>5

\* A reader that gives up cancels the rest, for a cause the report has.
LEMMA GivingUp ==
  ASSUME ReportInv, Reading, NEW error, NEW first \in BOOLEAN,
         Human!GiveUp(error, first),
         \/ error = "canceled" /\ first /\ canceled
         \/ error = "output",
         ds' = ds, outer' = outer, queue' = queue, next' = next, chunks' = chunks,
         closed' = closed, failures' = failures, worker' = worker, job' = job,
         engine' = engine, out' = out, returned' = returned
  PROVE  ReportInv'
<1> USE DEF ReportInv
<1>0. /\ canceled' = TRUE /\ pc' = "join" /\ verdict' = [error |-> error, failureFirst |-> first]
  BY DEF Human!GiveUp
<1>1. /\ Jobs' = Jobs /\ Human!Workers' = Human!Workers /\ Human!QueueLimit' = Human!QueueLimit
      /\ Total' = Total
  BY Frame
<1>2. /\ verdict' \in [error : {"ok", "canceled", "output"}, failureFirst : BOOLEAN]
      /\ verdict'.error = error /\ verdict'.failureFirst = first
  BY <1>0
<1>3. Shapes' BY <1>0, <1>1, <1>2 DEF Shapes
<1>4. Rests' BY <1>0, <1>1 DEF Rests, Reading
<1>5. Blames'
  <2>1. verdict.error = "ok" BY DEF Blames, Reading, Shapes
  <2> QED BY <1>0, <1>1, <1>2, <2>1 DEF Blames
<1>6. Owners' BY <1>0, <1>1 DEF Owners, Busy, Queued
<1>7. Streams' BY <1>0 DEF Streams, Reading
<1>8. Written' BY <1>0, <1>1 DEF Written, Reading
<1>9. Human!CauseIsReported' BY <1>0 DEF Human!CauseIsReported
<1> QED BY <1>3, <1>4, <1>5, <1>6, <1>7, <1>8, <1>9

LEMMA WriteTitleStep ==
  ASSUME ReportInv, Human!WriteTitle
  PROVE  ReportInv'
<1> USE DEF ReportInv
<1>0. /\ ds' = ds /\ outer' = outer /\ queue' = queue /\ next' = next /\ chunks' = chunks
      /\ closed' = closed /\ failures' = failures /\ pc = "title"
  BY DEF Human!WriteTitle, Human!channels
<1>1. /\ \A w \in Human!Workers : worker[w].at = "ended"
      /\ next = 1 /\ queue = <<>> /\ job = 1 /\ failures = <<>> /\ returned = "running"
      /\ \A j \in Jobs : chunks[j] = <<>> /\ ~closed[j]
      /\ out = <<>> /\ engine # "closed"
  BY <1>0 DEF Rests, Written
<1>2. ds \in Seq(STRING) /\ Pieces \in Nat \ {0} BY Limits DEF Shapes
<1>3. canceled => outer BY <1>0, <1>1 DEF Blames, Shapes
<1>4. CASE ds = <<>> /\ out' = <<"nothing">> /\ Human!Return("ok") /\ worker' = worker
  <2>1. Human!Whole(ds) = <<"nothing">> BY <1>4 DEF Human!Whole
  <2>2. "nothing" \in Glyphs BY DEF Glyphs
  <2>3. out' \in Seq(Glyphs) BY <1>4, <2>2
  <2> QED BY <1>0, <1>1, <1>4, <2>1, <2>3, Returning
<1>5. CASE worker' = worker /\ out' = out /\ Human!Return("canceled") /\ canceled
  <2>1. out' \in Seq(Glyphs) /\ Len(out') <= Len(Human!Whole(ds))
        /\ \A i \in 1..Len(out') : out'[i] = Human!Whole(ds)[i]
    BY <1>5 DEF Shapes, Written
  <2> QED BY <1>0, <1>1, <1>3, <1>5, <2>1, Returning
<1>6. CASE worker' = worker /\ out' = out /\ Human!Return("output")
  <2>1. out' \in Seq(Glyphs) /\ Len(out') <= Len(Human!Whole(ds))
        /\ \A i \in 1..Len(out') : out'[i] = Human!Whole(ds)[i]
    BY <1>6 DEF Shapes, Written
  <2> QED BY <1>0, <1>1, <1>6, <2>1, Returning
<1>7. CASE /\ ds # <<>> /\ Human!WriteOut("title")
           /\ IF Human!WorkerCount(ds) = 1
              THEN pc' = "sequential" /\ worker' = worker
              ELSE pc' = "prime"
                   /\ worker' = [w \in Human!Workers |-> [Human!Idle EXCEPT !.at = "take"]]
           /\ canceled' = canceled /\ job' = job /\ held' = held /\ verdict' = verdict
           /\ engine' = engine /\ returned' = returned
  <2>1. /\ Jobs' = Jobs /\ Human!Workers' = Human!Workers
        /\ Human!QueueLimit' = Human!QueueLimit /\ Total' = Total
    BY <1>0, Frame
  <2>2. /\ Len(Human!Whole(ds)) = Total + 2 /\ Human!Whole(ds)[1] = "title"
        /\ Total \in Nat /\ 1 <= Total /\ 1 \in Jobs
    BY <1>2, <1>7, WholeReport, JobPlaces DEF Total, Shapes
  <2>3. /\ ~canceled /\ Len(out') = 1 /\ out' \in Seq(Glyphs)
        /\ Len(out') <= Len(Human!Whole(ds))
        /\ \A i \in 1..Len(out') : out'[i] = Human!Whole(ds)[i]
    <3>1. "title" \in Glyphs BY DEF Glyphs
    <3>2. Len(out) = 0 BY <1>1
    <3>3. Len(out) + 1 <= Len(Human!Whole(ds)) /\ "title" = Human!Whole(ds)[Len(out) + 1]
      BY <2>2, <3>2
    <3> HIDE DEF ReportInv
    <3>4. /\ ~canceled /\ Len(out') = Len(out) + 1 /\ out' \in Seq(Glyphs)
          /\ Len(out') <= Len(Human!Whole(ds))
          /\ \A i \in 1..Len(out') : out'[i] = Human!Whole(ds)[i]
      BY <1>0, <1>7, <3>1, <3>3, Writing
    <3> QED BY <3>2, <3>4
  <2>4. /\ pc' \in {"sequential", "prime"}
        /\ pc' = "sequential" => worker' = worker /\ Human!WorkerCount(ds) = 1
        /\ pc' = "prime" =>
             worker' = [w \in Human!Workers |-> [Human!Idle EXCEPT !.at = "take"]]
    BY <1>7
  <2>5. [Human!Idle EXCEPT !.at = "take"] \in WorkerStates
        /\ [Human!Idle EXCEPT !.at = "take"].at = "take"
    BY <1>2 DEF Human!Idle, WorkerStates
  <2>6. worker' \in [Human!Workers -> WorkerStates]
        /\ \A w \in Human!Workers : worker'[w].at \in {"take", "ended"}
    BY <1>1, <2>4, <2>5 DEF Shapes
  <2>7. Shapes' BY <1>0, <1>7, <2>1, <2>3, <2>4, <2>6 DEF Shapes
  <2>8. Rests' BY <1>0, <1>1, <1>7, <2>1, <2>4 DEF Rests
  <2>9. Blames' BY <1>0, <1>1, <1>7, <2>1, <2>4, <2>6 DEF Blames
  <2>10. Owners' BY <1>0, <2>1, <2>6 DEF Owners, Busy, Queued
  <2>11. Streams'
    <3>1. \A j \in Jobs : j \in Nat /\ j >= 1 /\ Base(ds, j) \in Nat /\ End(ds, j) \in Nat
                          /\ Base(ds, j) < End(ds, j) /\ (j = 1 => Base(ds, j) = 0)
      BY JobPlaces DEF Shapes
    <3>2. \A j \in Jobs : Received(j)' = Base(ds, j)
      BY <1>0, <1>1, <1>7, <2>3, <2>4, <3>1 DEF Received
    <3>3. \A j \in Jobs : Sent(j)' = Base(ds, j) /\ Len(chunks'[j]) = 0
      BY <1>0, <1>1, <3>1, <3>2 DEF Sent
    <3>4. \A j \in Jobs : InStep(j)'
      BY <1>0, <1>1, <3>1, <3>3 DEF InStep
    <3>5. \A w \in Human!Workers : Renders(w)' BY <2>6 DEF Renders
    <3> QED BY <1>1, <1>7, <2>1, <2>2, <2>4, <3>4, <3>5 DEF Streams, Reading
  <2>12. Written' BY <1>0, <1>1, <1>7, <2>1, <2>2, <2>3, <2>4 DEF Written
  <2>13. Human!CauseIsReported' BY <1>0, <1>7 DEF Human!CauseIsReported
  <2> QED BY <2>7, <2>8, <2>9, <2>10, <2>11, <2>12, <2>13
<1> QED
  <2> HIDE DEF ReportInv
  <2> QED BY <1>4, <1>5, <1>6, <1>7 DEF Human!WriteTitle

LEMMA WriteSequentiallyStep ==
  ASSUME ReportInv, Human!WriteSequentially
  PROVE  ReportInv'
<1> USE DEF ReportInv
<1>0. /\ ds' = ds /\ outer' = outer /\ queue' = queue /\ next' = next /\ chunks' = chunks
      /\ closed' = closed /\ failures' = failures /\ worker' = worker /\ pc = "sequential"
  BY DEF Human!WriteSequentially, Human!channels
<1>1. /\ \A w \in Human!Workers : worker[w].at = "ended"
      /\ Human!WorkerCount(ds) = 1 /\ returned = "running" /\ engine # "closed"
  BY <1>0 DEF Rests
<1>2. ds \in Seq(STRING) /\ Pieces \in Nat \ {0} BY Limits DEF Shapes
<1>3. canceled => outer BY <1>0 DEF Blames, Shapes
<1>4. CASE out' = out /\ \E error \in {"canceled", "render", "output"} :
                           Human!Return(error) /\ (error = "canceled" => canceled)
  <2>1. PICK error \in {"canceled", "render", "output"} :
          Human!Return(error) /\ (error = "canceled" => canceled)
    BY <1>4
  <2>2. out' \in Seq(Glyphs) /\ Len(out') <= Len(Human!Whole(ds))
        /\ \A i \in 1..Len(out') : out'[i] = Human!Whole(ds)[i]
    BY <1>4 DEF Shapes, Written
  <2>3. ~(Human!WorkerCount(ds) > 1) BY <1>1
  <2> HIDE DEF ReportInv
  <2> QED BY <1>0, <1>1, <1>3, <2>1, <2>2, <2>3, Returning
<1>5. CASE /\ Human!WriteOut(Human!Fragment(Len(out)))
           /\ pc' = IF Len(out) = Len(ds) * Pieces THEN "summary" ELSE pc
           /\ engine' = "open"
           /\ canceled' = canceled /\ job' = job /\ held' = held /\ verdict' = verdict
           /\ returned' = returned
  <2>1. /\ Jobs' = Jobs /\ Human!Workers' = Human!Workers
        /\ Human!QueueLimit' = Human!QueueLimit /\ Total' = Total
    BY <1>0, Frame
  <2>2. ds # <<>> /\ 1 <= Len(out) /\ Len(out) <= Total /\ Len(out) \in Nat /\ Total \in Nat
    BY <1>0, JobPlaces DEF Written, Shapes
  <2>3. /\ Len(Human!Whole(ds)) = Total + 2
        /\ \A k \in 1..Total : Human!Whole(ds)[k + 1] = Human!Fragment(k)
    BY <1>2, <2>2, WholeReport DEF Total
  <2>4. /\ ~canceled /\ Len(out') = Len(out) + 1 /\ out' \in Seq(Glyphs)
        /\ Len(out') <= Len(Human!Whole(ds))
        /\ \A i \in 1..Len(out') : out'[i] = Human!Whole(ds)[i]
    <3>1. Human!Fragment(Len(out)) \in Glyphs BY <1>2, <2>2, FragmentType DEF Glyphs
    <3>2. Human!Fragment(Len(out)) = Human!Whole(ds)[Len(out) + 1] BY <2>2, <2>3
    <3>3. Len(out) + 1 <= Len(Human!Whole(ds)) BY <2>2, <2>3
    <3> HIDE DEF ReportInv
    <3> QED BY <1>0, <1>5, <3>1, <3>2, <3>3, Writing
  <2>5. /\ pc' \in {"sequential", "summary"}
        /\ pc' = "summary" => Len(out') = Total + 1
        /\ pc' = "sequential" => Len(out') <= Total
    BY <1>0, <1>5, <2>2, <2>4 DEF Total
  <2>6. Shapes' BY <1>0, <1>5, <2>1, <2>4, <2>5 DEF Shapes
  <2>7. Rests' BY <1>0, <1>1, <1>5, <2>1, <2>5 DEF Rests
  <2>8. Blames' BY <1>0, <1>1, <1>5, <2>1, <2>5 DEF Blames
  <2>9. Owners' BY <1>0, <2>1 DEF Owners, Busy, Queued
  <2>10. Streams' BY <2>5 DEF Streams, Reading
  <2>11. Written' BY <1>0, <1>1, <1>5, <2>1, <2>2, <2>4, <2>5 DEF Written
  <2>12. Human!CauseIsReported' BY <1>0, <1>5 DEF Human!CauseIsReported
  <2> QED BY <2>6, <2>7, <2>8, <2>9, <2>10, <2>11, <2>12
<1> QED
  <2> HIDE DEF ReportInv
  <2> QED BY <1>4, <1>5 DEF Human!WriteSequentially

\* Scheduling queues the next job, or finds all of them queued, or gives up.
LEMMA Scheduling ==
  ASSUME Shapes, NEW ACTION then, Human!Schedule(then)
  PROVE  \/ /\ next <= Human!GroupCount(ds) /\ Len(queue) < Human!QueueLimit
            /\ queue' = Append(queue, next) /\ next' = next + 1
            /\ then /\ canceled' = canceled /\ verdict' = verdict
         \/ /\ next > Human!GroupCount(ds) /\ then
            /\ queue' = queue /\ next' = next /\ canceled' = canceled /\ verdict' = verdict
         \/ /\ canceled /\ Human!GiveUp("canceled", TRUE)
            /\ queue' = queue /\ next' = next /\ job' = job
BY DEF Human!Schedule

\* The queue after scheduling: its jobs are still the ones before next.
LEMMA QueueKept ==
  ASSUME ReportInv, ds' = ds, closed' = closed, worker' = worker,
         \/ /\ next <= Human!GroupCount(ds) /\ Len(queue) < Human!QueueLimit
            /\ queue' = Append(queue, next) /\ next' = next + 1
         \/ queue' = queue /\ next' = next
  PROVE  /\ queue' \in Seq(Jobs) /\ Len(queue') <= Human!QueueLimit
         /\ next' \in 1..(Human!GroupCount(ds) + 1)
         /\ Queued' = Queued /\ Owners'
<1> USE DEF ReportInv
<1>0. Jobs' = Jobs /\ Human!Workers' = Human!Workers BY Frame
<1>1. CASE queue' = queue /\ next' = next
  <2>1. Queued' = Queued BY <1>1 DEF Queued
  <2> QED BY <1>0, <1>1, <2>1 DEF Owners, Busy, Shapes
<1>2. CASE /\ next <= Human!GroupCount(ds) /\ Len(queue) < Human!QueueLimit
           /\ queue' = Append(queue, next) /\ next' = next + 1
  <2>1. Human!GroupCount(ds) \in Nat BY JobPlaces DEF Shapes
  <2>2. queue \in Seq(Jobs) /\ next \in Jobs /\ next \in Nat
    BY <1>2, <2>1 DEF Shapes, Jobs
  <2>3. /\ queue' \in Seq(Jobs) /\ Len(queue') = Len(queue) + 1 /\ Len(queue) \in Nat
        /\ queue'[Len(queue) + 1] = next
        /\ \A i \in 1..Len(queue) : queue'[i] = queue[i]
    BY <1>2, <2>2
  <2>4. Human!QueueLimit \in Int
    <3>1. Human!WorkerCount(ds) \in Nat BY <2>1, Limits DEF Human!WorkerCount, Human!Least
    <3>2. \A x, y \in Nat : x * y \in Nat OBVIOUS
    <3> QED BY <2>1, <3>1, <3>2, Limits DEF Human!QueueLimit, Human!Least
  <2>5. Queued' = Queued BY <1>2, <2>2, <2>3 DEF Queued
  <2>6. \A i \in 1..Len(queue') : queue'[i] = Queued + i - 1
    <3>1. \A i \in 1..Len(queue) : queue[i] = Queued + i - 1 BY DEF Owners
    <3>2. next = Queued + (Len(queue) + 1) - 1 BY <2>2, <2>3 DEF Queued
    <3>3. \A i \in 1..Len(queue') : i \in 1..Len(queue) \/ i = Len(queue) + 1 BY <2>3
    <3> QED BY <2>3, <3>1, <3>2, <3>3
  <2>7. Len(queue') < next' BY <1>2, <2>2, <2>3 DEF Owners
  <2>8. Owners' BY <1>0, <2>5, <2>6, <2>7 DEF Owners, Busy
  <2> QED BY <1>2, <2>1, <2>2, <2>3, <2>4, <2>5, <2>8
<1> QED BY <1>1, <1>2

LEMMA PrimeStep ==
  ASSUME ReportInv, Human!Prime
  PROVE  ReportInv'
<1> USE DEF ReportInv
<1>0. /\ ds' = ds /\ outer' = outer /\ chunks' = chunks /\ closed' = closed
      /\ failures' = failures /\ worker' = worker /\ held' = held /\ engine' = engine
      /\ out' = out /\ returned' = returned /\ pc = "prime"
  BY DEF Human!Prime
<1>1. CASE canceled /\ Human!GiveUp("canceled", TRUE) /\ queue' = queue /\ next' = next /\ job' = job
  <2> HIDE DEF ReportInv
  <2> QED BY <1>0, <1>1, GivingUp DEF Reading
<1>2. CASE /\ \/ /\ next <= Human!GroupCount(ds) /\ Len(queue) < Human!QueueLimit
                 /\ queue' = Append(queue, next) /\ next' = next + 1
              \/ queue' = queue /\ next' = next
           /\ pc' \in {"prime", "consume"} /\ job' = job
           /\ canceled' = canceled /\ verdict' = verdict
  <2>1. /\ Jobs' = Jobs /\ Human!Workers' = Human!Workers
        /\ Human!QueueLimit' = Human!QueueLimit /\ Total' = Total
    BY <1>0, Frame
  <2>2. /\ queue' \in Seq(Jobs) /\ Len(queue') <= Human!QueueLimit
        /\ next' \in 1..(Human!GroupCount(ds) + 1)
        /\ Queued' = Queued /\ Owners'
    <3> HIDE DEF ReportInv
    <3> QED BY <1>0, <1>2, QueueKept
  <2>3. Shapes' BY <1>0, <1>2, <2>1, <2>2 DEF Shapes
  <2>4. Rests' BY <1>0, <1>2, <2>1 DEF Rests
  <2>5. Blames' BY <1>0, <1>2, <2>1 DEF Blames
  <2>6. Streams'
    <3>1. \A j \in Jobs : InStep(j) => InStep(j)'
      BY <1>0, <1>2, <2>2 DEF InStep, Sent, Received
    <3>2. \A w \in Human!Workers : Renders(w) => Renders(w)'
      BY <1>0, <1>2 DEF Renders, Sent, Received
    <3> QED BY <1>0, <1>2, <2>1, <3>1, <3>2 DEF Streams, Reading
  <2>7. Written' BY <1>0, <1>2, <2>1 DEF Written
  <2>8. Human!CauseIsReported' BY <1>0 DEF Human!CauseIsReported
  <2> QED BY <2>2, <2>3, <2>4, <2>5, <2>6, <2>7, <2>8
<1> DEFINE then == pc' = (IF next >= Human!QueueLimit THEN "consume" ELSE pc) /\ job' = job
<1>3. then => pc' \in {"prime", "consume"} /\ job' = job BY <1>0
<1>4. Human!Schedule(then) BY DEF Human!Prime
<1>5. Shapes OBVIOUS
<1> HIDE DEF then, ReportInv
<1> QED BY <1>1, <1>2, <1>3, <1>4, <1>5, Scheduling

LEMMA ConsumeStep ==
  ASSUME ReportInv, Human!Consume
  PROVE  ReportInv'
<1> USE DEF ReportInv
<1>0. /\ ds' = ds /\ outer' = outer /\ queue' = queue /\ next' = next /\ closed' = closed
      /\ failures' = failures /\ worker' = worker /\ engine' = engine
      /\ out' = out /\ returned' = returned /\ pc = "consume"
  BY DEF Human!Consume
<1>1. CASE canceled /\ Human!GiveUp("canceled", TRUE) /\ chunks' = chunks /\ job' = job
  <2> HIDE DEF ReportInv
  <2> QED BY <1>0, <1>1, GivingUp DEF Reading
<1>2. /\ Jobs' = Jobs /\ Human!Workers' = Human!Workers
      /\ Human!QueueLimit' = Human!QueueLimit /\ Total' = Total
  BY <1>0, Frame
<1>3. CASE /\ chunks[job] # <<>> /\ held' = Head(chunks[job])
           /\ chunks' = [chunks EXCEPT ![job] = Tail(@)]
           /\ pc' = "write" /\ canceled' = canceled /\ job' = job /\ verdict' = verdict
  <2>1. \A j \in Jobs : chunks[j] \in Seq(Nat \X Nat) BY DEF Shapes
  <2>2. /\ chunks' \in [Jobs -> Seq(Nat \X Nat)]
        /\ \A j \in Jobs : chunks'[j] = IF j = job THEN Tail(chunks[j]) ELSE chunks[j]
    <3>1. CASE job \in Jobs
      <4>1. Tail(chunks[job]) \in Seq(Nat \X Nat) BY <1>3, <2>1, <3>1
      <4> QED BY <1>3, <3>1, <4>1 DEF Shapes
    <3>2. CASE job \notin Jobs BY <1>3, <3>2 DEF Shapes
    <3> QED BY <3>1, <3>2
  <2>3. \A j \in Jobs : j = job =>
          /\ Len(chunks'[j]) = Len(chunks[j]) - 1 /\ Len(chunks[j]) \in Nat /\ Len(chunks[j]) >= 1
          /\ held' = chunks[j][1]
          /\ \A i \in 1..Len(chunks'[j]) : chunks'[j][i] = chunks[j][i + 1]
    BY <1>3, <2>1, <2>2
  <2>4. Shapes'
    <3>1. ASSUME NEW j \in Jobs PROVE Len(chunks'[j]) <= ChunkCapacity
      <4>1. Len(chunks[j]) <= ChunkCapacity /\ ChunkCapacity \in Nat BY Limits DEF Shapes
      <4>2. CASE j = job BY <2>3, <4>1, <4>2
      <4>3. CASE j # job BY <2>2, <4>1, <4>3
      <4> QED BY <4>2, <4>3
    <3> QED BY <1>0, <1>2, <1>3, <2>2, <3>1 DEF Shapes
  <2>5. Rests' BY <1>0, <1>2, <1>3 DEF Rests
  <2>6. Blames' BY <1>0, <1>2, <1>3 DEF Blames
  <2>7. Owners' BY <1>0, <1>2 DEF Owners, Busy, Queued
  <2>8. Streams'
    <3> SUFFICES ASSUME ~canceled' PROVE Streams' BY DEF Streams
    <3>1. Reading /\ ~canceled /\ job \in Jobs BY <1>0, <1>3 DEF Reading, Streams
    <3>2. Len(out) \in Nat BY DEF Shapes
    <3>3. \A j \in Jobs : /\ Received(j) \in Int /\ Received(j)' \in Int
                          /\ Received(j)' = IF j = job THEN Received(j) + 1 ELSE Received(j)
      BY <1>0, <1>3, <3>2, JobPlaces DEF Received, Shapes
    <3>4. \A j \in Jobs : Sent(j)' = Sent(j)
      <4> SUFFICES ASSUME NEW j \in Jobs PROVE Sent(j)' = Sent(j) OBVIOUS
      <4>1. Sent(j) = Received(j) + Len(chunks[j]) BY DEF Sent
      <4>2. Sent(j)' = Received(j)' + Len(chunks'[j]) BY DEF Sent
      <4>3. Received(j) \in Int /\ Len(chunks[j]) \in Nat BY <2>1, <3>3
      <4>4. CASE j = job
        <5>1. Received(j)' = Received(j) + 1 BY <3>3, <4>4
        <5>2. Len(chunks'[j]) = Len(chunks[j]) - 1 BY <2>3, <4>4
        <5> QED BY <4>1, <4>2, <4>3, <5>1, <5>2
      <4>5. CASE j # job
        <5>1. Received(j)' = Received(j) /\ chunks'[j] = chunks[j] BY <2>2, <3>3, <4>5
        <5> QED BY <4>1, <4>2, <5>1
      <4> QED BY <4>4, <4>5
    <3>5. Received(job) = Len(out) - 1 BY <1>0, <3>1 DEF Received, Jobs
    <3>6. ASSUME NEW j \in Jobs PROVE InStep(j)'
      <4>1. InStep(j) BY <3>1 DEF Streams
      <4>2. \A i \in 1..Len(chunks'[j]) : chunks'[j][i] = Human!Fragment(Received(j)' + i)
        <5>1. CASE j # job BY <2>2, <3>3, <4>1, <5>1 DEF InStep
        <5>2. CASE j = job
          <6> SUFFICES ASSUME NEW i \in 1..Len(chunks'[j])
                       PROVE  chunks'[j][i] = Human!Fragment(Received(j)' + i) OBVIOUS
          <6>1. i + 1 \in 1..Len(chunks[j]) BY <2>3, <5>2
          <6>2. chunks[j][i + 1] = Human!Fragment(Received(j) + (i + 1)) BY <4>1, <6>1 DEF InStep
          <6>3. Received(j) + (i + 1) = Received(j)' + i BY <3>3, <5>2
          <6> QED BY <2>3, <5>2, <6>2, <6>3
        <5> QED BY <5>1, <5>2
      <4> QED BY <1>0, <3>4, <4>1, <4>2 DEF InStep, Queued
    <3>7. ASSUME NEW w \in Human!Workers PROVE Renders(w)'
      <4>1. Renders(w) BY <3>1 DEF Streams
      <4>2. CASE Busy(w)
        <5>1. worker[w].job \in Jobs BY <4>2 DEF Owners
        <5>2. \A j \in Jobs : j = worker[w].job => Sent(j)' = Sent(worker[w].job) BY <3>4
        <5>3. \A j \in Jobs : j = worker[w].job =>
                /\ worker'[w].at \in {"render", "emit", "cancel"} =>
                     /\ Human!First(ds', j) <= worker'[w].finding
                     /\ worker'[w].finding <= Human!Last(ds', j)
                     /\ Pos(worker'[w].finding, worker'[w].piece) = Sent(j)' + 1
                /\ worker'[w].at = "finished" => Sent(j)' = End(ds', j)
          BY <1>0, <4>1, <5>2 DEF Renders
        <5> QED BY <1>0, <5>1, <5>3 DEF Renders, Sent, Received
      <4>3. CASE ~Busy(w) BY <1>0, <4>3 DEF Renders, Busy
      <4> QED BY <4>2, <4>3
    <3>8. held' = Human!Fragment(Len(out'))
      <4>1. InStep(job) BY <3>1 DEF Streams
      <4>2. 1 \in 1..Len(chunks[job]) BY <2>3, <3>1
      <4>3. held' = Human!Fragment(Received(job) + 1) BY <2>3, <3>1, <4>1, <4>2 DEF InStep
      <4>4. Received(job) + 1 = Len(out') BY <1>0, <3>2, <3>5
      <4> QED BY <4>3, <4>4
    <3> QED BY <1>2, <1>3, <3>1, <3>6, <3>7, <3>8 DEF Streams
  <2>9. Written' BY <1>0, <1>2, <1>3 DEF Written
  <2>10. Human!CauseIsReported' BY <1>0 DEF Human!CauseIsReported
  <2> QED BY <2>4, <2>5, <2>6, <2>7, <2>8, <2>9, <2>10
<1>4. CASE /\ chunks[job] = <<>> /\ closed[job] /\ pc' = "advance"
           /\ chunks' = chunks /\ canceled' = canceled /\ job' = job /\ held' = held
           /\ verdict' = verdict
  <2>1. Shapes' BY <1>0, <1>2, <1>4 DEF Shapes
  <2>2. Rests' BY <1>0, <1>2, <1>4 DEF Rests
  <2>3. Blames' BY <1>0, <1>2, <1>4 DEF Blames
  <2>4. Owners' BY <1>0, <1>2 DEF Owners, Busy, Queued
  <2>5. Streams'
    <3> SUFFICES ASSUME ~canceled' PROVE Streams' BY DEF Streams
    <3>1. Reading /\ ~canceled /\ job \in Jobs BY <1>0, <1>4 DEF Reading, Streams
    <3>2. \A j \in Jobs : InStep(j)' <=> InStep(j)
      BY <1>0, <1>4 DEF InStep, Sent, Received, Queued
    <3>3. \A w \in Human!Workers : Renders(w)' <=> Renders(w)
      BY <1>0, <1>4 DEF Renders, Sent, Received
    <3>4. Len(out') - 1 = End(ds', job')
      <4>1. InStep(job) BY <3>1 DEF Streams
      <4>2. Sent(job) = End(ds, job) BY <1>4, <4>1 DEF InStep
      <4>3. Received(job) = Len(out) - 1 BY <1>0, <3>1 DEF Received, Jobs
      <4>4. Len(chunks[job]) = 0 /\ Len(out) \in Nat BY <1>4 DEF Shapes
      <4> QED BY <1>0, <1>4, <4>2, <4>3, <4>4 DEF Sent
    <3> QED BY <1>0, <1>2, <1>4, <3>1, <3>2, <3>3, <3>4 DEF Streams
  <2>6. Written' BY <1>0, <1>2, <1>4 DEF Written
  <2>7. Human!CauseIsReported' BY <1>0 DEF Human!CauseIsReported
  <2> QED BY <2>1, <2>2, <2>3, <2>4, <2>5, <2>6, <2>7
<1> QED
  <2> HIDE DEF ReportInv
  <2> QED BY <1>1, <1>3, <1>4 DEF Human!Consume

LEMMA WriteFragmentStep ==
  ASSUME ReportInv, Human!WriteFragment
  PROVE  ReportInv'
<1> USE DEF ReportInv
<1>0. /\ ds' = ds /\ outer' = outer /\ queue' = queue /\ next' = next /\ chunks' = chunks
      /\ closed' = closed /\ failures' = failures /\ worker' = worker /\ job' = job
      /\ engine' = engine /\ returned' = returned /\ pc = "write"
  BY DEF Human!WriteFragment, Human!channels
<1>1. CASE canceled /\ Human!GiveUp("canceled", TRUE) /\ out' = out
  <2> HIDE DEF ReportInv
  <2> QED BY <1>0, <1>1, GivingUp DEF Reading
<1>2. CASE Human!GiveUp("output", canceled) /\ out' = out
  <2>1. canceled \in BOOLEAN BY DEF Shapes
  <2> HIDE DEF ReportInv
  <2> QED BY <1>0, <1>2, <2>1, GivingUp DEF Reading
<1>3. CASE Human!WriteOut(held) /\ pc' = "consume" /\ canceled' = canceled /\ verdict' = verdict
  <2>1. /\ Jobs' = Jobs /\ Human!Workers' = Human!Workers
        /\ Human!QueueLimit' = Human!QueueLimit /\ Total' = Total
    BY <1>0, Frame
  <2>2. ds \in Seq(STRING) /\ Pieces \in Nat \ {0} BY Limits DEF Shapes
  <2>3. ~canceled BY <1>3 DEF Human!WriteOut
  <2>4. job \in Jobs /\ InStep(job) /\ held = Human!Fragment(Len(out))
    BY <1>0, <2>3 DEF Streams, Reading
  <2>5. ds # <<>> /\ 1 <= Len(out) /\ Len(out) \in Nat BY <1>0 DEF Written, Shapes
  <2>6. Len(out) <= Total /\ Total \in Nat
    <3>1. /\ job \in Nat /\ End(ds, job) \in Nat /\ End(ds, job) <= Total /\ Total \in Nat
      BY <2>4, JobPlaces DEF Shapes
    <3>2. Received(job) = Len(out) BY <1>0, <3>1 DEF Received
    <3>3. Len(chunks[job]) \in Nat BY <2>4 DEF Shapes
    <3>4. Sent(job) <= End(ds, job) BY <2>4 DEF InStep
    <3> QED BY <2>5, <3>1, <3>2, <3>3, <3>4 DEF Sent
  <2>7. /\ Len(Human!Whole(ds)) = Total + 2
        /\ \A k \in 1..Total : Human!Whole(ds)[k + 1] = Human!Fragment(k)
    BY <2>2, <2>5, WholeReport DEF Total
  <2>8. /\ Len(out') = Len(out) + 1 /\ out' \in Seq(Glyphs)
        /\ Len(out') <= Len(Human!Whole(ds))
        /\ \A i \in 1..Len(out') : out'[i] = Human!Whole(ds)[i]
    <3>1. held \in Glyphs BY <2>2, <2>4, <2>5, FragmentType DEF Glyphs
    <3>2. held = Human!Whole(ds)[Len(out) + 1] BY <2>4, <2>5, <2>6, <2>7
    <3>3. Len(out) + 1 <= Len(Human!Whole(ds)) BY <2>5, <2>6, <2>7
    <3> HIDE DEF ReportInv
    <3> QED BY <1>0, <1>3, <3>1, <3>2, <3>3, Writing
  <2>9. Shapes' BY <1>0, <1>3, <2>1, <2>8 DEF Shapes
  <2>10. Rests' BY <1>0, <1>3, <2>1 DEF Rests
  <2>11. Blames' BY <1>0, <1>3, <2>1 DEF Blames
  <2>12. Owners' BY <1>0, <2>1 DEF Owners, Busy, Queued
  <2>13. Streams'
    <3>1. \A j \in Jobs : Received(j)' = Received(j)
      BY <1>0, <1>3, <2>5, <2>8 DEF Received
    <3>2. \A j \in Jobs : Sent(j)' = Sent(j) BY <1>0, <3>1 DEF Sent
    <3>3. ASSUME NEW j \in Jobs PROVE InStep(j)'
      <4>1. InStep(j) BY <1>0, <2>3 DEF Streams, Reading
      <4> QED BY <1>0, <3>1, <3>2, <4>1 DEF InStep, Queued
    <3>4. ASSUME NEW w \in Human!Workers PROVE Renders(w)'
      <4>1. Renders(w) BY <1>0, <2>3 DEF Streams, Reading
      <4>2. CASE Busy(w)
        <5>1. worker[w].job \in Jobs BY <4>2 DEF Owners
        <5>2. \A j \in Jobs : j = worker[w].job => Sent(j)' = Sent(worker[w].job) BY <3>2
        <5>3. \A j \in Jobs : j = worker[w].job =>
                /\ worker'[w].at \in {"render", "emit", "cancel"} =>
                     /\ Human!First(ds', j) <= worker'[w].finding
                     /\ worker'[w].finding <= Human!Last(ds', j)
                     /\ Pos(worker'[w].finding, worker'[w].piece) = Sent(j)' + 1
                /\ worker'[w].at = "finished" => Sent(j)' = End(ds', j)
          BY <1>0, <4>1, <5>2 DEF Renders
        <5> QED BY <1>0, <5>1, <5>3 DEF Renders, Sent, Received
      <4>3. CASE ~Busy(w) BY <1>0, <4>3 DEF Renders, Busy
      <4> QED BY <4>2, <4>3
    <3> QED BY <1>0, <1>3, <2>1, <2>4, <3>3, <3>4 DEF Streams
  <2>14. Written' BY <1>0, <1>3, <2>1, <2>5, <2>8 DEF Written
  <2>15. Human!CauseIsReported' BY <1>0 DEF Human!CauseIsReported
  <2> QED BY <2>9, <2>10, <2>11, <2>12, <2>13, <2>14, <2>15
<1> QED
  <2> HIDE DEF ReportInv
  <2> QED BY <1>1, <1>2, <1>3 DEF Human!WriteFragment

LEMMA AdvanceStep ==
  ASSUME ReportInv, Human!Advance
  PROVE  ReportInv'
<1> USE DEF ReportInv
<1>0. /\ ds' = ds /\ outer' = outer /\ chunks' = chunks /\ closed' = closed
      /\ failures' = failures /\ worker' = worker /\ held' = held /\ engine' = engine
      /\ out' = out /\ returned' = returned /\ pc = "advance"
  BY DEF Human!Advance
<1>1. CASE canceled /\ Human!GiveUp("canceled", TRUE) /\ queue' = queue /\ next' = next /\ job' = job
  <2> HIDE DEF ReportInv
  <2> QED BY <1>0, <1>1, GivingUp DEF Reading
<1>2. CASE /\ \/ /\ next <= Human!GroupCount(ds) /\ Len(queue) < Human!QueueLimit
                 /\ queue' = Append(queue, next) /\ next' = next + 1
              \/ queue' = queue /\ next' = next
           /\ \/ job < Human!GroupCount(ds) /\ pc' = "consume" /\ job' = job + 1
              \/ ~(job < Human!GroupCount(ds)) /\ pc' = "join" /\ job' = job
           /\ canceled' = canceled /\ verdict' = verdict
  <2>1. /\ Jobs' = Jobs /\ Human!Workers' = Human!Workers
        /\ Human!QueueLimit' = Human!QueueLimit /\ Total' = Total
    BY <1>0, Frame
  <2>2. /\ queue' \in Seq(Jobs) /\ Len(queue') <= Human!QueueLimit
        /\ next' \in 1..(Human!GroupCount(ds) + 1)
        /\ Queued' = Queued /\ Owners'
    <3> HIDE DEF ReportInv
    <3> QED BY <1>0, <1>2, QueueKept
  <2>3. Human!GroupCount(ds) \in Nat /\ job \in 1..(Human!GroupCount(ds) + 1)
        /\ job' \in 1..(Human!GroupCount(ds) + 1) /\ pc' \in {"consume", "join"}
    BY <1>2, JobPlaces DEF Shapes
  <2>4. Shapes' BY <1>0, <1>2, <2>1, <2>2, <2>3 DEF Shapes
  <2>5. Rests' BY <1>0, <2>1, <2>3 DEF Rests
  <2>6. Blames' BY <1>0, <1>2, <2>1, <2>3 DEF Blames
  <2>7. ~canceled => Len(out) - 1 = End(ds, job) /\ job \in Jobs
    BY <1>0 DEF Streams, Reading
  <2>8. Streams'
    <3> SUFFICES ASSUME Reading', ~canceled' PROVE Streams' BY DEF Streams
    <3>1. ~canceled /\ pc' = "consume" /\ job' = job + 1 /\ job < Human!GroupCount(ds)
      BY <1>2 DEF Reading
    <3>2. job \in Nat /\ job + 1 \in Jobs /\ Base(ds, job + 1) = End(ds, job)
      BY <2>3, <2>7, <3>1, JobPlaces DEF Jobs, Shapes
    <3>3. \A j \in Jobs : Received(j)' = Received(j)
      <4> SUFFICES ASSUME NEW j \in Jobs PROVE Received(j)' = Received(j) OBVIOUS
      <4>1. j \in Nat BY <2>3 DEF Jobs
      <4>2. CASE j < job BY <1>0, <3>1, <3>2, <4>1, <4>2 DEF Received
      <4>3. CASE j = job BY <1>0, <2>7, <3>1, <3>2, <4>1, <4>3 DEF Received
      <4>4. CASE j = job + 1
        <5>1. Received(j) = Base(ds, j) BY <3>2, <4>4 DEF Received
        <5>2. Received(j)' = Len(out) - 1 BY <1>0, <3>1, <3>2, <4>4 DEF Received
        <5> QED BY <2>7, <3>1, <3>2, <4>4, <5>1, <5>2
      <4>5. CASE j > job + 1 BY <1>0, <3>1, <3>2, <4>1, <4>5 DEF Received
      <4> QED BY <3>2, <4>1, <4>2, <4>3, <4>4, <4>5
    <3>4. \A j \in Jobs : Sent(j)' = Sent(j) BY <1>0, <3>3 DEF Sent
    <3>5. ASSUME NEW j \in Jobs PROVE InStep(j)'
      <4>1. InStep(j) BY <1>0, <3>1 DEF Streams, Reading
      <4> QED BY <1>0, <2>2, <3>3, <3>4, <4>1 DEF InStep
    <3>6. ASSUME NEW w \in Human!Workers PROVE Renders(w)'
      <4>1. Renders(w) BY <1>0, <3>1 DEF Streams, Reading
      <4>2. CASE Busy(w)
        <5>1. worker[w].job \in Jobs BY <4>2 DEF Owners
        <5>2. \A j \in Jobs : j = worker[w].job => Sent(j)' = Sent(worker[w].job) BY <3>4
        <5>3. \A j \in Jobs : j = worker[w].job =>
                /\ worker'[w].at \in {"render", "emit", "cancel"} =>
                     /\ Human!First(ds', j) <= worker'[w].finding
                     /\ worker'[w].finding <= Human!Last(ds', j)
                     /\ Pos(worker'[w].finding, worker'[w].piece) = Sent(j)' + 1
                /\ worker'[w].at = "finished" => Sent(j)' = End(ds', j)
          BY <1>0, <4>1, <5>2 DEF Renders
        <5> QED BY <1>0, <5>1, <5>3 DEF Renders, Sent, Received
      <4>3. CASE ~Busy(w) BY <1>0, <4>3 DEF Renders, Busy
      <4> QED BY <4>2, <4>3
    <3> QED BY <2>1, <3>1, <3>2, <3>5, <3>6 DEF Streams
  <2>9. Written'
    <3>1. pc' = "join" /\ ~canceled' => Len(out') = Total + 1
      <4> SUFFICES ASSUME pc' = "join", ~canceled PROVE Len(out) = Total + 1 BY <1>0, <1>2
      <4>1. ~(job < Human!GroupCount(ds)) /\ job \in Jobs /\ Len(out) - 1 = End(ds, job)
        BY <1>2, <2>7
      <4>2. job = Human!GroupCount(ds) BY <2>3, <4>1 DEF Jobs
      <4>3. End(ds, job) = Total /\ Total \in Nat BY <4>1, <4>2, JobPlaces DEF Shapes
      <4>4. Len(out) \in Nat BY DEF Shapes
      <4> QED BY <4>1, <4>3, <4>4
    <3> QED BY <1>0, <2>1, <2>3, <3>1 DEF Written
  <2>10. Human!CauseIsReported' BY <1>0 DEF Human!CauseIsReported
  <2> QED BY <2>2, <2>4, <2>5, <2>6, <2>8, <2>9, <2>10
<1> DEFINE then == IF job < Human!GroupCount(ds) THEN pc' = "consume" /\ job' = job + 1
                   ELSE pc' = "join" /\ job' = job
<1>3. then => \/ job < Human!GroupCount(ds) /\ pc' = "consume" /\ job' = job + 1
              \/ ~(job < Human!GroupCount(ds)) /\ pc' = "join" /\ job' = job
  OBVIOUS
<1>4. Human!Schedule(then) BY DEF Human!Advance
<1>5. Shapes OBVIOUS
<1> HIDE DEF then, ReportInv
<1> QED BY <1>1, <1>2, <1>3, <1>4, <1>5, Scheduling

LEMMA JoinStep ==
  ASSUME ReportInv, Human!Join
  PROVE  ReportInv'
<1> USE DEF ReportInv
<1>0. /\ ds' = ds /\ outer' = outer /\ queue' = queue /\ next' = next /\ chunks' = chunks
      /\ closed' = closed /\ failures' = failures /\ worker' = worker /\ out' = out
      /\ pc = "join" /\ \A w \in Human!Workers : worker[w].at = "ended"
  BY DEF Human!Join, Human!channels
<1>1. out' \in Seq(Glyphs) /\ Len(out') <= Len(Human!Whole(ds))
      /\ \A i \in 1..Len(out') : out'[i] = Human!Whole(ds)[i]
  BY <1>0 DEF Shapes, Written
<1>2. verdict.error \in {"ok", "canceled", "output"} /\ verdict.failureFirst \in BOOLEAN
  BY DEF Shapes
<1>3. CASE failures # <<>> /\ Human!Return("render")
  <2> HIDE DEF ReportInv
  <2> QED BY <1>0, <1>1, <1>3, Returning
<1>4. CASE /\ ~(verdict.failureFirst /\ failures # <<>>) /\ verdict.error # "ok"
           /\ Human!Return(verdict.error)
  <2>1. verdict.error = "canceled" => outer BY <1>4 DEF Blames
  <2> HIDE DEF ReportInv
  <2> QED BY <1>0, <1>1, <1>2, <1>4, <2>1, Returning
<1>5. CASE /\ ~(verdict.failureFirst /\ failures # <<>>) /\ verdict.error = "ok"
           /\ canceled /\ Human!Return("canceled")
  <2>1. outer BY <1>5 DEF Blames
  <2> HIDE DEF ReportInv
  <2> QED BY <1>0, <1>1, <1>5, <2>1, Returning
<1>6. CASE /\ ~(verdict.failureFirst /\ failures # <<>>) /\ verdict.error = "ok"
           /\ ~canceled /\ pc' = "summary"
           /\ canceled' = canceled /\ job' = job /\ held' = held /\ verdict' = verdict
           /\ engine' = engine /\ returned' = returned
  <2>1. /\ Jobs' = Jobs /\ Human!Workers' = Human!Workers
        /\ Human!QueueLimit' = Human!QueueLimit /\ Total' = Total
    BY <1>0, Frame
  <2>2. failures = <<>> BY <1>6 DEF Blames
  <2>3. Shapes' BY <1>0, <1>6, <2>1 DEF Shapes
  <2>4. Rests' BY <1>0, <1>6, <2>1 DEF Rests
  <2>5. Blames' BY <1>0, <1>6, <2>1, <2>2 DEF Blames
  <2>6. Owners' BY <1>0, <2>1 DEF Owners, Busy, Queued
  <2>7. Streams' BY <1>6 DEF Streams, Reading
  <2>8. Written' BY <1>0, <1>6, <2>1 DEF Written
  <2>9. Human!CauseIsReported' BY <1>0, <1>6 DEF Human!CauseIsReported
  <2> QED BY <2>3, <2>4, <2>5, <2>6, <2>7, <2>8, <2>9
<1> QED
  <2> HIDE DEF ReportInv
  <2> QED BY <1>3, <1>4, <1>5, <1>6 DEF Human!Join

LEMMA WriteSummaryStep ==
  ASSUME ReportInv, Human!WriteSummary
  PROVE  ReportInv'
<1> USE DEF ReportInv
<1>0. /\ ds' = ds /\ outer' = outer /\ queue' = queue /\ next' = next /\ chunks' = chunks
      /\ closed' = closed /\ failures' = failures /\ worker' = worker /\ pc = "summary"
  BY DEF Human!WriteSummary, Human!channels
<1>1. \A w \in Human!Workers : worker[w].at = "ended" BY <1>0 DEF Rests
<1>2. canceled => outer BY <1>0 DEF Blames, Shapes
<1>3. CASE out' = out /\ \E error \in {"canceled", "output"} :
                           Human!Return(error) /\ (error = "canceled" => canceled)
  <2>1. PICK error \in {"canceled", "output"} :
          Human!Return(error) /\ (error = "canceled" => canceled)
    BY <1>3
  <2>2. out' \in Seq(Glyphs) /\ Len(out') <= Len(Human!Whole(ds))
        /\ \A i \in 1..Len(out') : out'[i] = Human!Whole(ds)[i]
    BY <1>3 DEF Shapes, Written
  <2> HIDE DEF ReportInv
  <2> QED BY <1>0, <1>1, <1>2, <2>1, <2>2, Returning
<1>4. CASE Human!WriteOut("summary") /\ Human!Return("ok")
  <2>1. ds \in Seq(STRING) /\ Pieces \in Nat \ {0} /\ ds # <<>>
    BY <1>0, Limits DEF Shapes, Written
  <2>2. Len(out) = Total + 1 /\ Total \in Nat
    BY <1>0, JobPlaces DEF Written, Shapes
  <2>3. Len(Human!Whole(ds)) = Total + 2 /\ Human!Whole(ds)[Total + 2] = "summary"
    BY <2>1, WholeReport DEF Total
  <2>4. "summary" \in Glyphs BY DEF Glyphs
  <2>5. Len(out) + 1 = Total + 2 BY <2>2
  <2> HIDE DEF ReportInv
  <2>6. /\ Len(out') = Len(out) + 1 /\ out' \in Seq(Glyphs)
        /\ Len(out') <= Len(Human!Whole(ds))
        /\ \A i \in 1..Len(out') : out'[i] = Human!Whole(ds)[i]
    BY <1>0, <1>4, <2>2, <2>3, <2>4, <2>5, Writing
  <2>7. Len(out') = Len(Human!Whole(ds)) BY <2>3, <2>5, <2>6
  <2> QED BY <1>0, <1>1, <1>4, <2>6, <2>7, Returning
<1> QED
  <2> HIDE DEF ReportInv
  <2> QED BY <1>3, <1>4 DEF Human!WriteSummary

\* The report starts before its title, with nothing queued and nobody at work.
LEMMA ReportInit ==
  ASSUME Human!Init PROVE ReportInv
<1> USE DEF Human!Init
<1>1. ds \in Reports /\ ds \in Seq(STRING) /\ Pieces \in Nat \ {0} BY Limits
<1>2. Human!GroupCount(ds) \in Nat BY <1>1, JobPlaces
<1>3. Human!QueueLimit \in Nat
  <2>1. Human!WorkerCount(ds) \in Nat BY <1>2, Limits DEF Human!WorkerCount, Human!Least
  <2>2. \A x, y \in Nat : x * y \in Nat OBVIOUS
  <2> QED BY <1>2, <2>1, <2>2, Limits DEF Human!QueueLimit, Human!Least
<1>4. Human!Idle \in WorkerStates /\ Human!Idle.at = "ended"
  BY <1>1 DEF Human!Idle, WorkerStates
<1>5. worker \in [Human!Workers -> WorkerStates]
      /\ \A w \in Human!Workers : worker[w].at = "ended"
  BY <1>4
<1>6. chunks \in [Jobs -> Seq(Nat \X Nat)] /\ closed \in [Jobs -> BOOLEAN]
      /\ \A j \in Jobs : chunks[j] = <<>> /\ ~closed[j] /\ Len(chunks[j]) <= ChunkCapacity
  <2>1. Len(<<>>) <= ChunkCapacity BY Limits
  <2> QED BY <2>1 DEF Human!Jobs, Jobs
<1>7. Shapes
  <2>1. queue \in Seq(Jobs) /\ Len(queue) <= Human!QueueLimit BY <1>3
  <2>2. next \in 1..(Human!GroupCount(ds) + 1) /\ job \in 1..(Human!GroupCount(ds) + 1)
    BY <1>2
  <2>3. failures \in Seq(Nat) /\ Len(failures) <= 1 /\ out \in Seq(Glyphs) OBVIOUS
  <2> QED BY <1>1, <1>5, <1>6, <2>1, <2>2, <2>3 DEF Shapes
<1>8. Rests BY <1>5, <1>6 DEF Rests
<1>9. Blames BY <1>5 DEF Blames
<1>10. Owners
  <2>1. Len(queue) = 0 /\ \A w \in Human!Workers : ~Busy(w) BY <1>5 DEF Busy
  <2> QED BY <1>6, <2>1 DEF Owners
<1>11. Streams BY DEF Streams, Reading
<1>12. Written
  <2>1. Len(out) = 0 /\ Len(Human!Whole(ds)) \in Nat
    <3>1. CASE ds = <<>> BY <3>1 DEF Human!Whole
    <3>2. CASE ds # <<>>
      <4>1. Len(Human!Whole(ds)) = Len(ds) * Pieces + 2 BY <1>1, <3>2, WholeReport
      <4>2. Len(ds) * Pieces \in Nat BY <1>1, JobPlaces DEF Total
      <4> QED BY <4>1, <4>2
    <3> QED BY <3>1, <3>2
  <2> QED BY <2>1 DEF Written
<1>13. Human!CauseIsReported BY DEF Human!CauseIsReported
<1> QED BY <1>7, <1>8, <1>9, <1>10, <1>11, <1>12, <1>13 DEF ReportInv

\* Whatever else moves, a report that does not is as it was.
LEMMA ReportKept ==
  ASSUME ReportInv, UNCHANGED reportVars PROVE ReportInv'
<1> USE DEF ReportInv, reportVars
<1>1. /\ Jobs' = Jobs /\ Human!Workers' = Human!Workers
      /\ Human!QueueLimit' = Human!QueueLimit /\ Total' = Total
  BY Frame
<1>2. Shapes' BY <1>1 DEF Shapes
<1>3. Rests' BY <1>1 DEF Rests
<1>4. Blames' BY <1>1 DEF Blames
<1>5. Owners' BY <1>1 DEF Owners, Busy, Queued
<1>6. Streams'
  <2>1. \A j \in Jobs : InStep(j)' <=> InStep(j) BY DEF InStep, Sent, Received, Queued
  <2>2. \A w \in Human!Workers : Renders(w)' <=> Renders(w)
    BY DEF Renders, Sent, Received
  <2> QED BY <1>1, <2>1, <2>2 DEF Streams, Reading
<1>7. Written' BY <1>1 DEF Written
<1>8. Human!CauseIsReported' BY DEF Human!CauseIsReported
<1> QED BY <1>2, <1>3, <1>4, <1>5, <1>6, <1>7, <1>8

\* No goroutine's step, in whatever order, takes the report out of its invariant.
LEMMA ReportNext ==
  ASSUME ReportInv, Human!Next PROVE ReportInv'
<1>1. CASE Human!CallerCancels BY <1>1, CallerCancelsStep
<1>2. CASE Human!Caller
  BY <1>2, WriteTitleStep, WriteSequentiallyStep, PrimeStep, ConsumeStep,
     WriteFragmentStep, AdvanceStep, JoinStep, WriteSummaryStep DEF Human!Caller
<1>3. CASE \E w \in Human!Workers : Human!WorkerStep(w) BY <1>3, WorkerSteps
<1>4. CASE Human!Returned
  <2>1. UNCHANGED reportVars BY <1>4 DEF Human!Returned, Human!vars, reportVars
  <2> QED BY <2>1, ReportKept
<1> QED BY <1>1, <1>2, <1>3, <1>4 DEF Human!Next

\* The four conjuncts of ReportIsSequential follow.
LEMMA ReportSays ==
  ASSUME ReportInv
  PROVE  /\ Human!OutputIsSequentialPrefix /\ Human!SuccessIsComplete
         /\ Human!CauseIsReported /\ Human!EngineOutlivesWorkers
<1> DEFINE whole == Human!Whole(ds)
<1>1. /\ out \in Seq(Glyphs) /\ Len(out) <= Len(whole)
      /\ \A i \in 1..Len(out) : out[i] = whole[i]
      /\ returned = "ok" => Len(out) = Len(whole)
  BY DEF ReportInv, Shapes, Written
<1>2. ds \in Seq(STRING) /\ Pieces \in Nat \ {0} BY Limits DEF ReportInv, Shapes
<1>3. whole \in Seq(Glyphs)
  <2>1. CASE ds = <<>>
    <3>1. whole = <<"nothing">> BY <2>1 DEF Human!Whole
    <3>2. "nothing" \in Glyphs BY DEF Glyphs
    <3> QED BY <3>1, <3>2
  <2>2. CASE ds # <<>>
    <3> DEFINE n == Len(ds) * Pieces
               body == [k \in 1..n |-> Human!Fragment(k)]
    <3>1. whole = <<"title">> \o body \o <<"summary">> BY <2>2 DEF Human!Whole
    <3>2. n \in Nat BY <1>2, Places
    <3> HIDE DEF n
    <3>3. \A k \in 1..n : Human!Fragment(k) \in Nat \X Nat BY <1>2, <3>2, FragmentType
    <3>4. body \in Seq(Nat \X Nat) BY <3>2, <3>3
    <3> HIDE DEF body
    <3>5. body \in Seq(Glyphs) /\ <<"title">> \in Seq(Glyphs) /\ <<"summary">> \in Seq(Glyphs)
      BY <3>4 DEF Glyphs
    <3> HIDE DEF whole
    <3> QED BY <3>1, <3>5
  <2> QED BY <2>1, <2>2
<1> HIDE DEF whole
<1>4. Len(out) \in Nat /\ Len(whole) \in Nat BY <1>1, <1>3
<1>5. out = SubSeq(whole, 1, Len(out))
  <2>1. SubSeq(whole, 1, Len(out)) \in Seq(Glyphs)
        /\ Len(SubSeq(whole, 1, Len(out))) = Len(out)
        /\ \A i \in 1..Len(out) : SubSeq(whole, 1, Len(out))[i] = whole[i]
    BY <1>1, <1>3, <1>4
  <2> QED BY <1>1, <2>1
<1>6. returned = "ok" => out = whole BY <1>1, <1>3, <1>4
<1>7. Human!EngineOutlivesWorkers BY DEF ReportInv, Rests, Human!EngineOutlivesWorkers
<1>8. Human!OutputIsSequentialPrefix
  BY <1>1, <1>5 DEF whole, Human!OutputIsSequentialPrefix
<1>9. Human!SuccessIsComplete BY <1>6 DEF whole, Human!SuccessIsComplete
<1> QED BY <1>7, <1>8, <1>9 DEF ReportInv

\* The report's invariant while the report is the part that runs.
ReportPart == part = "report" => ReportInv

\* It is inductive: no step of any part breaks it.
THEOREM ReportInvariant == MCSpec => []ReportPart
<1>1. MCInit => ReportPart BY ReportInit DEF MCInit, ReportPart
<1>2. ReportPart /\ [MCNext]_mcVars => ReportPart'
  <2> SUFFICES ASSUME ReportPart, [MCNext]_mcVars, part' = "report" PROVE ReportInv'
    BY DEF ReportPart
  <2>1. CASE part = "report" /\ Human!Next BY <2>1, ReportNext DEF ReportPart
  <2>2. CASE part' = part /\ UNCHANGED reportVars
    BY <2>2, ReportKept DEF ReportPart
  <2>3. CASE UNCHANGED mcVars BY <2>2, <2>3 DEF mcVars
  <2> QED BY <2>1, <2>2, <2>3 DEF MCNext
<1> QED BY <1>1, <1>2, PTL DEF MCSpec

\* Whatever the findings, the workers, the capacities of the channels, the place
\* rendering or the output fails at and the moment the caller cancels: the parallel
\* report writes a prefix of the sequential one, all of it when it succeeds, names
\* a cause it has, and closes the highlighter after the last use.
THEOREM ReportStaysSequential == MCSpec => []ReportIsSequential
<1>1. ReportPart => ReportIsSequential
  BY ReportSays DEF ReportPart, ReportIsSequential
<1> QED BY <1>1, ReportInvariant, PTL

\* Types of the report's channels and goroutines, at any time.
THEOREM ReportTypeCorrect == MCSpec => [](part = "report" => Human!TypeOK)
<1>1. ASSUME ReportInv PROVE Human!TypeOK
  <2> USE DEF ReportInv
  <2>1. \A j \in Human!Jobs : Len(chunks[j]) <= ChunkCapacity /\ closed[j] \in BOOLEAN
    BY <1>1 DEF Shapes, Jobs, Human!Jobs
  <2>2. \A w \in Human!Workers : worker[w].at \in
          {"take", "render", "emit", "cancel", "finished", "abandon", "ended"}
    BY <1>1 DEF Shapes, WorkerStates
  <2> QED BY <1>1, <2>1, <2>2 DEF Shapes, Human!TypeOK
<1>2. ReportPart => (part = "report" => Human!TypeOK) BY <1>1 DEF ReportPart
<1> QED BY <1>2, ReportInvariant, PTL

-----------------------------------------------------------------------------
(***************************************************************************)
(* Checks while typing: what is left of a list.                            *)
(***************************************************************************)

Members(list) == Typing!ToSet(list)

\* A list without some documents holds the others, each as often as before.
LEMMA Remaining ==
  ASSUME NEW list \in Seq(Documents), NEW S
  PROVE  /\ Typing!Without(list, S) \in Seq(Documents)
         /\ Members(Typing!Without(list, S)) = Members(list) \ S
         /\ Typing!IsInjective(list) => Typing!IsInjective(Typing!Without(list, S))
         /\ Len(Typing!Without(list, S)) <= Len(list)
         /\ Members(list) \cap S # {} => Len(Typing!Without(list, S)) < Len(list)
<1> DEFINE kept == {i \in DOMAIN list : list[i] \notin S}
           n == Typing!Cardinality(kept)
           Place(k) == CHOOSE i \in kept : Typing!Cardinality({j \in kept : j <= i}) = k
           left == [k \in 1..n |-> list[Place(k)]]
<1>1. Len(list) \in Nat /\ DOMAIN list = 1..Len(list) OBVIOUS
<1>2. kept \in SUBSET (1..Len(list)) BY <1>1
<1>3. IsFiniteSet(1..Len(list)) /\ Cardinality(1..Len(list)) = Len(list)
  BY <1>1, FS_Interval
<1>0. n = Cardinality(kept)
      /\ \A i : Typing!Cardinality({j \in kept : j <= i}) = Rank(kept, i)
  BY SameCounts DEF Rank
<1>4. /\ IsFiniteSet(kept) /\ n \in Nat /\ n <= Len(list)
      /\ n = Len(list) => kept = 1..Len(list)
  <2> HIDE DEF kept
  <2>1. IsFiniteSet(kept) /\ Cardinality(kept) <= Len(list)
        /\ (Cardinality(kept) = Len(list) => kept = 1..Len(list))
    BY <1>2, <1>3, FS_Subset
  <2> QED BY <1>0, <2>1, FS_CardinalityType
<1>5. kept \in SUBSET Nat BY <1>1
<1>6. /\ \A i \in kept : Rank(kept, i) \in 1..n
      /\ \A i, j \in kept : i < j => Rank(kept, i) < Rank(kept, j)
      /\ \A k \in 1..n : \E i \in kept : Rank(kept, i) = k
  <2> HIDE DEF kept
  <2> QED BY <1>0, <1>4, <1>5, Ranks
<1>7. \A k \in 1..n : Place(k) \in kept /\ Rank(kept, Place(k)) = k
  <2> HIDE DEF kept
  <2> QED BY <1>0, <1>6
<1>8. \A i \in kept : Place(Rank(kept, i)) = i
  <2> TAKE i \in kept
  <2> DEFINE j == Place(Rank(kept, i))
  <2>1. j \in kept /\ Rank(kept, j) = Rank(kept, i) BY <1>6, <1>7
  <2>2. i \in Nat /\ j \in Nat BY <1>5, <2>1
  <2>3. Rank(kept, i) \in 1..n /\ Rank(kept, j) \in 1..n BY <1>6, <2>1
  <2> HIDE DEF kept, j
  <2>4. ~(i < j) /\ ~(j < i) BY <1>4, <1>6, <2>1, <2>3
  <2>5. i = j BY <2>2, <2>4
  <2> QED BY <2>5 DEF j
<1>9. Typing!Without(list, S) = left
  BY DEF Typing!Without
<1>10. \A k \in 1..n : left[k] = list[Place(k)] OBVIOUS
<1>11. \A i \in kept : i \in 1..Len(list) /\ list[i] \notin S BY <1>1
<1>12. \A k \in 1..n : list[Place(k)] \in Documents
  <2> TAKE k \in 1..n
  <2>1. Place(k) \in 1..Len(list) BY <1>7, <1>11
  <2> HIDE DEF kept, Place
  <2> QED BY <2>1
<1>13. left \in Seq(Documents) /\ Len(left) = n /\ DOMAIN left = 1..n
  <2> HIDE DEF kept, n, Place
  <2> QED BY <1>4, <1>12
<1>14. Members(left) = Members(list) \ S
  <2>1. ASSUME NEW x \in Members(left) PROVE x \in Members(list) \ S
    <3>1. PICK k \in 1..n : x = left[k] BY <1>13, <2>1 DEF Members, Typing!ToSet
    <3>2. Place(k) \in kept /\ x = list[Place(k)] BY <1>7, <3>1
    <3> QED BY <1>1, <1>11, <3>2 DEF Members, Typing!ToSet
  <2>2. ASSUME NEW x \in Members(list) \ S PROVE x \in Members(left)
    <3>1. PICK i \in DOMAIN list : x = list[i] BY DEF Members, Typing!ToSet
    <3>2. i \in kept BY <3>1
    <3>3. Rank(kept, i) \in 1..n /\ left[Rank(kept, i)] = x BY <1>6, <1>8, <3>1, <3>2
    <3> HIDE DEF left
    <3> QED BY <1>13, <3>3 DEF Members, Typing!ToSet
  <2> QED BY <2>1, <2>2
<1>15. Typing!IsInjective(list) => Typing!IsInjective(left)
  <2> SUFFICES ASSUME Typing!IsInjective(list), NEW j \in 1..n, NEW k \in 1..n, left[j] = left[k]
               PROVE  j = k
    BY <1>13 DEF Typing!IsInjective
  <2>1. Place(j) \in kept /\ Place(k) \in kept /\ list[Place(j)] = list[Place(k)] BY <1>7
  <2>2. Place(j) = Place(k) BY <2>1 DEF Typing!IsInjective
  <2> QED BY <1>7, <2>2
<1>16. Members(list) \cap S # {} => n < Len(list)
  <2> SUFFICES ASSUME NEW i \in 1..Len(list), list[i] \in S PROVE n < Len(list)
    BY <1>1 DEF Members, Typing!ToSet
  <2>1. kept # 1..Len(list) OBVIOUS
  <2> QED BY <1>1, <1>4, <2>1
<1> QED BY <1>4, <1>9, <1>13, <1>14, <1>15, <1>16

\* One more document at the end of a list.
LEMMA Appended ==
  ASSUME NEW list \in Seq(Documents), NEW d \in Documents
  PROVE  /\ Append(list, d) \in Seq(Documents) /\ Len(Append(list, d)) = Len(list) + 1
         /\ Members(Append(list, d)) = Members(list) \cup {d}
         /\ Typing!IsInjective(list) /\ d \notin Members(list) =>
              Typing!IsInjective(Append(list, d))
<1>1. /\ Append(list, d) \in Seq(Documents) /\ Len(Append(list, d)) = Len(list) + 1
      /\ Len(list) \in Nat /\ DOMAIN list = 1..Len(list)
      /\ DOMAIN Append(list, d) = 1..(Len(list) + 1)
      /\ Append(list, d)[Len(list) + 1] = d
      /\ \A i \in 1..Len(list) : Append(list, d)[i] = list[i]
  OBVIOUS
<1>2. \A i \in 1..(Len(list) + 1) : i \in 1..Len(list) \/ i = Len(list) + 1 BY <1>1
<1>3. Members(Append(list, d)) = Members(list) \cup {d}
  <2> DEFINE more == Append(list, d)
  <2>1. \A x \in Members(more) : x \in Members(list) \cup {d}
    BY <1>1, <1>2 DEF Members, Typing!ToSet
  <2>2. \A x \in Members(list) : x \in Members(more)
    <3> TAKE x \in Members(list)
    <3>1. PICK i \in 1..Len(list) : x = list[i] BY <1>1 DEF Members, Typing!ToSet
    <3>2. i \in DOMAIN more /\ more[i] = x BY <1>1, <3>1
    <3> QED BY <3>2 DEF Members, Typing!ToSet
  <2>3. d \in Members(more)
    <3>1. Len(list) + 1 \in DOMAIN more /\ more[Len(list) + 1] = d BY <1>1
    <3> QED BY <3>1 DEF Members, Typing!ToSet
  <2> QED BY <2>1, <2>2, <2>3
<1>4. ASSUME Typing!IsInjective(list), d \notin Members(list),
             NEW i \in 1..(Len(list) + 1), NEW j \in 1..(Len(list) + 1),
             Append(list, d)[i] = Append(list, d)[j]
      PROVE  i = j
  <2>1. \A k \in 1..Len(list) : list[k] # d BY <1>1, <1>4 DEF Members, Typing!ToSet
  <2>2. CASE i \in 1..Len(list) /\ j \in 1..Len(list)
    BY <1>1, <1>4, <2>2 DEF Typing!IsInjective
  <2>3. CASE i = Len(list) + 1 /\ j = Len(list) + 1 BY <2>3
  <2>4. CASE i \in 1..Len(list) /\ j = Len(list) + 1 BY <1>1, <1>4, <2>1, <2>4
  <2>5. CASE i = Len(list) + 1 /\ j \in 1..Len(list) BY <1>1, <1>4, <2>1, <2>5
  <2> QED BY <1>2, <2>2, <2>3, <2>4, <2>5
<1>5. Typing!IsInjective(list) /\ d \notin Members(list) => Typing!IsInjective(Append(list, d))
  BY <1>1, <1>4 DEF Typing!IsInjective
<1> QED BY <1>1, <1>3, <1>5

\* The first of a list leaves it, and is not among the others.
LEMMA FirstLeaves ==
  ASSUME NEW list \in Seq(Documents), Typing!IsInjective(list), list # <<>>
  PROVE  /\ Head(list) \in Members(list) /\ Head(list) \in Documents
         /\ Tail(list) \in Seq(Documents) /\ Typing!IsInjective(Tail(list))
         /\ Members(Tail(list)) = Members(list) \ {Head(list)}
<1>1. /\ Len(list) \in Nat /\ 1 <= Len(list) /\ DOMAIN list = 1..Len(list)
      /\ Head(list) = list[1] /\ Tail(list) \in Seq(Documents)
      /\ DOMAIN Tail(list) = 1..(Len(list) - 1)
      /\ \A i \in 1..(Len(list) - 1) : Tail(list)[i] = list[i + 1]
  OBVIOUS
<1>2. 1 \in DOMAIN list BY <1>1
<1>3. Head(list) \in Members(list) /\ Head(list) \in Documents
  BY <1>1, <1>2 DEF Members, Typing!ToSet
<1>4. \A i \in 1..(Len(list) - 1) : i + 1 \in DOMAIN list /\ i + 1 # 1 BY <1>1
<1>5. Typing!IsInjective(Tail(list))
  <2> SUFFICES ASSUME NEW i \in 1..(Len(list) - 1), NEW j \in 1..(Len(list) - 1),
                      Tail(list)[i] = Tail(list)[j]
               PROVE  i = j
    BY <1>1 DEF Typing!IsInjective
  <2>1. i + 1 = j + 1 BY <1>1, <1>4 DEF Typing!IsInjective
  <2> QED BY <1>1, <2>1
<1>6. ASSUME NEW x \in Members(Tail(list)) PROVE x \in Members(list) /\ x # Head(list)
  <2>1. PICK i \in 1..(Len(list) - 1) : x = Tail(list)[i] BY <1>1, <1>6 DEF Members, Typing!ToSet
  <2>2. x = list[i + 1] /\ i + 1 \in DOMAIN list BY <1>1, <1>4, <2>1
  <2>3. x # list[1] BY <1>2, <1>4, <2>1, <2>2 DEF Typing!IsInjective
  <2> QED BY <1>1, <2>2, <2>3 DEF Members, Typing!ToSet
<1>7. ASSUME NEW x \in Members(list), x # Head(list) PROVE x \in Members(Tail(list))
  <2>1. PICK i \in 1..Len(list) : x = list[i] BY <1>1, <1>7 DEF Members, Typing!ToSet
  <2>2. i # 1 BY <1>1, <1>7, <2>1
  <2>3. i - 1 \in 1..(Len(list) - 1) /\ (i - 1) + 1 = i BY <1>1, <2>2
  <2>4. Tail(list)[i - 1] = x BY <1>1, <2>1, <2>3
  <2> QED BY <1>1, <2>3, <2>4 DEF Members, Typing!ToSet
<1> QED BY <1>1, <1>3, <1>5, <1>6, <1>7

-----------------------------------------------------------------------------
(***************************************************************************)
(* What holds of the checks while typing at any time.                      *)
(***************************************************************************)

Timed == Members(timers)
Entered == Members(entries)

\* A timer or a run holds a slot, and there are no more of them than slots.
Slots ==
  /\ Timed \subseteq Entered
  /\ \A d \in Documents : Typing!Active(d) => d \in Entered
  /\ Len(entries) <= Limit

\* A document with a timer has no live run, a ready one waits behind an aborted run
\* without a timer, and neither these nor a live run were withdrawn or outlive
\* dispose.
Exclusive ==
  /\ \A d \in Timed : d \notin cancelled /\ ~stopped /\ run[d] # "live"
  /\ \A d \in ready : run[d] = "aborted" /\ d \notin cancelled /\ ~stopped /\ d \notin Timed
  /\ \A d \in Documents : run[d] = "live" => d \notin cancelled /\ ~stopped

\* join is called after dispose, and waits for whatever still runs.
Joins ==
  /\ joining # "no" => stopped /\ \A d \in Documents : Typing!Active(d) => d \in joined
  /\ joining = "returned" => \A d \in Documents : ~Typing!Active(d)

Served ==
  due = {d \in Documents : \/ d \in Timed
                           \/ run[d] = "live"
                           \/ d \in ready /\ run[d] = "aborted"}

TypingInv == Typing!TypeOK /\ Slots /\ Exclusive /\ Served /\ Joins

LEMMA TypingLimits ==
  IsFiniteSet(Documents) /\ Limit \in Nat \ {0} /\ MaxEdits \in Nat
BY EndingsAssumption DEF EndingsAssumption, Typing!TypingAssumption, Typing!IsFiniteSet,
   IsFiniteSet

LEMMA TypingInit ==
  ASSUME Typing!Init PROVE TypingInv
<1> USE DEF Typing!Init
<1>1. Timed = {} /\ Entered = {} BY DEF Timed, Entered, Members, Typing!ToSet
<1>2. Typing!TypeOK
  <2>1. <<>> \in Seq(Documents) /\ Typing!IsInjective(<<>>) BY DEF Typing!IsInjective
  <2>2. run \in [Documents -> {"none", "live", "aborted"}] OBVIOUS
  <2>3. edits \in 0..MaxEdits BY TypingLimits
  <2> QED BY <2>1, <2>2, <2>3 DEF Typing!TypeOK
<1>3. Slots BY <1>1, TypingLimits DEF Slots, Typing!Active
<1>4. Exclusive BY <1>1 DEF Exclusive
<1>5. Served BY <1>1 DEF Served
<1>6. Joins BY DEF Joins
<1> QED BY <1>2, <1>3, <1>4, <1>5, <1>6 DEF TypingInv

\* What a document gives up its slot for d: nothing that runs.
LEMMA Evictions ==
  ASSUME TypingInv, NEW d \in Documents
  PROVE  /\ Typing!Evicted(d) \subseteq Entered
         /\ \A v \in Typing!Evicted(d) : ~Typing!Active(v)
         /\ Typing!Listed(d) => Typing!Evicted(d) = {}
         /\ Typing!Listed(d) <=> d \in Entered
<1>1. \A v : Typing!Oldest(v) => v \in Entered /\ ~Typing!Active(v)
  BY DEF Typing!Oldest, Entered, Members, Typing!ToSet
<1> QED BY <1>1 DEF Typing!Evicted, Typing!Listed, Entered, Members

\* Setting a timer again replaces the document's old one and drops the timer of the
\* document that gave up its slot.
LEMMA ScheduleStep ==
  ASSUME TypingInv, NEW d \in Documents, Typing!Schedule(d)
  PROVE  TypingInv'
<1> DEFINE E == Typing!Evicted(d)
<1>1. /\ Typing!TypeOK /\ Slots /\ Exclusive /\ Served /\ Joins BY DEF TypingInv
<1>2. stopped' = stopped /\ joining' = joining /\ joined' = joined
      /\ edits' = edits + 1 /\ edits' \in 0..MaxEdits
  BY <1>1, TypingLimits DEF Typing!Schedule, Typing!TypeOK
<1>3. CASE ~Typing!Admitted(d)
  <2>1. entries' = entries /\ timers' = timers /\ run' = run /\ ready' = ready
        /\ cancelled' = cancelled /\ due' = due
    BY <1>3 DEF Typing!Schedule
  <2>2. Timed' = Timed /\ Entered' = Entered BY <2>1 DEF Timed, Entered
  <2>3. Typing!TypeOK' BY <1>1, <1>2, <2>1 DEF Typing!TypeOK
  <2>4. Slots' BY <1>1, <2>1, <2>2 DEF Slots, Typing!Active
  <2>5. Exclusive' BY <1>1, <1>2, <2>1, <2>2 DEF Exclusive
  <2>6. Served' BY <1>1, <2>1, <2>2 DEF Served
  <2>7. Joins' BY <1>1, <1>2, <2>1 DEF Joins, Typing!Active
  <2> QED BY <2>3, <2>4, <2>5, <2>6, <2>7 DEF TypingInv
<1>4. CASE Typing!Admitted(d)
  <2>1. /\ entries' = IF Typing!Listed(d) THEN entries
                      ELSE Append(Typing!Without(entries, E), d)
        /\ timers' = Append(Typing!Without(timers, E \cup {d}), d)
        /\ run' = Typing!Abort({d}) /\ ready' = ready \ {d}
        /\ cancelled' = cancelled \ {d} /\ due' = (due \ E) \cup {d}
    BY <1>4 DEF Typing!Schedule, Typing!Restarted
  <2>2. /\ entries \in Seq(Documents) /\ Typing!IsInjective(entries)
        /\ timers \in Seq(Documents) /\ Typing!IsInjective(timers)
        /\ run \in [Documents -> {"none", "live", "aborted"}]
        /\ ready \subseteq Documents /\ cancelled \subseteq Documents
        /\ due \subseteq Documents
    BY <1>1 DEF Typing!TypeOK
  <2>3. ~stopped /\ ~Typing!Dropped(d) BY <1>4 DEF Typing!Admitted
  <2>4. /\ E \subseteq Entered /\ \A v \in E : ~Typing!Active(v)
        /\ Typing!Listed(d) => E = {}
        /\ Typing!Listed(d) <=> d \in Entered
    BY Evictions
  <2>5. Entered \subseteq Documents /\ Timed \subseteq Documents
    BY <2>2 DEF Entered, Timed, Members, Typing!ToSet
  <2>6. /\ entries' \in Seq(Documents) /\ Typing!IsInjective(entries')
        /\ Entered' = (Entered \ E) \cup {d} /\ Len(entries') <= Limit
    <3>1. CASE Typing!Listed(d)
      <4>1. entries' = entries /\ E = {} /\ d \in Entered BY <2>1, <2>4, <3>1
      <4>2. Entered' = Entered BY <4>1 DEF Entered
      <4> QED BY <1>1, <2>2, <4>1, <4>2 DEF Slots
    <3>2. CASE ~Typing!Listed(d)
      <4> DEFINE rest == Typing!Without(entries, E)
      <4> HIDE DEF E
      <4>1. /\ rest \in Seq(Documents) /\ Members(rest) = Entered \ E
            /\ Typing!IsInjective(rest) /\ Len(rest) <= Len(entries)
            /\ Entered \cap E # {} => Len(rest) < Len(entries)
        BY <2>2, Remaining DEF Entered
      <4>2. entries' = Append(rest, d) /\ d \notin Members(rest) BY <2>1, <2>4, <3>2, <4>1
      <4> HIDE DEF rest
      <4>3. /\ entries' \in Seq(Documents) /\ Len(entries') = Len(rest) + 1
            /\ Members(entries') = Members(rest) \cup {d} /\ Typing!IsInjective(entries')
        BY <4>1, <4>2, Appended
      <4>4. Len(entries) < Limit \/ E # {}
        BY <2>2, <2>3, <3>2, TypingLimits DEF Typing!Dropped, E
      <4>5. Len(rest) \in Nat /\ Len(entries) \in Nat /\ Len(entries) <= Limit /\ Limit \in Nat
        BY <1>1, <2>2, <4>1, TypingLimits DEF Slots
      <4>6. E # {} => Len(rest) < Len(entries) BY <2>4, <4>1
      <4>7. Len(entries') <= Limit BY <4>1, <4>3, <4>4, <4>5, <4>6
      <4>8. Entered' = (Entered \ E) \cup {d} BY <4>1, <4>3 DEF Entered
      <4> QED BY <4>3, <4>7, <4>8
    <3> QED BY <3>1, <3>2
  <2>7. /\ timers' \in Seq(Documents) /\ Typing!IsInjective(timers')
        /\ Timed' = (Timed \ E) \cup {d}
    <3> DEFINE rest == Typing!Without(timers, E \cup {d})
    <3> HIDE DEF E
    <3>1. /\ rest \in Seq(Documents) /\ Members(rest) = Timed \ (E \cup {d})
          /\ Typing!IsInjective(rest)
      BY <2>2, Remaining DEF Timed
    <3>2. timers' = Append(rest, d) /\ d \notin Members(rest) BY <2>1, <3>1
    <3> HIDE DEF rest
    <3>3. /\ timers' \in Seq(Documents) /\ Typing!IsInjective(timers')
          /\ Members(timers') = Members(rest) \cup {d}
      BY <3>1, <3>2, Appended
    <3> QED BY <3>1, <3>3 DEF Timed
  <2>8. run' \in [Documents -> {"none", "live", "aborted"}]
        /\ \A x \in Documents : run'[x] = IF x = d /\ run[x] # "none" THEN "aborted" ELSE run[x]
    BY <2>1, <2>2 DEF Typing!Abort, Typing!Active
  <2> HIDE DEF E
  <2>9. Typing!TypeOK'
    BY <1>1, <1>2, <2>1, <2>2, <2>6, <2>7, <2>8 DEF Typing!TypeOK
  <2>10. \A x \in Documents : Typing!Active(x)' <=> Typing!Active(x)
    BY <2>8 DEF Typing!Active
  <2>11. Slots' BY <1>1, <2>4, <2>5, <2>6, <2>7, <2>10 DEF Slots
  <2>12. Exclusive'
    BY <1>1, <1>2, <2>1, <2>2, <2>3, <2>5, <2>7, <2>8 DEF Exclusive
  <2>13. Served'
    <3>1. \A x \in Documents : x \in E => run[x] = "none" BY <2>4 DEF Typing!Active
    <3> QED BY <1>1, <2>1, <2>2, <2>5, <2>7, <2>8, <3>1 DEF Served
  <2>14. Joins' BY <1>1, <1>2, <2>10 DEF Joins
  <2> QED BY <2>9, <2>11, <2>12, <2>13, <2>14 DEF TypingInv
<1> QED BY <1>3, <1>4

\* A timer that fires starts the check, or finds the aborted one still joining.
LEMMA FireStep ==
  ASSUME TypingInv, Typing!Fire
  PROVE  TypingInv'
<1> DEFINE d == Head(timers)
<1>1. /\ Typing!TypeOK /\ Slots /\ Exclusive /\ Served /\ Joins BY DEF TypingInv
<1>2. /\ entries' = entries /\ cancelled' = cancelled /\ stopped' = stopped
      /\ joining' = joining /\ joined' = joined /\ edits' = edits /\ due' = due
      /\ timers # <<>> /\ timers' = Tail(timers)
      /\ IF stopped \/ d \in cancelled \/ Typing!Active(d)
         THEN ready' = ready \cup {d} /\ run' = run
         ELSE run' = [run EXCEPT ![d] = "live"] /\ ready' = ready
  BY DEF Typing!Fire
<1>3. /\ timers \in Seq(Documents) /\ Typing!IsInjective(timers)
      /\ run \in [Documents -> {"none", "live", "aborted"}]
      /\ ready \subseteq Documents
  BY <1>1 DEF Typing!TypeOK
<1>4. /\ d \in Timed /\ d \in Documents /\ timers' \in Seq(Documents)
      /\ Typing!IsInjective(timers') /\ Timed' = Timed \ {d}
  BY <1>2, <1>3, FirstLeaves DEF Timed
<1>5. d \notin cancelled /\ ~stopped /\ run[d] # "live" BY <1>1, <1>4 DEF Exclusive
<1> HIDE DEF d
<1>6. \/ run[d] = "aborted" /\ ready' = ready \cup {d} /\ run' = run
      \/ run[d] = "none" /\ run' = [run EXCEPT ![d] = "live"] /\ ready' = ready
  BY <1>2, <1>3, <1>4, <1>5 DEF Typing!Active
<1>7. /\ run' \in [Documents -> {"none", "live", "aborted"}] /\ ready' \subseteq Documents
      /\ \A x \in Documents : x # d => run'[x] = run[x]
      /\ run'[d] = IF run[d] = "none" THEN "live" ELSE run[d]
  BY <1>3, <1>4, <1>6
<1>8. Entered' = Entered BY <1>2 DEF Entered
<1>9. Typing!TypeOK' BY <1>1, <1>2, <1>4, <1>7 DEF Typing!TypeOK
<1>10. Slots' BY <1>1, <1>2, <1>4, <1>7, <1>8 DEF Slots, Typing!Active
<1>11. Exclusive'
  <2>1. \A x \in Timed' : x \in Timed /\ x # d /\ x \in Documents
    BY <1>3, <1>4 DEF Timed, Members, Typing!ToSet
  <2>2. \A x \in Timed' : x \notin cancelled' /\ ~stopped' /\ run'[x] # "live"
    BY <1>1, <1>2, <1>7, <2>1 DEF Exclusive
  <2>3. \A x \in ready' :
          run'[x] = "aborted" /\ x \notin cancelled' /\ ~stopped' /\ x \notin Timed'
    <3>1. d \notin Timed' BY <1>4
    <3>2. CASE run[d] = "aborted" /\ ready' = ready \cup {d} /\ run' = run
      BY <1>1, <1>2, <1>5, <2>1, <3>1, <3>2 DEF Exclusive
    <3>3. CASE run[d] = "none" /\ ready' = ready
      <4>1. \A x \in ready : x # d BY <1>1, <3>3 DEF Exclusive
      <4> QED BY <1>1, <1>2, <1>3, <1>7, <2>1, <3>3, <4>1 DEF Exclusive
    <3> QED BY <1>6, <3>2, <3>3
  <2>4. \A x \in Documents : run'[x] = "live" => x \notin cancelled' /\ ~stopped'
    BY <1>1, <1>2, <1>5, <1>7 DEF Exclusive
  <2> QED BY <2>2, <2>3, <2>4 DEF Exclusive
<1>12. Served'
  <2>1. CASE run[d] = "aborted" /\ ready' = ready \cup {d} /\ run' = run
    BY <1>1, <1>2, <1>4, <2>1 DEF Served
  <2>2. CASE run[d] = "none" /\ run' = [run EXCEPT ![d] = "live"] /\ ready' = ready
    BY <1>1, <1>2, <1>4, <1>7, <2>2 DEF Served
  <2> QED BY <1>6, <2>1, <2>2
<1>13. Joins' BY <1>1, <1>2, <1>5 DEF Joins
<1> QED BY <1>9, <1>10, <1>11, <1>12, <1>13 DEF TypingInv

\* The end of a run starts the check that waits behind it, or frees the slot.
LEMMA FinishStep ==
  ASSUME TypingInv, NEW d \in Documents, Typing!Finish(d)
  PROVE  TypingInv'
<1>1. /\ Typing!TypeOK /\ Slots /\ Exclusive /\ Served /\ Joins BY DEF TypingInv
<1>2. /\ timers' = timers /\ cancelled' = cancelled /\ stopped' = stopped
      /\ joining' = joining /\ joined' = joined /\ edits' = edits
      /\ due' = (IF run[d] = "live" THEN due \ {d} ELSE due)
      /\ run[d] # "none"
  BY DEF Typing!Finish, Typing!Active
<1>3. /\ entries \in Seq(Documents) /\ Typing!IsInjective(entries)
      /\ run \in [Documents -> {"none", "live", "aborted"}]
      /\ ready \subseteq Documents /\ due \subseteq Documents
  BY <1>1 DEF Typing!TypeOK
<1>4. Timed' = Timed BY <1>2 DEF Timed
<1>5. CASE d \in ready /\ run' = [run EXCEPT ![d] = "live"] /\ ready' = ready \ {d}
           /\ entries' = entries
  <2>1. /\ run' \in [Documents -> {"none", "live", "aborted"}] /\ run'[d] = "live"
        /\ \A x \in Documents : x # d => run'[x] = run[x]
    BY <1>3, <1>5
  <2>2. run[d] = "aborted" /\ d \notin cancelled /\ ~stopped /\ d \notin Timed
    BY <1>1, <1>5 DEF Exclusive
  <2>3. Entered' = Entered BY <1>5 DEF Entered
  <2>4. Typing!TypeOK' BY <1>1, <1>2, <1>3, <1>5, <2>1, <2>2 DEF Typing!TypeOK
  <2>5. Slots' BY <1>1, <1>2, <1>4, <1>5, <2>1, <2>2, <2>3 DEF Slots, Typing!Active
  <2>6. Exclusive' BY <1>1, <1>2, <1>3, <1>4, <1>5, <2>1, <2>2 DEF Exclusive
  <2>7. Served' BY <1>1, <1>2, <1>4, <1>5, <2>1, <2>2 DEF Served
  <2>8. Joins' BY <1>1, <1>2, <2>2 DEF Joins
  <2> QED BY <2>4, <2>5, <2>6, <2>7, <2>8 DEF TypingInv
<1>6. CASE /\ ~(d \in ready /\ d \notin cancelled /\ ~stopped)
           /\ run' = [run EXCEPT ![d] = "none"] /\ ready' = ready
           /\ entries' = IF d \in Timed THEN entries ELSE Typing!Without(entries, {d})
  <2>1. /\ run' \in [Documents -> {"none", "live", "aborted"}] /\ run'[d] = "none"
        /\ \A x \in Documents : x # d => run'[x] = run[x]
    BY <1>3, <1>6
  <2>2. d \notin ready BY <1>1, <1>6 DEF Exclusive
  <2>3. /\ entries' \in Seq(Documents) /\ Typing!IsInjective(entries')
        /\ Len(entries') <= Len(entries)
        /\ Entered' = IF d \in Timed THEN Entered ELSE Entered \ {d}
    <3>1. CASE d \in Timed
      <4>1. entries' = entries /\ Len(entries) \in Nat BY <1>3, <1>6, <3>1
      <4> QED BY <1>3, <3>1, <4>1 DEF Entered
    <3>2. CASE d \notin Timed
      <4>1. entries' = Typing!Without(entries, {d}) BY <1>6, <3>2
      <4> QED BY <1>3, <3>2, <4>1, Remaining DEF Entered
    <3> QED BY <3>1, <3>2
  <2>4. Typing!TypeOK' BY <1>1, <1>2, <1>3, <1>6, <2>1, <2>3 DEF Typing!TypeOK
  <2>5. Slots'
    <3>1. Len(entries') <= Limit
      <4>1. Len(entries) \in Nat /\ Len(entries') \in Nat /\ Limit \in Nat
            /\ Len(entries) <= Limit
        BY <1>1, <1>3, <2>3, TypingLimits DEF Slots
      <4> QED BY <2>3, <4>1
    <3>2. Timed' \subseteq Entered' BY <1>1, <1>4, <2>3 DEF Slots
    <3>3. \A x \in Documents : Typing!Active(x)' => x # d /\ Typing!Active(x)
      BY <2>1 DEF Typing!Active
    <3> QED BY <1>1, <2>3, <3>1, <3>2, <3>3 DEF Slots
  <2>6. Exclusive' BY <1>1, <1>2, <1>3, <1>4, <1>6, <2>1, <2>2 DEF Exclusive
  <2>7. Served'
    <3>1. CASE run[d] = "live"
      <4>1. d \notin Timed BY <1>1, <3>1 DEF Exclusive
      <4> QED BY <1>1, <1>2, <1>4, <1>6, <2>1, <2>2, <3>1, <4>1 DEF Served
    <3>2. CASE run[d] # "live"
      BY <1>1, <1>2, <1>4, <1>6, <2>1, <2>2, <3>2 DEF Served
    <3> QED BY <3>1, <3>2
  <2>8. Joins'
    <3>1. \A x \in Documents : Typing!Active(x)' => Typing!Active(x)
      BY <2>1 DEF Typing!Active
    <3> QED BY <1>1, <1>2, <3>1 DEF Joins
  <2> QED BY <2>4, <2>5, <2>6, <2>7, <2>8 DEF TypingInv
<1> QED BY <1>5, <1>6 DEF Typing!Finish, Timed, Members

\* Withdrawing some documents aborts their runs and takes all that would start one.
LEMMA Withdrawing ==
  ASSUME TypingInv, NEW S \in SUBSET Documents, Typing!CancelAll(S),
         joining' = joining, joined' = joined, edits' = edits,
         \/ stopped' = stopped
         \/ stopped' = TRUE /\ joining = "no" /\ S = Entered
  PROVE  TypingInv'
<1>1. /\ Typing!TypeOK /\ Slots /\ Exclusive /\ Served /\ Joins BY DEF TypingInv
<1> DEFINE gone == {d \in S : ~Typing!Active(d)}
<1>2. /\ cancelled' = cancelled \cup S /\ ready' = ready \ S
      /\ timers' = Typing!Without(timers, S) /\ run' = Typing!Abort(S)
      /\ entries' = Typing!Without(entries, gone) /\ due' = due \ S
  BY DEF Typing!CancelAll
<1>3. /\ entries \in Seq(Documents) /\ Typing!IsInjective(entries)
      /\ timers \in Seq(Documents) /\ Typing!IsInjective(timers)
      /\ run \in [Documents -> {"none", "live", "aborted"}]
      /\ ready \subseteq Documents /\ cancelled \subseteq Documents
      /\ due \subseteq Documents
      /\ joining \in {"no", "waiting", "returned"} /\ stopped \in BOOLEAN
  BY <1>1 DEF Typing!TypeOK
<1>4. gone \subseteq S /\ \A d \in gone : ~Typing!Active(d) OBVIOUS
<1> HIDE DEF gone
<1>5. /\ timers' \in Seq(Documents) /\ Typing!IsInjective(timers') /\ Timed' = Timed \ S
  BY <1>2, <1>3, Remaining DEF Timed
<1>6. /\ entries' \in Seq(Documents) /\ Typing!IsInjective(entries')
      /\ Entered' = Entered \ gone /\ Len(entries') <= Len(entries)
  BY <1>2, <1>3, Remaining DEF Entered
<1>7. run' \in [Documents -> {"none", "live", "aborted"}]
      /\ \A x \in Documents : run'[x] = IF x \in S /\ run[x] # "none" THEN "aborted" ELSE run[x]
  BY <1>2, <1>3 DEF Typing!Abort, Typing!Active
<1>8. \A x \in Documents : Typing!Active(x)' <=> Typing!Active(x)
  BY <1>7 DEF Typing!Active
<1>9. Timed \subseteq Entered /\ Timed \subseteq Documents
  BY <1>1, <1>3 DEF Slots, Timed, Members, Typing!ToSet
<1>10. Typing!TypeOK'
  BY <1>1, <1>2, <1>3, <1>5, <1>6, <1>7 DEF Typing!TypeOK
<1>11. Slots'
  <2>1. Len(entries') <= Limit
    <3>1. Len(entries) \in Nat /\ Len(entries') \in Nat /\ Limit \in Nat
          /\ Len(entries) <= Limit
      BY <1>1, <1>3, <1>6, TypingLimits DEF Slots
    <3> QED BY <1>6, <3>1
  <2> QED BY <1>1, <1>4, <1>5, <1>6, <1>8, <1>9, <2>1 DEF Slots
<1>12. Exclusive'
  <2>1. CASE stopped' = stopped
    BY <1>1, <1>2, <1>3, <1>5, <1>7, <1>9, <2>1 DEF Exclusive
  <2>2. CASE S = Entered
    <3>1. Timed' = {} BY <1>5, <1>9, <2>2
    <3>2. ready' = {}
      <4>1. \A d \in ready : d \in Entered BY <1>1, <1>3 DEF Exclusive, Slots, Typing!Active
      <4> QED BY <1>2, <2>2, <4>1
    <3>3. \A d \in Documents : run'[d] # "live"
      <4>1. \A d \in Documents : run[d] # "none" => d \in S
        BY <1>1, <2>2 DEF Slots, Typing!Active
      <4> QED BY <1>7, <4>1
    <3> QED BY <3>1, <3>2, <3>3 DEF Exclusive
  <2> QED BY <2>1, <2>2
<1>13. Served'
  <2>1. \A x \in Documents : x \in S => run'[x] # "live" BY <1>7
  <2> QED BY <1>1, <1>2, <1>3, <1>5, <1>7, <1>9, <2>1 DEF Served
<1>14. Joins' BY <1>1, <1>3, <1>8 DEF Joins
<1> QED BY <1>10, <1>11, <1>12, <1>13, <1>14 DEF TypingInv

LEMMA CancelStep ==
  ASSUME TypingInv, NEW S \in SUBSET Documents, Typing!Cancel(S)
  PROVE  TypingInv'
<1>1. Typing!CancelAll(S) /\ stopped' = stopped /\ joining' = joining /\ joined' = joined
      /\ edits' = edits
  BY DEF Typing!Cancel
<1> QED BY <1>1, Withdrawing

LEMMA DisposeStep ==
  ASSUME TypingInv, Typing!Dispose
  PROVE  TypingInv'
<1>1. ~stopped /\ stopped' = TRUE /\ Typing!CancelAll(Entered) /\ joining' = joining
      /\ joined' = joined /\ edits' = edits
  BY DEF Typing!Dispose, Entered, Members
<1>2. joining = "no" BY <1>1 DEF TypingInv, Joins
<1>3. Entered \in SUBSET Documents
  BY DEF TypingInv, Typing!TypeOK, Entered, Members, Typing!ToSet
<1> QED BY <1>1, <1>2, <1>3, Withdrawing

\* join sees every run that still holds a slot, and returns after all of them.
LEMMA JoinSteps ==
  ASSUME TypingInv, Typing!JoinCall \/ Typing!JoinReturn
  PROVE  TypingInv'
<1>1. /\ Typing!TypeOK /\ Slots /\ Exclusive /\ Served /\ Joins BY DEF TypingInv
<1>2. entries' = entries /\ timers' = timers /\ run' = run /\ ready' = ready
      /\ cancelled' = cancelled /\ stopped' = stopped /\ edits' = edits /\ due' = due
  BY DEF Typing!JoinCall, Typing!JoinReturn
<1>3. Timed' = Timed /\ Entered' = Entered BY <1>2 DEF Timed, Entered
<1>4. \A x \in Documents : Typing!Active(x)' <=> Typing!Active(x)
  BY <1>2 DEF Typing!Active
<1>5. Slots' BY <1>1, <1>2, <1>3, <1>4 DEF Slots
<1>6. Exclusive' BY <1>1, <1>2, <1>3 DEF Exclusive
<1>7. Served' BY <1>1, <1>2, <1>3 DEF Served
<1>8. CASE Typing!JoinCall
  <2>1. /\ stopped /\ joining' = "waiting"
        /\ joined' = {d \in Entered : Typing!Active(d)}
    BY <1>8 DEF Typing!JoinCall, Entered, Members
  <2>2. Entered \subseteq Documents
    BY <1>1 DEF Typing!TypeOK, Entered, Members, Typing!ToSet
  <2>3. Typing!TypeOK' BY <1>1, <1>2, <2>1, <2>2 DEF Typing!TypeOK
  <2>4. Joins' BY <1>1, <1>2, <1>4, <2>1 DEF Joins, Slots
  <2> QED BY <1>5, <1>6, <1>7, <2>3, <2>4 DEF TypingInv
<1>9. CASE Typing!JoinReturn
  <2>1. /\ joining = "waiting" /\ \A d \in joined : ~Typing!Active(d)
        /\ joining' = "returned" /\ joined' = joined
    BY <1>9 DEF Typing!JoinReturn
  <2>2. Typing!TypeOK' BY <1>1, <1>2, <2>1 DEF Typing!TypeOK
  <2>3. Joins' BY <1>1, <1>2, <1>4, <2>1 DEF Joins
  <2> QED BY <1>5, <1>6, <1>7, <2>2, <2>3 DEF TypingInv
<1> QED BY <1>8, <1>9

LEMMA TypingNext ==
  ASSUME TypingInv, Typing!Next PROVE TypingInv'
BY ScheduleStep, FireStep, FinishStep, CancelStep, DisposeStep, JoinSteps DEF Typing!Next

LEMMA TypingKept ==
  ASSUME TypingInv, UNCHANGED typingVars PROVE TypingInv'
<1> USE DEF TypingInv, typingVars
<1>1. Timed' = Timed /\ Entered' = Entered BY DEF Timed, Entered
<1>2. \A x \in Documents : Typing!Active(x)' <=> Typing!Active(x) BY DEF Typing!Active
<1>3. Typing!TypeOK' BY DEF Typing!TypeOK
<1>4. Slots' BY <1>1, <1>2 DEF Slots
<1>5. Exclusive' BY <1>1 DEF Exclusive
<1>6. Served' BY <1>1 DEF Served
<1>7. Joins' BY <1>2 DEF Joins
<1> QED BY <1>3, <1>4, <1>5, <1>6, <1>7

\* The invariant of the checks while they are the part that runs.
TypingPart == part = "typing" => TypingInv

\* It is inductive: no step of any part breaks it.
THEOREM TypingInvariant == MCSpec => []TypingPart
<1>1. MCInit => TypingPart BY TypingInit DEF MCInit, TypingPart
<1>2. TypingPart /\ [MCNext]_mcVars => TypingPart'
  <2> SUFFICES ASSUME TypingPart, [MCNext]_mcVars, part' = "typing" PROVE TypingInv'
    BY DEF TypingPart
  <2>1. CASE part = "typing" /\ Typing!Next BY <2>1, TypingNext DEF TypingPart
  <2>2. CASE part' = part /\ UNCHANGED typingVars
    BY <2>2, TypingKept DEF TypingPart
  <2>3. CASE UNCHANGED mcVars BY <2>2, <2>3 DEF mcVars
  <2> QED BY <2>1, <2>2, <2>3 DEF MCNext
<1> QED BY <1>1, <1>2, PTL DEF MCSpec

\* Whatever the edits, withdrawals, timers and ends of runs, in any order and
\* number: what is served while typing is exactly what is owed, every run holds one
\* of the slots, and after join nothing runs.
THEOREM TypingStaysServed == MCSpec => []TypingIsServed
<1>1. ASSUME TypingInv
      PROVE  Typing!ServesExactlyTheDue /\ Typing!RunsAreCharged /\ Typing!QuietAfterJoin
  <2>1. Typing!ServesExactlyTheDue
    BY <1>1 DEF TypingInv, Served, Timed, Members, Typing!ServesExactlyTheDue
  <2>2. Typing!RunsAreCharged
    BY <1>1 DEF TypingInv, Slots, Entered, Members, Typing!RunsAreCharged, Typing!Listed
  <2>3. Typing!QuietAfterJoin
    <3>1. stopped => timers = <<>>
      <4> SUFFICES ASSUME stopped, timers # <<>> PROVE FALSE OBVIOUS
      <4>1. timers \in Seq(Documents) BY <1>1 DEF TypingInv, Typing!TypeOK
      <4>2. 1 \in DOMAIN timers BY <4>1
      <4>3. timers[1] \in Timed BY <4>2 DEF Timed, Members, Typing!ToSet
      <4> QED BY <1>1, <4>3 DEF TypingInv, Exclusive
    <3> QED BY <1>1, <3>1 DEF TypingInv, Joins, Typing!QuietAfterJoin
  <2> QED BY <2>1, <2>2, <2>3
<1>2. TypingPart => TypingIsServed BY <1>1 DEF TypingPart, TypingIsServed
<1> QED BY <1>2, TypingInvariant, PTL

\* Types of the checks while typing, at any time.
THEOREM TypingTypeCorrect == MCSpec => [](part = "typing" => Typing!TypeOK)
<1>1. TypingPart => (part = "typing" => Typing!TypeOK) BY DEF TypingPart, TypingInv
<1> QED BY <1>1, TypingInvariant, PTL

-----------------------------------------------------------------------------
(***************************************************************************)
(* OwnedProcess, which MCEndings extends, for every set of helpers and     *)
(* every kind of denial.                                                   *)
(***************************************************************************)

\* Until `close', and after it, the recorded failure is the first trouble.
CauseKept == failure = trouble

\* What was swept is gone or was never spawned, and only that is closed.
SweptOK ==
  /\ swept => child \in {"none", "reaped"}
  /\ work # "running" => swept

\* A child that was never spawned has no helpers.
ChildlessOK == child = "none" => \A h \in Helpers : helper[h] = "none"

\* The sweep stopped every helper, unless its signal was denied.
GroupStopped ==
  swept /\ child = "reaped" =>
    denied # "no" \/ \A h \in Helpers : helper[h] # "up"

\* A result is resolved only when nothing failed and no signal stayed denied.
ResolvedOK == work = "resolved" => failure = "none" /\ denied = "no"

IInv ==
  /\ TypeOK
  /\ CauseKept
  /\ SweptOK
  /\ ChildlessOK
  /\ GroupStopped
  /\ ResolvedOK
  /\ NeverSignalsStrangers

-----------------------------------------------------------------------------

\* A process that was spawned, or could not be, satisfies the invariant.
LEMMA InitInvariant == Init => IInv
<1> SUFFICES ASSUME Init PROVE IInv
  OBVIOUS
<1>1. TypeOK
  BY DEF Init, TypeOK, Categories
<1>2. CauseKept /\ SweptOK /\ ChildlessOK /\ GroupStopped
  BY DEF Init, CauseKept, SweptOK, ChildlessOK, GroupStopped
<1>3. ResolvedOK /\ NeverSignalsStrangers
  BY DEF Init, ResolvedOK, NeverSignalsStrangers
<1> QED BY <1>1, <1>2, <1>3 DEF IInv

\* What killTree can do while the run is not closed: it dooms members, or notes
\* a denial, and names nobody who is gone.
LEMMA KillTreeEffect ==
  ASSUME TypeOK, work = "running", NEW phase, KillTree(phase)
  PROVE  /\ child' = child \/ (child = "up" /\ child' = "doomed")
         /\ helper' = helper \/ helper' = Doomed
         /\ denied' = denied \/ denied' \in {"qualified", "final"}
         /\ stray' = stray
         /\ phase = "exit" /\ child # "none" => helper' = Doomed \/ denied' # "no"
         /\ child = "none" => helper' = helper
<1>1. CASE child = "none"
  BY <1>1 DEF KillTree
<1>2. CASE child # "none" /\ ChildOnly(phase)
  <2>1. /\ child' = IF child = "up" THEN "doomed" ELSE child
        /\ stray' = (stray \/ child = "reaped")
        /\ helper' = helper /\ denied' = denied
        /\ phase # "exit" /\ child # "reaped"
    BY <1>2 DEF KillTree, ChildOnly
  <2>2. stray' = stray
    BY <2>1, Zenon DEF TypeOK
  <2> QED BY <2>1, <2>2
<1>3. CASE child # "none" /\ ~ChildOnly(phase)
  BY <1>3 DEF KillTree, TypeOK
<1> QED BY <1>1, <1>2, <1>3

\* Dooming keeps the helpers' types and leaves none up.
LEMMA DoomedEffect ==
  ASSUME TypeOK
  PROVE  /\ Doomed \in [Helpers -> {"none", "up", "doomed", "gone"}]
         /\ \A h \in Helpers : Doomed[h] # "up"
         /\ \A h \in Helpers : helper[h] = "none" => Doomed[h] = "none"
  BY DEF TypeOK, Doomed

\* Anything that interrupts a run before `close' keeps the invariant.
LEMMA InterruptInvariant ==
  ASSUME IInv, work = "running", NEW category \in Categories \ {"none"}, NEW phase,
         Interrupt(category, phase), listening' \subseteq listening
  PROVE  IInv'
<1> USE DEF IInv
<1>1. /\ work' = work /\ swept' = swept /\ result' = result
      /\ holding' = holding /\ lifetime' = lifetime /\ host' = host
      /\ KillTree(phase) /\ Fail(category) /\ Noted(category)
  BY DEF Interrupt
<1>2. /\ child' = child \/ (child = "up" /\ child' = "doomed")
      /\ helper' = helper \/ helper' = Doomed
      /\ denied' = denied \/ denied' \in {"qualified", "final"}
      /\ stray' = stray
      /\ child = "none" => helper' = helper
  BY <1>1, KillTreeEffect
<1>3. failure' = trouble' /\ failure' \in Categories
  BY <1>1 DEF Fail, Noted, CauseKept, TypeOK
<1>4. TypeOK'
  BY <1>1, <1>2, <1>3, DoomedEffect DEF TypeOK
<1>5. CauseKept' BY <1>3 DEF CauseKept
<1>6. SweptOK' BY <1>1, <1>2 DEF SweptOK, TypeOK
<1>7. ChildlessOK' BY <1>2 DEF ChildlessOK, TypeOK
<1>8. GroupStopped'
  BY <1>1, <1>2, DoomedEffect DEF GroupStopped, TypeOK
<1>9. ResolvedOK' BY <1>1 DEF ResolvedOK
<1>10. NeverSignalsStrangers' BY <1>2 DEF NeverSignalsStrangers
<1> QED BY <1>4, <1>5, <1>6, <1>7, <1>8, <1>9, <1>10

\* Every callback of the editor keeps the invariant.
LEMMA EditorInvariant ==
  ASSUME IInv, Editor
  PROVE  IInv'
<1> USE DEF IInv
<1>1. ASSUME Abort PROVE IInv'
  <2>1. work = "running" BY <1>1 DEF Abort, TypeOK
  <2>2. "cancelled" \in Categories \ {"none"} BY DEF Categories
  <2>3. listening' \subseteq listening BY <1>1 DEF Abort
  <2> QED BY <1>1, <2>1, <2>2, <2>3, InterruptInvariant DEF Abort
<1>2. ASSUME Timeout PROVE IInv'
  <2>1. work = "running" BY <1>2 DEF Timeout, TypeOK
  <2>2. "timeout" \in Categories \ {"none"} BY DEF Categories
  <2>3. listening' \subseteq listening BY <1>2 DEF Timeout
  <2> QED BY <1>2, <2>1, <2>2, <2>3, InterruptInvariant DEF Timeout
<1>3. ASSUME PipeError PROVE IInv'
  <2>1. work = "running" /\ listening' \subseteq listening BY <1>3 DEF PipeError
  <2>2. {"stdin", "setup", "output-limit"} \subseteq Categories \ {"none"}
    BY DEF Categories
  <2> QED BY <1>3, <2>1, <2>2, InterruptInvariant DEF PipeError
<1>4. ASSUME SpawnError PROVE IInv'
  <2> USE <1>4 DEF SpawnError, tree, Fail, Noted
  <2>1. failure' = trouble' /\ failure' \in Categories
    BY DEF CauseKept, TypeOK, Categories
  <2>2. TypeOK' BY <2>1 DEF TypeOK
  <2>3. CauseKept' /\ SweptOK' /\ ChildlessOK' /\ GroupStopped'
    BY <2>1 DEF CauseKept, SweptOK, ChildlessOK, GroupStopped
  <2>4. ResolvedOK' /\ NeverSignalsStrangers'
    BY DEF ResolvedOK, NeverSignalsStrangers
  <2> QED BY <2>2, <2>3, <2>4
<1>5. ASSUME Reap PROVE IInv'
  <2> USE <1>5 DEF Reap, editor
  <2>1. TypeOK' BY DEF TypeOK
  <2>2. ~swept BY DEF SweptOK
  <2>3. CauseKept' /\ SweptOK' /\ ChildlessOK' /\ GroupStopped'
    BY <2>2 DEF CauseKept, SweptOK, ChildlessOK, GroupStopped
  <2>4. ResolvedOK' /\ NeverSignalsStrangers'
    BY DEF ResolvedOK, NeverSignalsStrangers
  <2> QED BY <2>1, <2>3, <2>4
<1>6. ASSUME Sweep PROVE IInv'
  <2> USE <1>6
  <2>1. /\ work = "running" /\ work' = work /\ swept' /\ child = "reaped"
        /\ failure' = failure /\ trouble' = trouble /\ listening' = listening
        /\ result' = result /\ holding' = holding /\ lifetime' = lifetime
        /\ host' = host /\ KillTree("exit")
    BY DEF Sweep, SweptOK
  <2>2. /\ child' = child /\ stray' = stray
        /\ helper' = helper \/ helper' = Doomed
        /\ denied' = denied \/ denied' \in {"qualified", "final"}
        /\ helper' = Doomed \/ denied' # "no"
    BY <2>1, KillTreeEffect
  <2>3. TypeOK' BY <2>1, <2>2, DoomedEffect DEF TypeOK
  <2>4. CauseKept' /\ SweptOK' /\ ChildlessOK'
    BY <2>1, <2>2 DEF CauseKept, SweptOK, ChildlessOK
  <2>5. GroupStopped' BY <2>2, DoomedEffect DEF GroupStopped
  <2>6. ResolvedOK' /\ NeverSignalsStrangers'
    BY <2>1, <2>2 DEF ResolvedOK, NeverSignalsStrangers
  <2> QED BY <2>3, <2>4, <2>5, <2>6
<1>7. ASSUME Close PROVE IInv'
  <2> USE <1>7 DEF Close, tree
  <2>1. failure' = trouble' /\ failure' \in Categories
    BY DEF Verdict, Complaint, CauseKept, TypeOK, Categories
  <2>2. TypeOK' BY <2>1 DEF TypeOK, Outcome, Released
  <2>3. CauseKept' /\ SweptOK' /\ ChildlessOK' /\ GroupStopped'
    BY <2>1 DEF CauseKept, SweptOK, ChildlessOK, GroupStopped
  <2>4. ResolvedOK' /\ NeverSignalsStrangers'
    BY DEF ResolvedOK, NeverSignalsStrangers, Outcome
  <2> QED BY <2>2, <2>3, <2>4
<1>8. ASSUME Observe PROVE IInv'
  <2> USE <1>8 DEF Observe, tree
  <2>1. TypeOK' BY DEF TypeOK, Outcome, Observation
  <2>2. CauseKept' /\ SweptOK' /\ ChildlessOK'
    BY DEF CauseKept, SweptOK, ChildlessOK
  <2>3. GroupStopped' BY DEF GroupStopped, Observation, Live
  <2>4. ResolvedOK' /\ NeverSignalsStrangers'
    BY DEF ResolvedOK, NeverSignalsStrangers, Outcome
  <2> QED BY <2>1, <2>2, <2>3, <2>4
<1> QED BY <1>1, <1>2, <1>3, <1>4, <1>5, <1>6, <1>7, <1>8 DEF Editor

\* What happens without the editor keeps the invariant: the child, its helpers
\* and the death of the host.
LEMMA OutsideInvariant ==
  ASSUME IInv,
         \/ HostDies \/ ChildExits \/ ChildFails \/ OwnerLost \/ TerminateLostOwner
         \/ \E h \in Helpers : Fork(h) \/ HelperEnds(h)
  PROVE  IInv'
<1> USE DEF IInv, editor, tree
<1>1. ASSUME HostDies PROVE IInv'
  BY <1>1 DEF HostDies, TypeOK, CauseKept, SweptOK, ChildlessOK, GroupStopped,
     ResolvedOK, NeverSignalsStrangers
<1>2. ASSUME ChildExits PROVE IInv'
  BY <1>2 DEF ChildExits, MayExit, TypeOK, CauseKept, SweptOK, ChildlessOK,
     GroupStopped, ResolvedOK, NeverSignalsStrangers
<1>3. ASSUME ChildFails PROVE IInv'
  BY <1>3 DEF ChildFails, TypeOK, CauseKept, SweptOK, ChildlessOK, GroupStopped,
     ResolvedOK, NeverSignalsStrangers
<1>4. ASSUME OwnerLost PROVE IInv'
  BY <1>4 DEF OwnerLost, TypeOK, CauseKept, SweptOK, ChildlessOK, GroupStopped,
     ResolvedOK, NeverSignalsStrangers
<1>5. ASSUME TerminateLostOwner PROVE IInv'
  BY <1>5, DoomedEffect DEF TerminateLostOwner, TypeOK, CauseKept, SweptOK,
     ChildlessOK, GroupStopped, ResolvedOK, NeverSignalsStrangers
<1>6. ASSUME NEW h \in Helpers, Fork(h) PROVE IInv'
  BY <1>6 DEF Fork, TypeOK, CauseKept, SweptOK, ChildlessOK, GroupStopped,
     ResolvedOK, NeverSignalsStrangers
<1>7. ASSUME NEW h \in Helpers, HelperEnds(h) PROVE IInv'
  BY <1>7 DEF HelperEnds, TypeOK, CauseKept, SweptOK, ChildlessOK, GroupStopped,
     ResolvedOK, NeverSignalsStrangers
<1> QED BY <1>1, <1>2, <1>3, <1>4, <1>5, <1>6, <1>7

\* Every step keeps the invariant.
LEMMA StepInvariant == IInv /\ [Next]_vars => IInv'
<1> SUFFICES ASSUME IInv, [Next]_vars PROVE IInv'
  OBVIOUS
<1>1. CASE Editor BY <1>1, EditorInvariant
<1>2. CASE Next /\ ~Editor BY <1>2, OutsideInvariant DEF Next
<1>3. CASE UNCHANGED vars
  BY <1>3 DEF IInv, vars, editor, tree, TypeOK, CauseKept, SweptOK, ChildlessOK,
     GroupStopped, ResolvedOK, NeverSignalsStrangers
<1> QED BY <1>1, <1>2, <1>3

\* Every behaviour of the process keeps the invariant.
LEMMA ProcessInvariant == Spec => []IInv
<1> QED BY InitInvariant, StepInvariant, PTL DEF Spec

\* The editor's and the tree's state keep their types, and only a run that is
\* not closed listens to anything.
THEOREM TypeCorrect == Spec => []TypeOK
<1>1. IInv => TypeOK
  BY DEF IInv
<1> QED BY <1>1, ProcessInvariant, PTL

\* A settled run of process.ts left nothing alive unreported, names the first
\* thing that went wrong, and never signalled a number that was not its own.
THEOREM RunsAreClean == Spec => []RunsSettleCleanly
<1>1. IInv => RunsSettleCleanly
  <2> SUFFICES ASSUME IInv PROVE RunsSettleCleanly
    OBVIOUS
  <2>1. SettledMeansStopped
    BY DEF IInv, SettledMeansStopped, Settled, SweptOK, ChildlessOK, GroupStopped,
       ResolvedOK, TypeOK
  <2>2. FirstTroubleWins
    BY DEF IInv, FirstTroubleWins, Settled, CauseKept, ResolvedOK
  <2> QED BY <2>1, <2>2 DEF IInv, RunsSettleCleanly
<1> QED BY <1>1, ProcessInvariant, PTL

=============================================================================
