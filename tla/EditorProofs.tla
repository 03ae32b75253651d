---------------------------- MODULE EditorProofs ----------------------------
(***************************************************************************)
(* Whatever keys are pressed, in whatever order, and however searches come  *)
(* between them: the cursor stays in the text, an undo never takes out or   *)
(* puts back what the text has no room for, and a search leaves no trace on *)
(* the region or on DEL.                                                    *)
(*                                                                         *)
(* The invariant's hard part is the undo list.  Its changes are undone on a *)
(* text that they were not recorded on: what fits is said of the lengths    *)
(* the text would have as they are undone one after another, and each of    *)
(* them must lie in the text of its length.  The rest goes up from there:   *)
(* each part of lines.rs and indent.rs gives points of the text, the edits  *)
(* made of them keep the line Whole, and the region is what the user set    *)
(* because a key that changes the text ends it.                             *)
(***************************************************************************)
EXTENDS Editor, FiniteSetTheorems, SequenceTheorems, WellFoundedInduction, TLAPS

\* A change taken back on a text of length b leaves one of length a.
Goes(u, a, b) ==
    CASE u.what = "ins" -> u.start <= u.end /\ u.end <= b /\ a = b - (u.end - u.start)
      [] u.what = "del" -> u.start <= b /\ a = b + Len(u.text)
      [] OTHER -> a = b
GoesBy(undo, lens, n) ==
    /\ lens \in [0 .. Len(undo) -> Nat] /\ lens[Len(undo)] = n
    /\ \A i \in 1 .. Len(undo) : Goes(undo[i], lens[i - 1], lens[i])
Fits(undo, n) == \E lens \in [0 .. Len(undo) -> Nat] : GoesBy(undo, lens, n)

\* How many groups start and end from the i-th change on.
StartsOf(undo, i) == {j \in i .. Len(undo) : undo[j] = Begin}
EndsOf(undo, i) == {j \in i .. Len(undo) : undo[j] = EndGroup}
Open1(undo, d) == Cardinality(StartsOf(undo, 1)) = Cardinality(EndsOf(undo, 1)) + d

\* A line with d groups open, but that its point may be past its text.
Sane(r, d) == r \in RlLines /\ Fits(r.undo, Len(r.text)) /\ Open1(r.undo, d)
Whole(r, d) == Sane(r, d) /\ r.point <= Len(r.text)

Regions == [text : Texts \cup {None}, mark : Nat, on : BOOLEAN, keep : BOOLEAN,
            before : Nat \cup {None}]
RegionInv ==
    /\ region \in Regions /\ set \in [text : Texts, mark : Nat] /\ set.mark <= Len(set.text)
    /\ IF searching = None
       THEN /\ region.before = None
            /\ Active(region) => /\ line.text = region.text /\ region.text = set.text
                                 /\ region.mark = set.mark /\ region.on
       ELSE Active(region) => region.text = set.text /\ region.before = set.mark /\ ~region.on
LinesInv == Whole(line, 0) /\ (searching = None \/ Whole(searching, 0))
EditorInv ==
    /\ LinesInv /\ RegionInv /\ del = DelBinding(searching)
-----------------------------------------------------------------------------
Less == {pair \in Nat \X Nat : pair[1] < pair[2]}

\* Numbers do not go down for ever.
LEMMA LessWellFounded == IsWellFoundedOn(Less, Nat)
<1>1. IsWellFoundedOn(OpToRel(<, Nat), Nat)  BY NatLessThanWellFounded
<1>2. OpToRel(<, Nat) = Less  BY DEF OpToRel, Less
<1>. QED  BY <1>1, <1>2

\* A set of naturals with something in it has a least.
LEMMA LowestIs ==
    ASSUME NEW S, S \subseteq Nat, S # {}
    PROVE  \E n \in S : \A m \in S : n <= m
<1>1. PICK x \in S : \A y \in S : ~ (<<y, x>> \in Less)
  BY LessWellFounded, WFMin
<1>2. \A m, n \in Nat : m < n => <<m, n>> \in Less  BY DEF Less
<1>3. ASSUME NEW y \in S PROVE x <= y
  <2>1. x \in Nat /\ y \in Nat  OBVIOUS
  <2>2. ~ (y < x)  BY <1>1, <1>2, <2>1
  <2>. QED  BY <2>1, <2>2
<1>. QED  BY <1>3

\* The step that takes the k-th element.
LEMMA LastPlace ==
    ASSUME NEW n \in Nat, NEW k \in 1 .. n
    PROVE  /\ Max(1 .. k) = k /\ (1 .. k) \ {Max(1 .. k)} = 1 .. (k - 1)
           /\ 1 .. k # {} /\ 1 .. k \in SUBSET (1 .. n)
<1>1. Max(1 .. k) = k  BY DEF Max
<1>2. k \in 1 .. k /\ \A x \in 1 .. k : x \in 1 .. n  OBVIOUS
<1>. QED  BY <1>1, <1>2

\* What holds before a step holds after it.
GoesOn(C, P, n) == \A k \in 1 .. n : C[1 .. (k - 1)] \in P[k - 1] => C[1 .. k] \in P[k]
\* What holds before the first step, and goes on at every step, holds of the fold.
LEMMA FoldReaches ==
    ASSUME NEW n \in Nat, NEW C, NEW P, C[{}] \in P[0], GoesOn(C, P, n)
    PROVE  C[1 .. n] \in P[n]
<1>. DEFINE Bad == {k \in 0 .. n : C[1 .. k] \notin P[k]}
<1>1. 0 \notin Bad
  <2>1. 1 .. 0 = {}  OBVIOUS
  <2>. QED  BY <2>1
<1>2. Bad = {}
  <2>1. SUFFICES ASSUME Bad # {} PROVE FALSE  OBVIOUS
  <2>2. PICK k \in Bad : \A m \in Bad : k <= m
    <3>1. Bad \subseteq Nat  OBVIOUS
    <3>. HIDE DEF Bad
    <3>. QED  BY <2>1, <3>1, LowestIs
  <2>3. k \in 1 .. n  BY <1>1, <2>2
  <2>4. k - 1 \notin Bad  BY <2>2, <2>3
  <2>5. C[1 .. (k - 1)] \in P[k - 1]  BY <2>3, <2>4
  <2>6. C[1 .. k] \in P[k]  BY <2>3, <2>5 DEF GoesOn
  <2>. QED  BY <2>2, <2>6
<1>. QED  BY <1>2

\* The greatest of a set of numbers up to n.
LEMMA MaxIs ==
    ASSUME NEW n \in Nat, NEW s, s \subseteq 0 .. n, s # {}
    PROVE  Max(s) \in s /\ \A y \in s : Max(s) >= y
<1>. DEFINE D == {n - x : x \in s}
<1>1. D \subseteq Nat /\ D # {}
  <2>1. \A x \in s : n - x \in Nat  OBVIOUS
  <2>. QED  BY <2>1
<1>2. PICK k \in D : \A m \in D : k <= m
  <2>. HIDE DEF D
  <2>. QED  BY <1>1, LowestIs
<1>3. PICK x \in s : k = n - x  BY <1>2
<1>4. ASSUME NEW y \in s PROVE x >= y
  <2>1. n - y \in D  OBVIOUS
  <2>2. n - x <= n - y  BY <2>1, <1>2, <1>3
  <2>3. x \in Int /\ y \in Int  OBVIOUS
  <2>. QED  BY <2>2, <2>3
<1>. QED  BY <1>4 DEF Max

\* The least of a set of numbers.
LEMMA MinIs ==
    ASSUME NEW s, s \subseteq Nat, s # {}
    PROVE  Min(s) \in s /\ \A y \in s : Min(s) <= y
<1>1. PICK x \in s : \A y \in s : x <= y  BY LowestIs
<1>. QED  BY <1>1 DEF Min

\* The lesser and the greater of two numbers.
LEMMA OfTwo ==
    ASSUME NEW a \in Int, NEW b \in Int
    PROVE  /\ Min({a, b}) = IF a <= b THEN a ELSE b
           /\ Max({a, b}) = IF a <= b THEN b ELSE a
BY DEF Min, Max

-----------------------------------------------------------------------------
(* Points of a text. *)

\* Where the line of a point starts, and where it ends.
LEMMA LineStartIs ==
    ASSUME NEW text \in Texts, NEW p \in Nat
    PROVE  /\ LineStart(text, p) \in 0 .. p /\ LineStart(text, p) <= Len(text)
           /\ \A s \in Starts(text) : s <= p => s <= LineStart(text, p)
           /\ LineStart(text, p) \in Starts(text)
<1>. DEFINE S == {s \in Starts(text) : s <= p}
<1>1. Starts(text) \subseteq 0 .. Len(text) /\ 0 \in Starts(text) /\ Len(text) \in Nat
  BY DEF Starts, Texts
<1>2. S \subseteq 0 .. p /\ S # {}  BY <1>1
<1>3. Max(S) \in S /\ \A y \in S : Max(S) >= y
  <2>. HIDE DEF S
  <2>. QED  BY <1>2, MaxIs
<1>4. LineStart(text, p) = Max(S)  BY DEF LineStart
<1>5. Max(S) \in Starts(text) /\ Max(S) <= p  BY <1>3
<1>6. ASSUME NEW s \in Starts(text), s <= p PROVE s <= Max(S)
  <2>1. s \in S  BY <1>6
  <2>2. Max(S) \in Nat /\ s \in Nat  BY <1>1, <1>5
  <2>. HIDE DEF S
  <2>. QED  BY <2>1, <2>2, <1>3
<1>. QED
  <2>. HIDE DEF S
  <2>. QED  BY <1>1, <1>4, <1>5, <1>6

\* The same of where it ends.
LEMMA LineEndIs ==
    ASSUME NEW text \in Texts, NEW p \in 0 .. Len(text)
    PROVE  LineEnd(text, p) \in p .. Len(text)
<1>. DEFINE S == {e \in Ends(text) : e >= p}
<1>1. Ends(text) \subseteq 0 .. Len(text) /\ Len(text) \in Ends(text) /\ Len(text) \in Nat
  BY DEF Ends, Texts
<1>2. S \subseteq Nat /\ S # {}  BY <1>1
<1>3. Min(S) \in S
  <2>. HIDE DEF S
  <2>. QED  BY <1>2, MinIs
<1>4. LineEnd(text, p) = Min(S)  BY DEF LineEnd
<1>. QED  BY <1>1, <1>3, <1>4

\* The line of a point is a text.
LEMMA LineAtIs ==
    ASSUME NEW text \in Texts, NEW p \in 0 .. Len(text)
    PROVE  /\ LineAt(text, p) \in Texts
           /\ Len(LineAt(text, p)) = LineEnd(text, p) - LineStart(text, p)
<1>1. LineStart(text, p) \in 0 .. p /\ LineEnd(text, p) \in p .. Len(text) /\ p \in Nat
  BY LineStartIs, LineEndIs
<1>. QED  BY <1>1 DEF LineAt, Texts

\* Where a line's indentation ends.
LEMMA IndentationEndIs ==
    ASSUME NEW text \in Texts, NEW p \in 0 .. Len(text)
    PROVE  IndentationEnd(text, p) \in p .. Len(text)
<1>. DEFINE S == {q \in p .. Len(text) - 1 : ~IsBlank(text[q + 1])} \cup {Len(text)}
<1>1. S \subseteq p .. Len(text) /\ S # {}  BY DEF Texts
<1>2. S \subseteq Nat  BY <1>1
<1>3. Min(S) \in S
  <2>. HIDE DEF S
  <2>. QED  BY <1>1, <1>2, MinIs
<1>4. IndentationEnd(text, p) = Min(S)  BY DEF IndentationEnd
<1>. QED
  <2>. HIDE DEF S
  <2>. QED  BY <1>1, <1>3, <1>4

\* An indentation is a text, no longer than its line.
LEMMA IndentationIs ==
    ASSUME NEW text \in Texts
    PROVE  Indentation(text) \in Texts /\ Len(Indentation(text)) \in 0 .. Len(text)
<1>1. 0 \in 0 .. Len(text)  BY DEF Texts
<1>2. IndentationEnd(text, 0) \in 0 .. Len(text)  BY <1>1, IndentationEndIs
<1>. QED  BY <1>2 DEF Indentation, Texts

\* The indentation of a point's line ends by the line's end.
LEMMA IndentationOfLine ==
    ASSUME NEW text \in Texts, NEW p \in 0 .. Len(text)
    PROVE  /\ Indentation(LineAt(text, p)) \in Texts
           /\ Len(Indentation(LineAt(text, p))) \in Nat
           /\ LineStart(text, p) + Len(Indentation(LineAt(text, p))) <= LineEnd(text, p)
<1>. DEFINE L == LineAt(text, p)
<1>1. L \in Texts /\ Len(L) = LineEnd(text, p) - LineStart(text, p)  BY LineAtIs
<1>2. Indentation(L) \in Texts /\ Len(Indentation(L)) \in 0 .. Len(L)
  <2>. HIDE DEF L
  <2>. QED  BY <1>1, IndentationIs
<1>3. LineStart(text, p) \in 0 .. p /\ LineEnd(text, p) \in p .. Len(text) /\ p \in Nat
  BY LineStartIs, LineEndIs
<1>. QED
  <2>. HIDE DEF L
  <2>1. Len(Indentation(L)) <= LineEnd(text, p) - LineStart(text, p)  BY <1>1, <1>2, <1>3
  <2>2. Len(Indentation(L)) \in Nat  BY <1>2
  <2>. QED  BY <1>2, <1>3, <2>1, <2>2 DEF L

\* The blanks around a point are around it.
LEMMA BlanksAroundIs ==
    ASSUME NEW text \in Texts, NEW p \in 0 .. Len(text)
    PROVE  /\ BlanksAround(text, p).from \in 0 .. p
           /\ BlanksAround(text, p).to \in p .. Len(text)
<1>. DEFINE start == LineStart(text, p)
            end == LineEnd(text, p)
            L == {q \in start .. p : \A i \in q + 1 .. p : IsBlank(text[i])}
            R == {q \in p .. end : \A i \in p + 1 .. q : IsBlank(text[i])}
            M == {q \in start .. Min(L) : \A i \in q + 1 .. Min(L) : text[i] = Backslash}
            slashes == Min(L) - Min(M)
<1>1. start \in 0 .. p /\ end \in p .. Len(text) /\ p \in Nat /\ Len(text) \in Nat
  BY LineStartIs, LineEndIs DEF Texts
<1>2. Min(L) \in 0 .. p
  <2>1. p \in L /\ L \subseteq 0 .. p
    <3>. HIDE DEF start, end
    <3>. QED  BY <1>1
  <2>2. L \subseteq Nat /\ L # {}  BY <2>1
  <2>. HIDE DEF L
  <2>. QED  BY <2>1, <2>2, MinIs
<1>3. Max(R) \in p .. Len(text)
  <2>1. p \in R /\ R \subseteq p .. Len(text)
    <3>. HIDE DEF start, end
    <3>. QED  BY <1>1
  <2>2. R \subseteq 0 .. Len(text) /\ R # {}  BY <2>1, <1>1
  <2>3. Max(R) \in R
    <3>. HIDE DEF R
    <3>. QED  BY <2>2, <1>1, MaxIs
  <2>. HIDE DEF R
  <2>. QED  BY <2>1, <2>3
<1>4. BlanksAround(text, p)
        = Part(IF Min(L) < p /\ slashes % 2 = 1 THEN Min(L) + 1 ELSE Min(L), Max(R))
  BY DEF BlanksAround
<1>. QED
  <2>. HIDE DEF start, end, L, R, M, slashes
  <2>. QED  BY <1>1, <1>2, <1>3, <1>4 DEF Part

-----------------------------------------------------------------------------
(* What a kill takes. *)

\* A part of a text.
Within(part, text) == part.from \in 0 .. part.to /\ part.to \in 0 .. Len(text)

\* Kills to the end of the line and to its start.
LEMMA KillsWithin ==
    ASSUME NEW text \in Texts, NEW p \in 0 .. Len(text)
    PROVE  Within(KillForward(text, p), text) /\ Within(KillBackward(text, p), text)
<1>1. /\ LineStart(text, p) \in 0 .. p /\ LineEnd(text, p) \in p .. Len(text) /\ p \in Nat
      /\ Len(text) \in Nat
  BY LineStartIs, LineEndIs DEF Texts
<1>. QED  BY <1>1 DEF KillForward, KillBackward, Within, Part

\* Of a finite set of two numbers and more, one has one below it, and one has
\* one above it.
LEMMA SecondIs ==
    ASSUME NEW n \in Nat, NEW S, S \subseteq 0 .. n, Cardinality(S) >= 2
    PROVE  /\ \E s \in S : Cardinality({t \in S : t <= s}) = 2
           /\ \E s \in S : Cardinality({t \in S : t > s}) = 1
<1>1. IsFiniteSet(S)
  <2>1. IsFiniteSet(0 .. n)  BY FS_Interval
  <2>. QED  BY <2>1, FS_Subset
<1>2. S # {} /\ S \subseteq Nat
  <2>1. Cardinality({}) = 0  BY FS_EmptySet
  <2>. QED  BY <2>1
<1>3. PICK a \in S : \A y \in S : a <= y  BY <1>2, LowestIs
<1>4. PICK z \in S : \A y \in S : z >= y  BY <1>2, MaxIs
<1>5. ASSUME NEW x \in S PROVE S \ {x} # {} /\ S \ {x} \subseteq 0 .. n /\ S \ {x} \subseteq Nat
  <2>1. Cardinality(S \ {x}) = Cardinality(S) - 1  BY <1>1, FS_RemoveElement
  <2>2. Cardinality({}) = 0  BY FS_EmptySet
  <2>3. Cardinality(S) \in Nat  BY <1>1, FS_CardinalityType
  <2>4. S \ {x} # {}  BY <2>1, <2>2, <2>3
  <2>. QED  BY <2>4, <1>2
<1>6. PICK b \in S \ {a} : \A y \in S \ {a} : b <= y
  <2>1. S \ {a} # {} /\ S \ {a} \subseteq Nat  BY <1>5
  <2>. QED  BY <2>1, LowestIs
<1>7. PICK c \in S \ {z} : \A y \in S \ {z} : c >= y
  <2>1. S \ {z} # {} /\ S \ {z} \subseteq 0 .. n  BY <1>5
  <2>. QED  BY <2>1, MaxIs
<1>8. {t \in S : t <= b} = {a, b}
  <2>1. ASSUME NEW t \in S, t <= b, t # a PROVE t = b
    <3>1. b <= t  BY <1>6, <2>1
    <3>. QED  BY <3>1, <2>1, <1>2
  <2>2. a <= b /\ b <= b  BY <1>3, <1>6, <1>2
  <2>. QED  BY <2>1, <2>2, <1>6
<1>9. {t \in S : t > c} = {z}
  <2>1. ASSUME NEW t \in S, t > c PROVE t = z
    <3>1. SUFFICES ASSUME t # z PROVE FALSE  OBVIOUS
    <3>2. c >= t  BY <1>7, <3>1
    <3>. QED  BY <3>2, <2>1, <1>2
  <2>2. z > c
    <3>1. z >= c /\ z # c  BY <1>4, <1>7
    <3>. QED  BY <3>1, <1>2, <1>7
  <2>. QED  BY <2>1, <2>2
<1>10. Cardinality({a, b}) = 2
  <2>1. Cardinality({a}) = 1 /\ IsFiniteSet({a})  BY FS_Singleton
  <2>2. Cardinality({a} \cup {b}) = Cardinality({a}) + 1
    BY <2>1, <1>6, FS_AddElement
  <2>3. {a} \cup {b} = {a, b}  OBVIOUS
  <2>. QED  BY <2>1, <2>2, <2>3
<1>11. Cardinality({z}) = 1  BY FS_Singleton
<1>. QED  BY <1>6, <1>7, <1>8, <1>9, <1>10, <1>11

\* Kills of whole lines.
LEMMA KillLinesWithin ==
    ASSUME NEW text \in Texts, NEW p \in 0 .. Len(text), NEW count \in {-1, 2}
    PROVE  Within(KillLines(text, p, count), text)
<1>. DEFINE below == {s \in Starts(text) : s > p}
            above == {s \in Starts(text) : s <= p}
<1>1. Starts(text) \subseteq 0 .. Len(text) /\ Len(text) \in Nat /\ p \in Nat  BY DEF Starts, Texts
<1>2. below \subseteq 0 .. Len(text) /\ above \subseteq 0 .. p /\ \A s \in below : s > p  BY <1>1
<1>3. Cardinality(below) \in Nat /\ Cardinality(above) \in Nat
  <2>1. IsFiniteSet(0 .. Len(text)) /\ IsFiniteSet(0 .. p)  BY <1>1, FS_Interval
  <2>2. IsFiniteSet(below) /\ IsFiniteSet(above)
    <3>. HIDE DEF below, above
    <3>. QED  BY <1>2, <2>1, FS_Subset
  <2>. HIDE DEF below, above
  <2>. QED  BY <2>2, FS_CardinalityType
<1>4. CASE count = 2
  <2>1. KillLines(text, p, 2) = Part(p, IF Cardinality(below) < 2 THEN Len(text)
              ELSE CHOOSE x \in below : Cardinality({t \in below : t <= x}) = 2)
    BY DEF KillLines
  <2>. HIDE DEF below, above
  <2>2. CASE Cardinality(below) >= 2
    <3>1. \E x \in below : Cardinality({t \in below : t <= x}) = 2  BY <1>1, <1>2, <2>2, SecondIs
    <3>2. (CHOOSE x \in below : Cardinality({t \in below : t <= x}) = 2) \in below  BY <3>1
    <3>3. ~(Cardinality(below) < 2)  BY <1>3, <2>2
    <3>. DEFINE s == CHOOSE x \in below : Cardinality({t \in below : t <= x}) = 2
    <3>4. KillLines(text, p, count) = Part(p, s)  BY <1>4, <2>1, <3>3
    <3>5. s \in below  BY <3>2
    <3>. HIDE DEF s
    <3>. QED  BY <1>1, <1>2, <3>4, <3>5 DEF Within, Part
  <2>3. CASE ~(Cardinality(below) >= 2)
    <3>1. Cardinality(below) < 2  BY <1>3, <2>3
    <3>. QED  BY <1>1, <1>4, <2>1, <3>1 DEF Within, Part
  <2>. QED  BY <2>2, <2>3
<1>5. CASE count = -1
  <2>1. ~(count > 0)  BY <1>5
  <2>2. -count = 1
    <3>1. \A m \in Int : m + 1 = 0 => -m = 1  OBVIOUS
    <3>2. count \in Int /\ count + 1 = 0  BY <1>5
    <3>. QED  BY <3>1, <3>2, Zenon
  <2>. DEFINE last == CHOOSE s \in above : Cardinality({t \in above : t > s}) = -count
  <2>3. KillLines(text, p, count) = Part(IF Cardinality(above) <= -count THEN 0 ELSE last, p)
    BY <2>1, Zenon DEF KillLines
  <2>4. ~(Cardinality(above) <= -count) => last \in above
    <3>1. SUFFICES ASSUME ~(Cardinality(above) <= -count)
                   PROVE \E s \in above : Cardinality({t \in above : t > s}) = -count
      BY Zenon
    <3>. HIDE DEF below, above, last
    <3>2. Cardinality(above) >= 2  BY <1>3, <2>2, <3>1
    <3>. QED  BY <1>1, <1>2, <2>2, <3>2, SecondIs
  <2>. HIDE DEF below, above, last
  <2>5. KillLines(text, p, count) = Part(0, p)
          \/ (last \in above /\ KillLines(text, p, count) = Part(last, p))
    BY <2>3, <2>4
  <2>6. \A q \in 0 .. p : Within(Part(q, p), text)  BY <1>1 DEF Within, Part
  <2>7. 0 \in 0 .. p  BY <1>1
  <2>. HIDE DEF last
  <2>. QED  BY <1>2, <2>5, <2>6, <2>7
<1>. QED  BY <1>4, <1>5

-----------------------------------------------------------------------------
(* readline's line. *)

\* Two texts, one after the other.
LEMMA JoinIs ==
    ASSUME NEW a \in Texts, NEW b \in Texts
    PROVE  /\ a \o b \in Texts /\ Len(a \o b) = Len(a) + Len(b)
           /\ \A i \in 1 .. Len(a) : (a \o b)[i] = a[i]
           /\ \A i \in 1 .. Len(b) : (a \o b)[Len(a) + i] = b[i]
<1>1. Len(a) \in Nat /\ Len(b) \in Nat  BY DEF Texts
<1>2. /\ a \o b \in Texts /\ Len(a \o b) = Len(a) + Len(b)
      /\ \A i \in 1 .. Len(a) + Len(b) :
            (a \o b)[i] = IF i <= Len(a) THEN a[i] ELSE b[i - Len(a)]
  BY ConcatProperties DEF Texts
<1>3. ASSUME NEW i \in 1 .. Len(b) PROVE (a \o b)[Len(a) + i] = b[i]
  <2>1. Len(a) + i \in 1 .. Len(a) + Len(b) /\ ~(Len(a) + i <= Len(a)) /\ (Len(a) + i) - Len(a) = i
    BY <1>1
  <2>. QED  BY <1>2, <2>1
<1>. QED  BY <1>1, <1>2, <1>3

\* A line with one part of it replaced, and with two.
LEMMA PartIs ==
    ASSUME NEW r \in [text : Texts, point : Nat, undo : Seq(Changes)], NEW z
    PROVE  /\ [r EXCEPT !.text = z] = [text |-> z, point |-> r.point, undo |-> r.undo]
           /\ [r EXCEPT !.undo = z] = [text |-> r.text, point |-> r.point, undo |-> z]
           /\ [r EXCEPT !.point = z] = [text |-> r.text, point |-> z, undo |-> r.undo]
OBVIOUS
\* Two parts replaced, and a change appended.
\* Two parts replaced, and a change appended.
LEMMA PartsAre ==
    ASSUME NEW r \in [text : Texts, point : Nat, undo : Seq(Changes)], NEW x \in Texts, NEW y
    PROVE  /\ [r EXCEPT !.text = x, !.undo = Append(@, y)]
                = [text |-> x, point |-> r.point, undo |-> Append(r.undo, y)]
           /\ [r EXCEPT !.undo = Append(@, y)]
                = [text |-> r.text, point |-> r.point, undo |-> Append(r.undo, y)]
<1>. DEFINE s == [text |-> x, point |-> r.point, undo |-> r.undo]
            u == Append(r.undo, y)
<1>1. [r EXCEPT !.text = x] = s  BY PartIs
<1>2. s \in [text : Texts, point : Nat, undo : Seq(Changes)]  OBVIOUS
<1>3. s.text = x /\ s.point = r.point  OBVIOUS
<1>. HIDE DEF s, u
<1>4. [s EXCEPT !.undo = u] = [text |-> s.text, point |-> s.point, undo |-> u]  BY <1>2, PartIs
<1>5. [r EXCEPT !.undo = u] = [text |-> r.text, point |-> r.point, undo |-> u]  BY PartIs
<1>6. [r EXCEPT !.text = x, !.undo = u] = [s EXCEPT !.undo = u]  BY <1>1, Zenon
<1>. QED  BY <1>3, <1>4, <1>5, <1>6, Zenon DEF u

\* The changes of an undo list by their kinds.
LEMMA ChangesAre ==
    /\ Begin \in Changes /\ EndGroup \in Changes /\ Begin # EndGroup
    /\ Begin.what = "begin" /\ EndGroup.what = "end"
    /\ \A u \in Changes : u.what = "ins" =>
          u.start \in Nat /\ u.end \in Nat /\ u # Begin /\ u # EndGroup
    /\ \A u \in Changes : u.what = "del" =>
          u.start \in Nat /\ u.text \in Texts /\ u # Begin /\ u # EndGroup
    /\ \A u \in Changes : u.what \in {"ins", "del", "begin", "end"}
    /\ \A a, b \in Nat : [what |-> "ins", start |-> a, end |-> b] \in Changes
    /\ \A a \in Nat, t \in Texts : [what |-> "del", start |-> a, text |-> t] \in Changes
BY DEF Changes, Begin, EndGroup

\* One change more.
LEMMA FitsGrow ==
    ASSUME NEW undo \in Seq(Changes), NEW n \in Nat, NEW m \in Nat, Fits(undo, n),
           NEW u \in Changes, Goes(u, n, m)
    PROVE  Fits(Append(undo, u), m)
<1>1. PICK lens \in [0 .. Len(undo) -> Nat] : GoesBy(undo, lens, n)  BY DEF Fits
<1>. DEFINE more == Append(undo, u)
            new == [i \in 0 .. Len(more) |-> IF i <= Len(undo) THEN lens[i] ELSE m]
<1>2. /\ Len(more) = Len(undo) + 1 /\ Len(undo) \in Nat /\ more[Len(undo) + 1] = u
      /\ \A i \in 1 .. Len(undo) : more[i] = undo[i]
  OBVIOUS
<1>3. new \in [0 .. Len(more) -> Nat] /\ new[Len(more)] = m  BY <1>2
<1>4. ASSUME NEW i \in 1 .. Len(more) PROVE Goes(more[i], new[i - 1], new[i])
  <2>1. CASE i <= Len(undo)
    <3>1. new[i] = lens[i] /\ new[i - 1] = lens[i - 1] /\ more[i] = undo[i] /\ i \in 1 .. Len(undo)
      BY <1>2, <2>1
    <3>2. Goes(undo[i], lens[i - 1], lens[i])  BY <1>1, <3>1 DEF GoesBy
    <3>. HIDE DEF more, new
    <3>. QED  BY <3>1, <3>2
  <2>2. CASE i = Len(undo) + 1
    <3>1. new[i] = m /\ new[i - 1] = lens[Len(undo)] /\ more[i] = u  BY <1>2, <2>2
    <3>2. lens[Len(undo)] = n  BY <1>1 DEF GoesBy
    <3>. HIDE DEF more, new
    <3>. QED  BY <3>1, <3>2
  <2>. QED  BY <1>2, <2>1, <2>2
<1>5. GoesBy(more, new, m)
  <2>. HIDE DEF more, new
  <2>. QED  BY <1>3, <1>4 DEF GoesBy
<1>. QED
  <2>. HIDE DEF new
  <2>. QED  BY <1>3, <1>5 DEF Fits

\* The places of one kind of change.
PlacesOf(undo, u) == {j \in 1 .. Len(undo) : undo[j] = u}
\* One place more.
LEMMA PlacesGrow ==
    ASSUME NEW undo \in Seq(Changes), NEW u \in Changes, NEW c
    PROVE  /\ Cardinality(PlacesOf(undo, c)) \in Nat
           /\ Cardinality(PlacesOf(Append(undo, u), c))
                = Cardinality(PlacesOf(undo, c)) + (IF u = c THEN 1 ELSE 0)
<1>. DEFINE S == PlacesOf(undo, c)
            T == PlacesOf(Append(undo, u), c)
            n == Len(undo) + 1
<1>1. IsFiniteSet(S)
  <2>1. IsFiniteSet(1 .. Len(undo))  BY FS_Interval
  <2>2. S \subseteq 1 .. Len(undo)  BY DEF PlacesOf
  <2>. QED  BY <2>1, <2>2, FS_Subset
<1>2. n \notin S /\ Len(undo) \in Nat  BY DEF PlacesOf
<1>3. T = IF u = c THEN S \cup {n} ELSE S  BY DEF PlacesOf
<1>4. Cardinality(S) \in Nat /\ Cardinality(S \cup {n}) = Cardinality(S) + 1
  <2>. HIDE DEF S, n
  <2>. QED  BY <1>1, <1>2, FS_AddElement, FS_CardinalityType
<1>. QED
  <2>. HIDE DEF S, T, n
  <2>1. CASE u = c  BY <1>3, <1>4, <2>1 DEF S, T
  <2>2. CASE u # c  BY <1>3, <1>4, <2>2 DEF S, T
  <2>. QED  BY <2>1, <2>2

\* How many groups a change leaves open.
LEMMA OpenGrow ==
    ASSUME NEW undo \in Seq(Changes), NEW u \in Changes, NEW d \in Int, Open1(undo, d)
    PROVE  Open1(Append(undo, u),
                 d + (IF u = Begin THEN 1 ELSE IF u = EndGroup THEN -1 ELSE 0))
<1>1. \A v : StartsOf(v, 1) = PlacesOf(v, Begin) /\ EndsOf(v, 1) = PlacesOf(v, EndGroup)
  BY DEF StartsOf, EndsOf, PlacesOf
<1>. DEFINE more == Append(undo, u)
            a == Cardinality(PlacesOf(undo, Begin))
            b == Cardinality(PlacesOf(undo, EndGroup))
<1>2. a \in Nat /\ Cardinality(PlacesOf(more, Begin)) = a + (IF u = Begin THEN 1 ELSE 0)
  BY PlacesGrow
<1>3. b \in Nat /\ Cardinality(PlacesOf(more, EndGroup)) = b + (IF u = EndGroup THEN 1 ELSE 0)
  BY PlacesGrow
<1>4. a = b + d  BY <1>1 DEF Open1
<1>5. Begin # EndGroup  BY ChangesAre
<1>6. Cardinality(StartsOf(more, 1)) = a + (IF u = Begin THEN 1 ELSE 0)
  <2>. HIDE DEF more
  <2>. QED  BY <1>1, <1>2
<1>7. Cardinality(EndsOf(more, 1)) = b + (IF u = EndGroup THEN 1 ELSE 0)
  <2>. HIDE DEF more
  <2>. QED  BY <1>1, <1>3
<1>. HIDE DEF a, b, more
<1>8. CASE u = Begin  BY <1>2, <1>3, <1>4, <1>5, <1>6, <1>7, <1>8 DEF Open1, more
<1>9. CASE u = EndGroup  BY <1>2, <1>3, <1>4, <1>5, <1>6, <1>7, <1>9 DEF Open1, more
<1>10. CASE u # Begin /\ u # EndGroup  BY <1>2, <1>3, <1>4, <1>6, <1>7, <1>10 DEF Open1, more
<1>. QED  BY <1>8, <1>9, <1>10

\* An insertion that goes on.
LEMMA Lengthened ==
    ASSUME NEW undo \in Seq(Changes), undo # <<>>, undo[Len(undo)].what = "ins",
           NEW n \in Nat, Fits(undo, n), undo[Len(undo)].end = n \/ undo[Len(undo)].end < n,
           NEW d \in Int, Open1(undo, d)
    PROVE  LET more == [undo EXCEPT ![Len(undo)].end = undo[Len(undo)].end + 1] IN
           more \in Seq(Changes) /\ Fits(more, n + 1) /\ Open1(more, d)
<1>. DEFINE k == Len(undo)
            more == [undo EXCEPT ![Len(undo)].end = undo[Len(undo)].end + 1]
            last == [undo[k] EXCEPT !.end = undo[k].end + 1]
<1>1. k \in Nat /\ k >= 1 /\ \A i \in 1 .. k : undo[i] \in Changes  OBVIOUS
<1>2. undo[k] \in [what : {"ins"}, start : Nat, end : Nat]
  BY <1>1 DEF Changes, Begin, EndGroup
<1>3. /\ last = [what |-> "ins", start |-> undo[k].start, end |-> undo[k].end + 1]
      /\ last \in Changes
  <2>1. undo[k].start \in Nat /\ undo[k].end + 1 \in Nat  BY <1>2
  <2>2. last = [what |-> "ins", start |-> undo[k].start, end |-> undo[k].end + 1]
    <3>. DEFINE e == undo[k]
    <3>1. e \in [what : {"ins"}, start : Nat, end : Nat]  BY <1>2
    <3>. QED  BY <3>1
  <2>. QED  BY <2>1, <2>2, ChangesAre
<1>4. /\ Len(more) = k /\ DOMAIN more = 1 .. k /\ more[k] = last
      /\ \A i \in 1 .. k : i # k => more[i] = undo[i]
  BY <1>1
<1>5. more \in Seq(Changes)
  <2>1. \A i \in 1 .. k : more[i] \in Changes
    <3>. HIDE DEF more, last
    <3>. QED  BY <1>1, <1>3, <1>4
  <2>2. more = [i \in 1 .. k |-> more[i]]  OBVIOUS
  <2>. HIDE DEF more, last
  <2>. QED  BY <2>1, <2>2, <1>1
<1>6. Fits(more, n + 1)
  <2>1. PICK lens \in [0 .. k -> Nat] : GoesBy(undo, lens, n)  BY DEF Fits
  <2>. DEFINE new == [i \in 0 .. k |-> IF i = k THEN n + 1 ELSE lens[i]]
  <2>2. new \in [0 .. k -> Nat] /\ new[k] = n + 1 /\ \A i \in 0 .. k : i # k => new[i] = lens[i]
    BY <1>1
  <2>. HIDE DEF new, last, more
  <2>3. ASSUME NEW i \in 1 .. k PROVE Goes(more[i], new[i - 1], new[i])
    <3>1. Goes(undo[i], lens[i - 1], lens[i])  BY <2>1 DEF GoesBy
    <3>2. CASE i # k
      <4>1. i - 1 \in 0 .. k /\ i - 1 # k  BY <1>1, <3>2
      <4>2. more[i] = undo[i]  BY <1>4, <3>2
      <4>3. new[i - 1] = lens[i - 1]  BY <2>2, <4>1
      <4>4. i \in 0 .. k  BY <1>1
      <4>5. new[i] = lens[i]  BY <2>2, <3>2, <4>4
      <4>. QED  BY <3>1, <4>2, <4>3, <4>5
    <3>3. CASE i = k
      <4>1. k - 1 \in 0 .. k /\ k - 1 # k  BY <1>1
      <4>2. new[k - 1] = lens[k - 1] /\ lens[k] = n  BY <2>1, <2>2, <4>1 DEF GoesBy
      <4>3. lens[k - 1] \in Nat  BY <4>1
      <4>4. undo[k].start <= undo[k].end /\ lens[k - 1] = n - (undo[k].end - undo[k].start)
        BY <3>1, <3>3, <4>2 DEF Goes
      <4>5. undo[k].start \in Nat /\ undo[k].end \in Nat /\ undo[k].end <= n  BY <1>2
      <4>6. last.what = "ins" /\ last.start = undo[k].start /\ last.end = undo[k].end + 1
        BY <1>3
      <4>7. Goes(last, lens[k - 1], n + 1)  
        <5>1. lens[k - 1] = (n + 1) - ((undo[k].end + 1) - undo[k].start)
          BY <4>3, <4>4, <4>5, SMTT(30)
        <5>2. undo[k].start <= undo[k].end + 1 /\ undo[k].end + 1 <= n + 1  BY <4>4, <4>5
        <5>. QED  BY <4>6, <5>1, <5>2, Zenon DEF Goes
      <4>8. more[i] = last /\ new[i - 1] = lens[k - 1] /\ new[i] = n + 1
        BY <1>4, <2>2, <3>3, <4>2
      <4>. QED  BY <4>7, <4>8
    <3>. QED  BY <3>2, <3>3
  <2>4. GoesBy(more, new, n + 1)  BY <1>4, <2>2, <2>3 DEF GoesBy
  <2>. QED  BY <1>4, <2>2, <2>4 DEF Fits
<1>7. Open1(more, d)
  <2>1. last # Begin /\ last # EndGroup /\ undo[k] # Begin /\ undo[k] # EndGroup
    BY <1>1, <1>2, <1>3 DEF Begin, EndGroup
  <2>. HIDE DEF more, last
  <2>2. StartsOf(more, 1) = StartsOf(undo, 1) /\ EndsOf(more, 1) = EndsOf(undo, 1)
    BY <1>1, <1>4, <2>1 DEF StartsOf, EndsOf
  <2>. QED  BY <2>2 DEF Open1
<1>. QED  BY <1>5, <1>6, <1>7

\* What goes in keeps the line whole, and is where the point was.
LEMMA InsertIs ==
    ASSUME NEW d \in Int, NEW r, Whole(r, d), NEW t \in Texts
    PROVE  /\ Whole(Insert(r, t), d)
           /\ Len(Insert(r, t).text) = Len(r.text) + Len(t)
           /\ Insert(r, t).point = r.point + Len(t)
           /\ \A i \in 1 .. Len(t) : Insert(r, t).text[r.point + i] = t[i]
<1>. DEFINE R == Insert(r, t)
            text == SubSeq(r.text, 1, r.point) \o t \o SubSeq(r.text, r.point + 1, Len(r.text))
            k == Len(r.undo)
            joins == /\ Len(t) = 1 /\ r.undo # <<>> /\ Last(r.undo).what = "ins"
                     /\ Last(r.undo).end = r.point /\ Last(r.undo).end - Last(r.undo).start < 20
            ins == [what |-> "ins", start |-> r.point, end |-> r.point + Len(t)]
            undo == IF joins THEN [r.undo EXCEPT ![k].end = r.point + Len(t)]
                    ELSE IF t = <<>> THEN r.undo ELSE Append(r.undo, ins)
<1>1. R = [text |-> text, point |-> r.point + Len(t), undo |-> undo]  BY DEF Insert
<1>2. /\ r.text \in Texts /\ r.point \in Nat /\ r.point <= Len(r.text) /\ r.undo \in Seq(Changes)
      /\ Fits(r.undo, Len(r.text)) /\ Open1(r.undo, d) /\ Len(r.text) \in Nat /\ Len(t) \in Nat
  BY DEF Whole, Sane, RlLines, Texts
<1>3. /\ text \in Texts /\ Len(text) = Len(r.text) + Len(t)
      /\ \A i \in 1 .. Len(t) : text[r.point + i] = t[i]
  <2>. DEFINE a == SubSeq(r.text, 1, r.point)
              b == SubSeq(r.text, r.point + 1, Len(r.text))
  <2>1. a \in Texts /\ Len(a) = r.point  BY <1>2 DEF Texts
  <2>2. b \in Texts /\ Len(b) = Len(r.text) - r.point  BY <1>2, SMTT(30) DEF Texts
  <2>. HIDE DEF a, b
  <2>3. /\ a \o t \in Texts /\ Len(a \o t) = Len(a) + Len(t)
        /\ \A i \in 1 .. Len(t) : (a \o t)[Len(a) + i] = t[i]
    BY <2>1, JoinIs
  <2>4. \A i \in 1 .. Len(t) : (a \o t)[r.point + i] = t[i]  BY <2>1, <2>3
  <2>. DEFINE c == a \o t
  <2>. HIDE DEF c
  <2>5. c \in Texts /\ Len(c) = r.point + Len(t)  BY <2>1, <2>3 DEF c
  <2>6. /\ c \o b \in Texts /\ Len(c \o b) = Len(c) + Len(b)
        /\ \A i \in 1 .. Len(c) : (c \o b)[i] = c[i]
    BY <2>2, <2>5, JoinIs
  <2>7. Len(c \o b) = Len(r.text) + Len(t)
    <3>1. (r.point + Len(t)) + (Len(r.text) - r.point) = Len(r.text) + Len(t)  BY <1>2
    <3>. QED  BY <2>2, <2>5, <2>6, <3>1
  <2>8. \A i \in 1 .. Len(t) : (c \o b)[r.point + i] = c[r.point + i]
    <3>1. \A i \in 1 .. Len(t) : r.point + i \in 1 .. Len(c)  BY <1>2, <2>5
    <3>. HIDE DEF c, b
    <3>. QED  BY <2>6, <3>1, Zenon
  <2>. QED  BY <2>4, <2>6, <2>7, <2>8 DEF c, a, b
<1>4. undo \in Seq(Changes) /\ Fits(undo, Len(r.text) + Len(t)) /\ Open1(undo, d)
  <2>. HIDE DEF text
  <2>1. CASE joins
    <3>1. /\ r.undo # <<>> /\ r.undo[k].what = "ins" /\ r.undo[k].end = r.point /\ Len(t) = 1
          /\ undo = [r.undo EXCEPT ![k].end = r.undo[k].end + 1]
      BY <2>1 DEF Last
    <3>2. r.undo[k].end = Len(r.text) \/ r.undo[k].end < Len(r.text)  BY <3>1, <1>2
    <3>. HIDE DEF undo, joins, ins
    <3>. QED  BY <1>2, <3>1, <3>2, Lengthened
  <2>2. CASE ~joins /\ t = <<>>
    <3>1. undo = r.undo /\ Len(t) = 0  BY <2>2
    <3>. HIDE DEF undo, joins
    <3>. QED  BY <1>2, <3>1
  <2>3. CASE ~joins /\ t # <<>>
    <3>1. undo = Append(r.undo, ins)  BY <2>3
    <3>2. ins \in Changes /\ ins # Begin /\ ins # EndGroup
      BY <1>2, ChangesAre
    <3>3. Goes(ins, Len(r.text), Len(r.text) + Len(t))  BY <1>2 DEF Goes
    <3>. HIDE DEF ins, undo, joins
    <3>4. Fits(undo, Len(r.text) + Len(t))  BY <1>2, <3>1, <3>2, <3>3, FitsGrow
    <3>5. Open1(undo, d + 0)  BY <1>2, <3>1, <3>2, OpenGrow
    <3>. QED  BY <1>2, <3>1, <3>2, <3>4, <3>5
  <2>. QED  BY <2>1, <2>2, <2>3
<1>. HIDE DEF undo, text
<1>5. R.text = text /\ R.undo = undo /\ R.point = r.point + Len(t) /\ R \in RlLines
  BY <1>1, <1>2, <1>3, <1>4 DEF RlLines
<1>6. Whole(R, d)
  <2>1. Fits(R.undo, Len(R.text)) /\ Open1(R.undo, d)
    <3>. HIDE DEF R
    <3>. QED  BY <1>3, <1>4, <1>5
  <2>2. R.point <= Len(R.text)
    <3>. HIDE DEF R
    <3>. QED  BY <1>2, <1>3, <1>5
  <2>. QED  BY <1>5, <2>1, <2>2 DEF Whole, Sane
<1>. QED  BY <1>3, <1>5, <1>6

\* What an insertion leaves of a line.
LEMMA InsertFits ==
    ASSUME NEW d \in Int, NEW r, Whole(r, d), NEW t \in Texts
    PROVE  Whole(Insert(r, t), d) /\ Len(Insert(r, t).text) = Len(r.text) + Len(t)
BY InsertIs, Zenon

\* A text is another without what that has from one point to the next.
Without(text, whole, from, to) ==
    /\ \A i \in 1 .. from : text[i] = whole[i]
    /\ \A i \in from + 1 .. Len(whole) - (to - from) : text[i] = whole[i + (to - from)]

\* What goes out leaves the line whole but for its point.
LEMMA DeleteIs ==
    ASSUME NEW d \in Int, NEW r, Sane(r, d), NEW to \in 0 .. Len(r.text), NEW from \in 0 .. to
    PROVE  /\ Sane(Delete(r, from, to), d)
           /\ Len(Delete(r, from, to).text) = Len(r.text) - (to - from)
           /\ Delete(r, from, to).point = r.point
           /\ Without(Delete(r, from, to).text, r.text, from, to)
<1>. DEFINE R == Delete(r, from, to)
            text == SubSeq(r.text, 1, from) \o SubSeq(r.text, to + 1, Len(r.text))
            u == [what |-> "del", start |-> from, text |-> SubSeq(r.text, from + 1, to)]
<1>1. /\ r.text \in Texts /\ r.point \in Nat /\ r.undo \in Seq(Changes)
      /\ Fits(r.undo, Len(r.text)) /\ Open1(r.undo, d) /\ Len(r.text) \in Nat
      /\ r \in [text : Texts, point : Nat, undo : Seq(Changes)]
  BY DEF Sane, RlLines, Texts
<1>2. from \in Nat /\ to \in Nat /\ from <= to /\ to <= Len(r.text)  BY <1>1
<1>3. R = [text |-> text, point |-> r.point, undo |-> Append(r.undo, u)]
  <2>1. text \in Texts
    <3>. DEFINE a == SubSeq(r.text, 1, from)
                b == SubSeq(r.text, to + 1, Len(r.text))
    <3>1. a \in Texts /\ b \in Texts  BY <1>1, <1>2 DEF Texts
    <3>. HIDE DEF a, b
    <3>2. a \o b \in Texts  BY <3>1, JoinIs
    <3>. QED  BY <3>2 DEF a, b
  <2>2. R = [r EXCEPT !.text = text, !.undo = Append(@, u)]  BY DEF Delete
  <2>. HIDE DEF text, u, R
  <2>. QED  BY <1>1, <2>1, <2>2, PartsAre
<1>4. /\ text \in Texts /\ Len(text) = Len(r.text) - (to - from)
      /\ \A i \in 1 .. from : text[i] = r.text[i]
      /\ \A i \in from + 1 .. Len(r.text) - (to - from) : text[i] = r.text[i + (to - from)]
  <2>. DEFINE a == SubSeq(r.text, 1, from)
              b == SubSeq(r.text, to + 1, Len(r.text))
  <2>1. a \in Texts /\ Len(a) = from /\ \A i \in 1 .. from : a[i] = r.text[i]
    BY <1>1, <1>2 DEF Texts
  <2>2. /\ b \in Texts /\ Len(b) = Len(r.text) - to
        /\ \A i \in 1 .. Len(r.text) - to : b[i] = r.text[i + to]
    BY <1>1, <1>2, SMTT(30) DEF Texts
  <2>. HIDE DEF a, b
  <2>9. /\ a \o b \in Texts /\ Len(a \o b) = Len(a) + Len(b)
        /\ \A i \in 1 .. Len(a) : (a \o b)[i] = a[i]
        /\ \A i \in 1 .. Len(b) : (a \o b)[Len(a) + i] = b[i]
    BY <2>1, <2>2, JoinIs
  <2>3. /\ a \o b \in Texts /\ Len(a \o b) = Len(r.text) - (to - from)
        /\ \A i \in 1 .. from : (a \o b)[i] = a[i]
    BY <1>1, <1>2, <2>9, <2>1, <2>2
  <2>4. ASSUME NEW i \in from + 1 .. Len(r.text) - (to - from)
        PROVE (a \o b)[i] = r.text[i + (to - from)]
    <3>1. i - from \in 1 .. Len(r.text) - to  BY <1>1, <1>2
    <3>2. (a \o b)[i] = b[i - from]
      <4>1. from + (i - from) = i  BY <1>2
      <4>. QED  BY <2>9, <2>1, <2>2, <3>1, <4>1
    <3>3. (i - from) + to = i + (to - from)  BY <1>2
    <3>. QED  BY <2>2, <3>1, <3>2, <3>3
  <2>. QED  BY <2>1, <2>3, <2>4 DEF a, b
<1>5. u \in Changes /\ u # Begin /\ u # EndGroup /\ u.what = "del" /\ u.start = from
      /\ Len(u.text) = to - from
  <2>1. SubSeq(r.text, from + 1, to) \in Texts /\ Len(SubSeq(r.text, from + 1, to)) = to - from
    BY <1>1, <1>2 DEF Texts
  <2>2. u \in Changes  BY <1>2, <2>1, ChangesAre
  <2>. QED  BY <2>1, <2>2, ChangesAre
<1>6. Goes(u, Len(r.text), Len(r.text) - (to - from))
  <2>. HIDE DEF u
  <2>. QED  BY <1>1, <1>2, <1>5, SMTT(30) DEF Goes
<1>. HIDE DEF u, text
<1>7. Fits(Append(r.undo, u), Len(text))
  <2>1. Len(r.text) - (to - from) \in Nat  BY <1>1, <1>2
  <2>. QED  BY <1>1, <1>4, <1>5, <1>6, <2>1, FitsGrow
<1>8. Open1(Append(r.undo, u), d)
  <2>1. Open1(Append(r.undo, u), d + 0)  BY <1>1, <1>5, OpenGrow
  <2>. QED  BY <2>1
<1>9. /\ R.text = text /\ R.point = r.point /\ R.undo = Append(r.undo, u)
      /\ Append(r.undo, u) \in Seq(Changes)
  BY <1>1, <1>3, <1>5
<1>10. R \in RlLines  BY <1>1, <1>3, <1>4, <1>9 DEF RlLines
<1>11. Sane(R, d)
  <2>. HIDE DEF R
  <2>. QED  BY <1>7, <1>8, <1>9, <1>10 DEF Sane
<1>12. Without(R.text, r.text, from, to)  BY <1>4, <1>9 DEF Without
<1>. QED  BY <1>4, <1>9, <1>11, <1>12

\* A point of the text makes it whole.
LEMMA SetPointIs ==
    ASSUME NEW d \in Int, NEW r, Sane(r, d), NEW p \in 0 .. Len(r.text)
    PROVE  /\ Whole(SetPoint(r, p), d) /\ SetPoint(r, p).point = p
           /\ SetPoint(r, p).text = r.text
<1>1. r \in [text : Texts, point : Nat, undo : Seq(Changes)]  BY DEF Sane, RlLines
<1>2. SetPoint(r, p) = [text |-> r.text, point |-> p, undo |-> r.undo]  BY <1>1 DEF SetPoint
<1>3. Len(r.text) \in Nat /\ p \in Nat /\ p <= Len(r.text)  BY <1>1 DEF Texts
<1>4. SetPoint(r, p) \in RlLines  BY <1>1, <1>2, <1>3 DEF RlLines
<1>. QED  BY <1>2, <1>3, <1>4 DEF Whole, Sane

\* A group opens and closes.
LEMMA GroupIs ==
    ASSUME NEW d \in Int, NEW r, Whole(r, d)
    PROVE  /\ Whole(BeginGroup(r), d + 1) /\ BeginGroup(r).text = r.text
           /\ BeginGroup(r).point = r.point
           /\ Whole(CloseGroup(r), d - 1) /\ CloseGroup(r).text = r.text
           /\ CloseGroup(r).point = r.point
<1>1. /\ r \in [text : Texts, point : Nat, undo : Seq(Changes)] /\ r.point <= Len(r.text)
      /\ Fits(r.undo, Len(r.text)) /\ Open1(r.undo, d) /\ r.undo \in Seq(Changes)
      /\ Len(r.text) \in Nat
  BY DEF Whole, Sane, RlLines, Texts
<1>2. /\ BeginGroup(r) = [text |-> r.text, point |-> r.point, undo |-> Append(r.undo, Begin)]
      /\ CloseGroup(r) = [text |-> r.text, point |-> r.point, undo |-> Append(r.undo, EndGroup)]
  BY <1>1, PartsAre DEF BeginGroup, CloseGroup
<1>3. \A n \in Nat : Goes(Begin, n, n) /\ Goes(EndGroup, n, n)  BY ChangesAre DEF Goes
<1>4. /\ Fits(Append(r.undo, Begin), Len(r.text)) /\ Open1(Append(r.undo, Begin), d + 1)
      /\ Fits(Append(r.undo, EndGroup), Len(r.text)) /\ Open1(Append(r.undo, EndGroup), d - 1)
  <2>1. Fits(Append(r.undo, Begin), Len(r.text))  BY <1>1, <1>3, ChangesAre, FitsGrow
  <2>2. Fits(Append(r.undo, EndGroup), Len(r.text))  BY <1>1, <1>3, ChangesAre, FitsGrow
  <2>3. Open1(Append(r.undo, Begin), d + 1)  BY <1>1, ChangesAre, OpenGrow
  <2>4. Open1(Append(r.undo, EndGroup), d + -1)  BY <1>1, ChangesAre, OpenGrow
  <2>. QED  BY <2>1, <2>2, <2>3, <2>4
<1>5. Append(r.undo, Begin) \in Seq(Changes) /\ Append(r.undo, EndGroup) \in Seq(Changes)
  BY <1>1, ChangesAre
<1>6. BeginGroup(r) \in RlLines /\ CloseGroup(r) \in RlLines  BY <1>1, <1>2, <1>5 DEF RlLines
<1>. QED  BY <1>1, <1>2, <1>4, <1>6 DEF Whole, Sane

-----------------------------------------------------------------------------
(* What edits make of a line. *)

\* What a part of the line is taken out of, with the point where it was.
LEMMA CutIs ==
    ASSUME NEW d \in Int, NEW r, Sane(r, d), NEW part, Within(part, r.text)
    PROVE  /\ Whole(SetPoint(Delete(r, part.from, part.to), part.from), d)
           /\ SetPoint(Delete(r, part.from, part.to), part.from).text
                = Delete(r, part.from, part.to).text
<1>. DEFINE from == part.from
            to == part.to
            s == Delete(r, from, to)
<1>1. Len(r.text) \in Nat /\ to \in 0 .. Len(r.text) /\ from \in 0 .. to
  BY DEF Sane, RlLines, Texts, Within
<1>. HIDE DEF from, to
<1>2. Sane(s, d) /\ Len(s.text) = Len(r.text) - (to - from)  BY <1>1, DeleteIs
<1>3. from \in 0 .. Len(s.text)
  <2>. HIDE DEF s
  <2>. QED  BY <1>1, <1>2
<1>. HIDE DEF s
<1>4. Whole(SetPoint(s, from), d) /\ SetPoint(s, from).text = s.text
  BY <1>2, <1>3, SetPointIs
<1>. QED  BY <1>4 DEF s, from, to

\* The least and the most that a line's edits need of it.
LEMMA WholeIs ==
    ASSUME NEW d \in Int, NEW r, Whole(r, d)
    PROVE  /\ Sane(r, d) /\ r.text \in Texts /\ Len(r.text) \in Nat
           /\ r.point \in 0 .. Len(r.text)
BY DEF Whole, Sane, RlLines, Texts

\* A text of one character, and of two.
LEMMA CharsAre ==
    ASSUME NEW a \in Chars, NEW b \in Chars
    PROVE  /\ <<a>> \in Texts /\ Len(<<a>>) = 1 /\ <<a, b>> \in Texts /\ Len(<<a, b>>) = 2
           /\ <<>> \in Texts
BY DEF Texts

\* The brackets and quotes.
LEMMA PressedIs ==
    ASSUME NEW d \in Int, NEW r, Whole(r, d), NEW c \in Chars
    PROVE  Whole(Pressed(r, c), d)
<1>1. /\ Sane(r, d) /\ r.text \in Texts /\ Len(r.text) \in Nat /\ r.point \in 0 .. Len(r.text)
  BY WholeIs
<1>2. Whole(Insert(r, <<c>>), d)  BY CharsAre, InsertIs
<1>3. NextChar(r) = c => Whole(SetPoint(r, r.point + 1), d)
  <2>1. SUFFICES ASSUME NextChar(r) = c PROVE r.point + 1 \in 0 .. Len(r.text)
    BY <1>1, SetPointIs
  <2>2. r.point # Len(r.text)  BY <2>1, EditorConstantsOK DEF NextChar
  <2>. QED  BY <1>1, <2>2
<1>4. c \in DOMAIN CloserOf =>
        Whole(CloseGroup(SetPoint(Insert(BeginGroup(r), <<c, CloserOf[c]>>), r.point + 1)), d)
  <2>1. SUFFICES ASSUME c \in DOMAIN CloserOf
                 PROVE Whole(CloseGroup(SetPoint(Insert(BeginGroup(r), <<c, CloserOf[c]>>),
                                                 r.point + 1)), d)
    OBVIOUS
  <2>. DEFINE b == BeginGroup(r)
              t == <<c, CloserOf[c]>>
              i == Insert(b, t)
              s == SetPoint(i, r.point + 1)
  <2>2. Whole(b, d + 1) /\ b.text = r.text /\ b.point = r.point /\ d + 1 \in Int
    BY GroupIs
  <2>3. t \in Texts /\ Len(t) = 2  BY <2>1, EditorConstantsOK, CharsAre
  <2>. HIDE DEF b, t
  <2>. DEFINE more == d + 1
  <2>9. Whole(b, more) /\ more \in Int  BY <2>2
  <2>. HIDE DEF more
  <2>10. Whole(i, more) /\ Len(i.text) = Len(b.text) + Len(t)  BY <2>3, <2>9, InsertFits
  <2>4. Whole(i, d + 1) /\ Len(i.text) = Len(b.text) + Len(t)  BY <2>10 DEF more
  <2>. HIDE DEF i
  <2>5. r.point + 1 \in 0 .. Len(i.text)  BY <1>1, <2>2, <2>3, <2>4
  <2>6. Whole(s, d + 1)  BY <2>2, <2>4, <2>5, WholeIs, SetPointIs
  <2>. HIDE DEF s
  <2>7. Whole(CloseGroup(s), (d + 1) - 1)  BY <2>2, <2>6, GroupIs
  <2>8. (d + 1) - 1 = d  OBVIOUS
  <2>. QED  BY <2>7, <2>8 DEF s, i, t, b
<1>5. c \in DOMAIN CloserOf => Whole(InsertPair(r, c), d)
  <2>1. OpenSkips(r, c) => NextChar(r) = c  BY DEF OpenSkips
  <2>. QED  BY <1>2, <1>3, <1>4, <2>1 DEF InsertPair
<1>6. Whole(InsertClose(r, c), d)  BY <1>2, <1>3 DEF InsertClose
<1>. QED  BY <1>2, <1>5, <1>6 DEF Pressed

\* DEL on a bracket or quote and its closer, or on a character.
LEMMA DeletePairIs ==
    ASSUME NEW d \in Int, NEW r, Whole(r, d), r.point > 0
    PROVE  Whole(DeletePair(r), d)
<1>1. /\ Sane(r, d) /\ r.text \in Texts /\ Len(r.text) \in Nat /\ r.point \in 0 .. Len(r.text)
  BY WholeIs
<1>2. Whole(Rubout(r), d)
  <2>1. Within(Part(r.point - 1, r.point), r.text)  BY <1>1 DEF Within, Part
  <2>2. Whole(SetPoint(Delete(r, r.point - 1, r.point), r.point - 1), d)
    BY <1>1, <2>1, CutIs DEF Part
  <2>. QED  BY <2>2 DEF Rubout
<1>3. NextChar(r) # None => Whole(SetPoint(Delete(r, r.point - 1, r.point + 1), r.point - 1), d)
  <2>1. SUFFICES ASSUME NextChar(r) # None
                 PROVE Whole(SetPoint(Delete(r, r.point - 1, r.point + 1), r.point - 1), d)
    OBVIOUS
  <2>2. r.point # Len(r.text)  BY <2>1 DEF NextChar
  <2>3. Within(Part(r.point - 1, r.point + 1), r.text)  BY <1>1, <2>2 DEF Within, Part
  <2>. QED  BY <1>1, <2>3, CutIs DEF Part
<1>. QED  BY <1>2, <1>3 DEF DeletePair

\* C-d.
LEMMA DeleteAheadIs ==
    ASSUME NEW d \in Int, NEW r, Whole(r, d), r.point < Len(r.text)
    PROVE  Whole(Delete(r, r.point, r.point + 1), d)
<1>1. /\ Sane(r, d) /\ r.text \in Texts /\ Len(r.text) \in Nat /\ r.point \in 0 .. Len(r.text)
  BY WholeIs
<1>. DEFINE s == Delete(r, r.point, r.point + 1)
<1>2. r.point + 1 \in 0 .. Len(r.text) /\ r.point \in 0 .. r.point + 1
      /\ (r.point + 1) - r.point = 1  BY <1>1
<1>3. Sane(s, d) /\ Len(s.text) = Len(r.text) - ((r.point + 1) - r.point) /\ s.point = r.point
  BY <1>1, <1>2, DeleteIs
<1>4. s.point <= Len(s.text)
  <2>. HIDE DEF s
  <2>. QED  BY <1>1, <1>2, <1>3
<1>. QED  BY <1>3, <1>4 DEF Whole

\* The region is a part of the line.
LEMMA RegionWithin ==
    ASSUME NEW d \in Int, NEW r, Whole(r, d), NEW g \in Regions
    PROVE  /\ Within(RegionRange(r, g), r.text) /\ RegionRange(r, g).from \in Nat
           /\ RegionRange(r, g).to \in Nat /\ Whole(AtRange(r, g), d)
<1>1. /\ Sane(r, d) /\ r.text \in Texts /\ Len(r.text) \in Nat /\ r.point \in 0 .. Len(r.text)
  BY WholeIs
<1>2. g.mark \in Nat  BY DEF Regions
<1>. DEFINE mark == Min({g.mark, Len(r.text)})
<1>3. mark \in 0 .. Len(r.text)
  <2>1. mark = IF g.mark <= Len(r.text) THEN g.mark ELSE Len(r.text)  BY <1>1, <1>2, OfTwo
  <2>. HIDE DEF mark
  <2>. QED  BY <1>1, <1>2, <2>1
<1>4. RegionRange(r, g) = Part(Min({r.point, mark}), Max({r.point, mark}))  BY DEF RegionRange
<1>. HIDE DEF mark
<1>5. Min({r.point, mark}) \in 0 .. Max({r.point, mark}) /\ Max({r.point, mark}) \in 0 .. Len(r.text)
  <2>1. /\ Min({r.point, mark}) = IF r.point <= mark THEN r.point ELSE mark
        /\ Max({r.point, mark}) = IF r.point <= mark THEN mark ELSE r.point
    <3>1. r.point \in Int /\ mark \in Int  BY <1>1, <1>3
    <3>. QED  BY <3>1, OfTwo, Zenon
  <2>. QED  BY <1>1, <1>3, <2>1
<1>6. /\ Within(RegionRange(r, g), r.text) /\ RegionRange(r, g).from \in Nat
      /\ RegionRange(r, g).to \in Nat
  BY <1>1, <1>4, <1>5 DEF Within, Part
<1>7. Whole(AtRange(r, g), d)  BY <1>1, <1>6, CutIs DEF AtRange
<1>. QED  BY <1>6, <1>7

-----------------------------------------------------------------------------
(* A new line. *)

\* Blanks that are put in.
LEMMA SpacesAre == \A n \in Nat : Spaces(n) \in Texts /\ Len(Spaces(n)) = n
<1>1. Space \in Chars  BY LinesConstantsOK
<1>. QED  BY <1>1 DEF Spaces, Texts

\* How many blanks go out with a line are no more than it has.
LEMMA FirstBlanksAre ==
    ASSUME NEW base \in Texts
    PROVE  FirstBlanks(base) \in 0 .. Len(base)
<1>1. Len(base) \in Nat /\ Step \in Nat  BY IndentConstantsOK DEF Texts
<1>2. CASE base # <<>> /\ Head(base) = Tab
  <2>1. FirstBlanks(base) = 1  BY <1>2 DEF FirstBlanks
  <2>2. Len(base) >= 1  BY <1>2 DEF Texts
  <2>. QED  BY <1>1, <2>1, <2>2
<1>3. CASE ~(base # <<>> /\ Head(base) = Tab)
  <2>. DEFINE m == Min({Step, Len(base)})
              S == {n \in 0 .. m : SubSeq(base, 1, n) = Spaces(n)}
  <2>1. m \in 0 .. Len(base)
    <3>1. m = IF Step <= Len(base) THEN Step ELSE Len(base)  BY <1>1, OfTwo
    <3>. HIDE DEF m
    <3>. QED  BY <1>1, <3>1
  <2>2. FirstBlanks(base) = Max(S)  BY <1>3 DEF FirstBlanks
  <2>. HIDE DEF m
  <2>3. 0 \in S
    <3>1. SubSeq(base, 1, 0) = <<>>  BY DEF Texts
    <3>2. Spaces(0) = <<>>  BY SpacesAre DEF Texts
    <3>3. 0 \in 0 .. m  BY <1>1, <2>1
    <3>4. SubSeq(base, 1, 0) = Spaces(0)  BY <3>1, <3>2
    <3>. QED  BY <3>3, <3>4, Zenon
  <2>4. S \subseteq 0 .. Len(base)  BY <1>1, <2>1
  <2>5. Max(S) \in S
    <3>1. S # {}  BY <2>3
    <3>. HIDE DEF S
    <3>. QED  BY <1>1, <2>4, <3>1, MaxIs
  <2>. HIDE DEF S
  <2>. QED  BY <2>2, <2>4, <2>5
<1>. QED  BY <1>2, <1>3

\* The same of a whole line.
LEMMA OutdentIs ==
    ASSUME NEW own \in Texts
    PROVE  Outdent(own) \in 0 .. Len(own)
<1>1. Indentation(own) \in Texts /\ Len(Indentation(own)) \in 0 .. Len(own)  BY IndentationIs
<1>2. FirstBlanks(Indentation(own)) \in 0 .. Len(Indentation(own))  BY <1>1, FirstBlanksAre
<1>3. Outdent(own) = 0 \/ Outdent(own) = FirstBlanks(Indentation(own))  BY DEF Outdent
<1>4. Len(own) \in Nat  BY DEF Texts
<1>5. 0 \in 0 .. Len(own) /\ FirstBlanks(Indentation(own)) \in 0 .. Len(own)
  BY <1>1, <1>2, <1>4
<1>. QED  BY <1>3, <1>5

\* A line that moves out.
LEMMA MovedOutIs ==
    ASSUME NEW d \in Int, NEW r, Whole(r, d)
    PROVE  Whole(MovedOut(r), d)
<1>1. /\ Sane(r, d) /\ r.text \in Texts /\ Len(r.text) \in Nat /\ r.point \in 0 .. Len(r.text)
      /\ r.point \in Nat
  BY WholeIs
<1>. DEFINE start == LineStart(r.text, r.point)
            own == LineAt(r.text, r.point)
            remove == Outdent(own)
            s == Delete(r, start, start + remove)
<1>2. start \in 0 .. r.point /\ LineEnd(r.text, r.point) \in r.point .. Len(r.text)
  BY <1>1, LineStartIs, LineEndIs
<1>3. own \in Texts /\ Len(own) = LineEnd(r.text, r.point) - start  BY <1>1, LineAtIs
<1>4. remove \in 0 .. Len(own)
  <2>. HIDE DEF own
  <2>. QED  BY <1>3, OutdentIs
<1>. DEFINE to == start + remove
            after == Max({start, r.point - remove})
<1>5. to \in 0 .. Len(r.text) /\ start \in 0 .. to /\ to - start = remove /\ remove \in Nat
      /\ start \in Nat
  <2>. HIDE DEF start, own, remove
  <2>. QED  BY <1>1, <1>2, <1>3, <1>4
<1>6. Sane(s, d) /\ Len(s.text) = Len(r.text) - remove
  <2>1. s = Delete(r, start, to)  OBVIOUS
  <2>. HIDE DEF start, remove, to, s
  <2>2. Sane(Delete(r, start, to), d) /\ Len(Delete(r, start, to).text) = Len(r.text) - (to - start)
    <3>1. Sane(r, d) /\ to \in 0 .. Len(r.text) /\ start \in 0 .. to  BY <1>1, <1>5
    <3>. QED  BY <3>1, DeleteIs
  <2>. QED  BY <1>5, <2>1, <2>2
<1>7. after \in 0 .. Len(s.text)
  <2>1. after = IF start <= r.point - remove THEN r.point - remove ELSE start
    <3>. DEFINE m == r.point - remove
    <3>. HIDE DEF start, remove
    <3>1. start \in Int /\ m \in Int  BY <1>1, <1>5
    <3>. HIDE DEF m
    <3>2. Max({start, m}) = IF start <= m THEN m ELSE start  BY <3>1, OfTwo, Zenon
    <3>. QED  BY <3>2 DEF m
  <2>2. start <= Len(r.text) - remove
    <3>. HIDE DEF start, remove
    <3>. QED  BY <1>1, <1>5 DEF to
  <2>. HIDE DEF start, remove, to, s, after
  <2>. QED  BY <1>1, <1>5, <1>6, <2>1, <2>2, SMTT(30)
<1>8. Whole(SetPoint(s, after), d)
  <2>. HIDE DEF s, after
  <2>. QED  BY <1>6, <1>7, SetPointIs
<1>9. MovedOut(r) = r \/ MovedOut(r) = SetPoint(s, after)  BY DEF MovedOut
<1>. QED
  <2>. HIDE DEF s, after
  <2>. QED  BY <1>8, <1>9
\* The indentation of a line made one step less.
LEMMA ShallowerIs ==
    ASSUME NEW base \in Texts
    PROVE  Shallower(base) \in Texts
<1>1. Len(base) \in Nat /\ Step \in Nat  BY IndentConstantsOK DEF Texts
<1>. DEFINE trailing == {n \in 0 .. Len(base) :
                           \A i \in Len(base) - n + 1 .. Len(base) : base[i] = Space}
            m == Max(trailing)
            out == Min({m, Step})
<1>2. out \in 0 .. Len(base)
  <2>1. 0 \in trailing
    <3>1. \A i \in Len(base) - 0 + 1 .. Len(base) : FALSE  BY <1>1
    <3>. QED  BY <1>1, <3>1
  <2>2. m \in 0 .. Len(base)
    <3>1. trailing # {} /\ trailing \subseteq 0 .. Len(base)  BY <2>1
    <3>. HIDE DEF trailing
    <3>. QED  BY <1>1, <3>1, MaxIs
  <2>. HIDE DEF m
  <2>3. m \in Int /\ Step \in Int  BY <1>1, <2>2
  <2>4. out = IF m <= Step THEN m ELSE Step  BY <2>3, OfTwo, Zenon
  <2>. HIDE DEF out
  <2>. QED  BY <1>1, <2>2, <2>4
<1>3. Shallower(base) = Front(base) \/ Shallower(base) = SubSeq(base, 1, Len(base) - out)
  BY DEF Shallower
<1>4. base # <<>> => Front(base) \in Texts  BY <1>1 DEF Front, Texts
<1>5. SubSeq(base, 1, Len(base) - out) \in Texts
  <2>. HIDE DEF out
  <2>. QED  BY <1>1, <1>2 DEF Texts
<1>6. base = <<>> => Shallower(base) = SubSeq(base, 1, Len(base) - out)  BY DEF Shallower
<1>. QED
  <2>. HIDE DEF out
  <2>. QED  BY <1>3, <1>4, <1>5, <1>6

\* The indentation of a new line.
LEMMA ForNewLineIs ==
    ASSUME NEW text \in Texts, NEW p \in 0 .. Len(text)
    PROVE  ForNewLine(text, p) \in Texts
<1>. DEFINE own == SubSeq(text, LineStart(text, p) + 1, p)
            base == Indentation(own)
<1>1. own \in Texts
  <2>1. LineStart(text, p) \in 0 .. p /\ p \in Nat  BY LineStartIs
  <2>. QED  BY <2>1 DEF Texts
<1>2. base \in Texts
  <2>. HIDE DEF own
  <2>. QED  BY <1>1, IndentationIs
<1>3. /\ ForNewLine(text, p) \in {base, base \o Spaces(Step), Shallower(base)}
  BY DEF ForNewLine
<1>4. base \o Spaces(Step) \in Texts /\ Shallower(base) \in Texts
  <2>1. Spaces(Step) \in Texts  BY SpacesAre, IndentConstantsOK
  <2>. HIDE DEF base
  <2>. QED  BY <1>2, <2>1, JoinIs, ShallowerIs
<1>. QED
  <2>. HIDE DEF base
  <2>. QED  BY <1>2, <1>3, <1>4

\* The indentation of a line of a script.
LEMMA ForDepthIs ==
    ASSUME NEW base \in Texts, NEW depth \in Nat
    PROVE  ForDepth(base, depth) \in Texts
<1>. DEFINE m == Min({depth, MostDepth})
            n == (1 + m) * Step
<1>1. Step \in Nat /\ MostDepth \in Nat  BY IndentConstantsOK
<1>2. m \in Nat
  <2>1. m = IF depth <= MostDepth THEN depth ELSE MostDepth  BY <1>1, OfTwo
  <2>. HIDE DEF m
  <2>. QED  BY <1>1, <2>1
<1>3. n \in Nat
  <2>. HIDE DEF m
  <2>1. 1 + m \in Nat  BY <1>2
  <2>2. \A a, b \in Nat : a * b \in Nat  OBVIOUS
  <2>. QED  BY <1>1, <2>1, <2>2
<1>4. ForDepth(base, depth) = base \o Spaces(n)  BY DEF ForDepth
<1>5. Spaces(n) \in Texts
  <2>. HIDE DEF n
  <2>. QED  BY <1>3, SpacesAre
<1>6. base \o Spaces(n) \in Texts
  <2>. HIDE DEF n
  <2>. QED  BY <1>5, JoinIs
<1>. QED  BY <1>4, <1>6

\* A quote that is open was opened before the point.
LEMMA OpenQuoteIs ==
    ASSUME NEW text \in Texts, NEW p \in 0 .. Len(text), ~StartsCode(text, p)
    PROVE  OpenQuote(text, p) \in Nat /\ OpenQuote(text, p) < p
<1>. DEFINE S == {i \in Quotes(text) : i <= p}
<1>1. S \subseteq 0 .. p /\ \A i \in S : i >= 1
  BY DEF Quotes, Texts
<1>2. S # {}
  <2>1. Cardinality({}) % 2 = 0  BY FS_EmptySet
  <2>2. Cardinality(S) % 2 # 0  BY DEF StartsCode
  <2>. HIDE DEF S
  <2>. QED  BY <2>1, <2>2
<1>3. Max(S) \in S /\ p \in Nat
  <2>1. p \in Nat  OBVIOUS
  <2>. HIDE DEF S
  <2>. QED  BY <1>1, <1>2, <2>1, MaxIs
<1>. DEFINE m == Max(S)
<1>4. OpenQuote(text, p) = m - 1  BY DEF OpenQuote
<1>5. m \in 0 .. p /\ m >= 1
  <2>. HIDE DEF S
  <2>. QED  BY <1>1, <1>3
<1>. HIDE DEF m
<1>. QED  BY <1>3, <1>4, <1>5

\* The line of a script's command is no further than the one of the point.
LEMMA CommandLineIs ==
    ASSUME NEW d \in Int, NEW r, Whole(r, d), ~StartsCode(r.text, r.point), InScript(r)
    PROVE  CommandLine(r) \in 0 .. LineStart(r.text, r.point)
<1>1. /\ Sane(r, d) /\ r.text \in Texts /\ Len(r.text) \in Nat /\ r.point \in 0 .. Len(r.text)
  BY WholeIs
<1>. DEFINE quote == OpenQuote(r.text, r.point)
            S == {i \in 1 .. quote : r.text[i] = ModeWord}
<1>2. quote \in Nat /\ quote < r.point  BY <1>1, OpenQuoteIs
<1>3. S # {} /\ S \subseteq 0 .. quote  BY DEF InScript
<1>4. Max(S) \in 0 .. quote
  <2>. HIDE DEF S, quote
  <2>. QED  BY <1>2, <1>3, MaxIs
<1>5. CommandLine(r) = LineStart(r.text, Max(S))  BY DEF CommandLine
<1>. DEFINE m == Max(S)
<1>6. m \in Nat /\ m < r.point
  <2>. HIDE DEF S, quote
  <2>. QED  BY <1>1, <1>2, <1>4
<1>. HIDE DEF m
<1>7. /\ LineStart(r.text, m) \in 0 .. m /\ LineStart(r.text, m) \in Starts(r.text)
  BY <1>1, <1>6, LineStartIs
<1>8. LineStart(r.text, m) <= r.point /\ LineStart(r.text, m) \in Nat  BY <1>1, <1>6, <1>7
<1>9. r.point \in Nat /\ LineStart(r.text, r.point) \in 0 .. r.point
  BY <1>1, LineStartIs
<1>10. LineStart(r.text, m) <= LineStart(r.text, r.point)
  BY <1>1, <1>7, <1>8, <1>9, LineStartIs
<1>. QED  BY <1>5, <1>8, <1>9, <1>10 DEF m

\* What a new line in a script is given.
LEMMA ScriptLineIs ==
    ASSUME NEW text \in Texts, NEW p \in 0 .. Len(text), NEW at \in 0 .. Len(text), NEW first,
           NEW answer, answer = <<>> \/ answer \in DepthAnswers
    PROVE  LET split == ScriptLine(text, p, at, first, answer) IN
           /\ split.newLine \in Texts
           /\ split.movedOut # <<>> =>
                /\ split.movedOut[1] \in Texts
                /\ p > LineStart(text, p) + Len(Indentation(LineAt(text, p)))
<1>. DEFINE start == LineStart(text, p)
            present == Indentation(LineAt(text, p))
            base == Indentation(LineAt(text, at))
            out == IF answer = <<>> \/ answer[1].current = <<>> THEN <<>>
                   ELSE <<ForDepth(base, answer[1].current[1])>>
            moves == /\ out # <<>> /\ start # first /\ p > start + Len(present)
                     /\ WidthFrom0(out[1]) < WidthFrom0(present)
            newLine == IF answer # <<>> THEN ForDepth(base, answer[1].new)
                       ELSE IF start = first THEN ForDepth(base, 0) ELSE present
<1>1. present \in Texts /\ base \in Texts  BY IndentationOfLine
<1>2. answer # <<>> => /\ answer[1].new \in Nat
                       /\ answer[1].current # <<>> => answer[1].current[1] \in Nat
  BY EditorConstantsOK
<1>3. newLine \in Texts
  <2>. HIDE DEF present, base, start
  <2>. QED  BY <1>1, <1>2, ForDepthIs
<1>4. out # <<>> => out[1] \in Texts
  <2>1. SUFFICES ASSUME out # <<>> PROVE out[1] \in Texts  OBVIOUS
  <2>2. answer # <<>> /\ answer[1].current # <<>>  BY <2>1
  <2>3. answer[1].current[1] \in Nat  BY <1>2, <2>2
  <2>4. out[1] = ForDepth(base, answer[1].current[1])  BY <2>2
  <2>. HIDE DEF base, out
  <2>. QED  BY <1>1, <2>3, <2>4, ForDepthIs
<1>5. ScriptLine(text, p, at, first, answer)
        = [newLine |-> newLine, movedOut |-> IF moves THEN out ELSE <<>>]
  BY DEF ScriptLine
<1>6. moves => out # <<>> /\ p > start + Len(present)  OBVIOUS
<1>. HIDE DEF newLine, out, moves
<1>7. /\ ScriptLine(text, p, at, first, answer).newLine = newLine
      /\ ScriptLine(text, p, at, first, answer).movedOut = IF moves THEN out ELSE <<>>
  BY <1>5
<1>. QED  BY <1>3, <1>4, <1>6, <1>7

\* A line whose indentation is replaced: what is before it stays.
LEMMA SetIndentationIs ==
    ASSUME NEW d \in Int, NEW r, Whole(r, d), NEW to \in Texts,
           r.point > LineStart(r.text, r.point) + Len(Indentation(LineAt(r.text, r.point)))
    PROVE  /\ Whole(SetIndentation(r, to), d)
           /\ LineStart(r.text, r.point) <= Len(SetIndentation(r, to).text)
<1>1. /\ Sane(r, d) /\ r.text \in Texts /\ Len(r.text) \in Nat /\ r.point \in 0 .. Len(r.text)
      /\ Len(to) \in Nat
  BY WholeIs DEF Texts
<1>. DEFINE start == LineStart(r.text, r.point)
            old == Len(Indentation(LineAt(r.text, r.point)))
            end == start + old
            s == Delete(r, start, end)
            t == SetPoint(s, start)
            u == Insert(t, to)
            p == r.point - old + Len(to)
<1>2. /\ start \in 0 .. r.point /\ old \in Nat /\ end \in 0 .. Len(r.text) /\ start \in 0 .. end
      /\ r.point > end
  <2>1. start \in 0 .. r.point /\ r.point \in Nat
    <3>1. r.point \in Nat  BY <1>1
    <3>. QED  BY <1>1, <3>1, LineStartIs
  <2>2. old \in Nat /\ start + old <= LineEnd(r.text, r.point)  BY <1>1, IndentationOfLine
  <2>3. LineEnd(r.text, r.point) \in r.point .. Len(r.text)  BY <1>1, LineEndIs
  <2>4. r.point > start + old  OBVIOUS
  <2>. HIDE DEF start, old
  <2>. QED  BY <1>1, <2>1, <2>2, <2>3, <2>4
<1>. HIDE DEF start, old
<1>3. end - start = old  BY <1>1, <1>2
<1>4. SetIndentation(r, to) = SetPoint(u, p)  BY DEF SetIndentation, start, old
<1>. HIDE DEF end
<1>5. Sane(s, d) /\ Len(s.text) = Len(r.text) - (end - start)
  <2>1. end \in 0 .. Len(r.text) /\ start \in 0 .. end /\ Sane(r, d)  BY <1>1, <1>2
  <2>. QED  BY <2>1, DeleteIs
<1>. HIDE DEF s
<1>6. start \in 0 .. Len(s.text)  BY <1>1, <1>2, <1>5
<1>7. Whole(t, d) /\ t.point = start /\ t.text = s.text  BY <1>5, <1>6, SetPointIs
<1>. HIDE DEF t
<1>8. Whole(u, d) /\ Len(u.text) = Len(t.text) + Len(to)  BY <1>7, InsertIs
<1>. HIDE DEF u
<1>9. p \in 0 .. Len(u.text) /\ start <= Len(u.text)
  <2>1. Len(u.text) = Len(r.text) - old + Len(to)  BY <1>1, <1>2, <1>3, <1>5, <1>7, <1>8
  <2>2. r.point - old > start  BY <1>1, <1>2 DEF end
  <2>3. start + old <= Len(r.text)  BY <1>2 DEF end
  <2>4. start \in Nat /\ old \in Nat /\ r.point \in Nat /\ r.point <= Len(r.text)
    BY <1>1, <1>2
  <2>5. Len(u.text) \in Int /\ start <= Len(u.text)  BY <1>1, <2>1, <2>3, <2>4
  <2>6. p \in Int /\ 0 <= p /\ p <= Len(u.text)
    BY <1>1, <2>1, <2>2, <2>4, SMTT(30)
  <2>. HIDE DEF p
  <2>. QED  BY <2>5, <2>6
<1>10. Whole(SetPoint(u, p), d) /\ SetPoint(u, p).text = u.text
  <2>1. Sane(u, d)  BY <1>8, WholeIs
  <2>. HIDE DEF p
  <2>. QED  BY <1>9, <2>1, SetPointIs
<1>. QED  BY <1>4, <1>9, <1>10 DEF start
\* What goes before a newline goes in: a whole line, texts, and blanks that are
\* around the point.
Ready(p, d) ==
    /\ Whole(p.r, d) /\ p.indentation \in Texts
    /\ p.blanks.from \in 0 .. p.r.point /\ p.blanks.to \in p.r.point .. Len(p.r.text)
    /\ p.below # <<>> => p.below[1] \in Texts

\* The line as it is, and a line of code.
LEMMA PlainReady ==
    ASSUME NEW d \in Int, NEW r, Whole(r, d)
    PROVE  Ready(AsItIs(r), d) /\ Ready(InCode(r), d)
<1>1. /\ Sane(r, d) /\ r.text \in Texts /\ Len(r.text) \in Nat /\ r.point \in 0 .. Len(r.text)
      /\ r.point \in Nat
  BY WholeIs
<1>2. Ready(AsItIs(r), d)
  <2>1. <<>> \in Texts  BY DEF Texts
  <2>. QED  BY <1>1, <2>1 DEF Ready, AsItIs, Part
<1>3. Ready(InCode(r), d)
  <2>1. ForNewLine(r.text, r.point) \in Texts  BY <1>1, ForNewLineIs
  <2>2. /\ BlanksAround(r.text, r.point).from \in 0 .. r.point
        /\ BlanksAround(r.text, r.point).to \in r.point .. Len(r.text)
    BY <1>1, BlanksAroundIs
  <2>. QED  BY <2>1, <2>2 DEF Ready, InCode
<1>. QED  BY <1>2, <1>3

\* A line of a script.
LEMMA ScriptReady ==
    ASSUME NEW d \in Int, NEW r, Whole(r, d), ~StartsCode(r.text, r.point), InScript(r),
           NEW answer \in DepthAnswers
    PROVE  Ready(OfScript(r, answer), d)
<1>1. /\ Sane(r, d) /\ r.text \in Texts /\ Len(r.text) \in Nat /\ r.point \in 0 .. Len(r.text)
      /\ r.point \in Nat
  BY WholeIs
<1>. DEFINE depths == IF EmptyQuotePair(r) THEN <<>> ELSE answer
            at == CommandLine(r)
            first == LineStart(r.text, OpenQuote(r.text, r.point))
            split == ScriptLine(r.text, r.point, at, first, depths)
            moved == IF split.movedOut = <<>> THEN r ELSE SetIndentation(r, split.movedOut[1])
            below == IF EmptyQuotePair(r) /\ FitsMoreRows(moved.text, 2)
                     THEN <<Indentation(LineAt(moved.text, at))>> ELSE <<>>
            blanks == BlanksAround(moved.text, moved.point)
<1>2. OfScript(r, answer)
        = [r |-> moved, indentation |-> split.newLine, blanks |-> blanks, below |-> below]
  BY DEF OfScript
<1>3. at \in 0 .. LineStart(r.text, r.point) /\ LineStart(r.text, r.point) \in 0 .. Len(r.text)
  <2>1. LineStart(r.text, r.point) \in 0 .. r.point  BY <1>1, LineStartIs
  <2>2. at \in 0 .. LineStart(r.text, r.point)  BY CommandLineIs
  <2>. QED  BY <1>1, <2>1, <2>2
<1>. HIDE DEF at, first
<1>4. /\ split.newLine \in Texts
      /\ split.movedOut # <<>> =>
           /\ split.movedOut[1] \in Texts
           /\ r.point > LineStart(r.text, r.point) + Len(Indentation(LineAt(r.text, r.point)))
  <2>1. depths = <<>> \/ depths \in DepthAnswers  OBVIOUS
  <2>2. at \in 0 .. Len(r.text)  BY <1>1, <1>3
  <2>. HIDE DEF depths
  <2>. QED  BY <1>1, <2>1, <2>2, ScriptLineIs
<1>. HIDE DEF split
<1>5. Whole(moved, d) /\ LineStart(r.text, r.point) <= Len(moved.text)
  <2>1. CASE split.movedOut = <<>>
    <3>1. moved = r  BY <2>1
    <3>. HIDE DEF moved
    <3>. QED  BY <1>1, <1>3, <3>1
  <2>2. CASE split.movedOut # <<>>
    <3>1. moved = SetIndentation(r, split.movedOut[1])  BY <2>2
    <3>. HIDE DEF moved
    <3>. QED  BY <1>4, <2>2, <3>1, SetIndentationIs
  <2>. QED  BY <2>1, <2>2
<1>. HIDE DEF moved
<1>6. /\ moved.text \in Texts /\ Len(moved.text) \in Nat /\ moved.point \in 0 .. Len(moved.text)
  BY <1>5, WholeIs
<1>7. blanks.from \in 0 .. moved.point /\ blanks.to \in moved.point .. Len(moved.text)
  BY <1>6, BlanksAroundIs
<1>8. below # <<>> => below[1] \in Texts
  <2>1. at \in 0 .. Len(moved.text)  BY <1>3, <1>5, <1>6
  <2>2. Indentation(LineAt(moved.text, at)) \in Texts  BY <1>6, <2>1, IndentationOfLine
  <2>. QED  BY <2>2
<1>. HIDE DEF blanks, below
<1>. QED  BY <1>2, <1>4, <1>5, <1>7, <1>8 DEF Ready

\* What a line is prepared with.
LEMMA PreparedReady ==
    ASSUME NEW d \in Int, NEW r, Whole(r, d), NEW pasted, NEW answer \in DepthAnswers
    PROVE  Ready(Prepared(r, pasted, answer), d)
<1>. DEFINE moved == MovedOut(r)
<1>1. Whole(moved, d)  BY MovedOutIs
<1>2. Prepared(r, pasted, answer) =
        IF Step = 0 \/ pasted THEN AsItIs(r)
        ELSE IF StartsCode(moved.text, moved.point) THEN InCode(moved)
        ELSE IF InScript(moved) THEN OfScript(moved, answer)
        ELSE AsItIs(moved)
  BY DEF Prepared, OfMoved
<1>. HIDE DEF moved
<1>. QED  BY <1>1, <1>2, PlainReady, ScriptReady

\* A newline that is put in is before the point, and takes the blanks with it.
LEMMA BrokenIs ==
    ASSUME NEW d \in Int, NEW p, Ready(p, d)
    PROVE  /\ Whole(Broken(p), d)
           /\ \E i \in 1 .. Broken(p).point : Broken(p).text[i] = Newline
<1>. DEFINE r == p.r
            point == r.point
            from == p.blanks.from
            to == p.blanks.to
            inserted == <<Newline>> \o p.indentation
            size == Len(inserted)
            broken == Insert(r, inserted)
            after == point + size
            end == after + to - point
            ahead == IF to > point THEN Delete(broken, after, end) ELSE broken
            back == SetPoint(Delete(ahead, from, point), from + size)
<1>1. Broken(p) = IF from < point THEN back ELSE ahead  BY DEF Broken
<1>2. /\ Whole(r, d) /\ r.text \in Texts /\ Len(r.text) \in Nat /\ point \in 0 .. Len(r.text)
      /\ from \in 0 .. point /\ to \in point .. Len(r.text) /\ p.indentation \in Texts
  BY WholeIs DEF Ready
<1>. HIDE DEF r, from, to
<1>3. inserted \in Texts /\ size \in Nat /\ size >= 1 /\ inserted[1] = Newline
  <2>. DEFINE nl == <<Newline>>
              ind == p.indentation
  <2>1. nl \in Texts /\ Len(nl) = 1 /\ nl[1] = Newline  BY LinesConstantsOK DEF Texts
  <2>2. ind \in Texts /\ Len(ind) \in Nat  BY <1>2 DEF Texts
  <2>. HIDE DEF nl, ind
  <2>3. /\ nl \o ind \in Texts /\ Len(nl \o ind) = Len(nl) + Len(ind)
        /\ \A i \in 1 .. Len(nl) : (nl \o ind)[i] = nl[i]
    BY <2>1, <2>2, JoinIs
  <2>4. 1 \in 1 .. Len(nl)  BY <2>1
  <2>5. (nl \o ind)[1] = Newline  BY <2>1, <2>3, <2>4
  <2>. QED  BY <2>1, <2>2, <2>3, <2>5 DEF nl, ind
<1>. HIDE DEF inserted
<1>4. /\ Whole(broken, d) /\ Len(broken.text) = Len(r.text) + size /\ broken.point = after
      /\ broken.text[point + 1] = Newline
  <2>1. /\ Whole(broken, d) /\ Len(broken.text) = Len(r.text) + size /\ broken.point = after
        /\ \A i \in 1 .. size : broken.text[point + i] = inserted[i]
    BY <1>2, <1>3, InsertIs
  <2>2. 1 \in 1 .. size  BY <1>3
  <2>. HIDE DEF broken, size, after
  <2>. QED  BY <1>3, <2>1, <2>2
<1>. HIDE DEF broken, size
<1>5. point \in Nat /\ from \in Nat /\ to \in Nat /\ after \in Nat /\ end \in Int
  BY <1>2, <1>3
<1>6. /\ after \in 0 .. end /\ end \in 0 .. Len(broken.text) /\ after <= Len(broken.text)
      /\ point + 1 \in 1 .. after /\ end - after = to - point
  <2>1. point <= to /\ to <= Len(r.text) /\ Len(r.text) \in Nat /\ size \in Nat /\ size >= 1
    BY <1>2, <1>3
  <2>. HIDE DEF point, size
  <2>2. end - after = to - point /\ after <= end /\ point + 1 <= after  BY <1>5, <2>1
  <2>3. end <= Len(r.text) + size /\ after <= Len(r.text) + size  BY <1>5, <2>1
  <2>4. Len(broken.text) = Len(r.text) + size /\ Len(broken.text) \in Int  BY <1>4, <2>1
  <2>. HIDE DEF after, end
  <2>. QED  BY <1>5, <2>2, <2>3, <2>4
<1>7. /\ Whole(ahead, d) /\ ahead.point = after /\ after <= Len(ahead.text)
      /\ ahead.text[point + 1] = Newline
  <2>1. CASE to > point
    <3>1. ahead = Delete(broken, after, end)  BY <2>1
    <3>2. Sane(broken, d)  BY <1>4, WholeIs
    <3>. HIDE DEF ahead, after, end
    <3>3. /\ Sane(Delete(broken, after, end), d)
          /\ Len(Delete(broken, after, end).text) = Len(broken.text) - (end - after)
          /\ Delete(broken, after, end).point = broken.point
          /\ Without(Delete(broken, after, end).text, broken.text, after, end)
      <4>1. end \in 0 .. Len(broken.text) /\ after \in 0 .. end  BY <1>6
      <4>. QED  BY <3>2, <4>1, DeleteIs
    <3>4. ahead.text[point + 1] = Newline  BY <1>4, <1>6, <3>1, <3>3 DEF Without
    <3>5. Sane(ahead, d) /\ ahead.point = after  BY <1>4, <3>1, <3>3
    <3>6. Len(ahead.text) = (Len(r.text) + size) - (to - point)  BY <1>4, <1>6, <3>1, <3>3
    <3>7. after <= Len(ahead.text)  BY <1>2, <1>3, <1>5, <3>6 DEF after
    <3>. QED  BY <3>4, <3>5, <3>7 DEF Whole
  <2>2. CASE ~(to > point)
    <3>1. ahead = broken  BY <2>2
    <3>. HIDE DEF ahead
    <3>. QED  BY <1>4, <1>6, <3>1
  <2>. QED  BY <2>1, <2>2
<1>. HIDE DEF ahead
<1>8. from < point => Whole(back, d) /\ back.point = from + size /\ back.text[from + 1] = Newline
  <2>1. SUFFICES ASSUME from < point
                 PROVE Whole(back, d) /\ back.point = from + size /\ back.text[from + 1] = Newline
    OBVIOUS
  <2>. DEFINE s == Delete(ahead, from, point)
  <2>2. Sane(ahead, d) /\ Len(ahead.text) \in Nat  BY <1>7, WholeIs
  <2>3. point \in 0 .. Len(ahead.text) /\ from \in 0 .. point
    BY <1>2, <1>3, <1>5, <1>7, <2>2, SMTT(30)
  <2>. HIDE DEF point
  <2>4. /\ Sane(s, d) /\ Len(s.text) = Len(ahead.text) - (point - from)
        /\ Without(s.text, ahead.text, from, point)
    BY <2>2, <2>3, DeleteIs
  <2>5. /\ from + 1 \in from + 1 .. Len(ahead.text) - (point - from)
        /\ (from + 1) + (point - from) = point + 1
    <3>1. from < point /\ size \in Nat /\ size >= 1 /\ point + size <= Len(ahead.text)
      BY <1>3, <1>7, <2>1
    <3>. DEFINE n == Len(ahead.text)
    <3>. HIDE DEF size, n
    <3>2. n \in Nat /\ point + size <= n  BY <2>2, <3>1 DEF n
    <3>3. from + 1 <= n - (point - from) /\ (from + 1) + (point - from) = point + 1
      BY <1>5, <3>1, <3>2
    <3>4. from + 1 \in from + 1 .. n - (point - from)  BY <1>5, <3>2, <3>3
    <3>. QED  BY <3>3, <3>4 DEF n
  <2>6. s.text[from + 1] = Newline  BY <1>7, <2>4, <2>5 DEF Without
  <2>. HIDE DEF s
  <2>7. from + size \in 0 .. Len(s.text)  BY <1>3, <1>5, <1>7, <2>2, <2>4, SMTT(30)
  <2>. DEFINE q == from + size
  <2>. HIDE DEF q
  <2>8. Whole(SetPoint(s, q), d) /\ SetPoint(s, q).point = q /\ SetPoint(s, q).text = s.text
    BY <2>4, <2>7, SetPointIs DEF q
  <2>. QED  BY <2>6, <2>8 DEF q, s
<1>. HIDE DEF back
<1>9. from + 1 \in 1 .. from + size /\ point + 1 \in 1 .. after  BY <1>3, <1>5, <1>6
<1>10. CASE from < point
  <2>1. Broken(p) = back  BY <1>1, <1>10
  <2>. QED  BY <1>8, <1>9, <1>10, <2>1
<1>11. CASE ~(from < point)
  <2>1. Broken(p) = ahead  BY <1>1, <1>11
  <2>. HIDE DEF after
  <2>. QED  BY <1>7, <1>9, <2>1
<1>. QED  BY <1>10, <1>11

\* What follows the cursor goes below.
LEMMA BelowIs ==
    ASSUME NEW d \in Int, NEW r, Whole(r, d), NEW base \in Texts
    PROVE  Whole(Below(r, base), d)
<1>1. /\ Sane(r, d) /\ r.text \in Texts /\ Len(r.text) \in Nat /\ r.point \in 0 .. Len(r.text)
      /\ r.point \in Nat
  BY WholeIs
<1>. DEFINE p == r.point
            blanks == IndentationEnd(r.text, p) - p
            end == p + blanks
            s == Delete(r, p, end)
            t == <<Newline>> \o base
            i == Insert(s, t)
<1>2. end \in 0 .. Len(r.text) /\ p \in 0 .. end /\ end - p = blanks /\ blanks \in Nat
  <2>1. IndentationEnd(r.text, p) \in p .. Len(r.text)  BY <1>1, IndentationEndIs
  <2>. QED  BY <1>1, <2>1
<1>3. Below(r, base) = SetPoint(i, p)  BY DEF Below
<1>. HIDE DEF end, blanks
<1>4. Sane(s, d) /\ Len(s.text) = Len(r.text) - (end - p) /\ s.point = p
  <2>1. Sane(r, d) /\ end \in 0 .. Len(r.text) /\ p \in 0 .. end  BY <1>1, <1>2
  <2>. QED  BY <2>1, DeleteIs
<1>. HIDE DEF s
<1>5. t \in Texts
  <2>1. <<Newline>> \in Texts  BY LinesConstantsOK DEF Texts
  <2>. QED  BY <2>1, JoinIs
<1>6. Whole(s, d) /\ p \in Nat /\ p <= Len(s.text)
  <2>1. p <= Len(s.text)  BY <1>1, <1>2, <1>4
  <2>. QED  BY <1>1, <1>4, <2>1 DEF Whole
<1>. HIDE DEF t
<1>7. Whole(i, d) /\ Len(i.text) = Len(s.text) + Len(t)  BY <1>5, <1>6, InsertIs
<1>8. Len(t) \in Nat /\ Len(s.text) \in Nat  BY <1>5, <1>6, WholeIs DEF Texts
<1>. HIDE DEF i
<1>9. p \in 0 .. Len(i.text)
  <2>. HIDE DEF p
  <2>. QED  BY <1>6, <1>7, <1>8
<1>10. Sane(i, d)  BY <1>7, WholeIs
<1>. QED  BY <1>3, <1>9, <1>10, SetPointIs

\* A new line.
LEMMA NewLineIs ==
    ASSUME NEW d \in Int, NEW r, Whole(r, d), NEW pasted, NEW answer \in DepthAnswers,
           NEW closeBelow
    PROVE  Whole(NewLine(r, pasted, answer, closeBelow), d)
<1>. DEFINE b == BeginGroup(r)
            p == Prepared(b, pasted, answer)
            broken == Broken(p)
            own == Indentation(LineAt(broken.text, LineStart(broken.text, broken.point) - 1))
            base == IF closeBelow THEN <<own>> ELSE p.below
            n == IF base = <<>> THEN broken ELSE Below(broken, base[1])
<1>1. Whole(b, d + 1) /\ d + 1 \in Int  BY GroupIs
<1>2. NewLine(r, pasted, answer, closeBelow) = CloseGroup(n)
  <2>1. WithBelow(p, closeBelow) = n
    <3>. HIDE DEF p
    <3>1. CASE closeBelow
      <4>1. WithBelow(p, closeBelow) = Below(broken, own)  BY <3>1 DEF WithBelow, CloserBelow
      <4>2. base # <<>> /\ base[1] = own
        <5>. HIDE DEF own
        <5>. QED  BY <3>1
      <4>. HIDE DEF own, base, broken
      <4>. QED  BY <4>1, <4>2
    <3>2. CASE ~closeBelow
      <4>1. WithBelow(p, closeBelow) = IF p.below = <<>> THEN broken ELSE Below(broken, p.below[1])
        BY <3>2 DEF WithBelow, PreparedBelow
      <4>2. base = p.below  BY <3>2
      <4>. HIDE DEF base, broken
      <4>. QED  BY <4>1, <4>2
    <3>. QED  BY <3>1, <3>2
  <2>. HIDE DEF n
  <2>. QED  BY <2>1 DEF NewLine
<1>. HIDE DEF b
<1>3. Ready(p, d + 1)  BY <1>1, PreparedReady
<1>. HIDE DEF p
<1>4. /\ Whole(broken, d + 1)
      /\ \E i \in 1 .. broken.point : broken.text[i] = Newline
  BY <1>1, <1>3, BrokenIs
<1>. HIDE DEF broken
<1>5. own \in Texts
  <2>1. /\ broken.text \in Texts /\ broken.point \in 0 .. Len(broken.text) /\ broken.point \in Nat
        /\ Len(broken.text) \in Nat
    BY <1>1, <1>4, WholeIs
  <2>2. PICK i \in 1 .. broken.point : broken.text[i] = Newline  BY <1>4
  <2>3. i \in DOMAIN broken.text  BY <2>1 DEF Texts
  <2>4. i \in Starts(broken.text)  BY <2>2, <2>3 DEF Starts
  <2>. DEFINE l == LineStart(broken.text, broken.point)
  <2>5. l \in 0 .. broken.point /\ i <= l
    <3>1. i <= broken.point  BY <2>1
    <3>. QED  BY <2>1, <2>4, <3>1, LineStartIs
  <2>. HIDE DEF l
  <2>6. l - 1 \in 0 .. Len(broken.text)  BY <2>1, <2>2, <2>5
  <2>. DEFINE k == l - 1
  <2>. HIDE DEF k
  <2>7. Indentation(LineAt(broken.text, k)) \in Texts  BY <2>1, <2>6, IndentationOfLine DEF k
  <2>. QED  BY <2>7 DEF k, l
<1>6. base # <<>> => base[1] \in Texts
  <2>. HIDE DEF own
  <2>1. CASE closeBelow  BY <1>5, <2>1
  <2>2. CASE ~closeBelow
    <3>1. base = p.below  BY <2>2
    <3>. HIDE DEF base
    <3>. QED  BY <1>3, <3>1 DEF Ready
  <2>. QED  BY <2>1, <2>2
<1>. HIDE DEF base
<1>7. Whole(n, d + 1)  BY <1>1, <1>4, <1>6, BelowIs
<1>. HIDE DEF n
<1>8. Whole(CloseGroup(n), (d + 1) - 1)  BY <1>1, <1>7, GroupIs
<1>9. (d + 1) - 1 = d  OBVIOUS
<1>. QED  BY <1>2, <1>8, <1>9
-----------------------------------------------------------------------------
(* An undo. *)

\* Changes taken back one after another, to the last.
BackAll(r, list) == FoldLeft(Back, r, list)
BackBy(C, r, list, n) ==
    /\ BackAll(r, list) = C[1 .. n] /\ C[{}] = r
    /\ \A k \in 1 .. n : C[1 .. k] = Back(C[1 .. (k - 1)], list[k])
\* It has the steps one would write down.
LEMMA FoldBackIs ==
    ASSUME NEW n \in Nat, NEW list, DOMAIN list = 1 .. n, NEW base
    PROVE  \E C : BackBy(C, base, list, n)
<1>. DEFINE Is(m) == \E I : I = [s \in SUBSET (1 .. m) |->
                       IF s = {} THEN base ELSE Back(I[s \ {Max(s)}], list[Max(s)])]
            Bad == {m \in 0 .. n : ~Is(m)}
<1>1. Is(0)
  <2>. DEFINE I == [s \in SUBSET (1 .. 0) |-> base]
  <2>1. \A s \in SUBSET (1 .. 0) : s = {}  OBVIOUS
  <2>2. I = [s \in SUBSET (1 .. 0) |->
               IF s = {} THEN base ELSE Back(I[s \ {Max(s)}], list[Max(s)])]
    BY <2>1
  <2>. QED  BY <2>2
<1>2. ASSUME NEW m \in 0 .. n - 1, Is(m) PROVE Is(m + 1)
  <2>1. PICK I : I = [s \in SUBSET (1 .. m) |->
                        IF s = {} THEN base ELSE Back(I[s \ {Max(s)}], list[Max(s)])]
    BY <1>2
  <2>. DEFINE J == [s \in SUBSET (1 .. m + 1) |->
                      IF m + 1 \in s THEN Back(I[s \ {m + 1}], list[m + 1]) ELSE I[s]]
  <2>2. ASSUME NEW s \in SUBSET (1 .. m + 1)
        PROVE  /\ s \ {m + 1} \in SUBSET (1 .. m) /\ m + 1 \notin s => s \in SUBSET (1 .. m)
    OBVIOUS
  <2>3. ASSUME NEW s \in SUBSET (1 .. m + 1)
        PROVE  J[s] = IF s = {} THEN base ELSE Back(J[s \ {Max(s)}], list[Max(s)])
    <3>1. CASE m + 1 \in s
      <4>1. Max(s) = m + 1
        <5>1. m + 1 \in Nat /\ s \subseteq 0 .. m + 1 /\ s # {}  BY <3>1
        <5>2. Max(s) \in s /\ \A y \in s : Max(s) >= y  BY <5>1, MaxIs
        <5>. DEFINE x == Max(s)
        <5>3. x \in 1 .. m + 1 /\ x >= m + 1
          <6>. HIDE DEF x
          <6>1. Max(s) = x  BY DEF x
          <6>2. x \in s /\ \A y \in s : x >= y  BY <5>2, <6>1
          <6>. QED  BY <3>1, <6>2
        <5>. HIDE DEF x
        <5>4. x = m + 1  BY <5>3
        <5>. QED  BY <5>4 DEF x
      <4>2. J[s \ {m + 1}] = I[s \ {m + 1}]  BY <2>2
      <4>. QED  BY <3>1, <4>1, <4>2
    <3>2. CASE m + 1 \notin s
      <4>1. s \in SUBSET (1 .. m)  BY <2>2, <3>2
      <4>2. \A x : s \ {x} \in SUBSET (1 .. m) /\ s \ {x} \in SUBSET (1 .. m + 1)
                   /\ m + 1 \notin s \ {x}
        BY <4>1, <3>2
      <4>3. J[s] = I[s] /\ J[s \ {Max(s)}] = I[s \ {Max(s)}]
        BY <4>1, <4>2, <3>2
      <4>4. I[s] = IF s = {} THEN base ELSE Back(I[s \ {Max(s)}], list[Max(s)])
        BY <2>1, <4>1
      <4>. QED  BY <4>3, <4>4
    <3>. QED  BY <3>1, <3>2
  <2>4. J = [s \in SUBSET (1 .. m + 1) |-> J[s]]  OBVIOUS
  <2>. HIDE DEF J
  <2>5. J = [s \in SUBSET (1 .. m + 1) |->
               IF s = {} THEN base ELSE Back(J[s \ {Max(s)}], list[Max(s)])]
    BY <2>3, <2>4
  <2>. QED  BY <2>5
<1>3. Bad = {}
  <2>1. SUFFICES ASSUME Bad # {} PROVE FALSE  OBVIOUS
  <2>. HIDE DEF Is
  <2>2. PICK k \in Bad : \A m \in Bad : k <= m
    <3>1. Bad \subseteq Nat  OBVIOUS
    <3>. HIDE DEF Bad
    <3>. QED  BY <2>1, <3>1, LowestIs
  <2>3. k # 0 /\ k - 1 \notin Bad
    <3>1. k \in 0 .. n /\ ~Is(k)  BY <2>2
    <3>2. k # 0  BY <3>1, <1>1
    <3>3. \A m \in Bad : k <= m  BY <2>2
    <3>. HIDE DEF Bad
    <3>. QED  BY <3>1, <3>2, <3>3
  <2>4. Is(k - 1) /\ k - 1 \in 0 .. n - 1  BY <2>2, <2>3
  <2>5. Is((k - 1) + 1)  BY <2>4, <1>2
  <2>. QED  BY <2>2, <2>5
<1>4. Is(n)
  <2>. HIDE DEF Is
  <2>. QED  BY <1>3
<1>. DEFINE C == CHOOSE iter : iter = [s \in SUBSET (DOMAIN list) |->
                   IF s = {} THEN base ELSE Back(iter[s \ {Max(s)}], list[Max(s)])]
<1>5. C = [s \in SUBSET (DOMAIN list) |->
             IF s = {} THEN base ELSE Back(C[s \ {Max(s)}], list[Max(s)])]
  BY <1>4
<1>6. BackAll(base, list) = C[DOMAIN list]  BY DEF BackAll, FoldLeft, MapThenFoldSet
<1>. HIDE DEF C
<1>7. C[{}] = base  BY <1>5
<1>8. ASSUME NEW k \in 1 .. n PROVE C[1 .. k] = Back(C[1 .. (k - 1)], list[k])
  <2>1. /\ Max(1 .. k) = k /\ (1 .. k) \ {Max(1 .. k)} = 1 .. (k - 1)
        /\ 1 .. k # {} /\ 1 .. k \in SUBSET (1 .. n)
    BY LastPlace
  <2>. DEFINE s == 1 .. k
  <2>. HIDE DEF s
  <2>2. s \in SUBSET (DOMAIN list) /\ s # {}  BY <2>1 DEF s
  <2>3. C[s] = Back(C[s \ {Max(s)}], list[Max(s)])  BY <1>5, <2>2
  <2>. QED  BY <2>1, <2>3 DEF s
<1>9. BackBy(C, base, list, n)  BY <1>6, <1>7, <1>8 DEF BackBy
<1>. QED  BY <1>9

\* One change taken back.
LEMMA BackIs ==
    ASSUME NEW d \in Int, NEW r, Whole(r, d), NEW u \in Changes, NEW a \in Nat,
           Goes(u, a, Len(r.text))
    PROVE  Whole(Back(r, u), d) /\ Len(Back(r, u).text) = a
<1>1. /\ Sane(r, d) /\ r.text \in Texts /\ Len(r.text) \in Nat
  BY WholeIs
<1>2. CASE u.what = "del"
  <2>1. u.start \in Nat /\ u.text \in Texts /\ Len(u.text) \in Nat  BY <1>2, ChangesAre DEF Texts
  <2>2. u.start <= Len(r.text) /\ a = Len(r.text) + Len(u.text)  BY <1>2 DEF Goes
  <2>. DEFINE s == SetPoint(r, u.start)
  <2>3. u.start \in 0 .. Len(r.text)  BY <1>1, <2>1, <2>2
  <2>. DEFINE start == u.start
              t == u.text
  <2>. HIDE DEF start, t
  <2>4. Whole(SetPoint(r, start), d) /\ SetPoint(r, start).text = r.text
    BY <1>1, <2>3, SetPointIs DEF start
  <2>5. Whole(s, d) /\ s.text = r.text  BY <2>4 DEF start
  <2>. HIDE DEF s
  <2>6. Whole(Insert(s, t), d) /\ Len(Insert(s, t).text) = Len(s.text) + Len(t)
    BY <2>1, <2>5, InsertFits DEF t
  <2>7. Back(r, u) = Insert(s, t)  BY <1>2 DEF Back, s, t
  <2>. QED  BY <2>2, <2>5, <2>6, <2>7 DEF t
<1>3. CASE u.what = "ins"
  <2>1. u.start \in Nat /\ u.end \in Nat  BY <1>3, ChangesAre
  <2>2. u.start <= u.end /\ u.end <= Len(r.text) /\ a = Len(r.text) - (u.end - u.start)
    BY <1>3, Zenon DEF Goes
  <2>. DEFINE from == u.start
              to == u.end
              s == Delete(r, from, to)
  <2>3. to \in 0 .. Len(r.text) /\ from \in 0 .. to  BY <1>1, <2>1, <2>2
  <2>4. Back(r, u) = SetPoint(s, from)  BY <1>3 DEF Back
  <2>. HIDE DEF from, to
  <2>5. Sane(s, d) /\ Len(s.text) = Len(r.text) - (to - from)
    <3>1. Sane(r, d)  BY <1>1
    <3>2. Sane(Delete(r, from, to), d) /\ Len(Delete(r, from, to).text) = Len(r.text) - (to - from)
      BY <2>3, <3>1, DeleteIs
    <3>. QED  BY <3>2
  <2>6. from \in 0 .. Len(s.text)
    <3>. HIDE DEF s
    <3>. QED  BY <1>1, <2>3, <2>5
  <2>. HIDE DEF s
  <2>7. Whole(SetPoint(s, from), d) /\ SetPoint(s, from).text = s.text
    BY <2>5, <2>6, SetPointIs
  <2>. QED  BY <2>2, <2>4, <2>5, <2>7 DEF from, to
<1>4. CASE u.what # "del" /\ u.what # "ins"
  <2>1. Back(r, u) = r  BY <1>4 DEF Back
  <2>2. a = Len(r.text)  BY <1>4 DEF Goes
  <2>. QED  BY <2>1, <2>2
<1>. QED  BY <1>2, <1>3, <1>4

\* The groups before a change are as closed as all of them, if those from it on
\* are closed.
LEMMA OpenBefore ==
    ASSUME NEW undo \in Seq(Changes), NEW first \in 1 .. Len(undo), Open1(undo, 0),
           Cardinality(EndsOf(undo, first)) = Cardinality(StartsOf(undo, first))
    PROVE  Open1(SubSeq(undo, 1, first - 1), 0)
<1>. DEFINE pre == SubSeq(undo, 1, first - 1)
<1>1. /\ Len(undo) \in Nat /\ first \in Nat /\ Len(pre) = first - 1
      /\ \A i \in 1 .. first - 1 : pre[i] = undo[i]
  OBVIOUS
<1>. HIDE DEF pre
<1>2. ASSUME NEW c
      PROVE  LET all == {j \in 1 .. Len(undo) : undo[j] = c}
                 rest == {j \in first .. Len(undo) : undo[j] = c}
                 before == {j \in 1 .. Len(pre) : pre[j] = c}
             IN /\ Cardinality(all) = Cardinality(before) + Cardinality(rest)
                /\ Cardinality(before) \in Nat /\ Cardinality(rest) \in Nat
  <2>. DEFINE all == {j \in 1 .. Len(undo) : undo[j] = c}
              rest == {j \in first .. Len(undo) : undo[j] = c}
              before == {j \in 1 .. Len(pre) : pre[j] = c}
  <2>1. before = {j \in 1 .. first - 1 : undo[j] = c}  BY <1>1
  <2>2. all = before \cup rest
    <3>1. \A j \in all : j \in before \cup rest
      <4>1. \A j \in 1 .. Len(undo) : j \in 1 .. first - 1 \/ j \in first .. Len(undo)  BY <1>1
      <4>. QED  BY <2>1, <4>1
    <3>2. \A j \in before \cup rest : j \in all
      <4>1. \A j \in (1 .. first - 1) \cup (first .. Len(undo)) : j \in 1 .. Len(undo)  BY <1>1
      <4>. QED  BY <2>1, <4>1
    <3>. QED  BY <3>1, <3>2
  <2>3. before \cap rest = {}
    <3>1. \A j : ~(j \in 1 .. first - 1 /\ j \in first .. Len(undo))  BY <1>1
    <3>. QED  BY <2>1, <3>1
  <2>4. IsFiniteSet(before) /\ IsFiniteSet(rest)
    <3>1. IsFiniteSet(1 .. Len(pre)) /\ IsFiniteSet(first .. Len(undo))
      <4>1. Len(pre) \in Int  BY <1>1
      <4>. QED  BY <1>1, <4>1, FS_Interval
    <3>2. before \subseteq 1 .. Len(pre) /\ rest \subseteq first .. Len(undo)  OBVIOUS
    <3>. HIDE DEF before, rest
    <3>. QED  BY <3>1, <3>2, FS_Subset
  <2>. HIDE DEF all, before, rest
  <2>5. Cardinality(before) \in Nat /\ Cardinality(rest) \in Nat  BY <2>4, FS_CardinalityType
  <2>6. Cardinality(before \cup rest)
          = Cardinality(before) + Cardinality(rest) - Cardinality(before \cap rest)
    BY <2>4, FS_Union
  <2>7. Cardinality({}) = 0  BY FS_EmptySet
  <2>8. Cardinality(all) = Cardinality(before) + Cardinality(rest)
    <3>1. Cardinality(all) = Cardinality(before) + Cardinality(rest) - 0
      BY <2>2, <2>3, <2>6, <2>7, Zenon
    <3>. QED  BY <2>5, <3>1
  <2>. QED  BY <2>5, <2>8 DEF all, before, rest
<1>3. /\ Cardinality(StartsOf(undo, 1)) = Cardinality(StartsOf(pre, 1)) + Cardinality(StartsOf(undo, first))
      /\ Cardinality(StartsOf(pre, 1)) \in Nat /\ Cardinality(StartsOf(undo, first)) \in Nat
  BY <1>2 DEF StartsOf
<1>4. /\ Cardinality(EndsOf(undo, 1)) = Cardinality(EndsOf(pre, 1)) + Cardinality(EndsOf(undo, first))
      /\ Cardinality(EndsOf(pre, 1)) \in Nat /\ Cardinality(EndsOf(undo, first)) \in Nat
  BY <1>2 DEF EndsOf
<1>5. Cardinality(StartsOf(undo, 1)) = Cardinality(EndsOf(undo, 1)) + 0  BY DEF Open1
<1>6. Cardinality(StartsOf(pre, 1)) = Cardinality(EndsOf(pre, 1)) + 0  BY <1>3, <1>4, <1>5
<1>. QED  BY <1>6 DEF Open1, pre

\* An undo leaves a whole line, with what is left of the undo list.
LEMMA UndoneIs ==
    ASSUME NEW r, Whole(r, 0), r.undo # <<>>
    PROVE  Whole(Undone(r), 0)
<1>. DEFINE undo == r.undo
            n == Len(undo)
            B == {i \in 1 .. n : Cardinality(EndsOf(undo, i)) = Cardinality(StartsOf(undo, i))}
            first == Max(B)
            m == n + 1 - first
            list == Reverse(SubSeq(undo, first, n))
            pre == SubSeq(undo, 1, first - 1)
            undone == BackAll(r, list)
<1>1. /\ r \in RlLines /\ r.text \in Texts /\ Len(r.text) \in Nat /\ undo \in Seq(Changes)
      /\ Fits(undo, Len(r.text)) /\ Open1(undo, 0) /\ n \in Nat /\ n >= 1
  BY DEF Whole, Sane, RlLines, Texts
<1>2. Undone(r) = [undone EXCEPT !.undo = pre]  BY DEF Undone, EndsOf, StartsOf, BackAll
<1>. HIDE DEF undo
<1>3. first \in B
  <2>1. 1 \in B
    <3>1. Cardinality(StartsOf(undo, 1)) = Cardinality(EndsOf(undo, 1)) + 0  BY <1>1 DEF Open1
    <3>2. Cardinality(EndsOf(undo, 1)) \in Nat
      <4>1. IsFiniteSet(1 .. n)  BY <1>1, FS_Interval
      <4>2. EndsOf(undo, 1) \subseteq 1 .. n  BY DEF EndsOf
      <4>. QED  BY <4>1, <4>2, FS_Subset, FS_CardinalityType
    <3>3. 1 \in 1 .. n  BY <1>1
    <3>. QED  BY <3>1, <3>2, <3>3
  <2>2. B \subseteq 0 .. n /\ B # {}  BY <1>1, <2>1
  <2>. HIDE DEF B, n
  <2>. QED  BY <1>1, <2>2, MaxIs
<1>4. /\ first \in 1 .. n /\ first \in Nat
      /\ Cardinality(EndsOf(undo, first)) = Cardinality(StartsOf(undo, first))
  <2>. HIDE DEF first
  <2>. QED  BY <1>1, <1>3
<1>. HIDE DEF first, B
<1>5. Open1(pre, 0) /\ pre \in Seq(Changes)
  <2>1. pre \in Seq(Changes)  BY <1>1, <1>4
  <2>. QED  BY <1>1, <1>4, <2>1, OpenBefore
<1>6. /\ m \in Nat /\ DOMAIN list = 1 .. m
      /\ \A k \in 1 .. m : list[k] = undo[n + 1 - k] /\ n + 1 - k \in 1 .. n
  <2>. DEFINE t == SubSeq(undo, first, n)
  <2>1. /\ Len(t) = m /\ m \in Nat
        /\ \A i \in 1 .. m : t[i] = undo[first + i - 1]
    BY <1>1, <1>4
  <2>. HIDE DEF t
  <2>2. list = [i \in 1 .. m |-> t[(m - i) + 1]]  BY <2>1 DEF Reverse, t
  <2>. HIDE DEF list
  <2>3. ASSUME NEW k \in 1 .. m PROVE list[k] = undo[n + 1 - k] /\ n + 1 - k \in 1 .. n
    <3>1. list[k] = t[(m - k) + 1]  BY <2>2
    <3>2. (m - k) + 1 \in 1 .. m /\ first + ((m - k) + 1) - 1 = n + 1 - k  BY <1>1, <1>4, <2>1
    <3>3. n + 1 - k \in 1 .. n  BY <1>1, <1>4, <2>1
    <3>. QED  BY <2>1, <3>1, <3>2, <3>3
  <2>. QED  BY <2>1, <2>2, <2>3
<1>7. PICK lens \in [0 .. n -> Nat] : GoesBy(undo, lens, Len(r.text))  BY <1>1 DEF Fits
<1>8. lens[n] = Len(r.text) /\ \A i \in 1 .. n : Goes(undo[i], lens[i - 1], lens[i])
  BY <1>7 DEF GoesBy
<1>9. PICK C : /\ undone = C[1 .. m] /\ C[{}] = r
               /\ \A k \in 1 .. m : C[1 .. k] = Back(C[1 .. (k - 1)], list[k])
  <2>1. m \in Nat /\ DOMAIN list = 1 .. m  BY <1>6
  <2>. HIDE DEF list, m
  <2>2. \E C : BackBy(C, r, list, m)  BY <2>1, FoldBackIs
  <2>. QED  BY <2>2, Zenon DEF BackBy
<1>. HIDE DEF undone, list, m
<1>. DEFINE P == [k \in 0 .. m |-> {s \in RlLines : Whole(s, 0) /\ Len(s.text) = lens[n - k]}]
<1>10. \A k \in 0 .. m : P[k] = {s \in RlLines : Whole(s, 0) /\ Len(s.text) = lens[n - k]}
  OBVIOUS
<1>. HIDE DEF P
<1>11. C[{}] \in P[0]
  <2>1. 0 \in 0 .. m /\ n - 0 = n  BY <1>1, <1>6
  <2>. QED  BY <1>1, <1>8, <1>9, <1>10, <2>1
<1>12. ASSUME NEW k \in 1 .. m, C[1 .. (k - 1)] \in P[k - 1]
       PROVE  C[1 .. k] \in P[k]
  <2>. DEFINE s == C[1 .. (k - 1)]
              i == n + 1 - k
              u == undo[i]
  <2>1. /\ k - 1 \in 0 .. m /\ k \in 0 .. m /\ i \in 1 .. n /\ n - (k - 1) = i /\ n - k = i - 1
        /\ i - 1 \in 0 .. n
    BY <1>1, <1>6
  <2>. HIDE DEF i
  <2>2. Whole(s, 0) /\ Len(s.text) = lens[i]  BY <1>10, <1>12, <2>1
  <2>3. u \in Changes /\ lens[i - 1] \in Nat /\ Goes(u, lens[i - 1], lens[i])
    BY <1>1, <1>7, <1>8, <2>1, SMTT(30)
  <2>4. C[1 .. k] = Back(s, u)  BY <1>6, <1>9 DEF i
  <2>. HIDE DEF s, u
  <2>. DEFINE a == lens[i - 1]
  <2>7. a \in Nat /\ Goes(u, a, Len(s.text))  BY <2>2, <2>3
  <2>. HIDE DEF a
  <2>8. 0 \in Int  OBVIOUS
  <2>5. Whole(Back(s, u), 0) /\ Len(Back(s, u).text) = lens[i - 1]
    <3>1. Whole(Back(s, u), 0) /\ Len(Back(s, u).text) = a  BY <2>2, <2>3, <2>7, <2>8, BackIs
    <3>. QED  BY <3>1 DEF a
  <2>6. Back(s, u) \in RlLines  BY <2>5 DEF Whole, Sane
  <2>9. P[k] = {t \in RlLines : Whole(t, 0) /\ Len(t.text) = lens[i - 1]}
    BY <1>10, <2>1
  <2>. DEFINE t == Back(s, u)
  <2>. HIDE DEF t
  <2>10. t \in RlLines /\ Whole(t, 0) /\ Len(t.text) = lens[i - 1]  BY <2>5, <2>6 DEF t
  <2>11. t \in P[k]  BY <2>9, <2>10
  <2>. QED  BY <2>4, <2>11 DEF t
<1>13. C[1 .. m] \in P[m]
  <2>1. GoesOn(C, P, m)  BY <1>12 DEF GoesOn
  <2>. QED  BY <1>6, <1>11, <2>1, FoldReaches
<1>14. /\ Whole(undone, 0) /\ undone \in RlLines /\ Len(undone.text) = lens[first - 1]
  <2>1. m \in 0 .. m /\ n - m = first - 1  BY <1>1, <1>4, <1>6 DEF m
  <2>. QED  BY <1>9, <1>10, <1>13, <2>1
<1>15. Fits(pre, lens[first - 1])
  <2>1. Len(pre) = first - 1 /\ \A i \in 1 .. first - 1 : pre[i] = undo[i]  BY <1>1, <1>4
  <2>. HIDE DEF pre
  <2>. DEFINE new == [i \in 0 .. first - 1 |-> lens[i]]
  <2>2. \A i \in 0 .. first - 1 : i \in 0 .. n  BY <1>1, <1>4
  <2>3. new \in [0 .. first - 1 -> Nat] /\ \A i \in 0 .. first - 1 : new[i] = lens[i]
    BY <1>7, <2>2
  <2>. HIDE DEF new
  <2>4. ASSUME NEW i \in 1 .. first - 1 PROVE Goes(pre[i], new[i - 1], new[i])
    <3>1. i \in 1 .. n /\ i - 1 \in 0 .. first - 1 /\ i \in 0 .. first - 1  BY <1>1, <1>4
    <3>2. pre[i] = undo[i] /\ new[i - 1] = lens[i - 1] /\ new[i] = lens[i]  BY <2>1, <2>3, <3>1
    <3>. QED  BY <1>8, <3>1, <3>2
  <2>5. first - 1 \in 0 .. first - 1  BY <1>4
  <2>6. GoesBy(pre, new, lens[first - 1])  BY <2>1, <2>3, <2>4, <2>5 DEF GoesBy
  <2>. QED  BY <2>1, <2>3, <2>6 DEF Fits
<1>. HIDE DEF pre
<1>16. /\ undone \in [text : Texts, point : Nat, undo : Seq(Changes)]
       /\ undone.point <= Len(undone.text)
  BY <1>14 DEF Whole, RlLines
<1>17. Undone(r) = [text |-> undone.text, point |-> undone.point, undo |-> pre]
  BY <1>2, <1>16, PartIs
<1>18. Undone(r) \in RlLines  BY <1>5, <1>16, <1>17 DEF RlLines
<1>19. /\ Undone(r).text = undone.text /\ Undone(r).point = undone.point /\ Undone(r).undo = pre
  BY <1>17
<1>20. Fits(Undone(r).undo, Len(Undone(r).text)) /\ Open1(Undone(r).undo, 0)
       /\ Undone(r).point <= Len(Undone(r).text)
  BY <1>5, <1>14, <1>15, <1>16, <1>19
<1>. QED  BY <1>18, <1>20 DEF Whole, Sane
-----------------------------------------------------------------------------
(* The region. *)

\* The parts of a region, and a region with one part replaced.
LEMMA RegionIs ==
    ASSUME NEW g \in Regions, NEW v
    PROVE  /\ [g EXCEPT !.text = v] = [text |-> v, mark |-> g.mark, on |-> g.on,
                                       keep |-> g.keep, before |-> g.before]
           /\ [g EXCEPT !.mark = v] = [text |-> g.text, mark |-> v, on |-> g.on,
                                       keep |-> g.keep, before |-> g.before]
           /\ [g EXCEPT !.on = v] = [text |-> g.text, mark |-> g.mark, on |-> v,
                                     keep |-> g.keep, before |-> g.before]
           /\ [g EXCEPT !.keep = v] = [text |-> g.text, mark |-> g.mark, on |-> g.on,
                                       keep |-> v, before |-> g.before]
           /\ [g EXCEPT !.before = v] = [text |-> g.text, mark |-> g.mark, on |-> g.on,
                                         keep |-> g.keep, before |-> v]
           /\ g.text \in Texts \cup {None} /\ g.mark \in Nat /\ g.on \in BOOLEAN
           /\ g.keep \in BOOLEAN /\ g.before \in Nat \cup {None}
BY DEF Regions
\* Parts make a region.
LEMMA RegionOf ==
    ASSUME NEW t \in Texts \cup {None}, NEW m \in Nat, NEW o \in BOOLEAN, NEW k \in BOOLEAN,
           NEW b \in Nat \cup {None}
    PROVE  LET g == [text |-> t, mark |-> m, on |-> o, keep |-> k, before |-> b] IN
           /\ g \in Regions /\ g.text = t /\ g.mark = m /\ g.on = o /\ g.keep = k /\ g.before = b
BY DEF Regions

\* A region with one part replaced is a region.
LEMMA RegionWith ==
    ASSUME NEW g \in Regions
    PROVE  /\ \A v \in Texts \cup {None} : LET h == [g EXCEPT !.text = v] IN
                h \in Regions /\ h.text = v /\ h.mark = g.mark /\ h.on = g.on
                /\ h.keep = g.keep /\ h.before = g.before
           /\ \A v \in Nat : LET h == [g EXCEPT !.mark = v] IN
                h \in Regions /\ h.text = g.text /\ h.mark = v /\ h.on = g.on
                /\ h.keep = g.keep /\ h.before = g.before
           /\ \A v \in BOOLEAN : LET h == [g EXCEPT !.on = v] IN
                h \in Regions /\ h.text = g.text /\ h.mark = g.mark /\ h.on = v
                /\ h.keep = g.keep /\ h.before = g.before
           /\ \A v \in BOOLEAN : LET h == [g EXCEPT !.keep = v] IN
                h \in Regions /\ h.text = g.text /\ h.mark = g.mark /\ h.on = g.on
                /\ h.keep = v /\ h.before = g.before
           /\ \A v \in Nat \cup {None} : LET h == [g EXCEPT !.before = v] IN
                h \in Regions /\ h.text = g.text /\ h.mark = g.mark /\ h.on = g.on
                /\ h.keep = g.keep /\ h.before = v
<1>1. ASSUME NEW v \in Texts \cup {None}
      PROVE  LET h == [g EXCEPT !.text = v] IN
                h \in Regions /\ h.text = v /\ h.mark = g.mark /\ h.on = g.on /\ h.keep = g.keep /\ h.before = g.before
  <2>1. [g EXCEPT !.text = v] = [text |-> v, mark |-> g.mark, on |-> g.on, keep |-> g.keep, before |-> g.before]  BY RegionIs
  <2>2. /\ g.text \in Texts \cup {None} /\ g.mark \in Nat /\ g.on \in BOOLEAN
        /\ g.keep \in BOOLEAN /\ g.before \in Nat \cup {None}
    BY RegionIs
  <2>3. LET h == [text |-> v, mark |-> g.mark, on |-> g.on, keep |-> g.keep, before |-> g.before] IN h \in Regions /\ h.text = v /\ h.mark = g.mark /\ h.on = g.on /\ h.keep = g.keep /\ h.before = g.before
    BY <2>2, RegionOf
  <2>. QED  BY <2>1, <2>3
<1>2. ASSUME NEW v \in Nat
      PROVE  LET h == [g EXCEPT !.mark = v] IN
                h \in Regions /\ h.text = g.text /\ h.mark = v /\ h.on = g.on /\ h.keep = g.keep /\ h.before = g.before
  <2>1. [g EXCEPT !.mark = v] = [text |-> g.text, mark |-> v, on |-> g.on, keep |-> g.keep, before |-> g.before]  BY RegionIs
  <2>2. /\ g.text \in Texts \cup {None} /\ g.mark \in Nat /\ g.on \in BOOLEAN
        /\ g.keep \in BOOLEAN /\ g.before \in Nat \cup {None}
    BY RegionIs
  <2>3. LET h == [text |-> g.text, mark |-> v, on |-> g.on, keep |-> g.keep, before |-> g.before] IN h \in Regions /\ h.text = g.text /\ h.mark = v /\ h.on = g.on /\ h.keep = g.keep /\ h.before = g.before
    BY <2>2, RegionOf
  <2>. QED  BY <2>1, <2>3
<1>3. ASSUME NEW v \in BOOLEAN
      PROVE  LET h == [g EXCEPT !.on = v] IN
                h \in Regions /\ h.text = g.text /\ h.mark = g.mark /\ h.on = v /\ h.keep = g.keep /\ h.before = g.before
  <2>1. [g EXCEPT !.on = v] = [text |-> g.text, mark |-> g.mark, on |-> v, keep |-> g.keep, before |-> g.before]  BY RegionIs
  <2>2. /\ g.text \in Texts \cup {None} /\ g.mark \in Nat /\ g.on \in BOOLEAN
        /\ g.keep \in BOOLEAN /\ g.before \in Nat \cup {None}
    BY RegionIs
  <2>3. LET h == [text |-> g.text, mark |-> g.mark, on |-> v, keep |-> g.keep, before |-> g.before] IN h \in Regions /\ h.text = g.text /\ h.mark = g.mark /\ h.on = v /\ h.keep = g.keep /\ h.before = g.before
    BY <2>2, RegionOf
  <2>. QED  BY <2>1, <2>3
<1>4. ASSUME NEW v \in BOOLEAN
      PROVE  LET h == [g EXCEPT !.keep = v] IN
                h \in Regions /\ h.text = g.text /\ h.mark = g.mark /\ h.on = g.on /\ h.keep = v /\ h.before = g.before
  <2>1. [g EXCEPT !.keep = v] = [text |-> g.text, mark |-> g.mark, on |-> g.on, keep |-> v, before |-> g.before]  BY RegionIs
  <2>2. /\ g.text \in Texts \cup {None} /\ g.mark \in Nat /\ g.on \in BOOLEAN
        /\ g.keep \in BOOLEAN /\ g.before \in Nat \cup {None}
    BY RegionIs
  <2>3. LET h == [text |-> g.text, mark |-> g.mark, on |-> g.on, keep |-> v, before |-> g.before] IN h \in Regions /\ h.text = g.text /\ h.mark = g.mark /\ h.on = g.on /\ h.keep = v /\ h.before = g.before
    BY <2>2, RegionOf
  <2>. QED  BY <2>1, <2>3
<1>5. ASSUME NEW v \in Nat \cup {None}
      PROVE  LET h == [g EXCEPT !.before = v] IN
                h \in Regions /\ h.text = g.text /\ h.mark = g.mark /\ h.on = g.on /\ h.keep = g.keep /\ h.before = v
  <2>1. [g EXCEPT !.before = v] = [text |-> g.text, mark |-> g.mark, on |-> g.on, keep |-> g.keep, before |-> v]  BY RegionIs
  <2>2. /\ g.text \in Texts \cup {None} /\ g.mark \in Nat /\ g.on \in BOOLEAN
        /\ g.keep \in BOOLEAN /\ g.before \in Nat \cup {None}
    BY RegionIs
  <2>3. LET h == [text |-> g.text, mark |-> g.mark, on |-> g.on, keep |-> g.keep, before |-> v] IN h \in Regions /\ h.text = g.text /\ h.mark = g.mark /\ h.on = g.on /\ h.keep = g.keep /\ h.before = v
    BY <2>2, RegionOf
  <2>. QED  BY <2>1, <2>3
<1>. QED  BY <1>1, <1>2, <1>3, <1>4, <1>5

\* A region that ends.
LEMMA EndedIs ==
    ASSUME NEW g \in Regions
    PROVE  /\ Ended(g) \in Regions /\ Ended(g).text = None /\ Ended(g).before = None
           /\ Ended(g).mark = g.mark /\ ~Active(Ended(g))
<1>. DEFINE a == [g EXCEPT !.before = None]
            b == [a EXCEPT !.text = None]
            on == g.on /\ ~Active(g)
            c == [b EXCEPT !.on = on]
<1>1. a \in Regions /\ a.mark = g.mark /\ a.on = g.on /\ a.before = None  BY RegionWith
<1>2. Ended(g) = c
  <2>1. Ended(g) = [g EXCEPT !.before = None, !.text = None, !.on = on]  BY DEF Ended
  <2>. QED  BY <2>1, Zenon
<1>. HIDE DEF a
<1>3. b \in Regions /\ b.text = None /\ b.mark = g.mark /\ b.before = None  BY <1>1, RegionWith
<1>4. on \in BOOLEAN  OBVIOUS
<1>. HIDE DEF b, on
<1>5. c \in Regions /\ c.text = None /\ c.mark = g.mark /\ c.before = None
  BY <1>3, <1>4, RegionWith
<1>. QED  BY <1>2, <1>5 DEF Active
\* What a command leaves of a region, before the draw.
LEMMA AfterCommandIs ==
    ASSUME NEW g \in Regions, NEW r, r.text \in Texts
    PROVE  LET h == AfterCommand(g, r) IN
           /\ h \in Regions /\ h.text = g.text /\ h.on = (g.on /\ g.keep) /\ ~h.keep
           /\ h.before = g.before
           /\ h.mark = IF g.mark <= Len(r.text) THEN g.mark ELSE Len(r.text)
<1>. DEFINE on == g.on /\ g.keep
            mark == Min({g.mark, Len(r.text)})
            a == [g EXCEPT !.on = on]
            b == [a EXCEPT !.keep = FALSE]
            c == [b EXCEPT !.mark = mark]
<1>1. on \in BOOLEAN /\ g.mark \in Nat /\ Len(r.text) \in Nat
  <2>1. on \in BOOLEAN /\ g.mark \in Nat  BY DEF Regions
  <2>2. Len(r.text) \in Nat  BY DEF Texts
  <2>. QED  BY <2>1, <2>2
<1>2. mark = (IF g.mark <= Len(r.text) THEN g.mark ELSE Len(r.text)) /\ mark \in Nat
  <2>1. mark = IF g.mark <= Len(r.text) THEN g.mark ELSE Len(r.text)
    BY <1>1, OfTwo
  <2>. QED  BY <1>1, <2>1
<1>3. AfterCommand(g, r) = c
  <2>1. AfterCommand(g, r) = [g EXCEPT !.on = on, !.keep = FALSE, !.mark = mark]
    BY DEF AfterCommand
  <2>. QED  BY <2>1, Zenon
<1>. HIDE DEF on, mark
<1>4. /\ a \in Regions /\ a.text = g.text /\ a.on = on /\ a.mark = g.mark /\ a.before = g.before
  BY <1>1, RegionWith
<1>. HIDE DEF a
<1>5. /\ b \in Regions /\ b.text = g.text /\ b.on = on /\ b.mark = g.mark /\ b.before = g.before
      /\ b.keep = FALSE
  BY <1>4, RegionWith
<1>. HIDE DEF b
<1>6. /\ c \in Regions /\ c.text = g.text /\ c.on = on /\ c.mark = mark /\ c.before = g.before
      /\ c.keep = FALSE
  BY <1>2, <1>5, RegionWith
<1>. HIDE DEF c
<1>. QED  BY <1>2, <1>3, <1>6 DEF on

\* A region that is drawn: no other than what it was, on the text it was made
\* active on, and shown.
LEMMA KeptIs ==
    ASSUME NEW g \in Regions, NEW r, r.text \in Texts, g.before = None,
           Active(g) => g.on
    PROVE  LET h == Kept(EndedIfChanged(g, r)) IN
           /\ h \in Regions /\ h.before = None
           /\ Active(h) => /\ Active(g) /\ h.text = g.text /\ g.text = r.text /\ h.on
                           /\ h.mark = g.mark
<1>. DEFINE e == EndedIfChanged(g, r)
            h == Kept(e)
<1>1. CASE Active(g) /\ g.text # r.text
  <2>1. e = Ended(g)  BY <1>1 DEF EndedIfChanged
  <2>2. e \in Regions /\ e.before = None /\ ~Active(e)  BY <2>1, EndedIs
  <2>. HIDE DEF e
  <2>3. h = e  BY <2>2 DEF Kept
  <2>. QED  BY <2>2, <2>3 DEF e
<1>2. CASE ~(Active(g) /\ g.text # r.text)
  <2>1. e = g  BY <1>2 DEF EndedIfChanged
  <2>. HIDE DEF e
  <2>2. CASE ~Active(g)
    <3>1. h = g  BY <2>1, <2>2 DEF Kept
    <3>. QED  BY <2>2, <3>1 DEF e
  <2>3. CASE Active(g)
    <3>. DEFINE a == [g EXCEPT !.on = TRUE]
                b == [a EXCEPT !.keep = TRUE]
    <3>1. h = b
      <4>1. h = [g EXCEPT !.on = TRUE, !.keep = TRUE]  BY <2>1, <2>3 DEF Kept
      <4>. QED  BY <4>1, Zenon
    <3>2. /\ a \in Regions /\ a.text = g.text /\ a.on = TRUE /\ a.mark = g.mark /\ a.before = None
      BY RegionWith
    <3>. HIDE DEF a
    <3>3. /\ b \in Regions /\ b.text = g.text /\ b.on = TRUE /\ b.mark = g.mark /\ b.before = None
      BY <3>2, RegionWith
    <3>4. g.text = r.text  BY <1>2, <2>3
    <3>. HIDE DEF b, h
    <3>5. h = Kept(EndedIfChanged(g, r))  BY DEF h, e
    <3>. QED  BY <2>3, <3>1, <3>3, <3>4, <3>5
  <2>. QED  BY <2>2, <2>3
<1>. QED  BY <1>1, <1>2

\* What is drawn of a region that was not put back: as KeptIs, and nothing of one
\* that the command let go of.
LEMMA UpdatedIs ==
    ASSUME NEW g \in Regions, NEW r, r.text \in Texts, g.before = None
    PROVE  LET h == Updated(g, r) IN
           /\ h \in Regions /\ h.before = None
           /\ Active(h) => /\ Active(g) /\ g.on /\ h.text = g.text /\ g.text = r.text /\ h.on
                           /\ h.mark = g.mark
<1>1. PutBack(g, r) = g  BY DEF PutBack
<1>2. Updated(g, r) = IF Active(g) /\ ~g.on THEN Ended(g) ELSE Kept(EndedIfChanged(g, r))
  BY <1>1 DEF Updated
<1>3. CASE Active(g) /\ ~g.on
  <2>1. Updated(g, r) = Ended(g)  BY <1>2, <1>3
  <2>. QED  BY <2>1, EndedIs
<1>4. CASE ~(Active(g) /\ ~g.on)
  <2>. DEFINE k == Kept(EndedIfChanged(g, r))
  <2>1. Updated(g, r) = k  BY <1>2, <1>4
  <2>2. /\ k \in Regions /\ k.before = None
        /\ Active(k) => /\ Active(g) /\ k.text = g.text /\ g.text = r.text /\ k.on
                        /\ k.mark = g.mark
    BY <1>4, KeptIs
  <2>. HIDE DEF k
  <2>. QED  BY <1>4, <2>1, <2>2
<1>. QED  BY <1>3, <1>4

\* The same after a command: the mark is where it was if the text has room.
LEMMA LeftIs ==
    ASSUME NEW g \in Regions, NEW r, r.text \in Texts, g.before = None
    PROVE  LET h == Updated(AfterCommand(g, r), r) IN
           /\ h \in Regions /\ h.before = None
           /\ Active(h) => /\ Active(g) /\ h.text = g.text /\ g.text = r.text /\ h.on
                           /\ g.mark <= Len(r.text) => h.mark = g.mark
<1>. DEFINE a == AfterCommand(g, r)
            h == Updated(a, r)
<1>1. /\ a \in Regions /\ a.text = g.text /\ a.before = None
      /\ a.mark = IF g.mark <= Len(r.text) THEN g.mark ELSE Len(r.text)
  BY AfterCommandIs
<1>. HIDE DEF a
<1>2. /\ h \in Regions /\ h.before = None
      /\ Active(h) => /\ Active(a) /\ h.text = a.text /\ a.text = r.text /\ h.on
                      /\ h.mark = a.mark
  BY <1>1, UpdatedIs
<1>3. Active(a) <=> Active(g)  BY <1>1 DEF Active
<1>. HIDE DEF h
<1>4. /\ h \in Regions /\ h.before = None
      /\ Active(h) => /\ Active(g) /\ h.text = g.text /\ g.text = r.text /\ h.on
                      /\ g.mark <= Len(r.text) => h.mark = g.mark
  BY <1>1, <1>2, <1>3
<1>. QED  BY <1>4 DEF h, a

\* After a search the mark that was there before it is back, if the line is.
LEMMA SearchLeft ==
    ASSUME NEW g \in Regions, NEW r, r.text \in Texts, Active(g) => g.before # None
    PROVE  LET h == Updated(AfterCommand([g EXCEPT !.on = FALSE], r), r) IN
           /\ h \in Regions /\ h.before = None
           /\ Active(h) => /\ Active(g) /\ h.text = g.text /\ g.text = r.text /\ h.on
                           /\ g.before <= Len(r.text) => h.mark = g.before
<1>. DEFINE f == [g EXCEPT !.on = FALSE]
            a == AfterCommand(f, r)
            e == EndedIfChanged(a, r)
            c == [e EXCEPT !.before = None]
            mark == Min({a.before, Len(r.text)})
            x == [c EXCEPT !.mark = mark]
            y == [x EXCEPT !.on = TRUE]
            z == [y EXCEPT !.keep = TRUE]
            back == PutBack(a, r)
            h == Updated(a, r)
<1>1. f \in Regions /\ f.text = g.text /\ f.before = g.before  BY RegionWith
<1>. HIDE DEF f
<1>2. a \in Regions /\ a.text = g.text /\ a.before = g.before  BY <1>1, AfterCommandIs
<1>. HIDE DEF a
<1>3. Active(a) <=> Active(g)  BY <1>2 DEF Active
<1>4. h = IF Active(back) /\ ~back.on THEN Ended(back) ELSE Kept(EndedIfChanged(back, r))
  BY DEF Updated
<1>5. e \in Regions /\ (Active(e) => e = a /\ Active(a) /\ a.text = r.text)
  BY <1>2, EndedIs DEF EndedIfChanged
<1>. HIDE DEF e
<1>6. c \in Regions /\ c.text = e.text /\ c.before = None /\ (Active(c) <=> Active(e))
  BY <1>5, RegionWith DEF Active
<1>. HIDE DEF h
<1>7. CASE a.before = None
  <2>1. ~Active(a)  BY <1>2, <1>3, <1>7
  <2>2. back = a  BY <1>7 DEF PutBack
  <2>3. h = Kept(EndedIfChanged(a, r))  BY <1>4, <2>1, <2>2
  <2>4. h \in Regions /\ h.before = None /\ ~Active(h)
    BY <1>2, <1>7, <2>1, <2>3, KeptIs
  <2>. QED  BY <2>4 DEF h, a, f
<1>8. CASE a.before # None /\ ~Active(c)
  <2>1. back = c  BY <1>8 DEF PutBack, c, e
  <2>2. h = Kept(EndedIfChanged(c, r))  BY <1>4, <1>8, <2>1
  <2>. HIDE DEF c
  <2>3. h \in Regions /\ h.before = None /\ ~Active(h)
    BY <1>6, <1>8, <2>2, KeptIs
  <2>. QED  BY <2>3 DEF h, a, f
<1>9. CASE a.before # None /\ Active(c)
  <2>1. back = z
    <3>1. back = [c EXCEPT !.mark = mark, !.on = TRUE, !.keep = TRUE]
      BY <1>9 DEF PutBack, c, e
    <3>. QED  BY <3>1, Zenon
  <2>. HIDE DEF c
  <2>2. /\ a.before \in Nat /\ Len(r.text) \in Nat
        /\ mark = IF a.before <= Len(r.text) THEN a.before ELSE Len(r.text)
    <3>1. a.before \in Nat  BY <1>2, <1>9 DEF Regions
    <3>2. Len(r.text) \in Nat  BY DEF Texts
    <3>. QED  BY <3>1, <3>2, OfTwo
  <2>3. mark \in Nat  BY <2>2
  <2>. HIDE DEF mark
  <2>4. x \in Regions /\ x.text = c.text /\ x.mark = mark /\ x.before = None
    BY <1>6, <2>3, RegionWith
  <2>. HIDE DEF x
  <2>5. y \in Regions /\ y.text = c.text /\ y.mark = mark /\ y.before = None /\ y.on = TRUE
    BY <2>4, RegionWith
  <2>. HIDE DEF y
  <2>6. z \in Regions /\ z.text = c.text /\ z.mark = mark /\ z.before = None /\ z.on = TRUE
    BY <2>5, RegionWith
  <2>. HIDE DEF z, back
  <2>7. Active(e) /\ c.text = g.text /\ g.text = r.text /\ Active(g)  BY <1>2, <1>3, <1>5, <1>6, <1>9
  <2>8. h = Kept(EndedIfChanged(back, r))  BY <1>4, <2>1, <2>6
  <2>9. /\ h \in Regions /\ h.before = None
        /\ Active(h) => h.text = back.text /\ h.on /\ h.mark = back.mark
    BY <2>1, <2>6, <2>8, KeptIs
  <2>10. g.before <= Len(r.text) => mark = g.before  BY <1>2, <2>2
  <2>11. /\ h \in Regions /\ h.before = None
         /\ Active(h) => /\ Active(g) /\ h.text = g.text /\ g.text = r.text /\ h.on
                         /\ g.before <= Len(r.text) => h.mark = g.before
    BY <2>1, <2>6, <2>7, <2>9, <2>10
  <2>. QED  BY <2>11 DEF h, a, f
<1>. QED  BY <1>7, <1>8, <1>9

\* A line without changes.
LEMMA FreshIs ==
    ASSUME NEW text \in Texts, NEW point \in 0 .. Len(text)
    PROVE  Whole(Fresh(text, point), 0) /\ Fresh(text, point).text = text
<1>. DEFINE r == Fresh(text, point)
            lens == [i \in 0 .. 0 |-> Len(text)]
<1>1. Len(text) \in Nat /\ <<>> \in Seq(Changes) /\ Len(<<>>) = 0  BY DEF Texts
<1>2. r \in RlLines /\ r.text = text /\ r.point = point /\ r.undo = <<>>
  BY <1>1 DEF RlLines, Fresh
<1>3. Fits(<<>>, Len(text))
  <2>1. lens \in [0 .. Len(<<>>) -> Nat] /\ lens[Len(<<>>)] = Len(text)  BY <1>1
  <2>2. GoesBy(<<>>, lens, Len(text))  BY <1>1, <2>1 DEF GoesBy
  <2>. HIDE DEF lens
  <2>. QED  BY <2>1, <2>2 DEF Fits
<1>4. Open1(<<>>, 0)
  <2>1. StartsOf(<<>>, 1) = {} /\ EndsOf(<<>>, 1) = {}  BY <1>1 DEF StartsOf, EndsOf
  <2>. QED  BY <2>1, FS_EmptySet DEF Open1
<1>. QED  BY <1>2, <1>3, <1>4 DEF Whole, Sane

-----------------------------------------------------------------------------
(* The invariant, key by key. *)

\* Without an open group a line is no None.
LEMMA WholeIsSome == \A r : Whole(r, 0) => r # None
BY EditorConstantsOK DEF Whole, Sane

\* No place is set.
LEMMA NoSetIs == NoSet \in [text : Texts, mark : Nat] /\ NoSet.mark <= Len(NoSet.text)
<1>1. <<>> \in Texts /\ Len(<<>>) = 0  BY DEF Texts
<1>. QED  BY <1>1 DEF NoSet

\* A command that leaves a line, and a region as the user set it.
LEMMA LeavesKeeps ==
    ASSUME NEW r, Whole(r, 0), NEW g \in Regions, g.before = None, Leaves(r, g),
           set' \in [text : Texts, mark : Nat], set'.mark <= Len(set'.text),
           Active(g) /\ g.text = r.text /\ Active(region') => set'.text = g.text /\ set'.mark = g.mark
    PROVE  EditorInv'
<1>. DEFINE h == Updated(AfterCommand(g, r), r)
<1>1. /\ line' = r /\ region' = h /\ searching' = None /\ del' = DelBinding(None)
  BY DEF Leaves
<1>2. r.text \in Texts /\ Len(r.text) \in Nat  BY WholeIs
<1>3. /\ h \in Regions /\ h.before = None
      /\ Active(h) => /\ Active(g) /\ h.text = g.text /\ g.text = r.text /\ h.on
                      /\ g.mark <= Len(r.text) => h.mark = g.mark
  BY <1>2, LeftIs
<1>. HIDE DEF h
<1>4. LinesInv'  BY <1>1 DEF LinesInv
<1>5. ASSUME Active(h)
      PROVE  r.text = h.text /\ h.text = set'.text /\ h.mark = set'.mark /\ h.on
  <2>1. set'.text = r.text /\ set'.mark = g.mark  BY <1>1, <1>3, <1>5
  <2>. QED  BY <1>3, <1>5, <2>1
<1>6. RegionInv'  BY <1>1, <1>3, <1>5 DEF RegionInv, Active
<1>. QED  BY <1>1, <1>4, <1>6 DEF EditorInv

\* While no search runs.
LEMMA BetweenKeys ==
    ASSUME EditorInv, searching = None
    PROVE  /\ Whole(line, 0) /\ region \in Regions /\ region.before = None
           /\ set \in [text : Texts, mark : Nat] /\ set.mark <= Len(set.text)
           /\ Active(region) => /\ line.text = region.text /\ region.text = set.text
                                /\ region.mark = set.mark /\ region.on
           /\ line.text \in Texts /\ Len(line.text) \in Nat /\ line.point \in 0 .. Len(line.text)
<1>1. Whole(line, 0)  BY DEF EditorInv, LinesInv
<1>. QED  BY <1>1, WholeIs DEF EditorInv, RegionInv

\* An edit, or a move of the cursor.
LEMMA EditsKeeps ==
    ASSUME EditorInv, NEW r, Whole(r, 0), Edits(r)
    PROVE  EditorInv'
<1>1. searching = None /\ Leaves(r, region) /\ set' = IF Active(region') THEN set ELSE NoSet
  BY DEF Edits, Leaves, StillSet
<1>2. /\ region \in Regions /\ region.before = None
      /\ set \in [text : Texts, mark : Nat] /\ set.mark <= Len(set.text)
      /\ Active(region) => region.text = set.text /\ region.mark = set.mark
  BY <1>1, BetweenKeys
<1>3. set' \in [text : Texts, mark : Nat] /\ set'.mark <= Len(set'.text)
  BY <1>1, <1>2, NoSetIs
<1>4. Active(region) /\ Active(region') => set'.text = region.text /\ set'.mark = region.mark
  BY <1>1, <1>2
<1>. QED  BY <1>1, <1>2, <1>3, <1>4, LeavesKeeps

\* A command that ends the region, and may leave the mark elsewhere.
LEMMA EndsKeeps ==
    ASSUME EditorInv, NEW r, Whole(r, 0), NEW g \in Regions, ~Active(g), g.before = None,
           Leaves(r, g), set' = NoSet
    PROVE  EditorInv'
BY NoSetIs, LeavesKeeps

\* A line that is run.
LEMMA RunsKeeps ==
    ASSUME EditorInv, NEW r, Whole(r, 0), Runs(r)
    PROVE  EditorInv'
<1>. DEFINE g == [region EXCEPT !.on = FALSE]
            h == Updated(g, r)
<1>1. /\ searching = None /\ line' = r /\ region' = h /\ searching' = None
      /\ del' = DelBinding(None) /\ set' = NoSet
  BY DEF Runs
<1>2. region \in Regions /\ region.before = None  BY <1>1, BetweenKeys
<1>3. g \in Regions /\ g.before = None /\ g.on = FALSE  BY <1>2, RegionWith
<1>4. r.text \in Texts  BY WholeIs
<1>. HIDE DEF g
<1>5. h \in Regions /\ h.before = None /\ ~Active(h)  BY <1>3, <1>4, UpdatedIs
<1>. HIDE DEF h
<1>6. RegionInv'  BY <1>1, <1>5, NoSetIs DEF RegionInv, Active
<1>7. LinesInv'  BY <1>1 DEF LinesInv
<1>. QED  BY <1>1, <1>6, <1>7 DEF EditorInv

\* The keys that type.
LEMMA TypesKeeps ==
    ASSUME EditorInv, NEW c \in Typing, Types(c)
    PROVE  EditorInv'
<1>1. searching = None /\ Edits(Pressed(line, c))  BY DEF Types, Edits, Leaves
<1>2. c \in Chars  BY EditorConstantsOK
<1>3. Whole(line, 0)  BY <1>1, BetweenKeys
<1>4. Whole(Pressed(line, c), 0)  BY <1>2, <1>3, PressedIs
<1>. QED  BY <1>1, <1>4, EditsKeeps

\* Enter, which runs the line or takes another.
LEMMA EnterKeeps ==
    ASSUME EditorInv, Enter
    PROVE  EditorInv'
<1>1. PICK pasted \in BOOLEAN, unfinished \in BOOLEAN, answer \in DepthAnswers :
        LET more == IF ClosesBelow(unfinished) /\ ~pasted THEN 2 ELSE 1
            moved == IF pasted THEN line ELSE MovedOut(line) IN
        IF unfinished /\ FitsMoreRows(line.text, more)
        THEN Edits(NewLine(line, pasted, answer, more = 2))
        ELSE Runs(IF unfinished THEN line ELSE moved)
  BY DEF Enter
<1>. DEFINE more == IF ClosesBelow(unfinished) /\ ~pasted THEN 2 ELSE 1
            moved == IF pasted THEN line ELSE MovedOut(line)
<1>2. CASE unfinished /\ FitsMoreRows(line.text, more)
  <2>. DEFINE r == NewLine(line, pasted, answer, more = 2)
  <2>1. Edits(r)  BY <1>1, <1>2
  <2>2. Whole(line, 0)  BY <2>1, BetweenKeys DEF Edits, Leaves
  <2>3. Whole(r, 0)  BY <2>2, NewLineIs
  <2>. HIDE DEF r
  <2>. QED  BY <2>1, <2>3, EditsKeeps
<1>3. CASE ~ (unfinished /\ FitsMoreRows(line.text, more))
  <2>. DEFINE r == IF unfinished THEN line ELSE moved
  <2>1. Runs(r)  BY <1>1, <1>3
  <2>2. Whole(line, 0)  BY <2>1, BetweenKeys DEF Runs
  <2>3. Whole(MovedOut(line), 0)  BY <2>2, MovedOutIs
  <2>4. Whole(r, 0)  BY <2>2, <2>3
  <2>. HIDE DEF r
  <2>. QED  BY <2>1, <2>4, RunsKeeps
<1>. QED  BY <1>2, <1>3

\* C-j.
LEMMA InsertNewlineKeeps ==
    ASSUME EditorInv, InsertNewline
    PROVE  EditorInv'
<1>1. PICK pasted \in BOOLEAN, answer \in DepthAnswers : Edits(NewLine(line, pasted, answer, FALSE))
  BY DEF InsertNewline
<1>. DEFINE r == NewLine(line, pasted, answer, FALSE)
<1>2. Whole(line, 0)  BY <1>1, BetweenKeys DEF Edits, Leaves
<1>3. Whole(r, 0)
  <2>1. \A below : Whole(NewLine(line, pasted, answer, below), 0)  BY <1>2, NewLineIs
  <2>. QED  BY <2>1, Zenon
<1>. HIDE DEF r
<1>4. Edits(r)  BY <1>1 DEF r
<1>. QED  BY <1>3, <1>4, EditsKeeps

\* The kills.
LEMMA KillsKeeps ==
    ASSUME EditorInv, NEW part, searching = None => Within(part, line.text), Kills(part)
    PROVE  EditorInv'
<1>. DEFINE r == SetPoint(Delete(line, part.from, part.to), part.from)
<1>1. searching = None /\ Edits(r)  BY DEF Kills, Edits, Leaves
<1>2. Sane(line, 0)  BY <1>1, BetweenKeys, WholeIs
<1>3. Whole(r, 0)  BY <1>1, <1>2, CutIs
<1>. HIDE DEF r
<1>. QED  BY <1>1, <1>3, EditsKeeps
\* Each of them takes what is within the text.
\* Each of them takes what is within the text.
LEMMA KillKeyKeeps ==
    ASSUME EditorInv, KillKey
    PROVE  EditorInv'
<1>1. CASE Kills(KillForward(line.text, line.point))
  <2>1. searching = None => Within(KillForward(line.text, line.point), line.text)
    BY BetweenKeys, KillsWithin
  <2>. QED  BY <1>1, <2>1, KillsKeeps
<1>2. CASE Kills(KillBackward(line.text, line.point))
  <2>1. searching = None => Within(KillBackward(line.text, line.point), line.text)
    BY BetweenKeys, KillsWithin
  <2>. QED  BY <1>2, <2>1, KillsKeeps
<1>3. ASSUME NEW count \in {-1, 2}, Kills(KillLines(line.text, line.point, count))
      PROVE  EditorInv'
  <2>. DEFINE part == KillLines(line.text, line.point, count)
  <2>1. searching = None => Within(part, line.text)  BY BetweenKeys, KillLinesWithin
  <2>. HIDE DEF part
  <2>2. Kills(part)  BY <1>3 DEF part
  <2>. QED  BY <2>1, <2>2, KillsKeeps
<1>. QED  BY <1>1, <1>2, <1>3 DEF KillKey

\* DEL and C-d.
LEMMA DeleteKeyKeeps ==
    ASSUME EditorInv, DeleteKey
    PROVE  EditorInv'
<1>1. searching = None  BY DEF DeleteKey, Edits, Leaves
<1>2. Whole(line, 0) /\ region \in Regions  BY <1>1, BetweenKeys
<1>3. CASE Leaves(AtRange(line, region), [Ended(region) EXCEPT !.mark = RegionRange(line, region).from])
  <2>. DEFINE r == AtRange(line, region)
              from == RegionRange(line, region).from
              e == Ended(region)
              g == [e EXCEPT !.mark = from]
  <2>1. Whole(r, 0) /\ from \in Nat  BY <1>2, RegionWithin
  <2>2. e \in Regions /\ e.text = None /\ e.before = None  BY <1>2, EndedIs
  <2>. HIDE DEF e, from, r
  <2>3. g \in Regions /\ g.text = None /\ g.before = None  BY <2>1, <2>2, RegionWith
  <2>4. ~Active(g)  BY <2>3 DEF Active
  <2>5. Leaves(r, g)  BY <1>3 DEF r, from, e
  <2>6. set' = NoSet  BY DEF DeleteKey
  <2>. HIDE DEF g
  <2>. QED  BY <2>1, <2>3, <2>4, <2>5, <2>6, EndsKeeps
<1>4. CASE line.point > 0 /\ Edits(DeletePair(line))
  <2>1. Whole(DeletePair(line), 0)  BY <1>2, <1>4, DeletePairIs
  <2>. QED  BY <1>4, <2>1, EditsKeeps
<1>5. CASE line.point < Len(line.text) /\ Edits(Delete(line, line.point, line.point + 1))
  <2>. DEFINE r == Delete(line, line.point, line.point + 1)
  <2>1. Whole(r, 0)  BY <1>2, <1>5, DeleteAheadIs
  <2>. HIDE DEF r
  <2>2. Edits(r)  BY <1>5 DEF r
  <2>. QED  BY <2>1, <2>2, EditsKeeps
<1>. QED  BY <1>3, <1>4, <1>5 DEF DeleteKey

\* The mark, set where the cursor is.
LEMMA MarkedIs ==
    ASSUME NEW g \in Regions, g.before = None, NEW m \in Nat, NEW r, r.text \in Texts
    PROVE  LET a == Activated([g EXCEPT !.mark = m], r) IN
           a \in Regions /\ a.before = None /\ a.text = r.text /\ a.mark = m /\ a.on
<1>. DEFINE x == [g EXCEPT !.mark = m]
            a1 == [x EXCEPT !.text = r.text]
            a2 == [a1 EXCEPT !.on = TRUE]
            a3 == [a2 EXCEPT !.keep = TRUE]
<1>1. Activated([g EXCEPT !.mark = m], r) = a3
  <2>1. Activated(x, r) = [x EXCEPT !.text = r.text, !.on = TRUE, !.keep = TRUE]
    BY DEF Activated
  <2>. QED  BY <2>1, Zenon
<1>2. x \in Regions /\ x.before = None /\ x.mark = m  BY RegionWith
<1>. HIDE DEF x
<1>3. a1 \in Regions /\ a1.before = None /\ a1.mark = m /\ a1.text = r.text  BY <1>2, RegionWith
<1>. HIDE DEF a1
<1>4. a2 \in Regions /\ a2.before = None /\ a2.mark = m /\ a2.text = r.text /\ a2.on = TRUE
  <2>1. TRUE \in BOOLEAN  OBVIOUS
  <2>. QED  BY <1>3, <2>1, RegionWith, Zenon
<1>. HIDE DEF a2
<1>5. a3 \in Regions /\ a3.before = None /\ a3.mark = m /\ a3.text = r.text /\ a3.on = TRUE
  BY <1>4, RegionWith
<1>. HIDE DEF a3
<1>. QED  BY <1>1, <1>5
\* C-SPC: the mark goes where the cursor is, and the region starts or ends.
LEMMA SetMarkKeeps ==
    ASSUME EditorInv, SetMark
    PROVE  EditorInv'
<1>1. searching = None  BY DEF SetMark, Leaves
<1>2. /\ Whole(line, 0) /\ region \in Regions /\ region.before = None
      /\ line.text \in Texts /\ line.point \in 0 .. Len(line.text) /\ Len(line.text) \in Nat
  BY <1>1, BetweenKeys
<1>3. CASE Leaves(line, Ended(region)) /\ set' = NoSet
  BY <1>2, <1>3, EndedIs, EndsKeeps
<1>4. CASE /\ Leaves(line, Activated([region EXCEPT !.mark = line.point], line))
           /\ set' = [text |-> line.text, mark |-> line.point]
  <2>. DEFINE point == line.point
              g == Activated([region EXCEPT !.mark = point], line)
  <2>1. point \in Nat /\ point <= Len(line.text)  BY <1>2
  <2>2. set' \in [text : Texts, mark : Nat] /\ set'.text = line.text /\ set'.mark = point
    BY <1>2, <1>4
  <2>3. Leaves(line, g)  BY <1>4
  <2>. HIDE DEF point
  <2>4. g \in Regions /\ g.before = None /\ g.text = line.text /\ g.mark = point
    BY <1>2, <2>1, MarkedIs
  <2>. HIDE DEF g
  <2>. QED  BY <1>2, <2>1, <2>2, <2>3, <2>4, LeavesKeeps
<1>. QED  BY <1>3, <1>4 DEF SetMark
\* The cursor goes to the mark, and the mark to where it was.
\* The cursor goes to the mark, and the mark to where it was.
LEMMA SwapKeeps ==
    ASSUME EditorInv, SwapPointAndMark
    PROVE  EditorInv'
<1>. DEFINE m == Min({region.mark, Len(line.text)})
            point == line.point
            x == [region EXCEPT !.mark = point]
            g == IF Active(region) THEN x ELSE Activated(x, line)
            r == SetPoint(line, m)
<1>1. /\ Leaves(r, g) /\ set' = [text |-> line.text, mark |-> point]
  BY DEF SwapPointAndMark
<1>2. /\ Whole(line, 0) /\ region \in Regions /\ region.before = None
      /\ line.text \in Texts /\ point \in Nat /\ point <= Len(line.text) /\ Len(line.text) \in Nat
      /\ Active(region) => line.text = region.text
  BY <1>1, BetweenKeys DEF Leaves
<1>3. m \in 0 .. Len(line.text)
  <2>1. region.mark \in Nat  BY <1>2 DEF Regions
  <2>2. m = IF region.mark <= Len(line.text) THEN region.mark ELSE Len(line.text)
    BY <1>2, <2>1, OfTwo
  <2>. QED  BY <1>2, <2>1, <2>2
<1>4. Whole(r, 0) /\ r.text = line.text  BY <1>2, <1>3, WholeIs, SetPointIs
<1>5. set' \in [text : Texts, mark : Nat] /\ set'.text = line.text /\ set'.mark = point
  BY <1>1, <1>2
<1>. HIDE DEF m, point, r
<1>6. x \in Regions /\ x.before = None /\ x.text = region.text /\ x.mark = point
  BY <1>2, RegionWith
<1>7. g \in Regions /\ g.before = None /\ g.text = line.text /\ g.mark = point
  <2>1. CASE Active(region)
    BY <1>2, <1>6, <2>1
  <2>2. CASE ~Active(region)
    <3>1. g = Activated(x, line)  BY <2>2
    <3>. QED  BY <1>2, <3>1, MarkedIs
  <2>. QED  BY <2>1, <2>2
<1>. HIDE DEF g
<1>. QED  BY <1>1, <1>2, <1>4, <1>5, <1>7, LeavesKeeps

\* A region with its mark elsewhere that has ended.
LEMMA EndedWith ==
    ASSUME NEW g \in Regions, NEW m \in Nat
    PROVE  LET e == [Ended(g) EXCEPT !.mark = m] IN
           e \in Regions /\ e.before = None /\ ~Active(e)
<1>. DEFINE e == Ended(g)
            x == [e EXCEPT !.mark = m]
<1>1. e \in Regions /\ e.before = None /\ e.text = None  BY EndedIs
<1>. HIDE DEF e
<1>2. x \in Regions /\ x.before = None /\ x.text = None  BY <1>1, RegionWith
<1>. QED  BY <1>2 DEF e, Active

\* C-w and M-w on the region, and C-g.
LEMMA KillRegionKeeps ==
    ASSUME EditorInv, KillRegion
    PROVE  EditorInv'
<1>. DEFINE from == RegionRange(line, region).from
            g == [Ended(region) EXCEPT !.mark = from]
            r == IF InUse(line, region) THEN AtRange(line, region) ELSE line
<1>1. Leaves(r, g) /\ set' = NoSet  BY DEF KillRegion
<1>2. Whole(line, 0) /\ region \in Regions  BY <1>1, BetweenKeys DEF Leaves
<1>3. Whole(AtRange(line, region), 0) /\ from \in Nat  BY <1>2, RegionWithin
<1>4. Whole(r, 0)  BY <1>2, <1>3
<1>. HIDE DEF from, r
<1>5. g \in Regions /\ g.before = None /\ ~Active(g)  BY <1>2, <1>3, EndedWith
<1>. HIDE DEF g
<1>. QED  BY <1>1, <1>4, <1>5, EndsKeeps
\* M-w leaves the line, and the mark at the region's other end.
\* M-w leaves the line, and the mark at the region's other end.
LEMMA SaveRegionKeeps ==
    ASSUME EditorInv, SaveRegion
    PROVE  EditorInv'
<1>. DEFINE part == RegionRange(line, region)
            m == IF line.point = part.from THEN part.to ELSE part.from
            g == [Ended(region) EXCEPT !.mark = m]
<1>1. Leaves(line, g) /\ set' = NoSet  BY DEF SaveRegion
<1>2. Whole(line, 0) /\ region \in Regions  BY <1>1, BetweenKeys DEF Leaves
<1>3. part.from \in Nat /\ part.to \in Nat  BY <1>2, RegionWithin
<1>4. m \in Nat  BY <1>3
<1>. HIDE DEF m
<1>5. g \in Regions /\ g.before = None /\ ~Active(g)  BY <1>2, <1>4, EndedWith
<1>. HIDE DEF g
<1>. QED  BY <1>1, <1>2, <1>5, EndsKeeps
\* C-g leaves the line.
\* C-g leaves the line.
LEMMA CancelsKeeps ==
    ASSUME EditorInv, Cancels
    PROVE  EditorInv'
<1>1. Leaves(line, Ended(region)) /\ set' = NoSet  BY DEF Cancels
<1>2. Whole(line, 0) /\ region \in Regions  BY <1>1, BetweenKeys DEF Leaves
<1>. QED  BY <1>1, <1>2, EndedIs, EndsKeeps

\* The cursor moved.
LEMMA MovesKeeps ==
    ASSUME EditorInv, MovesCursor
    PROVE  EditorInv'
<1>1. PICK point \in Points(line.text) : Edits(SetPoint(line, point))  BY DEF MovesCursor
<1>2. Whole(line, 0)  BY <1>1, BetweenKeys DEF Edits, Leaves
<1>3. Whole(SetPoint(line, point), 0)  BY <1>2, WholeIs, SetPointIs DEF Points
<1>. QED  BY <1>1, <1>3, EditsKeeps
\* An undo.
\* An undo.
LEMMA UndoKeeps ==
    ASSUME EditorInv, Undo
    PROVE  EditorInv'
<1>1. Edits(Undone(line)) /\ CanUndo(line)  BY DEF Undo
<1>2. Whole(line, 0)  BY <1>1, BetweenKeys DEF Edits, Leaves
<1>3. line.undo # <<>>  BY <1>1 DEF CanUndo
<1>. QED  BY <1>1, <1>2, <1>3, UndoneIs, EditsKeeps

-----------------------------------------------------------------------------
(* The searches. *)

\* A search that starts keeps where the mark was, and one that is drawn again
\* leaves it.
LEMMA SearchStartsKeeps ==
    ASSUME EditorInv, SearchStarts
    PROVE  EditorInv'
<1>1. /\ searching = None /\ searching' = line /\ line' = line /\ set' = set
      /\ region' = UpdatedInSearch(region) /\ del' = DelBinding(line)
  BY DEF SearchStarts
<1>2. /\ Whole(line, 0) /\ region \in Regions /\ region.before = None
      /\ set \in [text : Texts, mark : Nat] /\ set.mark <= Len(set.text)
      /\ Active(region) => region.text = set.text /\ region.mark = set.mark
  BY <1>1, BetweenKeys
<1>3. LinesInv'  BY <1>1, <1>2 DEF LinesInv
<1>4. line # None  BY <1>2, WholeIsSome
<1>5. CASE ~Active(region)
  <2>1. region' = region  BY <1>1, <1>5 DEF UpdatedInSearch
  <2>2. RegionInv'  BY <1>1, <1>2, <1>4, <1>5, <2>1 DEF RegionInv, Active
  <2>. QED  BY <1>1, <1>3, <2>2 DEF EditorInv
<1>6. CASE Active(region)
  <2>. DEFINE x == [region EXCEPT !.before = region.mark]
              h == [x EXCEPT !.on = FALSE]
  <2>1. region' = h
    <3>1. region' = [region EXCEPT !.before = region.mark, !.on = FALSE]
      BY <1>1, <1>2, <1>6 DEF UpdatedInSearch
    <3>. QED  BY <3>1, Zenon
  <2>2. region.mark \in Nat \cup {None}  BY <1>2 DEF Regions
  <2>3. x \in Regions /\ x.before = region.mark /\ x.text = region.text
    BY <1>2, <2>2, RegionWith, SMTT(30)
  <2>. HIDE DEF x
  <2>4. h \in Regions /\ h.before = region.mark /\ h.text = region.text /\ h.on = FALSE
    <3>1. FALSE \in BOOLEAN  OBVIOUS
    <3>. QED  BY <2>3, <3>1, RegionWith, Zenon
  <2>. HIDE DEF h
  <2>5. RegionInv'  BY <1>1, <1>2, <1>4, <1>6, <2>1, <2>4 DEF RegionInv
  <2>. QED  BY <1>1, <1>3, <2>5 DEF EditorInv
<1>. QED  BY <1>5, <1>6

\* A match is drawn: the mark readline set is not the one put aside.
\* A match is drawn: the mark readline set is not the one put aside.
LEMMA SearchFindsKeeps ==
    ASSUME EditorInv, SearchFinds
    PROVE  EditorInv'
<1>1. PICK text \in Found, mark \in {0, 1} :
        /\ line' = [text |-> text, point |-> 0, undo |-> <<>>]
        /\ region' = UpdatedInSearch([region EXCEPT !.mark = mark])
  BY DEF SearchFinds
<1>2. searching # None /\ searching' = searching /\ del' = del /\ set' = set
  BY DEF SearchFinds
<1>3. Whole(line', 0)  BY <1>1, EditorConstantsOK, FreshIs DEF Fresh
<1>4. LinesInv'  BY <1>2, <1>3 DEF EditorInv, LinesInv
<1>5. /\ region \in Regions /\ set \in [text : Texts, mark : Nat] /\ set.mark <= Len(set.text)
      /\ Active(region) => region.text = set.text /\ region.before = set.mark /\ ~region.on
  BY <1>2 DEF EditorInv, RegionInv
<1>. DEFINE h == [region EXCEPT !.mark = mark]
<1>6. h \in Regions /\ h.text = region.text /\ h.before = region.before /\ h.on = region.on
  BY <1>5, RegionWith
<1>. HIDE DEF h
<1>7. Active(h) => h.before # None
  <2>1. Active(h) => h.before = set.mark /\ set.mark \in Nat  BY <1>5, <1>6 DEF Active
  <2>. QED  BY <2>1, EditorConstantsOK
<1>8. region' = h  BY <1>1, <1>7 DEF UpdatedInSearch, h
<1>9. RegionInv'  BY <1>2, <1>5, <1>6, <1>8 DEF RegionInv, Active
<1>. QED  BY <1>2, <1>4, <1>9 DEF EditorInv

\* A search that ends, on what it found or on the line there was.
LEMMA SearchEndsKeeps ==
    ASSUME EditorInv, SearchEnds
    PROVE  EditorInv'
<1>1. /\ searching # None /\ line' \in {line, searching} /\ searching' = None
      /\ del' = DelBinding(None) /\ set' = IF Active(region') THEN set ELSE NoSet
  BY DEF SearchEnds, StillSet
<1>2. PICK r \in {line, searching} :
        line' = r /\ region' = Updated(AfterCommand([region EXCEPT !.on = FALSE], r), r)
  BY DEF SearchEnds
<1>. DEFINE h == Updated(AfterCommand([region EXCEPT !.on = FALSE], r), r)
<1>3. Whole(r, 0)  BY <1>1, <1>2 DEF EditorInv, LinesInv
<1>4. r.text \in Texts  BY <1>3, WholeIs
<1>5. /\ region \in Regions /\ set \in [text : Texts, mark : Nat] /\ set.mark <= Len(set.text)
      /\ Active(region) => region.text = set.text /\ region.before = set.mark
  BY <1>1 DEF EditorInv, RegionInv
<1>6. Active(region) => region.before # None
  <2>1. Active(region) => region.before \in Nat  BY <1>5
  <2>. QED  BY <2>1, EditorConstantsOK
<1>7. /\ h \in Regions /\ h.before = None
      /\ Active(h) => /\ Active(region) /\ h.text = region.text /\ region.text = r.text /\ h.on
                      /\ region.before <= Len(r.text) => h.mark = region.before
  BY <1>4, <1>5, <1>6, SearchLeft
<1>8. region' = h  BY <1>2
<1>. HIDE DEF h
<1>9. LinesInv'  BY <1>1, <1>2, <1>3 DEF LinesInv
<1>10. ASSUME Active(h)
       PROVE  /\ set' = set /\ r.text = h.text /\ h.text = set.text /\ h.mark = set.mark /\ h.on
  BY <1>1, <1>5, <1>7, <1>8, <1>10
<1>11. set' \in [text : Texts, mark : Nat] /\ set'.mark <= Len(set'.text)
  BY <1>1, <1>5, NoSetIs
<1>12. RegionInv'  BY <1>1, <1>2, <1>7, <1>8, <1>10, <1>11 DEF RegionInv, Active
<1>. QED  BY <1>1, <1>9, <1>12 DEF EditorInv

\* A C-c, or the next line.
LEMMA InterruptedKeeps ==
    ASSUME Interrupted
    PROVE  EditorInv'
<1>1. /\ line' = Fresh(<<>>, 0) /\ region' = EmptyRegion /\ searching' = None
      /\ del' = DelBinding(None) /\ set' = NoSet
  BY DEF Interrupted, FreshLine
<1>2. <<>> \in Texts /\ Len(<<>>) = 0  BY DEF Texts
<1>3. Whole(Fresh(<<>>, 0), 0)  BY <1>2, FreshIs
<1>4. LinesInv'  BY <1>1, <1>3 DEF LinesInv
<1>5. EmptyRegion \in Regions /\ EmptyRegion.before = None /\ EmptyRegion.text = None
  BY DEF Regions, EmptyRegion
<1>6. RegionInv'  BY <1>1, <1>5, NoSetIs DEF RegionInv, Active
<1>. QED  BY <1>1, <1>4, <1>6 DEF EditorInv

-----------------------------------------------------------------------------
\* A line to begin with.
LEMMA EditorStarts == Init => EditorInv
<1>. SUFFICES ASSUME Init PROVE EditorInv  OBVIOUS
<1>1. searching = None /\ del = DelBinding(None)  BY DEF Init, DelBinding
<1>2. PICK text \in Starting : \E point \in 0 .. Len(text) : line = Fresh(text, point)
  BY DEF Init, Points
<1>3. text \in Texts /\ Len(text) \in Nat  BY EditorConstantsOK DEF Texts
<1>4. Whole(line, 0) /\ line.text = text
  <2>1. PICK point \in 0 .. Len(text) : line = Fresh(text, point)  BY <1>2
  <2>. QED  BY <1>3, <2>1, FreshIs
<1>5. /\ EmptyRegion \in Regions /\ EmptyRegion.before = None /\ EmptyRegion.text = None
  BY DEF Regions, EmptyRegion
<1>6. CASE region = EmptyRegion /\ set = NoSet
  <2>1. RegionInv  BY <1>1, <1>5, <1>6, NoSetIs DEF RegionInv, Active
  <2>. QED  BY <1>1, <1>4, <2>1 DEF EditorInv, LinesInv
<1>7. ASSUME NEW mark \in Starts(line.text) \cup Ends(line.text),
             region = Activated([EmptyRegion EXCEPT !.mark = mark], line),
             set = [text |-> line.text, mark |-> mark]
      PROVE  EditorInv
  <2>1. mark \in 0 .. Len(text)  BY <1>3, <1>4, <1>7 DEF Starts, Ends, Texts
  <2>. DEFINE a == Activated([EmptyRegion EXCEPT !.mark = mark], line)
  <2>2. a \in Regions /\ a.before = None /\ a.text = line.text /\ a.mark = mark /\ a.on
    BY <1>3, <1>4, <1>5, <2>1, MarkedIs
  <2>3. region = a  BY <1>7
  <2>. HIDE DEF a
  <2>4. set \in [text : Texts, mark : Nat] /\ set.mark <= Len(set.text) /\ set.text = line.text /\ set.mark = mark
    BY <1>3, <1>4, <1>7, <2>1
  <2>5. RegionInv  BY <1>1, <2>2, <2>3, <2>4 DEF RegionInv
  <2>. QED  BY <1>1, <1>4, <2>5 DEF EditorInv, LinesInv
<1>. QED  BY <1>6, <1>7 DEF Init

\* No step loses the invariant.
LEMMA EditorGoesOn == EditorInv /\ [Next]_vars => EditorInv'
<1>. SUFFICES ASSUME EditorInv, [Next]_vars PROVE EditorInv'  OBVIOUS
<1>1. CASE \E c \in Typing : Types(c)  BY <1>1, TypesKeeps
<1>2. CASE Enter  BY <1>2, EnterKeeps
<1>3. CASE InsertNewline  BY <1>3, InsertNewlineKeeps
<1>4. CASE KillKey  BY <1>4, KillKeyKeeps
<1>5. CASE DeleteKey  BY <1>5, DeleteKeyKeeps
<1>6. CASE SetMark  BY <1>6, SetMarkKeeps
<1>7. CASE SwapPointAndMark  BY <1>7, SwapKeeps
<1>8. CASE KillRegion  BY <1>8, KillRegionKeeps
<1>9. CASE SaveRegion  BY <1>9, SaveRegionKeeps
<1>10. CASE Cancels  BY <1>10, CancelsKeeps
<1>11. CASE MovesCursor  BY <1>11, MovesKeeps
<1>12. CASE Undo  BY <1>12, UndoKeeps
<1>13. CASE SearchStarts  BY <1>13, SearchStartsKeeps
<1>14. CASE SearchFinds  BY <1>14, SearchFindsKeeps
<1>15. CASE SearchEnds  BY <1>15, SearchEndsKeeps
<1>16. CASE Interrupted  BY <1>16, InterruptedKeeps
<1>17. CASE UNCHANGED vars
  BY <1>17 DEF vars, EditorInv, LinesInv, RegionInv, Active
<1>. QED
  BY <1>1, <1>2, <1>3, <1>4, <1>5, <1>6, <1>7, <1>8, <1>9, <1>10, <1>11, <1>12, <1>13,
     <1>14, <1>15, <1>16, <1>17
     DEF Next

\* At any time the cursor is in the text, every change that an undo would take
\* back fits the text there will be then (hooks/multiline.rs and pairs.rs edit the
\* line through readline's undo list, in groups), and an active region is the one
\* the user set, on the text it was set on (hooks/region.rs), also under a search.
THEOREM EditorInvariant == Spec => []EditorInv
<1>. QED  BY EditorStarts, EditorGoesOn, PTL DEF Spec

\* A search that is left, by any key or a C-c, leaves the region and DEL as they
\* were: the mark that region's update put aside, and DEL, which
\* rubout_while_searching bound anew, are put back whatever the search did to the
\* line in between.
THEOREM SearchLeavesNoTraceAlways == Spec => []SearchLeavesNoTrace
<1>1. EditorInv => RegionIsWhereSet
  BY DEF EditorInv, RegionInv, RegionIsWhereSet, Active
<1>2. EditorInv => DelIsOurs  BY DEF EditorInv, DelIsOurs, DelBinding
<1>. QED  BY <1>1, <1>2, EditorInvariant, PTL DEF SearchLeavesNoTrace
=============================================================================
