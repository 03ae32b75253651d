----------------------------- MODULE TextProofs -----------------------------
(***************************************************************************)
(* What Lisp does to a line, and what the menu lists for it.               *)
(*                                                                         *)
(* Buffer: the places that Lisp counts on follow the text, for every line, *)
(* every edit and any number of excursions in one another.                 *)
(*                                                                         *)
(* LispSteps: whatever Lisp, a hook's functions and the readline commands  *)
(* they call do, and however a step ends, readline's count of open groups  *)
(* is that of the steps that run, and no line's undo list comes to end a   *)
(* group that did not begin on it.  The invariant says of each line's list *)
(* how many groups it has open: that of the step, and that of the hook's   *)
(* step outside it, each on the line it was opened on, unless its list was *)
(* freed.  A lemma for each thing done to a list says what is open after   *)
(* it; an undo takes a list back no further than the group that ended.     *)
(*                                                                         *)
(* Ranking: whatever history and the other sources give, each item is      *)
(* gathered and ranked at its best, and the menu lists the best first.     *)
(* A round of `tightest' goes forward to an end no later than that of any  *)
(* stretch not before its start, and from there back to the latest start,  *)
(* so what the rounds pass over is longer, or later, than what they keep.  *)
(* A stable sort is a permutation: as many as its place says are ahead of  *)
(* each item, so no two have one place, and none is left empty.            *)
(***************************************************************************)
EXTENDS Buffer, LispSteps, Ranking, FiniteSetTheorems, SequenceTheorems,
        WellFoundedInduction, TLAPS

(* Least and greatest. *)

Below == {pair \in Nat \X Nat : pair[1] < pair[2]}

\* Numbers do not go down for ever.
LEMMA BelowWellFounded == IsWellFoundedOn(Below, Nat)
<1>1. IsWellFoundedOn(OpToRel(<, Nat), Nat)
  BY NatLessThanWellFounded
<1>2. OpToRel(<, Nat) = Below
  BY DEF OpToRel, Below
<1>. QED
  BY <1>1, <1>2

\* A set of naturals with something in it has a least, the one Lowest chooses.
LEMMA LowestIs ==
    ASSUME NEW S, S \subseteq Nat, S # {}
    PROVE  Lowest(S) \in S /\ \A j \in S : Lowest(S) <= j
<1>1. PICK x \in S : \A y \in S : ~ (<<y, x>> \in Below)
  BY BelowWellFounded, WFMin
<1>2. \A m, n \in Nat : m < n => <<m, n>> \in Below
  BY DEF Below
<1>3. ASSUME NEW y \in S PROVE x <= y
  <2>1. x \in Nat /\ y \in Nat
    OBVIOUS
  <2>2. ~ (y < x)
    BY <1>1, <1>2, <2>1
  <2>. QED
    BY <2>1, <2>2
<1>. QED
  BY <1>3 DEF Lowest

\* And a greatest, when none of them is past some number.
LEMMA HighestIs ==
    ASSUME NEW m \in Nat, NEW S, S \subseteq 0 .. m, S # {}
    PROVE  Highest(S) \in S /\ \A j \in S : j <= Highest(S)
<1>1. PICK D : D = {m - j : j \in S}
  OBVIOUS
<1>2. D \subseteq Nat /\ D # {}
  <2>1. \A j \in S : j \in 0 .. m /\ m - j \in Nat
    OBVIOUS
  <2>. QED
    BY <1>1, <2>1
<1>3. PICK d \in D : \A e \in D : d <= e
  BY <1>2, LowestIs
<1>4. PICK x \in S : d = m - x
  BY <1>1
<1>5. ASSUME NEW j \in S PROVE j <= x
  <2>1. m - x <= m - j
    BY <1>1, <1>3, <1>4
  <2>2. m \in Int /\ x \in Int /\ j \in Int
    OBVIOUS
  <2>. QED
    BY <2>1, <2>2
<1>. QED
  BY <1>5 DEF Highest

\* The n-th of a finite set of naturals, with as many of them up to it.
LEMMA NthIs ==
    ASSUME NEW m \in Nat, NEW S, S \subseteq 0 .. m, NEW n \in 1 .. Cardinality(S)
    PROVE  Nth(S, n) \in S /\ Cardinality({j \in S : j <= Nth(S, n)}) = n
<1>0. IsFiniteSet(0 .. m)
  BY FS_Interval
<1>1. IsFiniteSet(S) /\ Cardinality(S) \in Nat
  BY <1>0, FS_Subset, FS_CardinalityType
<1>2. \A T \in SUBSET S : IsFiniteSet(T) /\ Cardinality(T) \in Nat
  BY <1>1, FS_Subset, FS_CardinalityType
<1>3. PICK K : K = {x \in S : Cardinality({j \in S : j <= x}) >= n}
  OBVIOUS
<1>4. K # {}
  <2>1. S # {}
    BY FS_EmptySet
  <2>2. PICK g \in S : \A j \in S : j <= g
    BY <2>1, HighestIs
  <2>3. {j \in S : j <= g} = S
    BY <2>2
  <2>. QED
    BY <1>1, <1>3, <2>3
<1>5. PICK x \in K : \A y \in K : x <= y
  <2>1. K \subseteq Nat
    <3>1. \A j \in S : j \in 0 .. m /\ j \in Nat
      OBVIOUS
    <3>. QED
      BY <1>3, <3>1
  <2>2. Lowest(K) \in K /\ \A j \in K : Lowest(K) <= j
    BY <1>4, <2>1, LowestIs
  <2>. QED
    BY <2>2
<1>6. PICK R \in SUBSET S : R = {j \in S : j <= x}
  OBVIOUS
<1>7. x \in S /\ x \in Nat /\ x \in R /\ Cardinality(R) >= n
  BY <1>3, <1>5, <1>6
<1>8. Cardinality(R) = n
  <2>1. SUFFICES ASSUME Cardinality(R) # n PROVE FALSE
    OBVIOUS
  <2>2. PICK Q \in SUBSET S : Q = R \ {x}
    OBVIOUS
  <2>3. Cardinality(Q) = Cardinality(R) - 1
    BY <1>2, <1>7, <2>2, FS_RemoveElement
  <2>4. Cardinality(Q) >= n
    BY <1>2, <1>7, <2>1, <2>3
  <2>5. Q # {}
    BY <2>4, FS_EmptySet
  <2>6. PICK z \in Q : \A j \in Q : j <= z
    <3>1. Q \subseteq 0 .. m
      OBVIOUS
    <3>. QED
      BY <2>5, <3>1, HighestIs
  <2>7. z \in S /\ z \in Nat /\ z < x
    <3>1. z \in S /\ z # x /\ z <= x
      BY <1>6, <2>2, <2>6
    <3>2. z \in 0 .. m
      BY <3>1
    <3>. QED
      BY <1>7, <3>1, <3>2
  <2>8. {j \in S : j <= z} = Q
    <3>1. \A j \in S : j \in 0 .. m /\ j \in Nat
      OBVIOUS
    <3>2. \A j \in S : j <= z => j <= x /\ j # x
      BY <1>7, <2>7, <3>1
    <3>3. \A j \in S : j \in Q <=> j <= x /\ j # x
      BY <1>6, <2>2
    <3>4. \A j \in S : j \in Q <=> j <= z
      BY <2>6, <3>2, <3>3
    <3>. QED
      BY <3>4
  <2>9. z \in K
    BY <1>3, <2>4, <2>7, <2>8
  <2>. QED
    BY <1>5, <1>7, <2>7, <2>9
<1>. QED
  BY <1>6, <1>7, <1>8 DEF Nth

\* A later one is not before an earlier one.
LEMMA NthInOrder ==
    ASSUME NEW m \in Nat, NEW S, S \subseteq 0 .. m,
           NEW k \in 1 .. Cardinality(S), NEW n \in 1 .. Cardinality(S), k <= n
    PROVE  Nth(S, k) <= Nth(S, n)
<1>0. IsFiniteSet(0 .. m)
  BY FS_Interval
<1>1. IsFiniteSet(S)
  BY <1>0, FS_Subset
<1>2. PICK x \in S, y \in S :
         /\ x = Nth(S, k) /\ Cardinality({j \in S : j <= x}) = k
         /\ y = Nth(S, n) /\ Cardinality({j \in S : j <= y}) = n
  <2>1. Nth(S, k) \in S /\ Cardinality({j \in S : j <= Nth(S, k)}) = k
    BY NthIs
  <2>2. Nth(S, n) \in S /\ Cardinality({j \in S : j <= Nth(S, n)}) = n
    BY NthIs
  <2>. QED
    BY <2>1, <2>2
<1>3. SUFFICES ASSUME y < x PROVE FALSE
  BY <1>2
<1>4. PICK X \in SUBSET S, Y \in SUBSET S :
         X = {j \in S : j <= x} /\ Y = {j \in S : j <= y}
  OBVIOUS
<1>5. Y \subseteq X /\ x \in X /\ x \notin Y
  <2>1. \A j \in S : j \in 0 .. m /\ j \in Nat
    OBVIOUS
  <2>2. x \in Nat /\ y \in Nat
    BY <2>1
  <2>3. \A j \in S : j <= y => j <= x
    BY <1>3, <2>1, <2>2
  <2>4. x <= x /\ ~ (x <= y)
    BY <1>3, <2>2
  <2>. QED
    BY <1>4, <2>3, <2>4
<1>6. IsFiniteSet(X) /\ IsFiniteSet(Y) /\ Cardinality(X) = k /\ Cardinality(Y) = n
  BY <1>1, <1>2, <1>4, FS_Subset
<1>7. Cardinality(Y) < Cardinality(X)
  <2>1. Y \in SUBSET X /\ X # Y
    BY <1>5
  <2>2. Cardinality(Y) <= Cardinality(X) /\ Cardinality(X) # Cardinality(Y)
    BY <1>6, <2>1, FS_Subset
  <2>. QED
    BY <1>6, <2>2
<1>. QED
  BY <1>6, <1>7

(* Texts. *)

\* Character c is in a text, from start on.
Block(t, c, start) ==
    /\ c \in Symbols /\ start \in Nat /\ start + BytesOf[c] <= Len(t)
    /\ \A k \in 1 .. BytesOf[c] : t[start + k] = [char |-> c, nth |-> k]

\* A character has a byte at least.
LEMMA SizeKnown == \A c \in Symbols : BytesOf[c] \in Nat /\ 1 <= BytesOf[c]
BY BufferAssumption

\* A byte of a text belongs to a character in it.
LEMMA CharAround ==
    ASSUME NEW t, WellFormed(t), NEW i \in 1 .. Len(t)
    PROVE  \E c \in Symbols, start \in Nat :
              Block(t, c, start) /\ start < i /\ i <= start + BytesOf[c]
<1>1. t \in Seq(Byte) /\ Whole(t, i)
  BY DEF WellFormed
<1>2. t[i] \in Byte /\ Len(t) \in Nat
  BY <1>1
<1>3. PICK c \in Symbols, n \in 1 .. 4 : t[i] = [char |-> c, nth |-> n]
  BY <1>2 DEF Byte
<1>4. t[i].char = c /\ t[i].nth = n
  BY <1>3
<1>5. /\ n <= BytesOf[c] /\ i - n >= 0 /\ i - n + BytesOf[c] <= Len(t)
      /\ \A k \in 1 .. BytesOf[c] : t[i - n + k] = [char |-> c, nth |-> k]
  BY <1>1, <1>4 DEF Whole
<1>6. PICK start \in Nat : start = i - n
  BY <1>2, <1>5
<1>7. Block(t, c, start)
  BY <1>5, <1>6 DEF Block
<1>8. start < i /\ i <= start + BytesOf[c]
  BY <1>2, <1>5, <1>6, SizeKnown
<1>. QED
  BY <1>7, <1>8

\* Its bytes are there, and each says so.
LEMMA InBlock ==
    ASSUME NEW t, WellFormed(t), NEW c, NEW start, Block(t, c, start),
           NEW i, i \in 1 .. Len(t), start < i, i <= start + BytesOf[c]
    PROVE  t[i].char = c /\ t[i].nth = i - start
<1>1. i - start \in 1 .. BytesOf[c] /\ start + (i - start) = i
  BY SizeKnown DEF Block
<1>2. t[i] = [char |-> c, nth |-> i - start]
  BY <1>1 DEF Block
<1>. QED
  BY <1>2

\* It is there once.
LEMMA OneBlock ==
    ASSUME NEW t, WellFormed(t), NEW c, NEW start, Block(t, c, start),
           NEW i \in 1 .. Len(t), t[i].char = c
    PROVE  start < i /\ i <= start + BytesOf[c]
<1>1. t \in Seq(Byte) /\ Whole(t, i) /\ \A j, k \in 1 .. Len(t) : t[j] = t[k] => j = k
  BY DEF WellFormed
<1>2. t[i] \in Byte /\ Len(t) \in Nat
  BY <1>1
<1>3. PICK n \in 1 .. 4 : t[i] = [char |-> c, nth |-> n]
  BY <1>2 DEF Byte
<1>4. n \in 1 .. BytesOf[c]
  <2>1. t[i].nth = n
    BY <1>3
  <2>. QED
    BY <1>1, <2>1 DEF Whole
<1>5. t[start + n] = t[i] /\ start + n \in 1 .. Len(t)
  BY <1>2, <1>3, <1>4, SizeKnown DEF Block
<1>6. start + n = i
  BY <1>1, <1>5
<1>. QED
  BY <1>4, <1>6, SizeKnown DEF Block

\* A text of whole characters, at the places B says, each there once.
LEMMA MadeOfBlocks ==
    ASSUME NEW t, t \in Seq(Byte), NEW B,
           \A c \in Symbols : \A k \in B[c] : Block(t, c, k),
           \A i \in 1 .. Len(t) : \E c \in Symbols : \E k \in B[c] :
              k < i /\ i <= k + BytesOf[c],
           \A c \in Symbols : \A k, m \in B[c] : k = m
    PROVE  /\ WellFormed(t)
           /\ \A c, k : Block(t, c, k) => k \in B[c]
<1>1. Len(t) \in Nat
  OBVIOUS
<1>2. ASSUME NEW c, NEW k, Block(t, c, k), NEW i \in 1 .. Len(t), k < i, i <= k + BytesOf[c]
      PROVE  t[i].char = c /\ t[i].nth = i - k
  <2>1. i - k \in 1 .. BytesOf[c] /\ k + (i - k) = i
    BY <1>2, SizeKnown DEF Block
  <2>2. t[i] = [char |-> c, nth |-> i - k]
    BY <1>2, <2>1 DEF Block
  <2>. QED
    BY <2>2
<1>3. ASSUME NEW i \in 1 .. Len(t) PROVE Whole(t, i)
  <2>1. PICK c \in Symbols : \E k \in B[c] : k < i /\ i <= k + BytesOf[c]
    OBVIOUS
  <2>2. PICK k \in B[c] : k < i /\ i <= k + BytesOf[c]
    BY <2>1
  <2>3. Block(t, c, k)
    OBVIOUS
  <2>4. t[i].char = c /\ t[i].nth = i - k
    BY <1>2, <2>2, <2>3
  <2>5. i - t[i].nth = k
    BY <2>3, <2>4 DEF Block
  <2>. QED
    BY <2>2, <2>3, <2>4, <2>5, SizeKnown DEF Whole, Block
<1>4. ASSUME NEW d, NEW m, Block(t, d, m), NEW j \in 1 .. Len(t), m < j, j <= m + BytesOf[d],
             NEW i \in 1 .. Len(t), t[i] = t[j]
      PROVE  i = j /\ m \in B[d]
  <2>1. PICK c \in Symbols : \E k \in B[c] : k < i /\ i <= k + BytesOf[c]
    OBVIOUS
  <2>2. PICK k \in B[c] : k < i /\ i <= k + BytesOf[c]
    BY <2>1
  <2>3. PICK e \in Symbols : \E n \in B[e] : n < j /\ j <= n + BytesOf[e]
    OBVIOUS
  <2>4. PICK n \in B[e] : n < j /\ j <= n + BytesOf[e]
    BY <2>3
  <2>5. Block(t, c, k) /\ Block(t, e, n)
    OBVIOUS
  <2>6. t[i].char = c /\ t[i].nth = i - k
    BY <1>2, <2>2, <2>5
  <2>7. t[j].char = d /\ t[j].nth = j - m
    BY <1>2, <1>4
  <2>8. t[j].char = e /\ t[j].nth = j - n
    BY <1>2, <2>4, <2>5
  <2>9. d = e /\ c = e /\ i - k = j - n /\ j - m = j - n
    BY <1>4, <2>6, <2>7, <2>8
  <2>10. k = n
    BY <2>9
  <2>11. k \in Nat /\ n \in Nat /\ m \in Nat
    BY <1>4, <2>5 DEF Block
  <2>. QED
    BY <2>9, <2>10, <2>11
<1>5. ASSUME NEW i \in 1 .. Len(t), NEW j \in 1 .. Len(t), t[i] = t[j] PROVE i = j
  <2>1. PICK e \in Symbols : \E n \in B[e] : n < j /\ j <= n + BytesOf[e]
    OBVIOUS
  <2>2. PICK n \in B[e] : n < j /\ j <= n + BytesOf[e]
    BY <2>1
  <2>3. Block(t, e, n)
    OBVIOUS
  <2>. QED
    BY <1>4, <1>5, <2>2, <2>3
<1>6. ASSUME NEW c, NEW k, Block(t, c, k) PROVE k \in B[c]
  <2>1. PICK i \in 1 .. Len(t) : i = k + 1 /\ k < i /\ i <= k + BytesOf[c]
    BY <1>1, <1>6, SizeKnown DEF Block
  <2>. QED
    BY <1>4, <1>6, <2>1
<1>. QED
  BY <1>3, <1>5, <1>6 DEF WellFormed

\* Two starts of one character are one place.
LEMMA SameBlock ==
    ASSUME NEW t, WellFormed(t), NEW c, NEW k, NEW m, Block(t, c, k), Block(t, c, m)
    PROVE  k = m
<1>0. Len(t) \in Nat
  BY DEF WellFormed
<1>1. PICK i \in 1 .. Len(t) : i = k + 1 /\ k < i /\ i <= k + BytesOf[c]
  BY <1>0, SizeKnown DEF Block
<1>2. t[i].char = c /\ t[i].nth = i - k
  BY <1>1, InBlock
<1>3. m < i /\ i <= m + BytesOf[c]
  BY <1>2, OneBlock
<1>4. t[i].nth = i - m
  BY <1>3, InBlock
<1>. QED
  BY <1>2, <1>4 DEF Block

\* What a boundary is.
LEMMA BoundaryKnown ==
    ASSUME NEW t, WellFormed(t), NEW b \in Boundaries(t)
    PROVE  /\ Len(t) \in Nat /\ b \in 0 .. Len(t)
           /\ b < Len(t) => b + 1 \in 1 .. Len(t) /\ t[b + 1].nth = 1
<1>1. Len(t) \in Nat
  BY DEF WellFormed
<1>. QED
  BY <1>1 DEF Boundaries, CharStarts

\* A character is on one side of each boundary.
LEMMA OnOneSide ==
    ASSUME NEW t, WellFormed(t), NEW b \in Boundaries(t),
           NEW c, NEW start, Block(t, c, start)
    PROVE  start + BytesOf[c] <= b \/ start >= b
<1>1. Len(t) \in Nat /\ b \in 0 .. Len(t)
  BY BoundaryKnown
<1>2. c \in Symbols /\ start \in Nat /\ start + BytesOf[c] <= Len(t)
      /\ BytesOf[c] \in Nat /\ 1 <= BytesOf[c]
  BY SizeKnown DEF Block
<1>3. SUFFICES ASSUME start < b, b < start + BytesOf[c] PROVE FALSE
  BY <1>1, <1>2
<1>4. PICK i \in 1 .. Len(t) : i = b + 1
  BY <1>1, <1>2, <1>3
<1>5. t[i].nth = i - start
  <2>1. start < i /\ i <= start + BytesOf[c]
    BY <1>1, <1>2, <1>3, <1>4
  <2>. QED
    BY <2>1, InBlock
<1>6. t[i].nth = 1
  BY <1>1, <1>2, <1>3, <1>4, BoundaryKnown
<1>. QED
  BY <1>1, <1>2, <1>3, <1>4, <1>5, <1>6

\* A character starts at a boundary.
LEMMA StartsAt ==
    ASSUME NEW t, WellFormed(t), NEW c, NEW start, Block(t, c, start)
    PROVE  start \in Boundaries(t)
<1>1. Len(t) \in Nat
  BY DEF WellFormed
<1>2. start \in Nat /\ start + BytesOf[c] <= Len(t) /\ 1 \in 1 .. BytesOf[c]
      /\ BytesOf[c] \in Nat
  BY SizeKnown DEF Block
<1>3. start \in 0 .. Len(t) - 1 /\ t[start + 1] = [char |-> c, nth |-> 1]
  BY <1>1, <1>2 DEF Block
<1>. QED
  BY <1>3 DEF Boundaries, CharStarts

\* And ends at one.
LEMMA StopsAt ==
    ASSUME NEW t, WellFormed(t), NEW c, NEW start, Block(t, c, start)
    PROVE  start + BytesOf[c] \in Boundaries(t)
<1>1. Len(t) \in Nat
  BY DEF WellFormed
<1>2. c \in Symbols /\ start \in Nat /\ start + BytesOf[c] <= Len(t)
      /\ BytesOf[c] \in Nat /\ 1 <= BytesOf[c]
  BY SizeKnown DEF Block
<1>3. PICK stop \in 1 .. Len(t) : stop = start + BytesOf[c] /\ start < stop
  BY <1>1, <1>2
<1>4. CASE stop < Len(t)
  <2>1. PICK i \in 1 .. Len(t) : i = stop + 1
    BY <1>1, <1>4
  <2>2. PICK d \in Symbols, m \in Nat :
           Block(t, d, m) /\ m < i /\ i <= m + BytesOf[d]
    BY CharAround
  <2>3. CASE m < stop
    <3>1. stop <= m + BytesOf[d] /\ BytesOf[d] \in Nat
      BY <2>1, <2>2, SizeKnown
    <3>2. t[stop].char = d /\ t[stop].nth = stop - m
      BY <2>2, <2>3, <3>1, InBlock
    <3>3. t[stop].char = c /\ t[stop].nth = stop - start
      BY <1>2, <1>3, InBlock
    <3>4. d = c /\ stop - m = stop - start
      BY <3>2, <3>3
    <3>5. m = start
      BY <1>2, <2>2, <3>4
    <3>. QED
      BY <1>2, <1>3, <2>1, <2>2, <3>4, <3>5
  <2>4. CASE m >= stop
    <3>1. m = stop
      BY <2>1, <2>2, <2>4
    <3>. QED
      BY <1>3, <2>2, <3>1, StartsAt
  <2>. QED
    BY <2>2, <2>3, <2>4
<1>5. CASE stop = Len(t)
  BY <1>3, <1>5 DEF Boundaries
<1>. QED
  BY <1>1, <1>3, <1>4, <1>5

\* The characters of a text.
LEMMA CharsKnown ==
    ASSUME NEW t, WellFormed(t), NEW c
    PROVE  c \in CharsOf(t) <=> \E start \in Nat : Block(t, c, start)
<1>1. ASSUME c \in CharsOf(t) PROVE \E start \in Nat : Block(t, c, start)
  <2>1. PICK i \in 1 .. Len(t) : t[i].char = c
    BY <1>1 DEF CharsOf
  <2>2. PICK d \in Symbols, start \in Nat :
           Block(t, d, start) /\ start < i /\ i <= start + BytesOf[d]
    BY CharAround
  <2>3. d = c
    BY <2>1, <2>2, InBlock
  <2>. QED
    BY <2>2, <2>3
<1>2. ASSUME NEW start \in Nat, Block(t, c, start) PROVE c \in CharsOf(t)
  <2>0. Len(t) \in Nat
    BY DEF WellFormed
  <2>1. PICK i \in 1 .. Len(t) : i = start + 1 /\ i <= start + BytesOf[c] /\ start < i
    BY <1>2, <2>0, SizeKnown DEF Block
  <2>2. t[i].char = c
    BY <1>2, <2>1, InBlock
  <2>. QED
    BY <2>2 DEF CharsOf
<1>. QED
  BY <1>1, <1>2

\* Those that end at or before a byte.
LEMMA EndsBy ==
    ASSUME NEW t, WellFormed(t), NEW p \in Nat, NEW c, NEW start, Block(t, c, start)
    PROVE  c \in EndBy(t, p) <=> start + BytesOf[c] <= p
<1>0. Len(t) \in Nat
  BY DEF WellFormed
<1>1. c \in EndBy(t, p) <=>
        \E i \in 1 .. Len(t) : i <= p /\ t[i].nth = BytesOf[t[i].char] /\ t[i].char = c
  BY DEF EndBy
<1>2. PICK last \in 1 .. Len(t) : last = start + BytesOf[c] /\ start < last
  BY <1>0, SizeKnown DEF Block
<1>3. t[last].char = c /\ t[last].nth = last - start /\ last - start = BytesOf[c]
  <2>1. t[last].char = c /\ t[last].nth = last - start
    BY <1>2, InBlock
  <2>. QED
    BY <1>2, <2>1, SizeKnown DEF Block
<1>4. ASSUME NEW i \in 1 .. Len(t), t[i].nth = BytesOf[t[i].char], t[i].char = c
      PROVE  i = last
  <2>1. start < i /\ i <= start + BytesOf[c]
    BY <1>4, OneBlock
  <2>2. t[i].nth = i - start
    BY <2>1, InBlock
  <2>. QED
    BY <1>2, <1>3, <1>4, <2>2, SizeKnown DEF Block
<1>. QED
  BY <1>1, <1>2, <1>3, <1>4

\* To the start of a character: a boundary, with the same characters before it.
LEMMA StartWithin ==
    ASSUME NEW t, WellFormed(t), NEW p \in Nat
    PROVE  /\ CharStartWithin(t, p) \in Boundaries(t)
           /\ \A c \in CharsOf(t) :
                c \in EndBy(t, CharStartWithin(t, p)) <=> c \in EndBy(t, p)
           /\ p \in Boundaries(t) => CharStartWithin(t, p) = p
<1>0. Len(t) \in Nat
  BY DEF WellFormed
<1>1. \A b \in Boundaries(t) : b \in 0 .. Len(t)
  BY BoundaryKnown
<1>2. PICK q \in 0 .. Len(t) :
         /\ q = Clamped(t, p) /\ q <= p
         /\ p <= Len(t) => q = p
         /\ p > Len(t) => q = Len(t)
  BY <1>0 DEF Clamped
<1>3. PICK S : S = {d \in Boundaries(t) : d <= q}
  OBVIOUS
<1>4. S # {}
  <2>1. CASE q = Len(t)
    BY <1>0, <1>3, <2>1 DEF Boundaries
  <2>2. CASE q < Len(t)
    <3>1. PICK i \in 1 .. Len(t) : i = q + 1
      BY <1>0, <2>2
    <3>2. PICK c \in Symbols, start \in Nat :
             Block(t, c, start) /\ start < i /\ i <= start + BytesOf[c]
      BY CharAround
    <3>. QED
      BY <1>2, <1>3, <3>1, <3>2, StartsAt
  <2>. QED
    BY <1>0, <1>2, <2>1, <2>2
<1>5. PICK b \in S : b = Highest(S) /\ \A d \in S : d <= b
  <2>1. S \subseteq 0 .. Len(t)
    BY <1>1, <1>3
  <2>. QED
    BY <1>0, <1>4, <2>1, HighestIs
<1>6. b = CharStartWithin(t, p) /\ b \in Boundaries(t) /\ b <= q /\ b \in 0 .. Len(t)
  BY <1>1, <1>2, <1>3, <1>5 DEF CharStartWithin
<1>7. ASSUME NEW c \in CharsOf(t) PROVE c \in EndBy(t, b) <=> c \in EndBy(t, p)
  <2>1. PICK start \in Nat : Block(t, c, start)
    BY CharsKnown
  <2>2. BytesOf[c] \in Nat /\ 1 <= BytesOf[c] /\ start + BytesOf[c] <= Len(t)
    BY <2>1, SizeKnown DEF Block
  <2>3. start + BytesOf[c] <= q => start + BytesOf[c] <= b
    BY <1>3, <1>5, <2>1, StopsAt
  <2>4. start + BytesOf[c] <= b <=> start + BytesOf[c] <= p
    BY <1>0, <1>2, <1>6, <2>1, <2>2, <2>3
  <2>. QED
    BY <1>6, <2>1, <2>4, EndsBy
<1>8. ASSUME p \in Boundaries(t) PROVE b = p
  <2>1. p \in 0 .. Len(t) /\ p = q
    BY <1>1, <1>2, <1>8
  <2>2. p \in S
    BY <1>3, <1>8, <2>1
  <2>3. p <= b /\ b <= p
    BY <1>5, <1>6, <2>1, <2>2
  <2>. QED
    BY <1>6, <2>1, <2>3
<1>. QED
  BY <1>6, <1>7, <1>8

(* Edits. *)

IsJoined(S, a, z) ==
    /\ S \in Seq(Byte) /\ Len(S) = Len(a) + Len(z)
    /\ \A i \in 1 .. Len(a) : S[i] = a[i]
    /\ \A i \in 1 .. Len(z) : S[Len(a) + i] = z[i]

\* Two texts joined: the bytes of the first, then those of the second.
LEMMA Joined ==
    ASSUME NEW a, a \in Seq(Byte), NEW z, z \in Seq(Byte)
    PROVE  IsJoined(a \o z, a, z)
<1>1. Len(a) \in Nat /\ Len(z) \in Nat
  OBVIOUS
<1>2. a \o z \in Seq(Byte) /\ Len(a \o z) = Len(a) + Len(z)
  OBVIOUS
<1>3. \A i \in 1 .. Len(a) : (a \o z)[i] = a[i]
  BY <1>1
<1>4. ASSUME NEW i \in 1 .. Len(z) PROVE (a \o z)[Len(a) + i] = z[i]
  <2>1. Len(a) + i \in 1 .. Len(a) + Len(z) /\ ~ (Len(a) + i <= Len(a))
        /\ Len(a) + i - Len(a) = i
    BY <1>1
  <2>. QED
    BY <1>1, <2>1
<1>. QED
  BY <1>2, <1>3, <1>4 DEF IsJoined

\* A place that follows an edit is a byte still.
LEMMA AdjustedIsNat ==
    ASSUME NEW p \in Nat, NEW start \in Nat, NEW end \in Nat, start <= end
    PROVE  AdjustAfterDelete(p, start, end) \in Nat
<1>1. p >= end => p - (end - start) \in Nat
  OBVIOUS
<1>. QED
  BY <1>1 DEF AdjustAfterDelete

\* The bytes of a text after insert: before point, what is new, and after it.
LEMMA SplicedIs ==
    ASSUME NEW t, t \in Seq(Byte), NEW new, new \in Seq(Byte), NEW at \in 0 .. Len(t)
    PROVE  /\ Spliced(t, at, new) \in Seq(Byte)
           /\ Len(Spliced(t, at, new)) = Len(t) + Len(new)
           /\ \A i \in 1 .. at : Spliced(t, at, new)[i] = t[i]
           /\ \A i \in 1 .. Len(new) : Spliced(t, at, new)[at + i] = new[i]
           /\ \A i \in at + 1 .. Len(t) : Spliced(t, at, new)[i + Len(new)] = t[i]
<1>1. Len(t) \in Nat /\ Len(new) \in Nat
  OBVIOUS
<1>2. PICK a : a = SubSeq(t, 1, at)
  OBVIOUS
<1>3. PICK z : z = SubSeq(t, at + 1, Len(t))
  OBVIOUS
<1>4. a \in Seq(Byte) /\ Len(a) = at /\ \A i \in 1 .. at : a[i] = t[i]
  BY <1>1, <1>2
<1>5. z \in Seq(Byte) /\ Len(z) = Len(t) - at /\ \A i \in 1 .. Len(t) - at : z[i] = t[at + i]
  BY <1>1, <1>3
<1>6. PICK an : an = a \o new
  OBVIOUS
<1>7. an \in Seq(Byte) /\ Len(an) = at + Len(new)
      /\ (\A i \in 1 .. at : an[i] = t[i])
      /\ (\A i \in 1 .. Len(new) : an[at + i] = new[i])
  <2>1. IsJoined(an, a, new)
    BY <1>4, <1>6, Joined, Zenon
  <2>. QED
    BY <1>4, <2>1 DEF IsJoined
<1>8. PICK S : S = an \o z
  OBVIOUS
<1>9. S \in Seq(Byte) /\ Len(S) = Len(t) + Len(new)
      /\ (\A i \in 1 .. at + Len(new) : S[i] = an[i])
      /\ (\A i \in 1 .. Len(t) - at : S[at + Len(new) + i] = z[i])
  <2>1. IsJoined(S, an, z)
    BY <1>5, <1>7, <1>8, Joined, Zenon
  <2>2. at + Len(new) + (Len(t) - at) = Len(t) + Len(new)
    BY <1>1
  <2>. QED
    BY <1>5, <1>7, <2>1, <2>2 DEF IsJoined
<1>10. S = Spliced(t, at, new)
  BY <1>2, <1>3, <1>6, <1>8 DEF Spliced
<1>11. ASSUME NEW i \in at + 1 .. Len(t) PROVE S[i + Len(new)] = t[i]
  <2>1. i - at \in 1 .. Len(t) - at /\ at + Len(new) + (i - at) = i + Len(new)
        /\ at + (i - at) = i
    BY <1>1
  <2>. QED
    BY <1>5, <1>9, <2>1
<1>12. \A i \in 1 .. at : S[i] = t[i]
  BY <1>1, <1>7, <1>9
<1>13. \A i \in 1 .. Len(new) : S[at + i] = new[i]
  BY <1>1, <1>7, <1>9
<1>. QED
  BY <1>9, <1>10, <1>11, <1>12, <1>13

\* The bytes of a text after delete: those before the range and those after it.
LEMMA WithoutIs ==
    ASSUME NEW t, t \in Seq(Byte), NEW start \in 0 .. Len(t), NEW end \in start .. Len(t)
    PROVE  /\ Without(t, start, end) \in Seq(Byte)
           /\ Len(Without(t, start, end)) = Len(t) - (end - start)
           /\ \A i \in 1 .. start : Without(t, start, end)[i] = t[i]
           /\ \A i \in end + 1 .. Len(t) : Without(t, start, end)[i - (end - start)] = t[i]
<1>1. Len(t) \in Nat
  OBVIOUS
<1>2. PICK a : a = SubSeq(t, 1, start)
  OBVIOUS
<1>3. PICK z : z = SubSeq(t, end + 1, Len(t))
  OBVIOUS
<1>4. a \in Seq(Byte) /\ Len(a) = start /\ \A i \in 1 .. start : a[i] = t[i]
  BY <1>1, <1>2
<1>5. z \in Seq(Byte) /\ Len(z) = Len(t) - end /\ \A i \in 1 .. Len(t) - end : z[i] = t[end + i]
  BY <1>1, <1>3
<1>6. PICK S : S = a \o z
  OBVIOUS
<1>7. S \in Seq(Byte) /\ Len(S) = Len(t) - (end - start)
      /\ (\A i \in 1 .. start : S[i] = t[i])
      /\ (\A i \in 1 .. Len(t) - end : S[start + i] = z[i])
  <2>1. IsJoined(S, a, z)
    BY <1>4, <1>5, <1>6, Joined, Zenon
  <2>2. start + (Len(t) - end) = Len(t) - (end - start)
    BY <1>1
  <2>. QED
    BY <1>4, <1>5, <2>1, <2>2 DEF IsJoined
<1>8. S = Without(t, start, end)
  BY <1>2, <1>3, <1>6 DEF Without
<1>9. ASSUME NEW i \in end + 1 .. Len(t) PROVE S[i - (end - start)] = t[i]
  <2>1. i - end \in 1 .. Len(t) - end /\ start + (i - end) = i - (end - start)
        /\ end + (i - end) = i
    BY <1>1
  <2>. QED
    BY <1>5, <1>7, <2>1
<1>. QED
  BY <1>7, <1>8, <1>9

\* After an insertion every character is whole still, and every place has the
\* characters of before on the side it had them.
LEMMA SplicedWell ==
    ASSUME NEW t, WellFormed(t), NEW new, WellFormed(new), NEW at \in Boundaries(t),
           CharsOf(new) \cap CharsOf(t) = {}, NEW S, S = Spliced(t, at, new)
    PROVE  /\ WellFormed(S)
           /\ \A c \in CharsOf(S) : c \in CharsOf(t) \/ c \in CharsOf(new)
           /\ CharsOf(t) \subseteq CharsOf(S)
           /\ \A c \in CharsOf(t) : \A p \in Nat :
                c \in EndBy(S, AdjustAfterInsert(p, at, Len(new))) <=> c \in EndBy(t, p)
<1>1. t \in Seq(Byte) /\ Len(t) \in Nat /\ new \in Seq(Byte) /\ Len(new) \in Nat
      /\ at \in 0 .. Len(t)
  BY BoundaryKnown DEF WellFormed
<1>2. PICK len \in Nat : len = Len(new)
  BY <1>1
<1>3. /\ S \in Seq(Byte) /\ Len(S) = Len(t) + len
      /\ \A i \in 1 .. at : S[i] = t[i]
      /\ \A i \in 1 .. len : S[at + i] = new[i]
      /\ \A i \in at + 1 .. Len(t) : S[i + len] = t[i]
  <2>1. /\ Spliced(t, at, new) \in Seq(Byte)
        /\ Len(Spliced(t, at, new)) = Len(t) + Len(new)
        /\ \A i \in 1 .. at : Spliced(t, at, new)[i] = t[i]
        /\ \A i \in 1 .. Len(new) : Spliced(t, at, new)[at + i] = new[i]
        /\ \A i \in at + 1 .. Len(t) : Spliced(t, at, new)[i + Len(new)] = t[i]
    BY <1>1, SplicedIs
  <2>. QED
    BY <1>2, <2>1
<1>4. ASSUME NEW c, NEW k, Block(t, c, k), k + BytesOf[c] <= at PROVE Block(S, c, k)
  <2>1. \A n \in 1 .. BytesOf[c] : k + n \in 1 .. at
    BY <1>1, <1>4, SizeKnown DEF Block
  <2>2. \A n \in 1 .. BytesOf[c] : S[k + n] = t[k + n]
    BY <1>3, <2>1
  <2>3. c \in Symbols /\ k \in Nat /\ k + BytesOf[c] <= Len(t)
        /\ \A n \in 1 .. BytesOf[c] : t[k + n] = [char |-> c, nth |-> n]
    BY <1>4 DEF Block
  <2>4. k \in Nat /\ k + BytesOf[c] <= Len(S)
    BY <1>1, <1>2, <1>3, <1>4, <2>3, SizeKnown
  <2>5. \A n \in 1 .. BytesOf[c] : S[k + n] = [char |-> c, nth |-> n]
    BY <2>2, <2>3
  <2>. QED
    BY <2>3, <2>4, <2>5 DEF Block
<1>5. ASSUME NEW c, NEW k, Block(t, c, k), k >= at PROVE Block(S, c, k + len)
  <2>1. \A n \in 1 .. BytesOf[c] : k + n \in at + 1 .. Len(t) /\ (k + n) + len = k + len + n
    BY <1>1, <1>5, SizeKnown DEF Block
  <2>2. \A n \in 1 .. BytesOf[c] : S[k + len + n] = t[k + n]
    BY <1>3, <2>1
  <2>3. c \in Symbols /\ k \in Nat /\ k + BytesOf[c] <= Len(t)
        /\ \A n \in 1 .. BytesOf[c] : t[k + n] = [char |-> c, nth |-> n]
    BY <1>5 DEF Block
  <2>4. k + len \in Nat /\ k + len + BytesOf[c] <= Len(S)
    BY <1>1, <1>2, <1>3, <1>5, <2>3, SizeKnown
  <2>5. \A n \in 1 .. BytesOf[c] : S[k + len + n] = [char |-> c, nth |-> n]
    BY <2>2, <2>3
  <2>. QED
    BY <2>3, <2>4, <2>5 DEF Block
<1>6. ASSUME NEW c, NEW k, Block(new, c, k) PROVE Block(S, c, at + k)
  <2>1. \A n \in 1 .. BytesOf[c] : k + n \in 1 .. len /\ at + (k + n) = at + k + n
    BY <1>1, <1>2, <1>6, SizeKnown DEF Block
  <2>2. \A n \in 1 .. BytesOf[c] : S[at + k + n] = new[k + n]
    BY <1>3, <2>1
  <2>3. c \in Symbols /\ k \in Nat /\ k + BytesOf[c] <= Len(new)
        /\ \A n \in 1 .. BytesOf[c] : new[k + n] = [char |-> c, nth |-> n]
    BY <1>6 DEF Block
  <2>4. at + k \in Nat /\ at + k + BytesOf[c] <= Len(S)
    BY <1>1, <1>2, <1>3, <1>6, <2>3, SizeKnown
  <2>5. \A n \in 1 .. BytesOf[c] : S[at + k + n] = [char |-> c, nth |-> n]
    BY <2>2, <2>3
  <2>. QED
    BY <2>3, <2>4, <2>5 DEF Block
<1>7. PICK B :
        B = [c \in Symbols |->
               {m \in Nat : \E k \in Nat :
                  \/ Block(t, c, k) /\ k + BytesOf[c] <= at /\ m = k
                  \/ Block(t, c, k) /\ k >= at /\ m = k + len
                  \/ Block(new, c, k) /\ m = at + k}]
  OBVIOUS
<1>8. \A c \in Symbols : \A m \in Nat :
        m \in B[c] <=> \E k \in Nat :
                  \/ Block(t, c, k) /\ k + BytesOf[c] <= at /\ m = k
                  \/ Block(t, c, k) /\ k >= at /\ m = k + len
                  \/ Block(new, c, k) /\ m = at + k
  BY <1>7
<1>9. ASSUME NEW c \in Symbols, NEW m \in B[c]
      PROVE  m \in Nat /\ Block(S, c, m)
             /\ \E k \in Nat :
                  \/ Block(t, c, k) /\ k + BytesOf[c] <= at /\ m = k
                  \/ Block(t, c, k) /\ k >= at /\ m = k + len
                  \/ Block(new, c, k) /\ m = at + k
  <2>1. m \in Nat
    BY <1>7
  <2>. QED
    BY <1>4, <1>5, <1>6, <1>8, <2>1
<1>10. ASSUME NEW i \in 1 .. Len(S)
       PROVE  \E c \in Symbols : \E m \in B[c] : m < i /\ i <= m + BytesOf[c]
  <2>1. CASE i <= at
    <3>1. PICK j \in 1 .. Len(t) : j = i
      BY <1>1, <2>1
    <3>2. PICK c \in Symbols, k \in Nat : Block(t, c, k) /\ k < j /\ j <= k + BytesOf[c]
      BY CharAround
    <3>3. k + BytesOf[c] <= at \/ k >= at
      BY <3>2, OnOneSide
    <3>4. k + BytesOf[c] <= at
      BY <1>1, <2>1, <3>1, <3>2, <3>3
    <3>5. k \in B[c]
      BY <1>8, <3>2, <3>4
    <3>. QED
      BY <3>1, <3>2, <3>5
  <2>2. CASE at < i /\ i <= at + len
    <3>1. PICK j \in 1 .. Len(new) : j = i - at
      BY <1>1, <1>2, <2>2
    <3>2. PICK c \in Symbols, k \in Nat : Block(new, c, k) /\ k < j /\ j <= k + BytesOf[c]
      BY CharAround
    <3>3. at + k \in B[c]
      <4>1. at + k \in Nat
        BY <1>1
      <4>. QED
        BY <1>8, <3>2, <4>1
    <3>4. at + k < i /\ i <= at + k + BytesOf[c]
      BY <1>1, <3>1, <3>2, SizeKnown
    <3>. QED
      BY <3>3, <3>4
  <2>3. CASE at + len < i
    <3>1. PICK j \in 1 .. Len(t) : j = i - len /\ j > at
      <4>1. i - len \in 1 .. Len(t) /\ i - len > at
        BY <1>1, <1>2, <1>3, <2>3
      <4>. QED
        BY <4>1
    <3>2. PICK c \in Symbols, k \in Nat : Block(t, c, k) /\ k < j /\ j <= k + BytesOf[c]
      BY CharAround
    <3>3. k + BytesOf[c] <= at \/ k >= at
      BY <3>2, OnOneSide
    <3>4. k >= at
      BY <1>1, <3>1, <3>2, <3>3, SizeKnown
    <3>5. k + len \in B[c]
      BY <1>8, <3>2, <3>4
    <3>6. k + len < i /\ i <= k + len + BytesOf[c]
      BY <1>1, <3>1, <3>2, SizeKnown
    <3>. QED
      BY <3>5, <3>6
  <2>. QED
    BY <1>1, <1>3, <2>1, <2>2, <2>3
<1>11. ASSUME NEW c \in Symbols, NEW m \in B[c], NEW n \in B[c] PROVE m = n
  <2>1. PICK k \in Nat :
                  \/ Block(t, c, k) /\ k + BytesOf[c] <= at /\ m = k
                  \/ Block(t, c, k) /\ k >= at /\ m = k + len
                  \/ Block(new, c, k) /\ m = at + k
    BY <1>9
  <2>2. PICK l \in Nat :
                  \/ Block(t, c, l) /\ l + BytesOf[c] <= at /\ n = l
                  \/ Block(t, c, l) /\ l >= at /\ n = l + len
                  \/ Block(new, c, l) /\ n = at + l
    BY <1>9
  <2>3. CASE Block(t, c, k)
    <3>1. ~ Block(new, c, k) /\ ~ Block(new, c, l)
      BY <2>3, CharsKnown
    <3>2. Block(t, c, l)
      BY <2>2, <3>1
    <3>3. k = l
      BY <2>3, <3>2, SameBlock
    <3>. QED
      BY <1>1, <2>1, <2>2, <3>1, <3>3, SizeKnown
  <2>4. CASE Block(new, c, k)
    <3>1. ~ Block(t, c, k) /\ ~ Block(t, c, l)
      BY <2>4, CharsKnown
    <3>2. Block(new, c, l)
      BY <2>2, <3>1
    <3>3. k = l
      BY <2>4, <3>2, SameBlock
    <3>. QED
      BY <2>1, <2>2, <3>1, <3>3
  <2>. QED
    BY <2>1, <2>3, <2>4
<1>12. WellFormed(S) /\ \A c, m : Block(S, c, m) => m \in B[c]
  BY <1>3, <1>9, <1>10, <1>11, MadeOfBlocks
<1>13. ASSUME NEW c \in CharsOf(S) PROVE c \in CharsOf(t) \/ c \in CharsOf(new)
  <2>1. PICK m \in Nat : Block(S, c, m)
    BY <1>12, CharsKnown
  <2>2. c \in Symbols /\ m \in B[c]
    BY <1>12, <2>1 DEF Block
  <2>3. \E k \in Nat : Block(t, c, k) \/ Block(new, c, k)
    BY <1>9, <2>2
  <2>. QED
    BY <2>3, CharsKnown
<1>14. ASSUME NEW c \in CharsOf(t), NEW p \in Nat
       PROVE  c \in EndBy(S, AdjustAfterInsert(p, at, len)) <=> c \in EndBy(t, p)
  <2>1. PICK k \in Nat : Block(t, c, k)
    BY CharsKnown
  <2>2. k + BytesOf[c] <= at \/ k >= at
    BY <2>1, OnOneSide
  <2>3. BytesOf[c] \in Nat /\ 1 <= BytesOf[c]
    BY <2>1, SizeKnown DEF Block
  <2>4. c \in EndBy(t, p) <=> k + BytesOf[c] <= p
    BY <2>1, EndsBy
  <2>5. PICK q \in Nat : q = AdjustAfterInsert(p, at, len)
    BY <1>2 DEF AdjustAfterInsert
  <2>6. CASE k + BytesOf[c] <= at
    <3>1. Block(S, c, k)
      BY <1>4, <2>1, <2>6
    <3>2. c \in EndBy(S, q) <=> k + BytesOf[c] <= q
      BY <1>12, <3>1, EndsBy
    <3>3. k + BytesOf[c] <= p <=> k + BytesOf[c] <= q
      BY <1>1, <2>3, <2>5, <2>6 DEF AdjustAfterInsert
    <3>. QED
      BY <2>4, <2>5, <3>2, <3>3
  <2>7. CASE k >= at
    <3>1. Block(S, c, k + len)
      BY <1>5, <2>1, <2>7
    <3>2. c \in EndBy(S, q) <=> k + len + BytesOf[c] <= q
      BY <1>12, <3>1, EndsBy
    <3>3. k + BytesOf[c] <= p <=> k + len + BytesOf[c] <= q
      BY <1>1, <2>3, <2>5, <2>7 DEF AdjustAfterInsert
    <3>. QED
      BY <2>4, <2>5, <3>2, <3>3
  <2>. QED
    BY <2>2, <2>6, <2>7
<1>15. ASSUME NEW c \in CharsOf(t) PROVE c \in CharsOf(S)
  <2>1. PICK k \in Nat : Block(t, c, k)
    BY CharsKnown
  <2>2. k + BytesOf[c] <= at \/ k >= at
    BY <2>1, OnOneSide
  <2>3. k + len \in Nat
    OBVIOUS
  <2>4. \E m \in Nat : Block(S, c, m)
    BY <1>4, <1>5, <2>1, <2>2, <2>3
  <2>. QED
    BY <1>12, <2>4, CharsKnown
<1>. QED
  BY <1>2, <1>12, <1>13, <1>14, <1>15

\* After a deletion every character that is left is whole, and every place has
\* those of before on the side it had them.
LEMMA WithoutWell ==
    ASSUME NEW t, WellFormed(t), NEW start \in Boundaries(t), NEW end \in Boundaries(t),
           start <= end, NEW S, S = Without(t, start, end)
    PROVE  /\ WellFormed(S)
           /\ \A c \in CharsOf(S) :
                /\ c \in CharsOf(t)
                /\ \A p \in Nat :
                     c \in EndBy(S, AdjustAfterDelete(p, start, end)) <=> c \in EndBy(t, p)
<1>1. t \in Seq(Byte) /\ Len(t) \in Nat /\ start \in 0 .. Len(t) /\ end \in 0 .. Len(t)
  BY BoundaryKnown DEF WellFormed
<1>2. PICK len \in Nat : len = end - start
  BY <1>1
<1>3. /\ S \in Seq(Byte) /\ Len(S) = Len(t) - len
      /\ \A i \in 1 .. start : S[i] = t[i]
      /\ \A i \in end + 1 .. Len(t) : S[i - len] = t[i]
  <2>0. end \in start .. Len(t)
    BY <1>1
  <2>1. /\ Without(t, start, end) \in Seq(Byte)
        /\ Len(Without(t, start, end)) = Len(t) - (end - start)
        /\ \A i \in 1 .. start : Without(t, start, end)[i] = t[i]
        /\ \A i \in end + 1 .. Len(t) : Without(t, start, end)[i - (end - start)] = t[i]
    BY <1>1, <2>0, WithoutIs
  <2>. QED
    BY <1>2, <2>1
<1>4. ASSUME NEW c, NEW k, Block(t, c, k), k + BytesOf[c] <= start PROVE Block(S, c, k)
  <2>1. \A n \in 1 .. BytesOf[c] : k + n \in 1 .. start
    BY <1>1, <1>4, SizeKnown DEF Block
  <2>2. \A n \in 1 .. BytesOf[c] : S[k + n] = t[k + n]
    BY <1>3, <2>1
  <2>3. c \in Symbols /\ k \in Nat /\ k + BytesOf[c] <= Len(t)
        /\ \A n \in 1 .. BytesOf[c] : t[k + n] = [char |-> c, nth |-> n]
    BY <1>4 DEF Block
  <2>4. k \in Nat /\ k + BytesOf[c] <= Len(S)
    BY <1>1, <1>2, <1>3, <1>4, <2>3, SizeKnown
  <2>5. \A n \in 1 .. BytesOf[c] : S[k + n] = [char |-> c, nth |-> n]
    BY <2>2, <2>3
  <2>. QED
    BY <2>3, <2>4, <2>5 DEF Block
<1>5. ASSUME NEW c, NEW k, Block(t, c, k), k >= end PROVE k - len \in Nat /\ Block(S, c, k - len)
  <2>1. \A n \in 1 .. BytesOf[c] : k + n \in end + 1 .. Len(t) /\ (k + n) - len = k - len + n
    BY <1>1, <1>5, SizeKnown DEF Block
  <2>2. \A n \in 1 .. BytesOf[c] : S[k - len + n] = t[k + n]
    BY <1>3, <2>1
  <2>3. c \in Symbols /\ k \in Nat /\ k + BytesOf[c] <= Len(t)
        /\ \A n \in 1 .. BytesOf[c] : t[k + n] = [char |-> c, nth |-> n]
    BY <1>5 DEF Block
  <2>4. k - len \in Nat /\ k - len + BytesOf[c] <= Len(S)
    BY <1>1, <1>2, <1>3, <1>5, <2>3, SizeKnown
  <2>5. \A n \in 1 .. BytesOf[c] : S[k - len + n] = [char |-> c, nth |-> n]
    BY <2>2, <2>3
  <2>. QED
    BY <2>3, <2>4, <2>5 DEF Block
<1>6. PICK B :
        B = [c \in Symbols |->
               {m \in Nat : \E k \in Nat :
                  \/ Block(t, c, k) /\ k + BytesOf[c] <= start /\ m = k
                  \/ Block(t, c, k) /\ k >= end /\ m = k - len}]
  OBVIOUS
<1>7. \A c \in Symbols : \A m \in Nat :
        m \in B[c] <=> \E k \in Nat :
                  \/ Block(t, c, k) /\ k + BytesOf[c] <= start /\ m = k
                  \/ Block(t, c, k) /\ k >= end /\ m = k - len
  BY <1>6
<1>8. ASSUME NEW c \in Symbols, NEW m \in B[c]
      PROVE  m \in Nat /\ Block(S, c, m)
             /\ \E k \in Nat :
                  \/ Block(t, c, k) /\ k + BytesOf[c] <= start /\ m = k
                  \/ Block(t, c, k) /\ k >= end /\ m = k - len
  <2>1. m \in Nat
    BY <1>6
  <2>. QED
    BY <1>4, <1>5, <1>7, <2>1
<1>9. ASSUME NEW i \in 1 .. Len(S)
      PROVE  \E c \in Symbols : \E m \in B[c] : m < i /\ i <= m + BytesOf[c]
  <2>1. CASE i <= start
    <3>1. PICK j \in 1 .. Len(t) : j = i
      BY <1>1, <2>1
    <3>2. PICK c \in Symbols, k \in Nat : Block(t, c, k) /\ k < j /\ j <= k + BytesOf[c]
      BY CharAround
    <3>3. k + BytesOf[c] <= start \/ k >= start
      BY <3>2, OnOneSide
    <3>4. k + BytesOf[c] <= start
      BY <1>1, <2>1, <3>1, <3>2, <3>3
    <3>5. k \in B[c]
      BY <1>7, <3>2, <3>4
    <3>. QED
      BY <3>1, <3>2, <3>5
  <2>2. CASE start < i
    <3>1. PICK j \in 1 .. Len(t) : j = i + len /\ j > end
      <4>1. i + len \in 1 .. Len(t) /\ i + len > end
        BY <1>1, <1>2, <1>3, <2>2
      <4>. QED
        BY <4>1
    <3>2. PICK c \in Symbols, k \in Nat : Block(t, c, k) /\ k < j /\ j <= k + BytesOf[c]
      BY CharAround
    <3>3. k + BytesOf[c] <= end \/ k >= end
      BY <3>2, OnOneSide
    <3>4. k >= end
      BY <1>1, <3>1, <3>2, <3>3, SizeKnown
    <3>5. k - len \in Nat /\ k - len \in B[c]
      BY <1>5, <1>7, <3>2, <3>4
    <3>6. k - len < i /\ i <= k - len + BytesOf[c]
      BY <1>1, <3>1, <3>2, SizeKnown
    <3>. QED
      BY <3>5, <3>6
  <2>. QED
    BY <1>1, <2>1, <2>2
<1>10. ASSUME NEW c \in Symbols, NEW m \in B[c], NEW n \in B[c] PROVE m = n
  <2>1. PICK k \in Nat :
                  \/ Block(t, c, k) /\ k + BytesOf[c] <= start /\ m = k
                  \/ Block(t, c, k) /\ k >= end /\ m = k - len
    BY <1>8
  <2>2. PICK l \in Nat :
                  \/ Block(t, c, l) /\ l + BytesOf[c] <= start /\ n = l
                  \/ Block(t, c, l) /\ l >= end /\ n = l - len
    BY <1>8
  <2>3. k = l
    BY <2>1, <2>2, SameBlock
  <2>. QED
    BY <1>1, <2>1, <2>2, <2>3, SizeKnown
<1>11. WellFormed(S) /\ \A c, m : Block(S, c, m) => m \in B[c]
  BY <1>3, <1>8, <1>9, <1>10, MadeOfBlocks
<1>12. ASSUME NEW c \in CharsOf(S)
       PROVE  /\ c \in CharsOf(t)
              /\ \A p \in Nat :
                   c \in EndBy(S, AdjustAfterDelete(p, start, end)) <=> c \in EndBy(t, p)
  <2>1. PICK m \in Nat : Block(S, c, m)
    BY <1>11, CharsKnown
  <2>2. c \in Symbols /\ m \in B[c] /\ BytesOf[c] \in Nat /\ 1 <= BytesOf[c]
    BY <1>11, <2>1, SizeKnown DEF Block
  <2>3. PICK k \in Nat :
                  \/ Block(t, c, k) /\ k + BytesOf[c] <= start /\ m = k
                  \/ Block(t, c, k) /\ k >= end /\ m = k - len
    BY <1>8, <2>2
  <2>4. c \in CharsOf(t)
    BY <2>3, CharsKnown
  <2>5. ASSUME NEW p \in Nat
        PROVE  c \in EndBy(S, AdjustAfterDelete(p, start, end)) <=> c \in EndBy(t, p)
    <3>1. PICK q \in Nat : q = AdjustAfterDelete(p, start, end)
      <4>1. start \in Nat /\ end \in Nat
        BY <1>1
      <4>2. AdjustAfterDelete(p, start, end) \in Nat
        BY <4>1, AdjustedIsNat
      <4>. QED
        BY <4>2
    <3>2. c \in EndBy(t, p) <=> k + BytesOf[c] <= p
      BY <2>3, EndsBy
    <3>3. c \in EndBy(S, q) <=> m + BytesOf[c] <= q
      BY <1>11, <2>1, EndsBy
    <3>4. k + BytesOf[c] <= p <=> m + BytesOf[c] <= q
      BY <1>1, <1>2, <2>2, <2>3, <3>1 DEF AdjustAfterDelete
    <3>. QED
      BY <3>1, <3>2, <3>3, <3>4
  <2>. QED
    BY <2>4, <2>5
<1>. QED
  BY <1>11, <1>12

(* Positions. *)

\* Where characters start are finitely many bytes of the text.
LEMMA StartsKnown ==
    ASSUME NEW t, WellFormed(t)
    PROVE  /\ Len(t) \in Nat /\ CharStarts(t) \subseteq 0 .. Len(t)
           /\ CharStarts(t) \subseteq Boundaries(t) /\ Len(t) \in Boundaries(t)
           /\ Cardinality(CharStarts(t)) \in Nat
<1>1. Len(t) \in Nat
  BY DEF WellFormed
<1>2. CharStarts(t) \subseteq 0 .. Len(t)
  BY <1>1 DEF CharStarts
<1>3. IsFiniteSet(0 .. Len(t))
  BY <1>1, FS_Interval
<1>4. IsFiniteSet(CharStarts(t))
  BY <1>2, <1>3, FS_Subset
<1>5. Cardinality(CharStarts(t)) \in Nat
  BY <1>4, FS_CardinalityType
<1>. QED
  BY <1>1, <1>2, <1>5 DEF Boundaries

\* A position is the start of a character, or the end.
LEMMA ToByteIs ==
    ASSUME NEW t, WellFormed(t), NEW pos \in Int
    PROVE  ToByte(t, pos) \in Boundaries(t) /\ ToByte(t, pos) \in Nat
<1>1. /\ Len(t) \in Nat /\ CharStarts(t) \subseteq 0 .. Len(t)
      /\ CharStarts(t) \subseteq Boundaries(t) /\ Len(t) \in Boundaries(t)
      /\ Cardinality(CharStarts(t)) \in Nat
  BY StartsKnown
<1>2. PICK n \in Nat : n = IF pos < 1 THEN 1 ELSE pos
  OBVIOUS
<1>3. 1 <= n
  BY <1>2
<1>4. CASE n <= Cardinality(CharStarts(t))
  <2>1. n \in 1 .. Cardinality(CharStarts(t))
    BY <1>1, <1>3, <1>4
  <2>2. Nth(CharStarts(t), n) \in CharStarts(t)
    BY <1>1, <2>1, NthIs
  <2>. QED
    BY <1>1, <1>2, <1>4, <2>2 DEF ToByte
<1>5. CASE ~ (n <= Cardinality(CharStarts(t)))
  BY <1>1, <1>2, <1>5 DEF ToByte
<1>. QED
  BY <1>4, <1>5

\* Positions in order are bytes in order.
LEMMA ToByteInOrder ==
    ASSUME NEW t, WellFormed(t), NEW x \in Nat, NEW y \in Nat, 1 <= x, x <= y
    PROVE  ToByte(t, x) <= ToByte(t, y)
<1>1. /\ Len(t) \in Nat /\ CharStarts(t) \subseteq 0 .. Len(t)
      /\ Cardinality(CharStarts(t)) \in Nat
  BY StartsKnown
<1>2. PICK n \in Nat : n = Cardinality(CharStarts(t))
  BY <1>1
<1>3. ~ (x < 1) /\ ~ (y < 1)
  OBVIOUS
<1>4. CASE y <= n
  <2>1. x \in 1 .. n /\ y \in 1 .. n /\ x <= n
    BY <1>2, <1>4
  <2>2. Nth(CharStarts(t), x) <= Nth(CharStarts(t), y)
    BY <1>1, <1>2, <2>1, NthInOrder
  <2>. QED
    BY <1>2, <1>3, <1>4, <2>1, <2>2 DEF ToByte
<1>5. CASE ~ (y <= n)
  <2>1. ToByte(t, y) = Len(t)
    BY <1>2, <1>3, <1>5 DEF ToByte
  <2>2. ToByte(t, x) \in Boundaries(t)
    BY ToByteIs
  <2>3. ToByte(t, x) \in 0 .. Len(t)
    BY <2>2, BoundaryKnown
  <2>. QED
    BY <1>1, <2>1, <2>3
<1>. QED
  BY <1>4, <1>5

\* A range of positions in the text is one of boundaries, in order.
LEMMA RangeIs ==
    ASSUME NEW t, WellFormed(t), NEW x, NEW y, InText(t, x), InText(t, y)
    PROVE  /\ ByteRange(t, x, y).start \in Boundaries(t)
           /\ ByteRange(t, x, y).end \in Boundaries(t)
           /\ ByteRange(t, x, y).start <= ByteRange(t, x, y).end
<1>1. x \in Nat /\ y \in Nat /\ 1 <= x /\ 1 <= y
  BY StartsKnown DEF InText, PointMax
<1>2. ToByte(t, x) \in Boundaries(t) /\ ToByte(t, y) \in Boundaries(t)
  BY <1>1, ToByteIs
<1>3. x <= y => ToByte(t, x) <= ToByte(t, y)
  BY <1>1, ToByteInOrder
<1>4. ~ (x <= y) => ToByte(t, y) <= ToByte(t, x)
  BY <1>1, ToByteInOrder
<1>. QED
  BY <1>2, <1>3, <1>4 DEF ByteRange

(* Lines and sets of characters: where Lisp moves to is a byte of the text. *)

\* line_start gives a byte of the text, at or before the one given.
LEMMA LineStartIs ==
    ASSUME NEW t, WellFormed(t), NEW p \in 0 .. Len(t)
    PROVE  LineStartAt(t, p) \in 0 .. Len(t)
<1>0. Len(t) \in Nat
  BY DEF WellFormed
<1>1. PICK S : S = {b \in LineStarts(t) : b <= p}
  OBVIOUS
<1>2. S \subseteq 0 .. Len(t) /\ 0 \in S
  BY <1>0, <1>1 DEF LineStarts
<1>3. Highest(S) \in S
  BY <1>0, <1>2, HighestIs
<1>. QED
  BY <1>1, <1>2, <1>3 DEF LineStartAt

\* line_end gives a byte of the text.
LEMMA LineEndIs ==
    ASSUME NEW t, WellFormed(t), NEW p \in 0 .. Len(t)
    PROVE  LineEndAt(t, p) \in 0 .. Len(t)
<1>0. Len(t) \in Nat
  BY DEF WellFormed
<1>1. PICK S : S = {Len(t)} \cup {b \in p .. Len(t) - 1 : NewlineAt(t, b + 1)}
  OBVIOUS
<1>2. S \subseteq 0 .. Len(t) /\ Len(t) \in S
  BY <1>0, <1>1
<1>3. S \subseteq Nat /\ S # {}
  BY <1>2
<1>4. Lowest(S) \in S
  BY <1>3, LowestIs
<1>. QED
  BY <1>1, <1>2, <1>4 DEF LineEndAt

\* forward_line_calc gives a byte of the text.
LEMMA ForwardLineIs ==
    ASSUME NEW t, WellFormed(t), NEW p \in 0 .. Len(t), NEW n \in Int
    PROVE  ForwardLine(t, p, n) \in 0 .. Len(t)
<1>0. Len(t) \in Nat /\ LineStarts(t) \subseteq 0 .. Len(t)
  BY DEF WellFormed, LineStarts
<1>1. ASSUME NEW S, S \subseteq 0 .. Len(t), NEW k \in Int, 1 <= k, k <= Cardinality(S)
      PROVE  Nth(S, k) \in 0 .. Len(t)
  <2>1. IsFiniteSet(0 .. Len(t))
    BY <1>0, FS_Interval
  <2>2. IsFiniteSet(S)
    BY <1>1, <2>1, FS_Subset
  <2>3. k \in 1 .. Cardinality(S)
    BY <1>1, <2>2, FS_CardinalityType
  <2>4. Nth(S, k) \in S
    BY <1>0, <1>1, <2>3, NthIs
  <2>. QED
    BY <1>1, <2>4
<1>2. PICK below : below = {b \in LineStarts(t) : b > p}
  OBVIOUS
<1>3. PICK above : above = {b \in LineStarts(t) : b < LineStartAt(t, p)}
  OBVIOUS
<1>4. below \subseteq 0 .. Len(t) /\ above \subseteq 0 .. Len(t)
  BY <1>0, <1>2, <1>3
<1>5. Cardinality(above) \in Nat
  <2>1. IsFiniteSet(0 .. Len(t))
    BY <1>0, FS_Interval
  <2>2. IsFiniteSet(above)
    BY <1>4, <2>1, FS_Subset
  <2>. QED
    BY <2>2, FS_CardinalityType
<1>6. CASE n > 0
  <2>1. n <= Cardinality(below) => Nth(below, n) \in 0 .. Len(t)
    <3>1. 1 <= n
      BY <1>6
    <3>. QED
      BY <1>1, <1>4, <3>1
  <2>. QED
    BY <1>0, <1>2, <1>6, <2>1 DEF ForwardLine
<1>7. CASE ~ (n > 0)
  <2>1. ASSUME n # 0, -n <= Cardinality(above)
        PROVE  Nth(above, Cardinality(above) + 1 + n) \in 0 .. Len(t)
    <3>1. Cardinality(above) + 1 + n \in Int /\ 1 <= Cardinality(above) + 1 + n
          /\ Cardinality(above) + 1 + n <= Cardinality(above)
      BY <1>5, <1>7, <2>1
    <3>. QED
      BY <1>1, <1>4, <3>1
  <2>2. LineStartAt(t, p) \in 0 .. Len(t) /\ 0 \in 0 .. Len(t)
    BY <1>0, LineStartIs
  <2>. QED
    BY <1>3, <1>7, <2>1, <2>2 DEF ForwardLine
<1>. QED
  BY <1>6, <1>7

\* skip_forward and skip_backward give bytes of the text.
LEMMA SkipsAre ==
    ASSUME NEW t, WellFormed(t), NEW p \in Boundaries(t), NEW set, NEW limit \in Nat
    PROVE  SkipForward(t, p, set, limit) \in Nat /\ SkipBackward(t, p, set, limit) \in Nat
<1>1. Len(t) \in Nat /\ p \in 0 .. Len(t) /\ \A b \in Boundaries(t) : b \in 0 .. Len(t)
  BY BoundaryKnown
<1>2. SkipForward(t, p, set, limit) \in Nat
  <2>1. PICK stop \in Nat : stop = (IF limit < p THEN p ELSE limit) /\ p <= stop
    BY <1>1
  <2>2. PICK S : S = {b \in (p .. stop) \cap Boundaries(t) :
                       \A i \in p + 1 .. b : t[i].char \in set}
    OBVIOUS
  <2>3. S \subseteq 0 .. Len(t)
    BY <1>1, <2>2
  <2>4. p \in S
    BY <1>1, <2>1, <2>2
  <2>5. Highest(S) \in S
    <3>1. S # {}
      BY <2>4
    <3>2. Len(t) \in Nat
      BY <1>1
    <3>. QED
      BY <2>3, <3>1, <3>2, HighestIs
  <2>6. Highest(S) \in Nat
    <3>1. \A b \in 0 .. Len(t) : b \in Nat
      BY <1>1
    <3>2. Highest(S) \in 0 .. Len(t)
      BY <2>3, <2>5
    <3>. QED
      BY <3>1, <3>2
  <2>. QED
    BY <2>1, <2>2, <2>6 DEF SkipForward
<1>3. SkipBackward(t, p, set, limit) \in Nat
  <2>1. PICK stop \in Nat : stop = (IF limit > p THEN p ELSE limit) /\ stop <= p
    BY <1>1
  <2>2. PICK S : S = {b \in (stop .. p) \cap Boundaries(t) :
                       \A i \in b + 1 .. p : t[i].char \in set}
    OBVIOUS
  <2>3. S \subseteq Nat
    BY <1>1, <2>2
  <2>4. p \in S
    BY <1>1, <2>1, <2>2
  <2>5. Lowest(S) \in S
    BY <2>3, <2>4, LowestIs
  <2>6. Lowest(S) \in Nat
    BY <2>3, <2>5
  <2>. QED
    BY <2>1, <2>2, <2>6 DEF SkipBackward
<1>. QED
  BY <1>2, <1>3

-----------------------------------------------------------------------------
(* The invariant. *)

Side == [before : SUBSET Symbols, after : SUBSET Symbols]
\* The characters that are left of those before and after a place are so still.
SideHolds(t, place, side) ==
    \A c \in CharsOf(t) :
       /\ c \in side.before => c \in EndBy(t, place)
       /\ c \in side.after => c \notin EndBy(t, place)

LineIs ==
    /\ buffer \in [text : Seq(Byte), point : Nat, mark : Nat]
    /\ WellFormed(buffer.text) /\ buffer.point \in Boundaries(buffer.text)
    /\ lending \in {"nothing", "reading", "changing"}
ExcursionsAre ==
    /\ markers \in Seq(Nat) /\ sides \in Seq(Side) /\ Len(sides) = Len(markers)
    /\ lending = "nothing" => Len(markers) = 0
    /\ lending = "reading" => \A i \in 1 .. Len(markers) : markers[i] = buffer.point
    /\ \A i \in 1 .. Len(markers) : SideHolds(buffer.text, markers[i], sides[i])
BufferInv == LineIs /\ ExcursionsAre

\* The characters of a line are symbols.
LEMMA CharsAreSymbols ==
    ASSUME NEW t, WellFormed(t), NEW p
    PROVE  CharsOf(t) \subseteq Symbols /\ EndBy(t, p) \subseteq CharsOf(t)
<1>1. \A c \in CharsOf(t) : c \in Symbols
  BY CharsKnown DEF Block
<1>2. \A c \in EndBy(t, p) : c \in CharsOf(t)
  BY DEF EndBy, CharsOf
<1>. QED
  BY <1>1, <1>2

\* The line there is with none installed is a text.
LEMMA EmptyText == WellFormed(<<>>) /\ 0 \in Boundaries(<<>>) /\ Len(<<>>) = 0
BY DEF WellFormed, Boundaries

\* Places that were moved, of as many excursions.
LEMMA MovedMarkers ==
    ASSUME NEW ms, ms \in Seq(Nat), NEW f,
           NEW new, new = [i \in DOMAIN ms |-> f[i]], \A i \in 1 .. Len(ms) : f[i] \in Nat
    PROVE  new \in Seq(Nat) /\ Len(new) = Len(ms) /\ \A i \in 1 .. Len(ms) : new[i] = f[i]
<1>1. DOMAIN ms = 1 .. Len(ms) /\ Len(ms) \in Nat
  OBVIOUS
<1>2. new = [i \in 1 .. Len(ms) |-> f[i]]
  BY <1>1
<1>. QED
  BY <1>1, <1>2

\* What a step does, by the places it goes to and the ranges it deletes.
LEMMA StepIs ==
    ASSUME BufferInv, BufferNext
    PROVE  \/ \E t \in LineTexts : \E place \in Boundaries(t), mark \in 0 .. Len(t) :
                 \/ \E use \in {"reading", "changing"} : Install(use, t, place, mark)
                 \/ CallReadline(t, place, mark)
           \/ Drops \/ SavePoint \/ RestorePoint
           \/ \E byte \in Nat : MovesTo(byte)
           \/ \E pos \in Int : SetMark(pos)
           \/ \E t \in LineTexts : Insert(t)
           \/ \E start, end \in Boundaries(buffer.text) : start <= end /\ Deletes(start, end)
<1>1. PICK t : t = buffer.text
  OBVIOUS
<1>2. PICK p : p = buffer.point
  OBVIOUS
<1>3. WellFormed(t) /\ p \in Boundaries(t) /\ p \in 0 .. Len(t) /\ Len(t) \in Nat
  BY <1>1, <1>2, BoundaryKnown DEF BufferInv, LineIs
<1>4. Positions \subseteq Int
  BY <1>1, <1>3, StartsKnown DEF Positions, PointMax
<1>5. \A pos \in Int : ToByte(t, pos) \in Nat
  BY <1>3, ToByteIs
<1>6. CASE MovesByLines
  <2>1. LineEndAt(t, p) \in 0 .. Len(t) /\ \A n \in Int : ForwardLine(t, p, n) \in 0 .. Len(t)
    BY <1>3, LineEndIs, ForwardLineIs
  <2>2. LineEndAt(t, p) \in Nat /\ \A n \in -2 .. 2 : ForwardLine(t, p, n) \in Nat
    <3>1. 0 .. Len(t) \subseteq Nat /\ -2 .. 2 \subseteq Int
      BY <1>3
    <3>. QED
      BY <2>1, <3>1
  <2>3. CASE MovesTo(LineEndAt(t, p))
    BY <2>2, <2>3
  <2>4. ASSUME NEW n \in -2 .. 2, MovesTo(ForwardLine(t, p, n))
        PROVE  \E byte \in Nat : MovesTo(byte)
    BY <2>2, <2>4
  <2>5. MovesTo(LineEndAt(t, p)) \/ \E n \in -2 .. 2 : MovesTo(ForwardLine(t, p, n))
    BY <1>1, <1>2, <1>6 DEF MovesByLines
  <2>. QED
    BY <2>3, <2>4, <2>5
<1>7. CASE EraseBuffer
  <2>1. 0 \in Boundaries(t) /\ Len(t) \in Boundaries(t) /\ 0 <= Len(t)
    <3>1. CASE Len(t) = 0
      BY <3>1 DEF Boundaries
    <3>2. CASE Len(t) # 0
      <4>1. PICK i \in 1 .. Len(t) : i = 1
        BY <1>3, <3>2
      <4>2. PICK c \in Symbols, k \in Nat : Block(t, c, k) /\ k < i /\ i <= k + BytesOf[c]
        BY <1>3, CharAround
      <4>3. k = 0
        BY <4>1, <4>2
      <4>4. 0 \in Boundaries(t)
        BY <1>3, <4>2, <4>3, StartsAt
      <4>. QED
        BY <1>3, <4>4 DEF Boundaries
    <3>. QED
      BY <3>1, <3>2
  <2>2. Deletes(0, Len(t))
    BY <1>1, <1>7 DEF EraseBuffer
  <2>. QED
    BY <1>1, <2>1, <2>2
<1>8. ASSUME NEW x, NEW y, DeleteRegion(x, y)
      PROVE  \E start, end \in Boundaries(buffer.text) : start <= end /\ Deletes(start, end)
  <2>1. InText(t, x) /\ InText(t, y)
        /\ Deletes(ByteRange(t, x, y).start, ByteRange(t, x, y).end)
    BY <1>1, <1>8 DEF DeleteRegion
  <2>2. /\ ByteRange(t, x, y).start \in Boundaries(t)
        /\ ByteRange(t, x, y).end \in Boundaries(t)
        /\ ByteRange(t, x, y).start <= ByteRange(t, x, y).end
    BY <1>3, <2>1, RangeIs
  <2>. QED
    BY <1>1, <2>1, <2>2
<1>9. ASSUME NEW pos \in Positions, GotoChar(pos) PROVE \E byte \in Nat : MovesTo(byte)
  BY <1>1, <1>4, <1>5, <1>9 DEF GotoChar
<1>10. ASSUME NEW pos \in Positions, NEW set, SkipChars(set, pos)
       PROVE  \E byte \in Nat : MovesTo(byte)
  <2>1. ToByte(t, pos) \in Nat
    BY <1>4, <1>5
  <2>2. SkipForward(t, p, set, ToByte(t, pos)) \in Nat
        /\ SkipBackward(t, p, set, ToByte(t, pos)) \in Nat
    BY <1>3, <2>1, SkipsAre
  <2>. QED
    BY <1>1, <1>2, <1>10, <2>2 DEF SkipChars
<1>11. ASSUME NEW n, MovePoint(n) PROVE \E byte \in Nat : MovesTo(byte)
  <2>1. PICK pos : pos = ToPos(t, p) + n
    OBVIOUS
  <2>2. InText(t, pos) /\ MovesTo(ToByte(t, pos))
    BY <1>1, <1>2, <1>11, <2>1 DEF MovePoint
  <2>3. pos \in Int
    BY <1>3, <2>2, StartsKnown DEF InText, PointMax
  <2>. QED
    BY <1>5, <2>2, <2>3
<1>12. ASSUME NEW n, DeleteChar(n)
       PROVE  \E start, end \in Boundaries(buffer.text) : start <= end /\ Deletes(start, end)
  BY <1>8, <1>12 DEF DeleteChar
<1>. QED
  BY <1>4, <1>6, <1>7, <1>8, <1>9, <1>10, <1>11, <1>12 DEF BufferNext

\* What holds at first.
LEMMA InitInv == BufferInit => BufferInv
<1>. SUFFICES ASSUME BufferInit PROVE BufferInv
  OBVIOUS
<1>1. buffer = [text |-> <<>>, point |-> 0, mark |-> 0] /\ lending = "nothing"
      /\ markers = <<>> /\ sides = <<>>
  BY DEF BufferInit, NoLine
<1>2. LineIs
  BY <1>1, EmptyText DEF LineIs
<1>3. ExcursionsAre
  BY <1>1 DEF ExcursionsAre
<1>. QED
  BY <1>2, <1>3 DEF BufferInv

\* install: a line's point is at a character.
LEMMA InstallKeeps ==
    ASSUME BufferInv, NEW use \in {"reading", "changing"}, NEW t \in LineTexts,
           NEW place \in Boundaries(t), NEW mark \in 0 .. Len(t), Install(use, t, place, mark)
    PROVE  BufferInv'
<1>1. WellFormed(t) /\ t \in Seq(Byte)
  BY BufferAssumption DEF WellFormed
<1>2. place \in Nat /\ mark \in Nat
  BY <1>1, BoundaryKnown
<1>3. buffer' = [text |-> t, point |-> place, mark |-> mark] /\ lending' = use
      /\ markers' = markers /\ sides' = sides /\ lending = "nothing"
  BY DEF Install, InLisp
<1>4. LineIs'
  BY <1>1, <1>2, <1>3 DEF LineIs
<1>5. ExcursionsAre'
  <2>1. markers \in Seq(Nat) /\ sides \in Seq(Side) /\ Len(sides) = Len(markers)
        /\ Len(markers) = 0
    BY <1>3 DEF BufferInv, ExcursionsAre
  <2>. QED
    BY <1>3, <2>1 DEF ExcursionsAre
<1>. QED
  BY <1>4, <1>5 DEF BufferInv

\* call-interactively: so is what readline leaves.
LEMMA CallReadlineKeeps ==
    ASSUME BufferInv, NEW t \in LineTexts,
           NEW place \in Boundaries(t), NEW mark \in 0 .. Len(t), CallReadline(t, place, mark)
    PROVE  BufferInv'
<1>1. WellFormed(t) /\ t \in Seq(Byte)
  BY BufferAssumption DEF WellFormed
<1>2. place \in Nat /\ mark \in Nat
  BY <1>1, BoundaryKnown
<1>3. buffer' = [text |-> t, point |-> place, mark |-> mark] /\ lending' = lending
      /\ markers' = markers /\ lending = "changing"
      /\ sides' = [i \in DOMAIN sides |-> [before |-> {}, after |-> {}]]
  BY DEF CallReadline, Writable
<1>4. LineIs'
  BY <1>1, <1>2, <1>3 DEF LineIs
<1>5. ExcursionsAre'
  <2>1. markers \in Seq(Nat) /\ sides \in Seq(Side) /\ Len(sides) = Len(markers)
    BY DEF BufferInv, ExcursionsAre
  <2>2. [before |-> {}, after |-> {}] \in Side
    BY DEF Side
  <2>3. PICK none \in Side : none = [before |-> {}, after |-> {}]
    BY <2>2
  <2>4. DOMAIN sides = 1 .. Len(sides) /\ Len(sides) \in Nat
    BY <2>1
  <2>5. sides' = [i \in 1 .. Len(sides) |-> none]
    BY <1>3, <2>3, <2>4
  <2>6. sides' \in Seq(Side) /\ Len(sides') = Len(sides)
        /\ \A i \in 1 .. Len(sides) : sides'[i] = none
    BY <2>3, <2>4, <2>5
  <2>7. ASSUME NEW i \in 1 .. Len(markers)
        PROVE  SideHolds(buffer'.text, markers[i], sides'[i])
    <3>1. sides'[i].before = {} /\ sides'[i].after = {}
      BY <2>1, <2>3, <2>6
    <3>. QED
      BY <3>1 DEF SideHolds
  <2>. QED
    BY <1>3, <2>1, <2>6, <2>7 DEF ExcursionsAre
<1>. QED
  BY <1>4, <1>5 DEF BufferInv

\* Installed::drop: there is no line and no excursion.
LEMMA DropsKeeps ==
    ASSUME BufferInv, Drops
    PROVE  BufferInv'
<1>1. buffer' = [text |-> <<>>, point |-> 0, mark |-> 0] /\ lending' = "nothing"
      /\ markers' = <<>> /\ sides' = <<>>
  BY DEF Drops, NoLine
<1>2. LineIs'
  BY <1>1, EmptyText DEF LineIs
<1>3. ExcursionsAre'
  BY <1>1 DEF ExcursionsAre
<1>. QED
  BY <1>2, <1>3 DEF BufferInv

\* Point or mark moves in a line that is lent to be changed.
LEMMA MovesKeep ==
    ASSUME BufferInv, Writable, NEW place \in Boundaries(buffer.text), NEW mark \in Nat,
           buffer' = [text |-> buffer.text, point |-> place, mark |-> mark],
           lending' = lending, markers' = markers, sides' = sides
    PROVE  BufferInv'
<1>1. WellFormed(buffer.text) /\ buffer.text \in Seq(Byte) /\ lending = "changing"
  BY DEF BufferInv, LineIs, Writable
<1>2. place \in Nat
  BY <1>1, BoundaryKnown
<1>3. LineIs'
  BY <1>1, <1>2 DEF LineIs
<1>4. buffer'.text = buffer.text
  OBVIOUS
<1>5. ExcursionsAre'
  BY <1>1, <1>4 DEF BufferInv, ExcursionsAre
<1>. QED
  BY <1>3, <1>5 DEF BufferInv

\* char_start_within gives a byte.
LEMMA StartWithinNat ==
    ASSUME NEW t, WellFormed(t), NEW p \in Nat
    PROVE  CharStartWithin(t, p) \in Boundaries(t) /\ CharStartWithin(t, p) \in Nat
<1>1. CharStartWithin(t, p) \in Boundaries(t)
  BY StartWithin
<1>. QED
  BY <1>1, BoundaryKnown

\* move_to, from any byte of the text.
LEMMA MovesToKeeps ==
    ASSUME BufferInv, NEW byte \in Nat, MovesTo(byte)
    PROVE  BufferInv'
<1>1. WellFormed(buffer.text) /\ buffer \in [text : Seq(Byte), point : Nat, mark : Nat]
  BY DEF BufferInv, LineIs
<1>2. PICK q \in Boundaries(buffer.text) : q = CharStartWithin(buffer.text, byte)
  BY <1>1, StartWithinNat
<1>3. PICK mark \in Nat : mark = buffer.mark
  BY <1>1
<1>4. buffer' = [text |-> buffer.text, point |-> q, mark |-> mark]
  BY <1>1, <1>2, <1>3 DEF MovesTo
<1>. QED
  BY <1>4, MovesKeep DEF MovesTo

\* set-mark, to any position.
LEMMA SetMarkKeeps ==
    ASSUME BufferInv, NEW pos \in Int, SetMark(pos)
    PROVE  BufferInv'
<1>1. WellFormed(buffer.text) /\ buffer \in [text : Seq(Byte), point : Nat, mark : Nat]
      /\ buffer.point \in Boundaries(buffer.text)
  BY DEF BufferInv, LineIs
<1>2. PICK byte \in Nat : byte = ToByte(buffer.text, pos)
  BY <1>1, ToByteIs
<1>3. PICK mark \in Nat : mark = CharStartWithin(buffer.text, byte)
  BY <1>1, StartWithinNat
<1>4. PICK q \in Boundaries(buffer.text) : q = buffer.point
  BY <1>1
<1>5. buffer' = [text |-> buffer.text, point |-> q, mark |-> mark]
  BY <1>1, <1>2, <1>3, <1>4 DEF SetMark
<1>. QED
  BY <1>5, MovesKeep DEF SetMark

\* insert: point, mark and each excursion's place follow.
LEMMA InsertKeeps ==
    ASSUME BufferInv, NEW new \in LineTexts, Insert(new)
    PROVE  BufferInv'
<1>1. PICK t : t = buffer.text
  OBVIOUS
<1>2. PICK at \in Boundaries(t) : at = buffer.point
  BY <1>1 DEF BufferInv, LineIs
<1>3. PICK mark \in Nat : mark = buffer.mark
  BY DEF BufferInv, LineIs
<1>4. PICK S : S = Spliced(t, at, new)
  OBVIOUS
<1>5. WellFormed(t) /\ WellFormed(new) /\ CharsOf(new) \cap CharsOf(t) = {}
  BY <1>1, BufferAssumption DEF BufferInv, LineIs, Insert
<1>6. WellFormed(S)
      /\ (\A c \in CharsOf(S) : c \in CharsOf(t) \/ c \in CharsOf(new))
      /\ (\A c \in CharsOf(t) : \A p \in Nat :
             c \in EndBy(S, AdjustAfterInsert(p, at, Len(new))) <=> c \in EndBy(t, p))
  BY <1>4, <1>5, SplicedWell
<1>7. PICK len \in Nat : len = Len(new)
  BY <1>5 DEF WellFormed
<1>8. at \in Nat
  BY <1>5, BoundaryKnown
<1>9. \A p \in Nat : AdjustAfterInsert(p, at, len) \in Nat
  BY <1>7, <1>8 DEF AdjustAfterInsert
<1>10. PICK place \in Boundaries(S) :
          place = CharStartWithin(S, at + len) /\ place \in Nat
  <2>1. at + len \in Nat
    BY <1>7, <1>8
  <2>. QED
    BY <1>6, <2>1, StartWithinNat
<1>11. PICK newMark \in Nat : newMark = CharStartWithin(S, AdjustAfterInsert(mark, at, len))
  BY <1>6, <1>9, StartWithinNat
<1>12. /\ buffer' = [text |-> S, point |-> place, mark |-> newMark]
       /\ lending = "changing" /\ lending' = "changing" /\ sides' = sides
       /\ markers' = [i \in DOMAIN markers |-> AdjustAfterInsert(markers[i], at, len)]
       /\ \A i \in DOMAIN sides : CharsOf(new) \cap (sides[i].before \cup sides[i].after) = {}
  BY <1>1, <1>2, <1>3, <1>4, <1>7, <1>10, <1>11 DEF Insert, Writable
<1>13. LineIs'
  <2>1. S \in Seq(Byte)
    BY <1>6 DEF WellFormed
  <2>. QED
    BY <1>6, <1>10, <1>12, <2>1 DEF LineIs
<1>14. ExcursionsAre'
  <2>1. markers \in Seq(Nat) /\ sides \in Seq(Side) /\ Len(sides) = Len(markers)
        /\ \A i \in 1 .. Len(markers) : SideHolds(t, markers[i], sides[i])
    BY <1>1 DEF BufferInv, ExcursionsAre
  <2>2. PICK f : f = [i \in 1 .. Len(markers) |-> AdjustAfterInsert(markers[i], at, len)]
    OBVIOUS
  <2>3. \A i \in 1 .. Len(markers) :
          markers[i] \in Nat /\ f[i] = AdjustAfterInsert(markers[i], at, len) /\ f[i] \in Nat
    <3>1. \A i \in 1 .. Len(markers) : markers[i] \in Nat
      BY <2>1
    <3>2. \A i \in 1 .. Len(markers) : f[i] = AdjustAfterInsert(markers[i], at, len)
      BY <2>2
    <3>. QED
      BY <1>9, <3>1, <3>2
  <2>4. markers' = [i \in DOMAIN markers |-> f[i]]
    BY <1>12, <2>1, <2>3
  <2>5. markers' \in Seq(Nat) /\ Len(markers') = Len(markers)
        /\ \A i \in 1 .. Len(markers) : markers'[i] = f[i]
    BY <2>1, <2>3, <2>4, MovedMarkers
  <2>6. ASSUME NEW i \in 1 .. Len(markers) PROVE SideHolds(S, markers'[i], sides[i])
    <3>1. markers'[i] = AdjustAfterInsert(markers[i], at, Len(new)) /\ markers[i] \in Nat
      BY <1>7, <2>3, <2>5
    <3>2. SideHolds(t, markers[i], sides[i])
      BY <2>1
    <3>3. i \in DOMAIN sides
      BY <2>1
    <3>4. \A c \in CharsOf(new) : c \notin sides[i].before /\ c \notin sides[i].after
      BY <1>12, <3>3
    <3>. QED
      BY <1>6, <3>1, <3>2, <3>4 DEF SideHolds
  <2>. QED
    BY <1>12, <2>1, <2>5, <2>6 DEF ExcursionsAre
<1>. QED
  BY <1>13, <1>14 DEF BufferInv

\* A delete of a range between characters: they follow as well.
LEMMA DeletesKeeps ==
    ASSUME BufferInv, NEW start \in Boundaries(buffer.text), NEW end \in Boundaries(buffer.text),
           start <= end, Deletes(start, end)
    PROVE  BufferInv'
<1>1. PICK t : t = buffer.text
  OBVIOUS
<1>2. PICK at \in Boundaries(t) : at = buffer.point
  BY <1>1 DEF BufferInv, LineIs
<1>3. PICK mark \in Nat : mark = buffer.mark
  BY DEF BufferInv, LineIs
<1>4. PICK S : S = Without(t, start, end)
  OBVIOUS
<1>5. WellFormed(t) /\ start \in Boundaries(t) /\ end \in Boundaries(t)
  BY <1>1 DEF BufferInv, LineIs
<1>6. WellFormed(S)
      /\ \A c \in CharsOf(S) :
           /\ c \in CharsOf(t)
           /\ \A p \in Nat :
                c \in EndBy(S, AdjustAfterDelete(p, start, end)) <=> c \in EndBy(t, p)
  BY <1>4, <1>5, WithoutWell
<1>7. start \in Nat /\ end \in Nat /\ at \in Nat
  BY <1>5, BoundaryKnown
<1>8. \A p \in Nat : AdjustAfterDelete(p, start, end) \in Nat
  BY <1>7, AdjustedIsNat
<1>9. PICK place \in Boundaries(S) :
         place = CharStartWithin(S, AdjustAfterDelete(at, start, end)) /\ place \in Nat
  BY <1>6, <1>7, <1>8, StartWithinNat
<1>10. PICK newMark \in Nat :
          newMark = CharStartWithin(S, AdjustAfterDelete(mark, start, end))
  BY <1>6, <1>8, StartWithinNat
<1>11. /\ buffer' = [text |-> S, point |-> place, mark |-> newMark]
       /\ lending = "changing" /\ lending' = "changing" /\ sides' = sides
       /\ markers' = [i \in DOMAIN markers |-> AdjustAfterDelete(markers[i], start, end)]
  BY <1>1, <1>2, <1>3, <1>4, <1>9, <1>10 DEF Deletes, Writable
<1>12. LineIs'
  <2>1. S \in Seq(Byte)
    BY <1>6 DEF WellFormed
  <2>. QED
    BY <1>6, <1>9, <1>11, <2>1 DEF LineIs
<1>13. ExcursionsAre'
  <2>1. markers \in Seq(Nat) /\ sides \in Seq(Side) /\ Len(sides) = Len(markers)
        /\ \A i \in 1 .. Len(markers) : SideHolds(t, markers[i], sides[i])
    BY <1>1 DEF BufferInv, ExcursionsAre
  <2>2. PICK f : f = [i \in 1 .. Len(markers) |-> AdjustAfterDelete(markers[i], start, end)]
    OBVIOUS
  <2>3. \A i \in 1 .. Len(markers) :
          markers[i] \in Nat /\ f[i] = AdjustAfterDelete(markers[i], start, end) /\ f[i] \in Nat
    <3>1. \A i \in 1 .. Len(markers) : markers[i] \in Nat
      BY <2>1
    <3>2. \A i \in 1 .. Len(markers) : f[i] = AdjustAfterDelete(markers[i], start, end)
      BY <2>2
    <3>. QED
      BY <1>8, <3>1, <3>2
  <2>4. markers' = [i \in DOMAIN markers |-> f[i]]
    BY <1>11, <2>1, <2>3
  <2>5. markers' \in Seq(Nat) /\ Len(markers') = Len(markers)
        /\ \A i \in 1 .. Len(markers) : markers'[i] = f[i]
    BY <2>1, <2>3, <2>4, MovedMarkers
  <2>6. ASSUME NEW i \in 1 .. Len(markers) PROVE SideHolds(S, markers'[i], sides[i])
    <3>1. markers'[i] = AdjustAfterDelete(markers[i], start, end) /\ markers[i] \in Nat
      BY <2>3, <2>5
    <3>2. SideHolds(t, markers[i], sides[i])
      BY <2>1
    <3>. QED
      BY <1>6, <3>1, <3>2 DEF SideHolds
  <2>. QED
    BY <1>11, <2>1, <2>5, <2>6 DEF ExcursionsAre
<1>. QED
  BY <1>12, <1>13 DEF BufferInv

\* save-excursion begins: its place is between the characters it says.
LEMMA SavePointKeeps ==
    ASSUME BufferInv, SavePoint
    PROVE  BufferInv'
<1>1. PICK t : t = buffer.text
  OBVIOUS
<1>2. PICK p \in Nat : p = buffer.point
  BY DEF BufferInv, LineIs
<1>3. PICK side : side = [before |-> EndBy(t, p), after |-> CharsOf(t) \ EndBy(t, p)]
  OBVIOUS
<1>4. WellFormed(t)
  BY <1>1 DEF BufferInv, LineIs
<1>5. side \in Side /\ SideHolds(t, p, side)
  BY <1>3, <1>4, CharsAreSymbols DEF Side, SideHolds
<1>6. /\ buffer' = buffer /\ lending' = lending /\ lending # "nothing"
      /\ markers' = Append(markers, p) /\ sides' = Append(sides, side)
  BY <1>1, <1>2, <1>3 DEF SavePoint, InLisp
<1>7. LineIs'
  BY <1>6 DEF BufferInv, LineIs
<1>8. ExcursionsAre'
  <2>1. markers \in Seq(Nat) /\ sides \in Seq(Side) /\ Len(sides) = Len(markers)
        /\ (\A i \in 1 .. Len(markers) : SideHolds(t, markers[i], sides[i]))
        /\ (lending = "reading" => \A i \in 1 .. Len(markers) : markers[i] = p)
    BY <1>1, <1>2 DEF BufferInv, ExcursionsAre
  <2>2. PICK n \in Nat : n = Len(markers) /\ n = Len(sides)
    BY <2>1
  <2>3. markers' \in Seq(Nat) /\ Len(markers') = n + 1 /\ markers'[n + 1] = p
        /\ \A i \in 1 .. n : markers'[i] = markers[i]
    BY <1>6, <2>1, <2>2
  <2>4. sides' \in Seq(Side) /\ Len(sides') = n + 1 /\ sides'[n + 1] = side
        /\ \A i \in 1 .. n : sides'[i] = sides[i]
    BY <1>5, <1>6, <2>1, <2>2
  <2>5. ASSUME NEW i \in 1 .. n + 1
        PROVE  /\ SideHolds(t, markers'[i], sides'[i])
               /\ lending = "reading" => markers'[i] = p
    <3>1. CASE i = n + 1
      BY <1>5, <2>3, <2>4, <3>1
    <3>2. CASE i \in 1 .. n
      BY <2>1, <2>2, <2>3, <2>4, <3>2
    <3>. QED
      BY <2>2, <3>1, <3>2
  <2>. QED
    BY <1>1, <1>2, <1>6, <2>3, <2>4, <2>5 DEF ExcursionsAre
<1>. QED
  BY <1>7, <1>8 DEF BufferInv

\* And ends: the excursions around it are as they were.
LEMMA RestorePointKeeps ==
    ASSUME BufferInv, RestorePoint
    PROVE  /\ BufferInv'
           /\ lending = "reading" => buffer' = buffer
<1>1. PICK t : t = buffer.text
  OBVIOUS
<1>2. WellFormed(t) /\ buffer \in [text : Seq(Byte), point : Nat, mark : Nat]
      /\ buffer.point \in Boundaries(t)
  BY <1>1 DEF BufferInv, LineIs
<1>3. markers \in Seq(Nat) /\ sides \in Seq(Side) /\ Len(sides) = Len(markers)
      /\ (\A i \in 1 .. Len(markers) : SideHolds(t, markers[i], sides[i]))
      /\ (lending = "reading" => \A i \in 1 .. Len(markers) : markers[i] = buffer.point)
      /\ (lending = "nothing" => Len(markers) = 0)
  BY <1>1 DEF BufferInv, ExcursionsAre
<1>4. PICK n \in Nat : n = Len(markers) /\ n = Len(sides) /\ n >= 1
  <2>1. markers # <<>>
    BY DEF RestorePoint
  <2>. QED
    BY <1>3, <2>1
<1>5. PICK m \in Nat : m = markers[n]
  BY <1>3, <1>4
<1>6. PICK q \in Boundaries(t) : q = CharStartWithin(t, m) /\ q \in Nat
  BY <1>2, StartWithinNat
<1>7. PICK mark \in Nat : mark = buffer.mark
  BY <1>2
<1>8. buffer' = [text |-> t, point |-> q, mark |-> mark] /\ lending' = lending
      /\ markers' = SubSeq(markers, 1, n - 1) /\ sides' = SubSeq(sides, 1, n - 1)
  BY <1>1, <1>2, <1>4, <1>5, <1>6, <1>7 DEF RestorePoint
<1>9. LineIs'
  <2>1. t \in Seq(Byte) /\ lending \in {"nothing", "reading", "changing"}
    BY <1>1 DEF BufferInv, LineIs
  <2>. QED
    BY <1>2, <1>6, <1>8, <2>1 DEF LineIs
<1>10. ASSUME lending = "reading" PROVE q = buffer.point
  <2>1. m = buffer.point
    BY <1>3, <1>4, <1>5, <1>10
  <2>2. m \in Boundaries(t)
    BY <1>2, <2>1
  <2>. QED
    BY <1>2, <1>6, <2>1, <2>2, StartWithin
<1>11. ExcursionsAre'
  <2>1. markers' \in Seq(Nat) /\ Len(markers') = n - 1
        /\ \A i \in 1 .. n - 1 : markers'[i] = markers[i]
    BY SMTT(30), <1>3, <1>4, <1>8
  <2>2. sides' \in Seq(Side) /\ Len(sides') = n - 1
        /\ \A i \in 1 .. n - 1 : sides'[i] = sides[i]
    BY <1>3, <1>4, <1>8
  <2>3. ASSUME NEW i \in 1 .. n - 1
        PROVE  /\ SideHolds(t, markers'[i], sides'[i])
               /\ lending = "reading" => markers'[i] = q
    <3>1. i \in 1 .. Len(markers)
      BY <1>4
    <3>. QED
      BY <1>3, <1>10, <2>1, <2>2, <3>1
  <2>4. lending # "nothing"
    BY <1>3, <1>4
  <2>. QED
    BY <1>8, <2>1, <2>2, <2>3, <2>4 DEF ExcursionsAre
<1>12. ASSUME lending = "reading" PROVE buffer' = buffer
  BY <1>1, <1>2, <1>7, <1>8, <1>10, <1>12
<1>. QED
  BY <1>9, <1>11, <1>12 DEF BufferInv

\* Each step keeps the invariant.
LEMMA NextKeeps ==
    ASSUME BufferInv, [BufferNext]_bufferVars
    PROVE  BufferInv'
<1>1. CASE BufferNext
  <2>1. CASE \E t \in LineTexts : \E place \in Boundaries(t), mark \in 0 .. Len(t) :
                \/ \E use \in {"reading", "changing"} : Install(use, t, place, mark)
                \/ CallReadline(t, place, mark)
    BY <2>1, InstallKeeps, CallReadlineKeeps
  <2>2. CASE Drops
    BY <2>2, DropsKeeps
  <2>3. CASE SavePoint
    BY <2>3, SavePointKeeps
  <2>4. CASE RestorePoint
    BY <2>4, RestorePointKeeps
  <2>5. CASE \E byte \in Nat : MovesTo(byte)
    BY <2>5, MovesToKeeps
  <2>6. CASE \E pos \in Int : SetMark(pos)
    BY <2>6, SetMarkKeeps
  <2>7. CASE \E t \in LineTexts : Insert(t)
    BY <2>7, InsertKeeps
  <2>8. CASE \E start, end \in Boundaries(buffer.text) : start <= end /\ Deletes(start, end)
    BY <2>8, DeletesKeeps
  <2>. QED
    BY <1>1, <2>1, <2>2, <2>3, <2>4, <2>5, <2>6, <2>7, <2>8, StepIs
<1>2. CASE UNCHANGED bufferVars
  BY <1>2 DEF bufferVars, BufferInv, LineIs, ExcursionsAre
<1>. QED
  BY <1>1, <1>2

-----------------------------------------------------------------------------
(* What the steps show. *)

\* An excursion comes back.
LEMMA RestoreComesBack ==
    ASSUME BufferInv, RestorePoint
    PROVE  ComesBack(sides[Len(sides)])
<1>1. PICK t : t = buffer.text
  OBVIOUS
<1>2. WellFormed(t) /\ buffer \in [text : Seq(Byte), point : Nat, mark : Nat]
  BY <1>1 DEF BufferInv, LineIs
<1>3. markers \in Seq(Nat) /\ sides \in Seq(Side) /\ Len(sides) = Len(markers)
      /\ \A i \in 1 .. Len(markers) : SideHolds(t, markers[i], sides[i])
  BY <1>1 DEF BufferInv, ExcursionsAre
<1>4. PICK n \in Nat : n = Len(markers) /\ n = Len(sides) /\ n >= 1
  <2>1. markers # <<>>
    BY DEF RestorePoint
  <2>. QED
    BY <1>3, <2>1
<1>5. PICK m \in Nat : m = markers[n]
  BY <1>3, <1>4
<1>6. PICK side : side = sides[n]
  OBVIOUS
<1>7. SideHolds(t, m, side)
  BY <1>3, <1>4, <1>5, <1>6
<1>8. buffer'.text = t /\ buffer'.point = CharStartWithin(t, m)
  BY <1>1, <1>2, <1>4, <1>5 DEF RestorePoint
<1>9. \A c \in CharsOf(t) : c \in EndBy(t, CharStartWithin(t, m)) <=> c \in EndBy(t, m)
  BY <1>2, StartWithin
<1>10. ComesBack(side)
  BY <1>7, <1>8, <1>9 DEF ComesBack, SideHolds
<1>. QED
  BY <1>4, <1>6, <1>10

\* The mark follows what is inserted,
LEMMA InsertMark ==
    ASSUME BufferInv, NEW new \in LineTexts, Insert(new), NEW c \in CharsOf(buffer.text)
    PROVE  c \in EndBy(buffer.text, buffer.mark) <=> c \in EndBy(buffer'.text, buffer'.mark)
<1>1. PICK t : t = buffer.text
  OBVIOUS
<1>2. PICK at \in Boundaries(t) : at = buffer.point
  BY <1>1 DEF BufferInv, LineIs
<1>3. PICK mark \in Nat : mark = buffer.mark
  BY DEF BufferInv, LineIs
<1>4. PICK S : S = Spliced(t, at, new)
  OBVIOUS
<1>5. WellFormed(t) /\ WellFormed(new) /\ CharsOf(new) \cap CharsOf(t) = {}
  BY <1>1, BufferAssumption DEF BufferInv, LineIs, Insert
<1>6. PICK q : q = AdjustAfterInsert(mark, at, Len(new))
  OBVIOUS
<1>7. q \in Nat
  <2>1. at \in Nat /\ Len(new) \in Nat
    BY <1>5, BoundaryKnown DEF WellFormed
  <2>. QED
    BY <1>6, <2>1 DEF AdjustAfterInsert
<1>8. WellFormed(S) /\ (c \in EndBy(S, q) <=> c \in EndBy(t, mark)) /\ c \in CharsOf(t)
  BY <1>1, <1>4, <1>5, <1>6, SplicedWell
<1>9. c \in CharsOf(S)
  BY <1>1, <1>4, <1>5, SplicedWell
<1>10. c \in EndBy(S, CharStartWithin(S, q)) <=> c \in EndBy(S, q)
  BY <1>7, <1>8, <1>9, StartWithin
<1>11. buffer'.text = S /\ buffer'.mark = CharStartWithin(S, q)
  BY <1>1, <1>2, <1>3, <1>4, <1>6 DEF Insert
<1>. QED
  BY <1>1, <1>3, <1>8, <1>10, <1>11

\* and what is deleted.
LEMMA DeletesMark ==
    ASSUME BufferInv, NEW start \in Boundaries(buffer.text), NEW end \in Boundaries(buffer.text),
           start <= end, Deletes(start, end), NEW c \in CharsOf(buffer'.text)
    PROVE  c \in EndBy(buffer.text, buffer.mark) <=> c \in EndBy(buffer'.text, buffer'.mark)
<1>1. PICK t : t = buffer.text
  OBVIOUS
<1>2. PICK mark \in Nat : mark = buffer.mark
  BY DEF BufferInv, LineIs
<1>3. PICK S : S = Without(t, start, end)
  OBVIOUS
<1>4. WellFormed(t) /\ start \in Boundaries(t) /\ end \in Boundaries(t)
  BY <1>1 DEF BufferInv, LineIs
<1>5. PICK q : q = AdjustAfterDelete(mark, start, end)
  OBVIOUS
<1>6. q \in Nat
  <2>1. start \in Nat /\ end \in Nat
    BY <1>4, BoundaryKnown
  <2>. QED
    BY <1>5, <2>1, AdjustedIsNat
<1>7. buffer'.text = S /\ buffer'.mark = CharStartWithin(S, q)
  BY <1>1, <1>2, <1>3, <1>5 DEF Deletes
<1>8. c \in CharsOf(S)
  BY <1>7
<1>9. WellFormed(S) /\ (c \in EndBy(S, q) <=> c \in EndBy(t, mark))
  BY <1>3, <1>4, <1>5, <1>8, WithoutWell
<1>10. c \in EndBy(S, CharStartWithin(S, q)) <=> c \in EndBy(S, q)
  BY <1>6, <1>8, <1>9, StartWithin
<1>. QED
  BY <1>1, <1>2, <1>7, <1>9, <1>10

\* The functions asked at a draw have point where each excursion began.
LEMMA ReadingKeeps ==
    ASSUME BufferInv, [BufferNext]_bufferVars, lending = "reading", lending' = "reading"
    PROVE  buffer' = buffer
<1>1. CASE BufferNext
  <2>1. \A t, place, mark : ~ CallReadline(t, place, mark)
    BY DEF CallReadline, Writable
  <2>2. \A use, t, place, mark : ~ Install(use, t, place, mark)
    BY DEF Install, InLisp
  <2>3. ~ Drops
    BY DEF Drops
  <2>4. \A byte : ~ MovesTo(byte) /\ ~ SetMark(byte)
    BY DEF MovesTo, SetMark, Writable
  <2>5. \A t : ~ Insert(t)
    BY DEF Insert, Writable
  <2>6. \A start, end : ~ Deletes(start, end)
    BY DEF Deletes, Writable
  <2>7. SavePoint \/ RestorePoint
    BY <1>1, <2>1, <2>2, <2>3, <2>4, <2>5, <2>6, StepIs
  <2>8. SavePoint => buffer' = buffer
    BY DEF SavePoint
  <2>. QED
    BY <2>7, <2>8, RestorePointKeeps
<1>2. CASE UNCHANGED bufferVars
  BY <1>2 DEF bufferVars
<1>. QED
  BY <1>1, <1>2

\* Lisp's places hold for every text of whole characters and any edits of it:
\* readline's point is on a character after each function of buffer.rs, the mark
\* and the places that save-excursion keeps have the characters on the side they
\* had them through insert_text, Buffer::delete and kill, and the functions that
\* are asked at a draw leave the line as it is.
THEOREM PlacesFollowTextAlways == BufferSpec => PlacesFollowText
<1>1. BufferInit => BufferInv
  BY InitInv
<1>2. BufferInv /\ [BufferNext]_bufferVars => BufferInv'
  BY NextKeeps
<1>3. BufferInv => PointOnCharacter
  BY DEF BufferInv, LineIs, PointOnCharacter
<1>4. BufferInv => [RestorePoint => ComesBack(sides[Len(sides)])]_bufferVars
  BY RestoreComesBack
<1>5. BufferInv =>
        [Edited =>
          \A c \in CharsOf(buffer.text) \cap CharsOf(buffer'.text) :
            c \in EndBy(buffer.text, buffer.mark) <=> c \in EndBy(buffer'.text, buffer'.mark)
        ]_bufferVars
  BY InsertMark, DeletesMark DEF Edited
<1>6. BufferInv /\ [BufferNext]_bufferVars =>
        [lending = "reading" /\ lending' = "reading" => buffer' = buffer]_bufferVars
  BY ReadingKeeps
<1>. QED
  BY <1>1, <1>2, <1>3, <1>4, <1>5, <1>6, PTL
     DEF BufferSpec, PlacesFollowText, ExcursionsComeBack, MarkFollows, ReadingChangesNothing

-----------------------------------------------------------------------------
(* LispSteps: the undo lists. *)

IsList(u) == \E S : u \in Seq(S)
\* m groups of the list are open, whatever is before them.
OpenBy(u, m) == m = 0 \/ \E i \in DOMAIN u : Count(u, i, "end") + m <= Count(u, i, "begin")

\* One entry more.
LEMMA ListGrows ==
    ASSUME NEW u, IsList(u), NEW e
    PROVE  /\ IsList(Append(u, e)) /\ Len(u) \in Nat /\ Len(Append(u, e)) = Len(u) + 1
           /\ DOMAIN u = 1 .. Len(u)
           /\ \A i \in 1 .. Len(u) : Append(u, e)[i] = u[i]
           /\ Append(u, e)[Len(u) + 1] = e
           /\ SubSeq(Append(u, e), 1, Len(u)) = u
<1>1. PICK S : u \in Seq(S)  BY DEF IsList
<1>. DEFINE T == S \cup {e}
<1>2. u \in Seq(T)
  <2>1. Len(u) \in Nat /\ u = [i \in 1 .. Len(u) |-> u[i]] /\ \A i \in 1 .. Len(u) : u[i] \in T
    BY <1>1
  <2>. QED  BY <2>1
<1>3. e \in T  OBVIOUS
<1>. HIDE DEF T
<1>4. Append(u, e) \in Seq(T)  BY <1>2, <1>3
<1>5. SubSeq(Append(u, e), 1, Len(u)) = u
  <2>1. Append(u, e) \in Seq(T) /\ Len(Append(u, e)) = Len(u) + 1 /\ Len(u) \in Nat
    BY <1>2, <1>3
  <2>. DEFINE v == SubSeq(Append(u, e), 1, Len(u))
  <2>2. v \in Seq(T) /\ Len(v) = Len(u) /\ \A i \in 1 .. Len(u) : v[i] = u[i]
    BY <1>2, <1>3, <2>1
  <2>. QED  BY <1>2, <2>2, SeqEqual
<1>. QED  BY <1>2, <1>3, <1>4, <1>5 DEF IsList

\* The first k entries.
LEMMA ListCut ==
    ASSUME NEW u, IsList(u), NEW k \in 0 .. Len(u)
    PROVE  /\ IsList(SubSeq(u, 1, k)) /\ Len(SubSeq(u, 1, k)) = k /\ Len(u) \in Nat
           /\ DOMAIN u = 1 .. Len(u) /\ DOMAIN SubSeq(u, 1, k) = 1 .. k
           /\ \A i \in 1 .. k : SubSeq(u, 1, k)[i] = u[i]
           /\ \A i \in 0 .. k : SubSeq(SubSeq(u, 1, k), 1, i) = SubSeq(u, 1, i)
<1>1. PICK S : u \in Seq(S)  BY DEF IsList
<1>2. /\ SubSeq(u, 1, k) \in Seq(S) /\ Len(SubSeq(u, 1, k)) = k
      /\ \A i \in 1 .. k : SubSeq(u, 1, k)[i] = u[i]
  BY <1>1
<1>3. ASSUME NEW i \in 0 .. k PROVE SubSeq(SubSeq(u, 1, k), 1, i) = SubSeq(u, 1, i)
  <2>. DEFINE v == SubSeq(u, 1, k)
              a == SubSeq(v, 1, i)
              b == SubSeq(u, 1, i)
  <2>1. b \in Seq(S) /\ Len(b) = i /\ \A j \in 1 .. i : b[j] = u[j]  BY <1>1
  <2>2. v \in Seq(S) /\ Len(v) = k /\ \A j \in 1 .. k : v[j] = u[j]  BY <1>2
  <2>. HIDE DEF v, b
  <2>3. a \in Seq(S) /\ Len(a) = i /\ \A j \in 1 .. i : a[j] = v[j]  BY <2>2
  <2>. HIDE DEF a
  <2>4. \A j \in 1 .. i : a[j] = b[j]  BY <2>1, <2>2, <2>3
  <2>5. a = b  BY <2>1, <2>3, <2>4, SeqEqual
  <2>. QED  BY <2>5 DEF a, b, v
<1>4. Len(u) \in Nat /\ DOMAIN u = 1 .. Len(u) /\ IsList(SubSeq(u, 1, k))  BY <1>1, <1>2 DEF IsList
<1>5. DOMAIN SubSeq(u, 1, k) = 1 .. k  BY <1>2
<1>. QED  BY <1>2, <1>3, <1>4, <1>5

\* The places of a list, from the i-th on, that a count looks at.
Counted(u, i, what) == {j \in i .. Len(u) : u[j].what = what}
\* How many there are is a number.
LEMMA CountIs ==
    ASSUME NEW u, IsList(u), NEW i \in Nat, NEW what
    PROVE  /\ Count(u, i, what) = Cardinality(Counted(u, i, what))
           /\ Count(u, i, what) \in Nat /\ IsFiniteSet(Counted(u, i, what))
<1>1. Len(u) \in Nat  BY DEF IsList
<1>2. IsFiniteSet(i .. Len(u))  BY <1>1, FS_Interval
<1>3. Counted(u, i, what) \subseteq i .. Len(u)  BY DEF Counted
<1>4. IsFiniteSet(Counted(u, i, what))  BY <1>2, <1>3, FS_Subset
<1>. QED  BY <1>4, FS_CardinalityType DEF Count, Counted

\* What a count is of a list with one entry more.
LEMMA CountGrows ==
    ASSUME NEW u, IsList(u), NEW e, NEW what, NEW i \in 1 .. Len(u) + 1
    PROVE  Count(Append(u, e), i, what) = Count(u, i, what) + (IF e.what = what THEN 1 ELSE 0)
<1>. DEFINE n == Len(u)
            v == Append(u, e)
            old == Counted(u, i, what)
            new == Counted(v, i, what)
<1>1. /\ n \in Nat /\ Len(v) = n + 1 /\ (\A j \in 1 .. n : v[j] = u[j]) /\ v[n + 1] = e
      /\ IsList(v)
  BY ListGrows
<1>2. i \in Nat /\ i >= 1 /\ i <= n + 1  BY <1>1
<1>. HIDE DEF v, n
<1>3. /\ Count(u, i, what) = Cardinality(old) /\ Count(v, i, what) = Cardinality(new)
      /\ IsFiniteSet(old) /\ Cardinality(old) \in Nat
  BY <1>1, <1>2, CountIs
<1>4. CASE e.what = what
  <2>1. new = old \cup {n + 1} /\ n + 1 \notin old
    BY <1>1, <1>2, <1>4 DEF Counted, n
  <2>2. Cardinality(old \cup {n + 1}) = Cardinality(old) + 1
    <3>. HIDE DEF old, new
    <3>. QED  BY <1>3, <2>1, FS_AddElement
  <2>. HIDE DEF old, new
  <2>. QED  BY <1>3, <1>4, <2>1, <2>2 DEF v
<1>5. CASE e.what # what
  <2>1. new = old  BY <1>1, <1>2, <1>5 DEF Counted, n
  <2>. HIDE DEF old, new
  <2>. QED  BY <1>3, <1>5, <2>1 DEF v
<1>. QED  BY <1>4, <1>5

\* What is counted in a list from a place, and from the next.
LEMMA CountFrom ==
    ASSUME NEW u, IsList(u), NEW what
    PROVE  /\ Count(u, Len(u) + 1, what) = 0
           /\ \A i \in 1 .. Len(u) :
                Count(u, i, what) = Count(u, i + 1, what) + (IF u[i].what = what THEN 1 ELSE 0)
<1>. DEFINE n == Len(u)
            From(i) == Counted(u, i, what)
<1>1. n \in Nat  BY DEF IsList
<1>2. From(n + 1) = {}  BY <1>1 DEF Counted
<1>3. \A i \in Nat : /\ Count(u, i, what) = Cardinality(From(i)) /\ IsFiniteSet(From(i))
                     /\ Cardinality(From(i)) \in Nat
  BY CountIs
<1>4. ASSUME NEW i \in 1 .. n
      PROVE  Count(u, i, what) = Count(u, i + 1, what) + (IF u[i].what = what THEN 1 ELSE 0)
  <2>1. i \in Nat /\ i + 1 \in Nat /\ i <= n  BY <1>1
  <2>2. CASE u[i].what = what
    <3>1. From(i) = From(i + 1) \cup {i} /\ i \notin From(i + 1)
      BY <1>1, <2>1, <2>2 DEF Counted
    <3>. HIDE DEF From
    <3>2. Cardinality(From(i + 1) \cup {i}) = Cardinality(From(i + 1)) + 1
      BY <1>3, <2>1, <3>1, FS_AddElement
    <3>. QED  BY <1>3, <2>1, <2>2, <3>1, <3>2
  <2>3. CASE u[i].what # what
    <3>1. From(i) = From(i + 1)  BY <1>1, <2>1, <2>3 DEF Counted
    <3>. HIDE DEF From
    <3>. QED  BY <1>3, <2>1, <2>3, <3>1
  <2>. QED  BY <2>2, <2>3
<1>5. Count(u, n + 1, what) = 0
  <2>1. n + 1 \in Nat  BY <1>1
  <2>. HIDE DEF n
  <2>. QED  BY <1>2, <1>3, <2>1, FS_EmptySet
<1>. QED  BY <1>4, <1>5

\* A count is of the first k entries, and of the rest.
LEMMA CountSplits ==
    ASSUME NEW u, IsList(u), NEW what, NEW k \in 0 .. Len(u), NEW i \in 1 .. k + 1
    PROVE  Count(u, i, what) = Count(SubSeq(u, 1, k), i, what) + Count(u, k + 1, what)
<1>. DEFINE n == Len(u)
            v == SubSeq(u, 1, k)
            first == Counted(v, i, what)
            rest == Counted(u, k + 1, what)
            all == Counted(u, i, what)
<1>1. /\ n \in Nat /\ k \in Nat /\ i \in Nat /\ Len(v) = k /\ IsList(v)
      /\ \A j \in 1 .. k : v[j] = u[j]
  <2>1. n \in Nat  BY DEF IsList
  <2>. QED  BY <2>1, ListCut
<1>2. k <= n /\ i >= 1 /\ i <= k + 1 /\ k + 1 \in Nat  BY <1>1
<1>. HIDE DEF v
<1>3. /\ Count(u, i, what) = Cardinality(all) /\ Count(v, i, what) = Cardinality(first)
      /\ Count(u, k + 1, what) = Cardinality(rest) /\ IsFiniteSet(first) /\ IsFiniteSet(rest)
      /\ Cardinality(first) \in Nat /\ Cardinality(rest) \in Nat
  BY <1>1, <1>2, CountIs
<1>. HIDE DEF n
<1>4. all = first \cup rest /\ first \cap rest = {}
  BY <1>1, <1>2 DEF Counted, n
<1>. HIDE DEF all, first, rest
<1>5. Cardinality(first \cup rest) = Cardinality(first) + Cardinality(rest) - Cardinality(first \cap rest)
  BY <1>3, FS_Union
<1>6. Cardinality(first \cap rest) = 0  BY <1>4, FS_EmptySet
<1>. QED  BY <1>3, <1>4, <1>5, <1>6 DEF v

\* Every place of a list has a latest.
LEMMA LatestIs ==
    ASSUME NEW n \in Nat, NEW s, s \subseteq 1 .. n, s # {}
    PROVE  Latest(s) \in s /\ \A j \in s : j <= Latest(s)
<1>. DEFINE D == {n - x : x \in s}
<1>1. D \subseteq Nat /\ D # {}
  <2>1. \A x \in s : n - x \in Nat  OBVIOUS
  <2>. QED  BY <2>1
<1>2. PICK k \in D : \A m \in D : k <= m
  <2>. HIDE DEF D
  <2>. QED  BY <1>1, LowestIs
<1>3. PICK x \in s : k = n - x  BY <1>2
<1>4. ASSUME NEW y \in s PROVE y <= x
  <2>1. n - y \in D  OBVIOUS
  <2>2. n - x <= n - y  BY <2>1, <1>2, <1>3
  <2>3. x \in Int /\ y \in Int  OBVIOUS
  <2>. QED  BY <2>2, <2>3
<1>. QED  BY <1>4 DEF Latest

\* All of a list is the list.
LEMMA WholeCut ==
    ASSUME NEW u, IsList(u)
    PROVE  SubSeq(u, 1, Len(u)) = u
<1>1. PICK S : u \in Seq(S)  BY DEF IsList
<1>2. /\ SubSeq(u, 1, Len(u)) \in Seq(S) /\ Len(SubSeq(u, 1, Len(u))) = Len(u)
      /\ \A i \in 1 .. Len(u) : SubSeq(u, 1, Len(u))[i] = u[i]
  BY <1>1
<1>. QED  BY <1>1, <1>2, SeqEqual

\* A list that is sound has no more ends than begins, and fewer where a group is open.
LEMMA SoundCounts ==
    ASSUME NEW u, IsList(u), Sound(u)
    PROVE  /\ Count(u, 1, "end") <= Count(u, 1, "begin")
           /\ OpenBy(u, 1) => Count(u, 1, "end") < Count(u, 1, "begin")
<1>. DEFINE n == Len(u)
<1>1. n \in Nat /\ DOMAIN u = 1 .. n  BY DEF IsList
<1>2. \A k \in 0 .. n : /\ Count(SubSeq(u, 1, k), 1, "end") \in Nat
                        /\ Count(SubSeq(u, 1, k), 1, "begin") \in Nat
  BY ListCut, CountIs
<1>3. ASSUME NEW k \in 0 .. n
      PROVE  Count(SubSeq(u, 1, k), 1, "end") <= Count(SubSeq(u, 1, k), 1, "begin")
  <2>1. CASE k = 0
    <3>. DEFINE v == SubSeq(u, 1, k)
    <3>1. IsList(v) /\ Len(v) = 0  BY <2>1, ListCut
    <3>. HIDE DEF v
    <3>2. Count(v, Len(v) + 1, "end") = 0 /\ Count(v, Len(v) + 1, "begin") = 0  BY <3>1, CountFrom
    <3>3. Len(v) + 1 = 1  BY <3>1
    <3>. QED  BY <3>2, <3>3 DEF v
  <2>2. CASE k # 0
    <3>1. k \in DOMAIN u  BY <1>1, <2>2
    <3>. QED  BY <3>1 DEF Sound
  <2>. QED  BY <2>1, <2>2
<1>4. Count(u, 1, "end") <= Count(u, 1, "begin")
  <2>1. n \in 0 .. n  BY <1>1
  <2>. QED  BY <1>3, <2>1, WholeCut
<1>5. ASSUME OpenBy(u, 1) PROVE Count(u, 1, "end") < Count(u, 1, "begin")
  <2>1. PICK i \in 1 .. n : Count(u, i, "end") + 1 <= Count(u, i, "begin")
    BY <1>1, <1>5 DEF OpenBy
  <2>. DEFINE k == i - 1
  <2>2. k \in 0 .. n /\ 1 \in 1 .. k + 1 /\ k + 1 = i /\ i \in Nat  BY <1>1
  <2>. HIDE DEF k
  <2>3. \A w : Count(u, 1, w) = Count(SubSeq(u, 1, k), 1, w) + Count(u, i, w)
    <3>1. \A w : Count(u, 1, w) = Count(SubSeq(u, 1, k), 1, w) + Count(u, k + 1, w)
      BY <2>2, CountSplits
    <3>. QED  BY <2>2, <3>1
  <2>4. Count(u, i, "end") \in Nat /\ Count(u, i, "begin") \in Nat  BY <2>2, CountIs
  <2>. QED  BY <1>2, <1>3, <2>1, <2>2, <2>3, <2>4
<1>. QED  BY <1>4, <1>5

\* The start of a sound list is sound.
LEMMA SoundCut ==
    ASSUME NEW u, IsList(u), Sound(u), NEW k \in 0 .. Len(u)
    PROVE  Sound(SubSeq(u, 1, k))
<1>. DEFINE v == SubSeq(u, 1, k)
<1>1. /\ Len(u) \in Nat /\ DOMAIN u = 1 .. Len(u) /\ DOMAIN v = 1 .. k
      /\ \A i \in 0 .. k : SubSeq(v, 1, i) = SubSeq(u, 1, i)
  BY ListCut
<1>. HIDE DEF v
<1>2. ASSUME NEW i \in DOMAIN v
      PROVE  Count(SubSeq(v, 1, i), 1, "end") <= Count(SubSeq(v, 1, i), 1, "begin")
  <2>1. i \in DOMAIN u /\ SubSeq(v, 1, i) = SubSeq(u, 1, i)  BY <1>1
  <2>. QED  BY <2>1 DEF Sound
<1>3. Sound(v)  BY <1>2 DEF Sound
<1>. QED  BY <1>3 DEF v

\* A sound list stays so with an entry that is no end, or ends an open group.
LEMMA SoundGrows ==
    ASSUME NEW u, IsList(u), Sound(u), NEW e, e.what = "end" => OpenBy(u, 1)
    PROVE  Sound(Append(u, e))
<1>. DEFINE n == Len(u)
            v == Append(u, e)
<1>1. /\ n \in Nat /\ IsList(v) /\ Len(v) = n + 1 /\ SubSeq(v, 1, n) = u /\ DOMAIN u = 1 .. n
  BY ListGrows
<1>2. DOMAIN v = 1 .. n + 1  BY <1>1 DEF IsList
<1>3. \A w : Count(v, 1, w) = Count(u, 1, w) + (IF e.what = w THEN 1 ELSE 0)
  <2>1. 1 \in 1 .. Len(u) + 1  BY <1>1
  <2>. QED  BY <2>1, CountGrows
<1>4. Count(u, 1, "end") \in Nat /\ Count(u, 1, "begin") \in Nat  BY CountIs
<1>. HIDE DEF v
<1>5. ASSUME NEW i \in DOMAIN v
      PROVE  Count(SubSeq(v, 1, i), 1, "end") <= Count(SubSeq(v, 1, i), 1, "begin")
  <2>1. CASE i \in 1 .. n
    <3>1. SubSeq(SubSeq(v, 1, n), 1, i) = SubSeq(v, 1, i)
      <4>1. n \in 0 .. Len(v) /\ i \in 0 .. n  BY <1>1, <2>1
      <4>. QED  BY <1>1, <4>1, ListCut
    <3>. QED  BY <1>1, <2>1, <3>1 DEF Sound
  <2>2. CASE i = n + 1
    <3>1. SubSeq(v, 1, i) = v  BY <1>1, <2>2, WholeCut
    <3>2. Count(v, 1, "end") <= Count(v, 1, "begin")
      <4>1. CASE e.what = "end"
        <5>1. Count(u, 1, "end") < Count(u, 1, "begin")  BY <4>1, SoundCounts
        <5>2. Count(v, 1, "end") = Count(u, 1, "end") + 1  BY <1>3, <4>1
        <5>3. Count(v, 1, "begin") = Count(u, 1, "begin") + 0  BY <1>3, <4>1
        <5>. QED  BY <1>4, <5>1, <5>2, <5>3
      <4>2. CASE e.what # "end"
        <5>1. Count(u, 1, "end") <= Count(u, 1, "begin")  BY SoundCounts
        <5>2. Count(v, 1, "end") = Count(u, 1, "end") + 0  BY <1>3, <4>2
        <5>3. \/ Count(v, 1, "begin") = Count(u, 1, "begin") + 0
              \/ Count(v, 1, "begin") = Count(u, 1, "begin") + 1
          BY <1>3
        <5>. QED  BY <1>4, <5>1, <5>2, <5>3
      <4>. QED  BY <4>1, <4>2
    <3>. QED  BY <3>1, <3>2
  <2>. QED  BY <1>1, <1>2, <2>1, <2>2
<1>6. Sound(v)  BY <1>5 DEF Sound
<1>. QED  BY <1>6 DEF v

\* Fewer groups are open too.
LEMMA OpenLess ==
    ASSUME NEW u, IsList(u), NEW m \in Nat, OpenBy(u, m), NEW k \in 0 .. m
    PROVE  OpenBy(u, k)
<1>1. DOMAIN u \subseteq Nat  BY DEF IsList
<1>2. \A i \in DOMAIN u : Count(u, i, "end") \in Nat /\ Count(u, i, "begin") \in Nat
  BY <1>1, CountIs
<1>3. k \in Nat /\ k <= m  OBVIOUS
<1>. QED  BY <1>2, <1>3 DEF OpenBy

\* How many are open with an entry more.
LEMMA OpenGrows ==
    ASSUME NEW u, IsList(u), NEW m \in Nat, OpenBy(u, m), NEW e
    PROVE  /\ e.what # "end" => OpenBy(Append(u, e), m)
           /\ e.what = "begin" => OpenBy(Append(u, e), m + 1)
           /\ m >= 1 => OpenBy(Append(u, e), m - 1)
<1>. DEFINE n == Len(u)
            v == Append(u, e)
            B(i) == Count(u, i, "begin")
            E(i) == Count(u, i, "end")
            more(w) == IF e.what = w THEN 1 ELSE 0
<1>1. n \in Nat /\ IsList(v) /\ Len(v) = n + 1 /\ DOMAIN u = 1 .. n  BY ListGrows
<1>2. DOMAIN v = 1 .. n + 1  BY <1>1 DEF IsList
<1>3. \A i \in 1 .. n + 1 : /\ Count(v, i, "begin") = B(i) + more("begin")
                           /\ Count(v, i, "end") = E(i) + more("end")
                           /\ B(i) \in Nat /\ E(i) \in Nat
  <2>1. \A i \in 1 .. n + 1 : i \in Nat  BY <1>1
  <2>. QED  BY <2>1, CountGrows, CountIs
<1>4. B(n + 1) = 0 /\ E(n + 1) = 0  BY CountFrom
<1>5. n + 1 \in DOMAIN v /\ n + 1 \in 1 .. n + 1 /\ \A i \in 1 .. n : i \in DOMAIN v /\ i \in 1 .. n + 1
  BY <1>1, <1>2
<1>6. m = 0 \/ \E i \in 1 .. n : E(i) + m <= B(i)  BY <1>1 DEF OpenBy
<1>. HIDE DEF v, n, B, E
<1>7. ASSUME e.what # "end" PROVE OpenBy(v, m)
  <2>1. CASE m = 0  BY <2>1 DEF OpenBy
  <2>2. CASE m # 0
    <3>1. PICK i \in 1 .. n : E(i) + m <= B(i)  BY <1>6, <2>2
    <3>2. Count(v, i, "end") = E(i) + 0  BY <1>3, <1>5, <1>7
    <3>3. Count(v, i, "begin") = B(i) + 0 \/ Count(v, i, "begin") = B(i) + 1  BY <1>3, <1>5
    <3>4. Count(v, i, "end") + m <= Count(v, i, "begin")  BY <1>3, <1>5, <3>1, <3>2, <3>3
    <3>. QED  BY <1>5, <3>4 DEF OpenBy
  <2>. QED  BY <2>1, <2>2
<1>8. ASSUME e.what = "begin" PROVE OpenBy(v, m + 1)
  <2>1. PICK i \in 1 .. n + 1 : E(i) + m <= B(i)
    <3>1. CASE m = 0  BY <1>4, <1>5, <3>1
    <3>2. CASE m # 0  BY <1>5, <1>6, <3>2
    <3>. QED  BY <3>1, <3>2
  <2>2. Count(v, i, "end") = E(i) + 0 /\ Count(v, i, "begin") = B(i) + 1  BY <1>3, <1>8
  <2>3. Count(v, i, "end") + (m + 1) <= Count(v, i, "begin")  BY <1>3, <2>1, <2>2
  <2>. QED  BY <1>2, <2>3 DEF OpenBy
<1>9. ASSUME m >= 1 PROVE OpenBy(v, m - 1)
  <2>1. PICK i \in 1 .. n : E(i) + m <= B(i)  BY <1>6, <1>9
  <2>2. Count(v, i, "end") = E(i) + 0 \/ Count(v, i, "end") = E(i) + 1  BY <1>3, <1>5
  <2>3. Count(v, i, "begin") = B(i) + 0 \/ Count(v, i, "begin") = B(i) + 1  BY <1>3, <1>5
  <2>4. Count(v, i, "end") + (m - 1) <= Count(v, i, "begin")  BY <1>3, <1>5, <1>9, <2>1, <2>2, <2>3
  <2>. QED  BY <1>5, <2>4 DEF OpenBy
<1>. QED  BY <1>7, <1>8, <1>9 DEF v

\* An undo takes something back, from a place of the list.
LEMMA NewestIs ==
    ASSUME NEW u, IsList(u), u # <<>>
    PROVE  NewestStart(u) \in 1 .. Len(u) /\ Len(u) \in Nat
<1>1. Len(u) \in Nat /\ DOMAIN u = 1 .. Len(u) /\ Len(u) # 0  BY DEF IsList
<1>2. Balanced(u) # {} => Latest(Balanced(u)) \in 1 .. Len(u)
  <2>1. Balanced(u) \subseteq 1 .. Len(u)  BY <1>1 DEF Balanced
  <2>. QED  BY <1>1, <2>1, LatestIs
<1>. QED  BY <1>1, <1>2 DEF NewestStart

\* An undo after an end takes back no more than the group: those that were open
\* are.
LEMMA OpenCut ==
    ASSUME NEW u, IsList(u), u # <<>>, Last(u).what = "end", NEW m \in Nat, OpenBy(u, m)
    PROVE  OpenBy(SubSeq(u, 1, NewestStart(u) - 1), m)
<1>. DEFINE n == Len(u)
            B(i) == Count(u, i, "begin")
            E(i) == Count(u, i, "end")
            first == NewestStart(u)
<1>1. n \in Nat /\ DOMAIN u = 1 .. n /\ n >= 1 /\ first \in 1 .. n
  <2>1. Len(u) \in Nat /\ DOMAIN u = 1 .. Len(u) /\ Len(u) # 0  BY DEF IsList
  <2>. QED  BY <2>1, NewestIs
<1>2. SUFFICES ASSUME m >= 1 PROVE OpenBy(SubSeq(u, 1, first - 1), m)  BY DEF OpenBy
<1>3. PICK i \in 1 .. n : E(i) + m <= B(i)  BY <1>1, <1>2 DEF OpenBy
<1>4. \A j \in 1 .. n + 1 : B(j) \in Nat /\ E(j) \in Nat
  <2>1. \A j \in 1 .. n + 1 : j \in Nat  BY <1>1
  <2>. QED  BY <2>1, CountIs
<1>5. /\ B(n + 1) = 0 /\ E(n + 1) = 0
      /\ \A j \in 1 .. n : /\ B(j) = B(j + 1) + (IF u[j].what = "begin" THEN 1 ELSE 0)
                          /\ E(j) = E(j + 1) + (IF u[j].what = "end" THEN 1 ELSE 0)
  BY CountFrom
<1>6. u[n].what = "end"  BY DEF Last
<1>. HIDE DEF n, B, E
<1>7. E(n) = 1 /\ B(n) = 0
  <2>1. n \in 1 .. n  BY <1>1
  <2>. QED  BY <1>5, <1>6, <2>1
<1>. DEFINE s == {j \in 1 .. n : i <= j /\ E(j) <= B(j)}
            k == Latest(s)
<1>8. k \in s /\ \A j \in s : j <= k
  <2>1. i \in s  BY <1>1, <1>2, <1>3, <1>4
  <2>2. s \subseteq 1 .. n  OBVIOUS
  <2>. HIDE DEF s
  <2>. QED  BY <1>1, <2>1, <2>2, LatestIs
<1>9. k \in 1 .. n /\ i <= k /\ E(k) <= B(k) /\ \A j \in 1 .. n : (i <= j /\ E(j) <= B(j)) => j <= k
  BY <1>8
<1>. HIDE DEF k, s
<1>10. k # n  BY <1>7, <1>9
<1>11. k + 1 \in 1 .. n /\ ~(E(k + 1) <= B(k + 1))
  <2>1. k + 1 \in 1 .. n /\ i <= k + 1  BY <1>1, <1>9, <1>10
  <2>. QED  BY <1>9, <2>1
<1>12. B(k) = E(k) /\ k # i
  <2>1. B(k) <= B(k + 1) + 1 /\ E(k + 1) <= E(k)
    <3>1. B(k + 1) \in Nat /\ E(k + 1) \in Nat  BY <1>1, <1>4, <1>11
    <3>. QED  BY <1>5, <1>9, <3>1
  <2>2. B(k) \in Nat /\ E(k) \in Nat /\ B(k + 1) \in Nat /\ E(k + 1) \in Nat
    BY <1>1, <1>4, <1>9, <1>11
  <2>3. B(k) = E(k)  BY <1>9, <1>11, <2>1, <2>2
  <2>. QED  BY <1>2, <1>3, <2>2, <2>3
<1>13. first = Latest(Balanced(u)) /\ first \in Balanced(u) /\ k <= first
  <2>1. k \in Balanced(u) /\ Balanced(u) \subseteq 1 .. n
    BY <1>1, <1>9, <1>12 DEF Balanced, B, E
  <2>2. first = Latest(Balanced(u))  BY <2>1 DEF NewestStart
  <2>. HIDE DEF first
  <2>. QED  BY <1>1, <2>1, <2>2, LatestIs
<1>. HIDE DEF first
<1>14. E(first) = B(first)  BY <1>13 DEF Balanced, E, B
<1>. DEFINE c == first - 1
            v == SubSeq(u, 1, c)
<1>15. c \in 0 .. n /\ i \in 1 .. c + 1 /\ c + 1 = first /\ i \in 1 .. c
  BY <1>1, <1>3, <1>9, <1>12, <1>13
<1>16. /\ B(i) = Count(v, i, "begin") + B(first) /\ E(i) = Count(v, i, "end") + E(first)
  <2>. HIDE DEF c
  <2>1. \A w : Count(u, i, w) = Count(v, i, w) + Count(u, c + 1, w)
    BY <1>15, CountSplits DEF n
  <2>. QED  BY <1>15, <2>1 DEF B, E
<1>17. /\ Count(v, i, "begin") \in Nat /\ Count(v, i, "end") \in Nat /\ DOMAIN v = 1 .. c
       /\ B(first) \in Nat
  <2>1. IsList(v) /\ DOMAIN v = 1 .. c
    <3>. HIDE DEF c
    <3>. QED  BY <1>15, ListCut DEF n
  <2>2. i \in Nat  OBVIOUS
  <2>. HIDE DEF v
  <2>. QED  BY <1>1, <1>4, <2>1, <2>2, CountIs
<1>18. Count(v, i, "end") + m <= Count(v, i, "begin")  BY <1>3, <1>14, <1>16, <1>17
<1>19. OpenBy(v, m)  BY <1>15, <1>17, <1>18 DEF OpenBy
<1>. QED  BY <1>19

-----------------------------------------------------------------------------
(* LispSteps: lines and groups, as a step leaves them. *)

GroupOK(g) ==
    /\ g.is \in {"none", "closed", "lost", "open"}
    /\ g.is = "open" => g.history \in Histories
\* readline's lists, place and count, and inkline's group.
LineState(at) ==
    /\ DOMAIN at = {"lines", "here", "point", "level", "group"}
    /\ at.here \in Histories /\ at.level \in Nat /\ GroupOK(at.group)
    /\ DOMAIN at.lines = Histories
    /\ \A h \in Histories : DOMAIN at.lines[h] = {"text", "undo"} /\ IsList(at.lines[h].undo)
UndoAt(at, h) == at.lines[h].undo
\* All but the list of the line it is on stays.
OnlyHere(at, to) ==
    /\ LineState(to) /\ to.here = at.here /\ to.level = at.level /\ to.group = at.group
    /\ \A h \in Histories : h # at.here => UndoAt(to, h) = UndoAt(at, h)

\* A line is given another line, and point.
LEMMA GivenIs ==
    ASSUME NEW at, LineState(at), NEW l, DOMAIN l = {"text", "undo"}, IsList(l.undo), NEW p
    PROVE  LET to == [at EXCEPT !.lines[at.here] = l, !.point = p] IN
           OnlyHere(at, to) /\ UndoAt(to, at.here) = l.undo
<1>. DEFINE g == [at.lines EXCEPT ![at.here] = l]
            mid == [at EXCEPT !.lines = g]
            to == [mid EXCEPT !.point = p]
<1>1. /\ DOMAIN at = {"lines", "here", "point", "level", "group"}
      /\ at.here \in Histories /\ at.level \in Nat /\ GroupOK(at.group)
      /\ DOMAIN at.lines = Histories
      /\ \A h \in Histories : DOMAIN at.lines[h] = {"text", "undo"} /\ IsList(at.lines[h].undo)
  BY DEF LineState
<1>2. DOMAIN g = Histories /\ \A h \in Histories : g[h] = IF h = at.here THEN l ELSE at.lines[h]
  BY <1>1
<1>. HIDE DEF g
<1>3. /\ DOMAIN mid = DOMAIN at /\ mid.lines = g /\ mid.here = at.here /\ mid.level = at.level
      /\ mid.group = at.group
  BY <1>1
<1>. HIDE DEF mid
<1>4. /\ DOMAIN to = DOMAIN at /\ to.lines = g /\ to.here = at.here /\ to.level = at.level
      /\ to.group = at.group
  BY <1>1, <1>3
<1>. HIDE DEF to
<1>5. LineState(to)  BY <1>1, <1>2, <1>4 DEF LineState
<1>6. OnlyHere(at, to) /\ UndoAt(to, at.here) = l.undo
  BY <1>1, <1>2, <1>4, <1>5 DEF OnlyHere, UndoAt
<1>. QED  BY <1>6 DEF to, mid, g

\* An entry is noted.
LEMMA NotedIs ==
    ASSUME NEW at, LineState(at), NEW e
    PROVE  OnlyHere(at, Noted(at, e)) /\ UndoAt(Noted(at, e), at.here) = Append(UndoAt(at, at.here), e)
<1>. DEFINE u == at.lines[at.here].undo
            l == [at.lines[at.here] EXCEPT !.undo = Append(u, e)]
            g == [at.lines EXCEPT ![at.here] = l]
            to == [at EXCEPT !.lines = g]
<1>1. /\ DOMAIN at = {"lines", "here", "point", "level", "group"}
      /\ at.here \in Histories /\ at.level \in Nat /\ GroupOK(at.group)
      /\ DOMAIN at.lines = Histories
      /\ \A h \in Histories : DOMAIN at.lines[h] = {"text", "undo"} /\ IsList(at.lines[h].undo)
  BY DEF LineState
<1>2. IsList(Append(u, e))  BY <1>1, ListGrows
<1>3. DOMAIN l = {"text", "undo"} /\ l.undo = Append(u, e)  BY <1>1
<1>. HIDE DEF l
<1>4. DOMAIN g = Histories /\ \A h \in Histories : g[h] = IF h = at.here THEN l ELSE at.lines[h]
  BY <1>1
<1>. HIDE DEF g
<1>5. /\ DOMAIN to = DOMAIN at /\ to.lines = g /\ to.here = at.here /\ to.level = at.level
      /\ to.group = at.group
  BY <1>1
<1>. HIDE DEF to
<1>6. LineState(to)  BY <1>1, <1>2, <1>3, <1>4, <1>5 DEF LineState
<1>7. OnlyHere(at, to) /\ UndoAt(to, at.here) = Append(u, e)
  BY <1>1, <1>3, <1>4, <1>5, <1>6 DEF OnlyHere, UndoAt
<1>8. Noted(at, e) = to  BY DEF Noted, to, g, l
<1>. QED  BY <1>7, <1>8 DEF UndoAt

\* A line is given another text, and point.
LEMMA TextIs ==
    ASSUME NEW at, LineState(at), NEW t, NEW p
    PROVE  LET to == [at EXCEPT !.lines[at.here].text = t, !.point = p] IN
           OnlyHere(at, to) /\ UndoAt(to, at.here) = UndoAt(at, at.here)
<1>. DEFINE l == [at.lines[at.here] EXCEPT !.text = t]
            to == [at EXCEPT !.lines[at.here] = l, !.point = p]
<1>1. DOMAIN l = {"text", "undo"} /\ l.undo = UndoAt(at, at.here) /\ IsList(l.undo)
  BY DEF LineState, UndoAt
<1>. HIDE DEF l
<1>2. OnlyHere(at, to) /\ UndoAt(to, at.here) = l.undo  BY <1>1, GivenIs
<1>. QED  BY <1>1, <1>2 DEF l

\* readline's count, or inkline's group, is set.
LEMMA SetIs ==
    ASSUME NEW at, LineState(at)
    PROVE  /\ \A n \in Nat : LET to == [at EXCEPT !.level = n] IN
              /\ LineState(to) /\ to.here = at.here /\ to.level = n /\ to.group = at.group
              /\ to.lines = at.lines
           /\ \A g : GroupOK(g) => LET to == [at EXCEPT !.group = g] IN
              /\ LineState(to) /\ to.here = at.here /\ to.level = at.level /\ to.group = g
              /\ to.lines = at.lines
           /\ \A p : LET to == [at EXCEPT !.point = p] IN
              /\ LineState(to) /\ to.here = at.here /\ to.level = at.level /\ to.group = at.group
              /\ to.lines = at.lines
  BY DEF LineState

\* An undo, or as many as there are.
LEMMA UndoneIs ==
    ASSUME NEW at, LineState(at), NEW first \in 1 .. Len(UndoAt(at, at.here)) + 1
    PROVE  /\ OnlyHere(at, UndoneFrom(at, first))
           /\ UndoAt(UndoneFrom(at, first), at.here) = SubSeq(UndoAt(at, at.here), 1, first - 1)
<1>. DEFINE was == at.lines[at.here]
            back == Undone(SubSeq(was.undo, first, Len(was.undo)),
                           [text |-> was.text, point |-> at.point])
            l == [text |-> back.text, undo |-> SubSeq(was.undo, 1, first - 1)]
            p == back.point
            to == [at EXCEPT !.lines[at.here] = l, !.point = p]
<1>1. UndoneFrom(at, first) = to  BY DEF UndoneFrom
<1>. HIDE DEF p
<1>2. IsList(SubSeq(was.undo, 1, first - 1))
  <2>1. IsList(was.undo) /\ first - 1 \in 0 .. Len(was.undo)
    <3>1. IsList(was.undo)  BY DEF LineState
    <3>2. Len(was.undo) \in Nat  BY <3>1 DEF IsList
    <3>. QED  BY <3>1, <3>2 DEF UndoAt
  <2>. QED  BY <2>1, ListCut
<1>. HIDE DEF back
<1>3. DOMAIN l = {"text", "undo"} /\ l.undo = SubSeq(was.undo, 1, first - 1)  OBVIOUS
<1>4. IsList(l.undo)  BY <1>2, <1>3
<1>. HIDE DEF l
<1>5. OnlyHere(at, to) /\ UndoAt(to, at.here) = l.undo  BY <1>3, <1>4, GivenIs
<1>. QED  BY <1>1, <1>3, <1>5 DEF UndoAt

\* The list of the line it is on is cut to its first k entries.
CutTo(at, to, k) ==
    /\ OnlyHere(at, to) /\ k \in 0 .. Len(UndoAt(at, at.here))
    /\ UndoAt(to, at.here) = SubSeq(UndoAt(at, at.here), 1, k)

\* An undo takes the newest entries off the list of its line; all of them, a revert.
LEMMA DoUndoIs ==
    ASSUME NEW at, LineState(at)
    PROVE  /\ IF UndoAt(at, at.here) = <<>> THEN DoUndo(at) = at
              ELSE CutTo(at, DoUndo(at), NewestStart(UndoAt(at, at.here)) - 1)
           /\ \E k \in 0 .. Len(UndoAt(at, at.here)) : CutTo(at, DoUndo(at), k)
           /\ CutTo(at, Revert(at), 0)
<1>. DEFINE u == UndoAt(at, at.here)
            first == NewestStart(u)
<1>1. IsList(u) /\ Len(u) \in Nat  BY DEF LineState, UndoAt, IsList
<1>2. CutTo(at, Revert(at), 0)
  <2>1. 1 \in 1 .. Len(u) + 1 /\ 0 \in 0 .. Len(u)  BY <1>1
  <2>2. OnlyHere(at, Revert(at)) /\ UndoAt(Revert(at), at.here) = SubSeq(u, 1, 1 - 1)
    BY <2>1, UndoneIs DEF Revert
  <2>. QED  BY <2>1, <2>2 DEF CutTo
<1>3. ASSUME u = <<>>
      PROVE  DoUndo(at) = at /\ 0 \in 0 .. Len(u) /\ CutTo(at, DoUndo(at), 0)
  <2>1. DoUndo(at) = at  BY <1>3 DEF DoUndo, UndoOf, UndoAt
  <2>2. OnlyHere(at, at)  BY DEF OnlyHere
  <2>3. SubSeq(u, 1, 0) = u
    <3>1. Len(u) = 0  BY <1>3
    <3>. HIDE DEF u
    <3>. QED  BY <1>1, <3>1, WholeCut
  <2>4. CutTo(at, at, 0)  BY <1>1, <2>2, <2>3 DEF CutTo
  <2>. QED  BY <1>1, <2>1, <2>4
<1>4. ASSUME u # <<>>
      PROVE  first - 1 \in 0 .. Len(u) /\ CutTo(at, DoUndo(at), first - 1)
  <2>1. first \in 1 .. Len(u)
    <3>. HIDE DEF u
    <3>. QED  BY <1>1, <1>4, NewestIs
  <2>2. DoUndo(at) = UndoneFrom(at, first)  BY <1>4 DEF DoUndo, UndoOf, UndoAt
  <2>. HIDE DEF first
  <2>. DEFINE to == UndoneFrom(at, first)
              k == first - 1
  <2>3. OnlyHere(at, to) /\ UndoAt(to, at.here) = SubSeq(u, 1, first - 1)
    <3>1. first \in 1 .. Len(u) + 1  BY <1>1, <2>1
    <3>. QED  BY <3>1, UndoneIs
  <2>4. k \in 0 .. Len(u)  BY <1>1, <2>1
  <2>5. CutTo(at, DoUndo(at), k)
    <3>. HIDE DEF u
    <3>. QED  BY <2>2, <2>3, <2>4 DEF CutTo, u
  <2>. QED  BY <2>4, <2>5
<1>. HIDE DEF u, first
<1>5. IF u = <<>> THEN DoUndo(at) = at ELSE CutTo(at, DoUndo(at), first - 1)
  BY <1>3, <1>4
<1>6. \E k \in 0 .. Len(u) : CutTo(at, DoUndo(at), k)  BY <1>3, <1>4
<1>. QED  BY <1>2, <1>5, <1>6 DEF u, first

\* What is sound stays so.
SoundKept(at, to) == \A h \in Histories : Sound(UndoAt(at, h)) => Sound(UndoAt(to, h))

\* A line whose list is cut stays sound.
LEMMA CutSound ==
    ASSUME NEW at, LineState(at), NEW to, NEW k, CutTo(at, to, k)
    PROVE  SoundKept(at, to)
<1>1. IsList(UndoAt(at, at.here))  BY DEF LineState, UndoAt
<1>. QED  BY <1>1, SoundCut DEF SoundKept, CutTo, OnlyHere

\* And one with an entry more, an end only of a group that is open.
LEMMA GrownSound ==
    ASSUME NEW at, LineState(at), NEW to, OnlyHere(at, to), NEW e,
           e.what = "end" => OpenBy(UndoAt(at, at.here), 1),
           UndoAt(to, at.here) = Append(UndoAt(at, at.here), e)
    PROVE  SoundKept(at, to)
<1>1. IsList(UndoAt(at, at.here))  BY DEF LineState, UndoAt
<1>. QED  BY <1>1, SoundGrows DEF SoundKept, OnlyHere

\* What readline has counted for a group, and whether it is open on a line.
Owed(g) == IF g.is \in {"open", "lost"} THEN 1 ELSE 0
OpenOn(g, h) == IF g.is = "open" /\ g.history = h THEN 1 ELSE 0
\* The groups of the step and of the one outside it are open on their lines.
HeldOpen(at, o) ==
    at.group.is # "lost" =>
        \A h \in Histories : OpenBy(UndoAt(at, h), OpenOn(at.group, h) + OpenOn(o, h))
\* What a step, inside another whose group is o, may leave.
Follows(at, to, o) ==
    /\ LineState(to) /\ (at.group.is # "none" => to.group.is # "none")
    /\ to.level + Owed(at.group) = at.level + Owed(to.group)
    /\ SoundKept(at, to)
    /\ HeldOpen(at, o) => HeldOpen(to, o)

\* What is done one after the other.
LEMMA FollowsOn ==
    ASSUME NEW at, LineState(at), NEW mid, NEW to, NEW o, Follows(at, mid, o), Follows(mid, to, o)
    PROVE  Follows(at, to, o)
  BY DEF Follows, SoundKept, LineState, Owed

\* A group begins.
LEMMA BeginIs ==
    ASSUME NEW at, LineState(at), at.group.is = "closed", NEW n, NEW o
    PROVE  LET to == [BeginGroup(at) EXCEPT
                          !.group = [is |-> "open", before |-> n, history |-> at.here]] IN
           /\ Follows(at, to, o) /\ to.here = at.here
           /\ to.group.is = "open" /\ to.group.history = at.here
<1>. DEFINE a == Noted(at, Begin)
            b == [a EXCEPT !.level = a.level + 1]
            g == [is |-> "open", before |-> n, history |-> at.here]
            to == [b EXCEPT !.group = g]
            u == UndoAt(at, at.here)
<1>1. OnlyHere(at, a) /\ UndoAt(a, at.here) = Append(u, Begin)  BY NotedIs
<1>. HIDE DEF a
<1>2. /\ LineState(a) /\ a.here = at.here /\ a.level = at.level /\ a.group = at.group
      /\ a.level + 1 \in Nat
  BY <1>1 DEF OnlyHere, LineState
<1>3. LineState(b) /\ b.here = at.here /\ b.level = at.level + 1 /\ b.lines = a.lines
  BY <1>2, SetIs
<1>. HIDE DEF b
<1>4. GroupOK(g)  BY DEF GroupOK, LineState
<1>5. g.is = "open" /\ g.history = at.here  OBVIOUS
<1>. HIDE DEF g
<1>6. /\ LineState(to) /\ to.here = at.here /\ to.level = at.level + 1 /\ to.group = g
      /\ to.lines = a.lines
  BY <1>3, <1>4, SetIs
<1>. HIDE DEF to
<1>7. \A h \in Histories : UndoAt(to, h) = IF h = at.here THEN Append(u, Begin) ELSE UndoAt(at, h)
  BY <1>1, <1>6 DEF OnlyHere, UndoAt
<1>8. SoundKept(at, to)
  <2>1. SoundKept(at, a)
    <3>1. Begin.what # "end"  BY DEF Begin
    <3>. QED  BY <1>1, <3>1, GrownSound
  <2>. QED  BY <2>1, <1>6 DEF SoundKept, UndoAt
<1>9. ASSUME HeldOpen(at, o) PROVE HeldOpen(to, o)
  <2>1. ASSUME NEW h \in Histories PROVE OpenBy(UndoAt(to, h), OpenOn(g, h) + OpenOn(o, h))
    <3>1. OpenBy(UndoAt(at, h), OpenOn(o, h)) /\ IsList(UndoAt(at, h)) /\ OpenOn(o, h) \in Nat
      <4>1. OpenOn(at.group, h) = 0 /\ OpenOn(o, h) \in {0, 1}  BY DEF OpenOn
      <4>2. OpenOn(at.group, h) + OpenOn(o, h) = OpenOn(o, h)  BY <4>1
      <4>. QED  BY <1>9, <4>1, <4>2 DEF HeldOpen, LineState, UndoAt
    <3>2. CASE h = at.here
      <4>1. OpenOn(g, h) = 1  BY <1>5, <3>2 DEF OpenOn
      <4>2. OpenBy(Append(UndoAt(at, h), Begin), OpenOn(o, h) + 1)
        <5>1. Begin.what = "begin"  BY DEF Begin
        <5>. QED  BY <3>1, <5>1, OpenGrows
      <4>3. OpenOn(g, h) + OpenOn(o, h) = OpenOn(o, h) + 1  BY <3>1, <4>1
      <4>4. UndoAt(to, h) = Append(UndoAt(at, h), Begin)  BY <1>7, <3>2
      <4>. QED  BY <4>2, <4>3, <4>4
    <3>3. CASE h # at.here
      <4>1. OpenOn(g, h) = 0  BY <1>5, <3>3 DEF OpenOn
      <4>2. OpenOn(g, h) + OpenOn(o, h) = OpenOn(o, h)  BY <3>1, <4>1
      <4>3. UndoAt(to, h) = UndoAt(at, h)  BY <1>7, <3>3
      <4>. QED  BY <3>1, <4>2, <4>3
    <3>. QED  BY <3>2, <3>3
  <2>. QED  BY <1>6, <2>1 DEF HeldOpen
<1>10. to.level + Owed(at.group) = at.level + Owed(to.group)
  <2>1. Owed(at.group) = 0 /\ Owed(to.group) = 1  BY <1>5, <1>6 DEF Owed
  <2>2. at.level \in Nat  BY DEF LineState
  <2>. QED  BY <1>6, <2>1, <2>2
<1>11. /\ Follows(at, to, o) /\ to.here = at.here
       /\ to.group.is = "open" /\ to.group.history = at.here
  BY <1>5, <1>6, <1>8, <1>9, <1>10 DEF Follows
<1>12. [BeginGroup(at) EXCEPT !.group = [is |-> "open", before |-> n, history |-> at.here]] = to
  BY DEF BeginGroup, to, b, a, g
<1>. QED  BY <1>11, <1>12

\* A group ends: readline's.
LEMMA EndIs ==
    ASSUME NEW at, LineState(at), at.level >= 1
    PROVE  /\ LineState(EndGroup(at)) /\ EndGroup(at).here = at.here
           /\ EndGroup(at).group = at.group /\ EndGroup(at).level = at.level - 1
           /\ \A h \in Histories : UndoAt(EndGroup(at), h) =
                  IF h = at.here THEN Append(UndoAt(at, h), End) ELSE UndoAt(at, h)
<1>. DEFINE a == Noted(at, End)
            b == [a EXCEPT !.level = a.level - 1]
<1>1. OnlyHere(at, a) /\ UndoAt(a, at.here) = Append(UndoAt(at, at.here), End)  BY NotedIs
<1>2. EndGroup(at) = b  BY DEF EndGroup
<1>. HIDE DEF a
<1>3. LineState(a) /\ a.here = at.here /\ a.level = at.level /\ a.group = at.group
  BY <1>1 DEF OnlyHere
<1>4. a.level - 1 \in Nat  BY <1>3 DEF LineState
<1>5. /\ LineState(b) /\ b.here = at.here /\ b.level = at.level - 1 /\ b.lines = a.lines
      /\ b.group = at.group
  BY <1>3, <1>4, SetIs
<1>. HIDE DEF b
<1>. QED  BY <1>1, <1>2, <1>5 DEF OnlyHere, UndoAt

\* A group is forgotten.
LEMMA ForgetIs ==
    ASSUME NEW at, LineState(at), at.level >= 1
    PROVE  /\ LineState(ForgetGroup(at)) /\ ForgetGroup(at).here = at.here
           /\ ForgetGroup(at).group = at.group /\ ForgetGroup(at).level = at.level - 1
           /\ ForgetGroup(at).lines = at.lines
<1>1. at.level > 0 /\ at.level - 1 \in Nat  BY DEF LineState
<1>2. ForgetGroup(at) = [at EXCEPT !.level = at.level - 1]  BY <1>1 DEF ForgetGroup
<1>. QED  BY <1>1, <1>2, SetIs

\* A group that is forgotten, as the line was left or its list freed.
LEMMA ForgottenIs ==
    ASSUME NEW at, LineState(at), Forgets(at), ~OpenHere(at), Owed(at.group) <= at.level, NEW o
    PROVE  LET to == [ForgetGroup(at) EXCEPT !.group = Closed] IN
           /\ CloseGroup(at) = to /\ LineState(to) /\ to.here = at.here /\ to.group = Closed
           /\ to.lines = at.lines /\ to.level = at.level - 1
           /\ at.group.is = "open" => Follows(at, to, o)
<1>. DEFINE a == ForgetGroup(at)
            to == [a EXCEPT !.group = Closed]
<1>1. Owed(at.group) = 1  BY DEF Forgets, Owed
<1>2. at.level \in Nat /\ at.level >= 1  BY <1>1 DEF LineState
<1>3. LineState(a) /\ a.here = at.here /\ a.level = at.level - 1 /\ a.lines = at.lines
  BY <1>2, ForgetIs
<1>4. CloseGroup(at) = to  BY DEF CloseGroup
<1>. HIDE DEF a
<1>5. GroupOK(Closed)  BY DEF GroupOK, Closed
<1>6. /\ LineState(to) /\ to.here = at.here /\ to.group = Closed /\ to.lines = at.lines
      /\ to.level = at.level - 1
  BY <1>3, <1>5, SetIs
<1>. HIDE DEF to
<1>7. ASSUME at.group.is = "open" PROVE Follows(at, to, o)
  <2>1. SoundKept(at, to)  BY <1>6 DEF SoundKept, UndoAt
  <2>2. ASSUME HeldOpen(at, o) PROVE HeldOpen(to, o)
    <3>1. ASSUME NEW h \in Histories PROVE OpenBy(UndoAt(to, h), OpenOn(Closed, h) + OpenOn(o, h))
      <4>1. UndoAt(to, h) = UndoAt(at, h) /\ IsList(UndoAt(at, h))
        BY <1>6 DEF UndoAt, LineState
      <4>2. OpenBy(UndoAt(at, h), OpenOn(at.group, h) + OpenOn(o, h))  BY <1>7, <2>2 DEF HeldOpen
      <4>3. /\ OpenOn(at.group, h) \in {0, 1} /\ OpenOn(o, h) \in {0, 1} /\ OpenOn(Closed, h) = 0
        BY DEF OpenOn, Closed
      <4>. DEFINE m == OpenOn(at.group, h) + OpenOn(o, h)
                  k == OpenOn(Closed, h) + OpenOn(o, h)
      <4>4. m \in Nat /\ k \in 0 .. m  BY <4>3
      <4>. HIDE DEF m, k
      <4>5. OpenBy(UndoAt(at, h), k)
        <5>1. OpenBy(UndoAt(at, h), m)  BY <4>2 DEF m
        <5>. QED  BY <4>1, <4>4, <5>1, OpenLess
      <4>. QED  BY <4>1, <4>5 DEF k
    <3>. QED  BY <1>6, <3>1 DEF HeldOpen
  <2>3. to.level + Owed(at.group) = at.level + Owed(to.group)
    <3>1. Owed(Closed) = 0  BY DEF Owed, Closed
    <3>. QED  BY <1>1, <1>2, <1>6, <3>1
  <2>4. to.group.is # "none"  BY <1>6 DEF Closed
  <2>. QED  BY <1>6, <2>1, <2>2, <2>3, <2>4 DEF Follows
<1>. QED  BY <1>4, <1>6, <1>7 DEF to, a

\* Before a change the step's group is open on the line, if it is not lost.
LEMMA BeforeChangeIs ==
    ASSUME NEW at, LineState(at), at.group.is # "none", Owed(at.group) <= at.level, NEW o
    PROVE  LET to == BeforeChange(at) IN
           /\ Follows(at, to, o) /\ to.here = at.here
           /\ to.group.is \in {"open", "lost"} /\ (to.group.is = "lost" <=> at.group.is = "lost")
           /\ to.group.is = "open" => to.group.history = at.here
<1>. DEFINE mid == IF at.group.is = "open" /\ ~OpenHere(at) THEN CloseGroup(at) ELSE at
            n == Len(UndoOf(mid))
            to == IF mid.group.is # "closed" THEN mid
                  ELSE [BeginGroup(mid) EXCEPT
                           !.group = [is |-> "open", before |-> n, history |-> mid.here]]
<1>1. BeforeChange(at) = to  BY DEF BeforeChange
<1>2. at.group.is \in {"closed", "lost", "open"}  BY DEF LineState, GroupOK
<1>3. Follows(at, at, o)  BY DEF Follows, SoundKept
<1>4. /\ Follows(at, mid, o) /\ mid.here = at.here
      /\ \/ at.group.is = "open" /\ ~OpenHere(at) /\ mid.group = Closed
         \/ ~(at.group.is = "open" /\ ~OpenHere(at)) /\ mid = at
  <2>1. CASE at.group.is = "open" /\ ~OpenHere(at)
    <3>1. Forgets(at)  BY <2>1 DEF Forgets, OpenHere
    <3>2. CloseGroup(at).here = at.here /\ CloseGroup(at).group = Closed /\ Follows(at, CloseGroup(at), o)
      BY <2>1, <3>1, ForgottenIs
    <3>3. mid = CloseGroup(at)  BY <2>1
    <3>. HIDE DEF mid
    <3>. QED  BY <2>1, <3>2, <3>3
  <2>2. CASE ~(at.group.is = "open" /\ ~OpenHere(at))
    <3>1. mid = at  BY <2>2
    <3>. HIDE DEF mid
    <3>. QED  BY <1>3, <2>2, <3>1
  <2>. QED  BY <2>1, <2>2
<1>. HIDE DEF mid, n
<1>5. CASE mid.group.is # "closed"
  <2>1. to = mid  BY <1>5
  <2>2. mid = at /\ mid.group.is # "closed"  BY <1>4, <1>5 DEF Closed
  <2>3. at.group.is = "open" => at.group.history = at.here  BY <1>4, <2>2, <1>5 DEF OpenHere, Closed
  <2>. HIDE DEF to
  <2>. QED  BY <1>1, <1>2, <1>3, <2>1, <2>2, <2>3
<1>6. CASE mid.group.is = "closed"
  <2>1. LineState(mid)  BY <1>4 DEF Follows
  <2>2. to = [BeginGroup(mid) EXCEPT
                 !.group = [is |-> "open", before |-> n, history |-> mid.here]]
    BY <1>6
  <2>3. /\ Follows(mid, to, o) /\ to.here = mid.here
        /\ to.group.is = "open" /\ to.group.history = mid.here
    BY <1>6, <2>1, <2>2, BeginIs
  <2>. HIDE DEF to
  <2>4. Follows(at, to, o)  BY <1>4, <2>3, FollowsOn
  <2>5. at.group.is # "lost"  BY <1>4, <1>6
  <2>. QED  BY <1>1, <1>4, <2>3, <2>4, <2>5
<1>. QED  BY <1>5, <1>6

\* A change of the line.
ChangedAs(at, t, p, e) == Noted([at EXCEPT !.lines[at.here].text = t, !.point = p], e)
\* It is noted, and leaves the groups as they are.
LEMMA EditIs ==
    ASSUME NEW at, LineState(at), NEW o,
           NEW t, NEW p, NEW e, e.what \in {"insert", "delete"}
    PROVE  LET to == ChangedAs(at, t, p, e) IN
           Follows(at, to, o) /\ to.here = at.here /\ to.group = at.group
<1>. DEFINE a == [at EXCEPT !.lines[at.here].text = t, !.point = p]
            to == Noted(a, e)
            u == UndoAt(at, at.here)
<1>1. OnlyHere(at, a) /\ UndoAt(a, at.here) = u  BY TextIs
<1>. HIDE DEF a
<1>2. LineState(a) /\ a.here = at.here  BY <1>1 DEF OnlyHere
<1>3. OnlyHere(a, to) /\ UndoAt(to, a.here) = Append(UndoAt(a, a.here), e)  BY <1>2, NotedIs
<1>. HIDE DEF to
<1>4. OnlyHere(at, to) /\ UndoAt(to, at.here) = Append(u, e)  BY <1>1, <1>2, <1>3 DEF OnlyHere
<1>5. SoundKept(at, to)
  <2>1. e.what # "end"  OBVIOUS
  <2>. QED  BY <1>4, <2>1, GrownSound
<1>6. ASSUME HeldOpen(at, o) PROVE HeldOpen(to, o)
  <2>1. ASSUME at.group.is # "lost", NEW h \in Histories
        PROVE  OpenBy(UndoAt(to, h), OpenOn(at.group, h) + OpenOn(o, h))
    <3>1. /\ OpenBy(UndoAt(at, h), OpenOn(at.group, h) + OpenOn(o, h)) /\ IsList(UndoAt(at, h))
          /\ OpenOn(at.group, h) + OpenOn(o, h) \in Nat
      BY <1>6, <2>1 DEF HeldOpen, LineState, UndoAt, OpenOn
    <3>2. CASE h = at.here
      <4>1. OpenBy(Append(UndoAt(at, h), e), OpenOn(at.group, h) + OpenOn(o, h))  BY <3>1, OpenGrows
      <4>. QED  BY <1>4, <3>2, <4>1
    <3>3. CASE h # at.here
      <4>1. UndoAt(to, h) = UndoAt(at, h)  BY <1>4, <3>3 DEF OnlyHere
      <4>. QED  BY <3>1, <4>1
    <3>. QED  BY <3>2, <3>3
  <2>. QED  BY <1>4, <2>1 DEF HeldOpen, OnlyHere
<1>7. Follows(at, to, o) /\ to.here = at.here /\ to.group = at.group
  BY <1>4, <1>5, <1>6 DEF Follows, OnlyHere
<1>. QED  BY <1>7 DEF to, a, ChangedAs

\* An insert.
LEMMA InsertedIs ==
    ASSUME NEW at, LineState(at), NEW o, NEW c
    PROVE  Follows(at, Inserted(at, c), o) /\ Inserted(at, c).here = at.here
           /\ Inserted(at, c).group = at.group
<1>. DEFINE t == Put(at.lines[at.here].text, at.point, c)
            p == at.point + 1
            e == [what |-> "insert", start |-> at.point]
<1>1. Inserted(at, c) = ChangedAs(at, t, p, e)  BY DEF Inserted, ChangedAs
<1>2. e.what \in {"insert", "delete"}  OBVIOUS
<1>. HIDE DEF t, p, e
<1>. QED  BY <1>1, <1>2, EditIs
\* A delete.
LEMMA DeletedIs ==
    ASSUME NEW at, LineState(at), NEW o
    PROVE  Follows(at, Deleted(at), o) /\ Deleted(at).here = at.here
           /\ Deleted(at).group = at.group
<1>. DEFINE t == Cut(at.lines[at.here].text, at.point - 1)
            p == at.point - 1
            e == [what |-> "delete", start |-> at.point - 1,
                  char |-> at.lines[at.here].text[at.point]]
<1>1. Deleted(at) = ChangedAs(at, t, p, e)  BY DEF Deleted, ChangedAs
<1>2. e.what \in {"insert", "delete"}  OBVIOUS
<1>. HIDE DEF t, p, e
<1>. QED  BY <1>1, <1>2, EditIs

\* A group open on its line is lost when its begin is gone, and only then.
LEMMA LoseIs ==
    ASSUME NEW at, LineState(at), NEW o
    PROVE  LET to == LoseIfFreed(at) IN
           /\ Follows(at, to, o) /\ to.here = at.here /\ to.lines = at.lines /\ to.level = at.level
           /\ to.group = at.group \/ (OpenHere(at) /\ to.group = Lost)
           /\ HeldOpen(at, o) => to.group = at.group
           /\ OpenHere(at) /\ to.group = at.group => OpenBy(UndoAt(at, at.here), 1)
<1>. DEFINE u == UndoAt(at, at.here)
            to == [at EXCEPT !.group = Lost]
<1>1. HasOpenGroup(u) <=> OpenBy(u, 1)
  <2>1. DOMAIN u \subseteq Nat /\ IsList(u)  BY DEF LineState, UndoAt, IsList
  <2>2. \A i \in DOMAIN u : Count(u, i, "end") \in Nat /\ Count(u, i, "begin") \in Nat
    BY <2>1, CountIs
  <2>. QED  BY <2>2 DEF HasOpenGroup, OpenBy
<1>2. HeldOpen(at, o) /\ OpenHere(at) => OpenBy(u, 1)
  <2>1. SUFFICES ASSUME HeldOpen(at, o), OpenHere(at) PROVE OpenBy(u, 1)  OBVIOUS
  <2>2. OpenBy(u, OpenOn(at.group, at.here) + OpenOn(o, at.here)) /\ IsList(u)
    BY <2>1 DEF HeldOpen, OpenHere, LineState, UndoAt
  <2>3. OpenOn(at.group, at.here) = 1 /\ OpenOn(o, at.here) \in {0, 1}  BY <2>1 DEF OpenOn, OpenHere
  <2>. DEFINE m == OpenOn(at.group, at.here) + OpenOn(o, at.here)
  <2>4. m \in Nat /\ 1 \in 0 .. m  BY <2>3
  <2>. HIDE DEF m, u
  <2>. QED  BY <2>2, <2>4, OpenLess DEF m
<1>3. CASE OpenHere(at) /\ ~HasOpenGroup(u)
  <2>1. LoseIfFreed(at) = to  BY <1>3 DEF LoseIfFreed, UndoOf, UndoAt
  <2>2. GroupOK(Lost)  BY DEF GroupOK, Lost
  <2>3. /\ LineState(to) /\ to.here = at.here /\ to.group = Lost /\ to.lines = at.lines
        /\ to.level = at.level
    BY <2>2, SetIs
  <2>4. Owed(Lost) = 1 /\ Owed(at.group) = 1  BY <1>3 DEF Owed, Lost, OpenHere
  <2>5. Follows(at, to, o)
    BY <2>3, <2>4 DEF Follows, SoundKept, UndoAt, Lost, HeldOpen
  <2>6. ~ HeldOpen(at, o) /\ Lost # at.group  BY <1>1, <1>2, <1>3 DEF Lost, OpenHere
  <2>. HIDE DEF to, u
  <2>. QED  BY <1>3, <2>1, <2>3, <2>5, <2>6
<1>4. CASE ~(OpenHere(at) /\ ~HasOpenGroup(u))
  <2>1. LoseIfFreed(at) = at  BY <1>4 DEF LoseIfFreed, UndoOf, UndoAt
  <2>2. Follows(at, at, o)  BY DEF Follows, SoundKept
  <2>. HIDE DEF u
  <2>. QED  BY <1>1, <1>4, <2>1, <2>2 DEF u
<1>. QED  BY <1>3, <1>4

\* Another history line.
LEMMA MovedIs ==
    ASSUME NEW at, LineState(at), NEW h \in Histories, NEW o
    PROVE  Follows(at, Moved(at, h), o) /\ Moved(at, h).here = h /\ Moved(at, h).group = at.group
           /\ Moved(at, h).lines = at.lines /\ Moved(at, h).level = at.level
<1>. DEFINE p == Len(at.lines[h].text)
            a == [at EXCEPT !.here = h]
            to == [a EXCEPT !.point = p]
<1>1. /\ LineState(a) /\ a.here = h /\ a.group = at.group /\ a.lines = at.lines
      /\ a.level = at.level
  BY DEF LineState
<1>2. Moved(at, h) = to  BY DEF Moved
<1>. HIDE DEF a, p
<1>3. LineState(to) /\ to.here = h /\ to.group = at.group /\ to.lines = at.lines /\ to.level = at.level
  BY <1>1, SetIs
<1>. HIDE DEF to
<1>. QED  BY <1>2, <1>3 DEF Follows, SoundKept, UndoAt, HeldOpen

\* The line's list is freed: a group that was open on it is lost.
LEMMA FreedListIs ==
    ASSUME NEW at, LineState(at), NEW o,
           at.group.is = "lost" \/ (at.group.is = "open" /\ at.group.history = at.here)
    PROVE  LET to == LoseIfFreed(ListFreed(at)) IN
           Follows(at, to, o) /\ to.here = at.here /\ to.group.is = "lost"
<1>. DEFINE u == at.lines[at.here].undo
            l == [at.lines[at.here] EXCEPT !.undo = <<>>]
            g == [at.lines EXCEPT ![at.here] = l]
            f == [at EXCEPT !.lines = g]
            to == LoseIfFreed(f)
            none == [is |-> "none"]
<1>1. /\ DOMAIN at = {"lines", "here", "point", "level", "group"}
      /\ at.here \in Histories /\ at.level \in Nat /\ GroupOK(at.group)
      /\ DOMAIN at.lines = Histories
      /\ \A h \in Histories : DOMAIN at.lines[h] = {"text", "undo"} /\ IsList(at.lines[h].undo)
  BY DEF LineState
<1>2. IsList(<<>>) /\ Sound(<<>>) /\ ~HasOpenGroup(<<>>)
  <2>1. <<>> \in Seq({})  OBVIOUS
  <2>. QED  BY <2>1 DEF IsList, Sound, HasOpenGroup
<1>3. DOMAIN l = {"text", "undo"} /\ l.undo = <<>>  BY <1>1
<1>. HIDE DEF l
<1>4. DOMAIN g = Histories /\ \A h \in Histories : g[h] = IF h = at.here THEN l ELSE at.lines[h]
  BY <1>1
<1>. HIDE DEF g
<1>5. /\ DOMAIN f = DOMAIN at /\ f.lines = g /\ f.here = at.here /\ f.level = at.level
      /\ f.group = at.group
  BY <1>1
<1>6. ListFreed(at) = f  BY DEF ListFreed, f, g, l
<1>. HIDE DEF f
<1>7. LineState(f)  BY <1>1, <1>2, <1>3, <1>4, <1>5 DEF LineState
<1>8. SoundKept(at, f)  BY <1>2, <1>3, <1>4, <1>5 DEF SoundKept, UndoAt
<1>9. UndoAt(f, f.here) = <<>>  BY <1>1, <1>3, <1>4, <1>5 DEF UndoAt
<1>10. /\ LineState(to) /\ to.here = at.here /\ to.group.is = "lost" /\ to.lines = f.lines
       /\ to.level = at.level
  <2>1. CASE at.group.is = "lost"
    <3>1. ~OpenHere(f)  BY <1>5, <2>1 DEF OpenHere
    <3>2. to = f  BY <3>1 DEF LoseIfFreed
    <3>. HIDE DEF to
    <3>. QED  BY <1>5, <1>7, <2>1, <3>2
  <2>2. CASE at.group.is = "open" /\ at.group.history = at.here
    <3>1. OpenHere(f) /\ ~HasOpenGroup(UndoOf(f))
      BY <1>2, <1>5, <1>9, <2>2 DEF OpenHere, UndoOf, UndoAt
    <3>2. to = [f EXCEPT !.group = Lost]  BY <3>1 DEF LoseIfFreed
    <3>3. GroupOK(Lost) /\ Lost.is = "lost"  BY DEF GroupOK, Lost
    <3>4. /\ LineState([f EXCEPT !.group = Lost]) /\ [f EXCEPT !.group = Lost].here = f.here
          /\ [f EXCEPT !.group = Lost].level = f.level
          /\ [f EXCEPT !.group = Lost].group = Lost
          /\ [f EXCEPT !.group = Lost].lines = f.lines
      BY <1>7, <3>3, SetIs
    <3>. HIDE DEF to
    <3>. QED  BY <1>5, <3>2, <3>3, <3>4
  <2>. QED  BY <2>1, <2>2
<1>. HIDE DEF to
<1>11. Follows(at, to, o)
  <2>1. Owed(at.group) = 1 /\ Owed(to.group) = 1  BY <1>10 DEF Owed
  <2>2. SoundKept(at, to)  BY <1>8, <1>10 DEF SoundKept, UndoAt
  <2>3. HeldOpen(to, o)  BY <1>10 DEF HeldOpen
  <2>. QED  BY <1>10, <2>1, <2>2, <2>3 DEF Follows
<1>. QED  BY <1>6, <1>10, <1>11 DEF to

\* A state whose list, where it is, has one end more.
Ends(at, to) ==
    /\ LineState(to) /\ to.here = at.here
    /\ \A h \in Histories :
         UndoAt(to, h) = IF h = at.here THEN Append(UndoAt(at, h), End) ELSE UndoAt(at, h)
OpenFor(at, o) == \A h \in Histories : OpenBy(UndoAt(at, h), OpenOn(o, h))
Stays(at, to) == LineState(to) /\ to.here = at.here /\ to.level = at.level /\ to.group = at.group

\* What an undo leaves of the group that just ended.
LEMMA EndedUndone ==
    ASSUME NEW at, LineState(at), NEW e, Ends(at, e)
    PROVE  LET u == UndoAt(at, at.here)
               v == Append(u, End)
               k == NewestStart(v) - 1 IN
           /\ OnlyHere(e, DoUndo(e)) /\ UndoAt(DoUndo(e), at.here) = SubSeq(v, 1, k)
           /\ k \in 0 .. Len(u) /\ SubSeq(v, 1, k) = SubSeq(u, 1, k)
<1>. DEFINE u == UndoAt(at, at.here)
            v == Append(u, End)
            k == NewestStart(v) - 1
<1>1. IsList(u) /\ at.here \in Histories  BY DEF LineState, UndoAt
<1>2. /\ IsList(v) /\ Len(u) \in Nat /\ Len(v) = Len(u) + 1 /\ SubSeq(v, 1, Len(u)) = u
  <2>. HIDE DEF u
  <2>. QED  BY <1>1, ListGrows
<1>3. UndoAt(e, e.here) = v /\ e.here = at.here /\ LineState(e)  BY <1>1 DEF Ends
<1>. HIDE DEF u, v
<1>4. v # <<>>
  <2>1. Len(v) # 0  BY <1>2
  <2>. QED  BY <2>1
<1>5. CutTo(e, DoUndo(e), k)  BY <1>3, <1>4, DoUndoIs
<1>6. k \in 0 .. Len(u)
  <2>1. NewestStart(v) \in 1 .. Len(v)  BY <1>2, <1>4, NewestIs
  <2>. QED  BY <1>2, <2>1
<1>. HIDE DEF k
<1>7. SubSeq(v, 1, k) = SubSeq(u, 1, k)
  <2>1. Len(u) \in 0 .. Len(v)  BY <1>2
  <2>2. SubSeq(SubSeq(v, 1, Len(u)), 1, k) = SubSeq(v, 1, k)  BY <1>2, <1>6, <2>1, ListCut
  <2>. QED  BY <1>2, <2>2
<1>8. OnlyHere(e, DoUndo(e)) /\ UndoAt(DoUndo(e), at.here) = SubSeq(v, 1, k)
  BY <1>3, <1>5 DEF CutTo
<1>. QED  BY <1>6, <1>7, <1>8 DEF k, v, u

\* A group that ends, in a step inside one whose group is o: on its own line the
\* lists stay sound, and the group o stays open; an undo of it leaves them so too.
LEMMA EndsIs ==
    ASSUME NEW at, LineState(at), NEW e, Ends(at, e)
    PROVE  /\ Stays(e, DoUndo(e)) /\ SoundKept(at, DoUndo(e))
           /\ \A o : OpenHere(at) /\ HeldOpen(at, o) =>
                  SoundKept(at, e) /\ OpenFor(e, o) /\ OpenFor(DoUndo(e), o)
<1>. DEFINE u == UndoAt(at, at.here)
            v == Append(u, End)
            k == NewestStart(v) - 1
            to == DoUndo(e)
<1>1. IsList(u) /\ at.here \in Histories  BY DEF LineState, UndoAt
<1>2. /\ IsList(v) /\ Len(u) \in Nat /\ Len(v) = Len(u) + 1 /\ v[Len(u) + 1] = End
  <2>. HIDE DEF u
  <2>. QED  BY <1>1, ListGrows
<1>3. /\ OnlyHere(e, to) /\ UndoAt(to, at.here) = SubSeq(v, 1, k)
      /\ k \in 0 .. Len(u) /\ SubSeq(v, 1, k) = SubSeq(u, 1, k)
  BY EndedUndone
<1>4. /\ e.here = at.here /\ UndoAt(e, at.here) = v
      /\ \A h \in Histories : h # at.here => UndoAt(e, h) = UndoAt(at, h)
  BY <1>1 DEF Ends
<1>. HIDE DEF to, k
<1>5. Stays(e, to)  BY <1>3 DEF OnlyHere, Stays
<1>6. \A h \in Histories : h # at.here => UndoAt(to, h) = UndoAt(at, h)
  BY <1>3, <1>4 DEF OnlyHere
<1>7. SoundKept(at, to)
  <2>1. Sound(u) => Sound(SubSeq(u, 1, k))
    <3>. HIDE DEF u
    <3>. QED  BY <1>1, <1>3, SoundCut
  <2>. QED  BY <1>3, <1>6, <2>1 DEF SoundKept
<1>8. ASSUME NEW o, OpenHere(at), HeldOpen(at, o)
      PROVE  SoundKept(at, e) /\ OpenFor(e, o) /\ OpenFor(to, o)
  <2>. DEFINE n == OpenOn(o, at.here)
  <2>1. n \in Nat /\ OpenOn(at.group, at.here) + n = n + 1 /\ at.group.is # "lost"
    BY <1>8 DEF OpenOn, OpenHere
  <2>2. OpenBy(u, n + 1)  BY <1>1, <1>8, <2>1 DEF HeldOpen
  <2>3. \A h \in Histories : h # at.here => OpenBy(UndoAt(at, h), OpenOn(o, h))
    <3>1. SUFFICES ASSUME NEW h \in Histories, h # at.here PROVE OpenBy(UndoAt(at, h), OpenOn(o, h))
      OBVIOUS
    <3>2. OpenOn(at.group, h) = 0 /\ OpenOn(o, h) \in {0, 1}  BY <1>8, <3>1 DEF OpenOn, OpenHere
    <3>3. OpenOn(at.group, h) + OpenOn(o, h) = OpenOn(o, h)  BY <3>2
    <3>. QED  BY <1>8, <2>1, <3>3 DEF HeldOpen
  <2>. HIDE DEF n, u
  <2>4. OpenBy(u, 1)
    <3>1. n + 1 \in Nat /\ 1 \in 0 .. n + 1  BY <2>1
    <3>. QED  BY <1>1, <2>2, <3>1, OpenLess
  <2>5. OpenBy(v, n)
    <3>1. n + 1 \in Nat /\ n + 1 >= 1 /\ (n + 1) - 1 = n  BY <2>1
    <3>. QED  BY <1>1, <2>2, <3>1, OpenGrows
  <2>6. Sound(u) => Sound(v)  BY <1>1, <2>4, SoundGrows
  <2>7. OpenBy(SubSeq(v, 1, k), n)
    <3>1. v # <<>> /\ Last(v).what = "end"
      <4>1. Len(v) # 0 /\ Last(v) = End  BY <1>2 DEF Last
      <4>. QED  BY <4>1 DEF End
    <3>. HIDE DEF v
    <3>. QED  BY <1>2, <2>1, <2>5, <3>1, OpenCut DEF k
  <2>. QED  BY <1>3, <1>4, <1>6, <2>3, <2>5, <2>6, <2>7 DEF SoundKept, OpenFor, n, u
<1>. QED  BY <1>5, <1>7, <1>8 DEF to

\* The same of drop_empty_undo_group.
LEMMA DropEmptyIs ==
    ASSUME NEW at, LineState(at), NEW e, Ends(at, e), NEW b
    PROVE  /\ Stays(e, DropEmpty(e, b))
           /\ \A o : OpenHere(at) /\ HeldOpen(at, o) =>
                  SoundKept(at, DropEmpty(e, b)) /\ OpenFor(DropEmpty(e, b), o)
<1>1. DropEmpty(e, b) = DoUndo(e) \/ DropEmpty(e, b) = e  BY DEF DropEmpty
<1>2. Stays(e, e)  BY DEF Stays, Ends
<1>3. /\ Stays(e, DoUndo(e)) /\ SoundKept(at, DoUndo(e))
      /\ \A o : OpenHere(at) /\ HeldOpen(at, o) =>
             SoundKept(at, e) /\ OpenFor(e, o) /\ OpenFor(DoUndo(e), o)
  BY EndsIs
<1>. QED  BY <1>1, <1>2, <1>3

\* What is counted for a group.
LEMMA OwedIs ==
    ASSUME NEW at, LineState(at)
    PROVE  /\ Owed(at.group) \in {0, 1}
           /\ Owed(at.group) = 1 <=> (OpenHere(at) \/ Forgets(at))
           /\ ~(OpenHere(at) /\ Forgets(at))
           /\ Owed(at.group) = 0 => \A h : OpenOn(at.group, h) = 0
  BY DEF Owed, OpenHere, Forgets, LineState, GroupOK, OpenOn

\* An open group that ends is no longer counted.
LEMMA EndsAs ==
    ASSUME NEW at, LineState(at), OpenHere(at), at.level >= 1
    PROVE  /\ Ends(at, EndGroup(at)) /\ EndGroup(at).level = at.level - 1
           /\ EndGroup(at).group = at.group
           /\ \A g : GroupOK(g) => /\ Ends(at, [EndGroup(at) EXCEPT !.group = g])
                                   /\ [EndGroup(at) EXCEPT !.group = g].level = at.level - 1
                                   /\ [EndGroup(at) EXCEPT !.group = g].group = g
<1>. DEFINE e == EndGroup(at)
<1>1. Ends(at, e) /\ e.level = at.level - 1 /\ e.group = at.group  BY EndIs DEF Ends
<1>. HIDE DEF e
<1>2. ASSUME NEW g, GroupOK(g)
      PROVE  LET to == [e EXCEPT !.group = g] IN
             Ends(at, to) /\ to.level = at.level - 1 /\ to.group = g
  <2>. DEFINE to == [e EXCEPT !.group = g]
  <2>1. /\ LineState(to) /\ to.here = e.here /\ to.level = e.level /\ to.group = g
        /\ to.lines = e.lines
    <3>1. LineState(e)  BY <1>1 DEF Ends
    <3>. QED  BY <1>2, <3>1, SetIs
  <2>. HIDE DEF to
  <2>2. Ends(at, to) /\ to.level = at.level - 1 /\ to.group = g
    BY <1>1, <2>1 DEF Ends, UndoAt
  <2>. QED  BY <2>2 DEF to
<1>. QED  BY <1>1, <1>2 DEF e

\* What ends leaves: the count, and the line it is on.
Ended(at, to) ==
    /\ LineState(to) /\ to.here = at.here /\ to.level = at.level - Owed(at.group)

\* close_undo_group.
LEMMA CloseIs ==
    ASSUME NEW at, LineState(at), at.group.is # "none", Owed(at.group) <= at.level
    PROVE  /\ Ended(at, CloseGroup(at)) /\ CloseGroup(at).group.is = "closed"
           /\ \A o : HeldOpen(at, o) => SoundKept(at, CloseGroup(at))
<1>1. CASE OpenHere(at)
  <2>. DEFINE e == EndGroup(at)
              mid == DropEmpty(e, at.group.before)
              to == [mid EXCEPT !.group = Closed]
  <2>1. CloseGroup(at) = to  BY <1>1 DEF CloseGroup
  <2>2. Owed(at.group) = 1 /\ at.level \in Nat /\ at.level >= 1
    BY <1>1, OwedIs DEF LineState
  <2>3. Ends(at, e) /\ e.level = at.level - 1 /\ e.here = at.here
    BY <1>1, <2>2, EndsAs DEF Ends
  <2>. HIDE DEF e
  <2>4. Stays(e, mid) /\ \A o : HeldOpen(at, o) => SoundKept(at, mid)
    BY <1>1, <2>3, DropEmptyIs
  <2>. HIDE DEF mid
  <2>5. GroupOK(Closed) /\ Closed.is = "closed"  BY DEF GroupOK, Closed
  <2>6. LineState(to) /\ to.here = mid.here /\ to.level = mid.level /\ to.group = Closed
        /\ to.lines = mid.lines
    BY <2>4, <2>5, SetIs DEF Stays
  <2>. HIDE DEF to
  <2>. QED  BY <2>1, <2>2, <2>3, <2>4, <2>5, <2>6 DEF Ended, Stays, SoundKept, UndoAt
<1>2. CASE Forgets(at)
  <2>. DEFINE to == [ForgetGroup(at) EXCEPT !.group = Closed]
  <2>1. ~OpenHere(at) /\ Owed(at.group) = 1  BY <1>2, OwedIs
  <2>2. /\ CloseGroup(at) = to /\ LineState(to) /\ to.here = at.here /\ to.group = Closed
        /\ to.lines = at.lines /\ to.level = at.level - 1
    BY <1>2, <2>1, ForgottenIs
  <2>. HIDE DEF to
  <2>3. Closed.is = "closed"  BY DEF Closed
  <2>. QED  BY <2>1, <2>2, <2>3 DEF Ended, SoundKept, UndoAt
<1>3. CASE ~OpenHere(at) /\ ~Forgets(at)
  <2>1. CloseGroup(at) = at  BY <1>3 DEF CloseGroup
  <2>2. at.group.is = "closed"  BY <1>3 DEF LineState, GroupOK, OpenHere, Forgets
  <2>3. Owed(at.group) = 0 /\ at.level \in Nat /\ at.level - 0 = at.level
    BY <1>3, OwedIs DEF LineState
  <2>. QED  BY <2>1, <2>2, <2>3 DEF Ended, SoundKept
<1>. QED  BY <1>1, <1>2, <1>3

\* A group outside a step that ends is open as it was, or lost.
LEMMA AfterFinishIs ==
    ASSUME NEW at, LineState(at), ~OpenHere(at), NEW step, GroupOK(step.outer)
    PROVE  LET to == AfterFinish(at, step) IN
           /\ LineState(to) /\ to.here = at.here /\ to.level = at.level /\ to.lines = at.lines
           /\ \/ to.group = step.outer
              \/ step.outer.is = "open" /\ to.group = Lost /\ at.group.is = "lost"
           /\ HeldOpen(at, step.outer)
                /\ (at.group.is = "lost" /\ step.outer.is = "open" => step.outer.history = at.here)
                => OpenFor(to, to.group)
<1>. DEFINE g == step.outer
            a == [at EXCEPT !.group = g]
            to == AfterFinish(at, step)
<1>1. LineState(a) /\ a.here = at.here /\ a.level = at.level /\ a.group = g /\ a.lines = at.lines
  BY SetIs
<1>2. to = IF at.group.is = "lost" THEN LoseIfFreed(a) ELSE a  BY DEF AfterFinish
<1>. HIDE DEF a, to
<1>3. \A h \in Histories : OpenOn(g, h) \in {0, 1} /\ OpenBy(UndoAt(at, h), 0)
  BY DEF OpenOn, OpenBy
<1>4. CASE at.group.is = "lost"
  <2>1. /\ LineState(to) /\ to.here = a.here /\ to.lines = a.lines /\ to.level = a.level
        /\ to.group = a.group \/ (OpenHere(a) /\ to.group = Lost)
        /\ OpenHere(a) /\ to.group = a.group => OpenBy(UndoAt(a, a.here), 1)
    <3>1. to = LoseIfFreed(a)  BY <1>2, <1>4
    <3>. QED  BY <1>1, <3>1, LoseIs DEF Follows
  <2>2. ASSUME g.is = "open" => g.history = at.here PROVE OpenFor(to, to.group)
    <3>1. SUFFICES ASSUME NEW h \in Histories PROVE OpenBy(UndoAt(at, h), OpenOn(to.group, h))
      BY <1>1, <2>1 DEF OpenFor, UndoAt
    <3>2. CASE OpenOn(to.group, h) = 0  BY <3>2 DEF OpenBy
    <3>3. CASE OpenOn(to.group, h) # 0
      <4>1. OpenOn(to.group, h) = 1 /\ to.group.is = "open" /\ to.group.history = h  BY <3>3 DEF OpenOn
      <4>2. to.group = g  BY <1>1, <2>1, <4>1 DEF Lost
      <4>3. h = at.here /\ OpenHere(a)  BY <1>1, <2>2, <4>1, <4>2 DEF OpenHere
      <4>. QED  BY <1>1, <2>1, <4>1, <4>2, <4>3 DEF UndoAt
    <3>. QED  BY <3>2, <3>3
  <2>3. OpenHere(a) => g.is = "open"  BY <1>1 DEF OpenHere
  <2>. QED  BY <1>1, <1>4, <2>1, <2>2, <2>3 DEF to
<1>5. CASE at.group.is # "lost"
  <2>1. to = a  BY <1>2, <1>5
  <2>2. ASSUME HeldOpen(at, g) PROVE OpenFor(a, g)
    <3>1. SUFFICES ASSUME NEW h \in Histories PROVE OpenBy(UndoAt(at, h), OpenOn(g, h))
      BY <1>1 DEF OpenFor, UndoAt
    <3>. DEFINE n == OpenOn(at.group, h) + OpenOn(g, h)
                k == OpenOn(g, h)
    <3>2. OpenBy(UndoAt(at, h), n) /\ IsList(UndoAt(at, h))
      BY <1>5, <2>2 DEF HeldOpen, LineState, UndoAt
    <3>3. n \in Nat /\ k \in 0 .. n  BY DEF OpenOn
    <3>. HIDE DEF n, k
    <3>4. OpenBy(UndoAt(at, h), k)  BY <3>2, <3>3, OpenLess
    <3>. QED  BY <3>4 DEF k
  <2>. QED  BY <1>1, <2>1, <2>2 DEF to, a
<1>. QED  BY <1>4, <1>5 DEF to

\* A point within the line is all that is set last.
LEMMA WithinLineIs ==
    ASSUME NEW at, LineState(at)
    PROVE  /\ Stays(at, WithinLine(at)) /\ WithinLine(at).lines = at.lines
           /\ \A p : LET to == [at EXCEPT !.point = p] IN
                     /\ Stays(at, WithinLine(to)) /\ WithinLine(to).lines = at.lines
<1>1. \A p : LET to == [at EXCEPT !.point = p] IN Stays(at, to) /\ to.lines = at.lines
  BY SetIs DEF Stays
<1>2. ASSUME NEW a, LineState(a) PROVE Stays(a, WithinLine(a)) /\ WithinLine(a).lines = a.lines
  <2>. DEFINE q == IF a.point > Len(a.lines[a.here].text) THEN Len(a.lines[a.here].text) ELSE a.point
              to == [a EXCEPT !.point = q]
  <2>1. WithinLine(a) = to  BY DEF WithinLine
  <2>. HIDE DEF q
  <2>2. Stays(a, to) /\ to.lines = a.lines  BY <1>2, SetIs DEF Stays
  <2>. HIDE DEF to
  <2>. QED  BY <2>1, <2>2
<1>3. ASSUME NEW p
      PROVE  LET to == [at EXCEPT !.point = p] IN
             Stays(at, WithinLine(to)) /\ WithinLine(to).lines = at.lines
  <2>. DEFINE to == [at EXCEPT !.point = p]
  <2>1. Stays(at, to) /\ to.lines = at.lines  BY <1>1
  <2>. HIDE DEF to
  <2>2. Stays(to, WithinLine(to)) /\ WithinLine(to).lines = to.lines  BY <1>2, <2>1 DEF Stays
  <2>3. Stays(at, WithinLine(to)) /\ WithinLine(to).lines = at.lines  BY <2>1, <2>2 DEF Stays
  <2>. QED  BY <2>3 DEF to
<1>. QED  BY <1>2, <1>3

\* What a step leaves, when it ends: the group outside it is as it was, or lost,
\* and what was sound stays so when the groups were open where they are said to be.
LEMMA FinishedIs ==
    ASSUME NEW at, LineState(at), Owed(at.group) <= at.level,
           NEW step, GroupOK(step.outer), NEW result
    PROVE  LET to == Finished(at, step, result) IN
           /\ Ended(at, to)
           /\ \/ to.group = step.outer
              \/ step.outer.is = "open" /\ to.group = Lost /\ at.group.is = "lost"
           /\ HeldOpen(at, step.outer) => SoundKept(at, to)
           /\ HeldOpen(at, step.outer)
                /\ (at.group.is = "lost" /\ step.outer.is = "open" => step.outer.history = at.here)
                => OpenFor(to, to.group)
<1>. DEFINE g == step.outer
            mid == WithGroupEnded(at, step, result)
            to == Finished(at, step, result)
            where == at.group.is = "lost" /\ g.is = "open" => g.history = at.here
<1>1. /\ Ended(at, mid)
      /\ mid.group = g \/ (g.is = "open" /\ mid.group = Lost /\ at.group.is = "lost")
      /\ HeldOpen(at, g) => SoundKept(at, mid)
      /\ HeldOpen(at, g) /\ where => OpenFor(mid, mid.group)
  <2>1. CASE OpenHere(at)
    <3>. DEFINE e == [EndGroup(at) EXCEPT !.group = g]
    <3>1. Owed(at.group) = 1 /\ at.level \in Nat /\ at.level >= 1
      BY <2>1, OwedIs DEF LineState
    <3>2. Ends(at, e) /\ e.level = at.level - 1 /\ e.group = g /\ e.here = at.here
      BY <2>1, <3>1, EndsAs DEF Ends
    <3>3. mid = DoUndo(e) \/ mid = DropEmpty(e, at.group.before)
      BY <2>1 DEF WithGroupEnded
    <3>. HIDE DEF e, mid
    <3>4. /\ Stays(e, mid)
          /\ HeldOpen(at, g) => SoundKept(at, mid) /\ OpenFor(mid, g)
      <4>1. /\ Stays(e, DoUndo(e)) /\ SoundKept(at, DoUndo(e))
            /\ HeldOpen(at, g) => OpenFor(DoUndo(e), g)
        BY <2>1, <3>2, EndsIs
      <4>2. /\ Stays(e, DropEmpty(e, at.group.before))
            /\ HeldOpen(at, g) => /\ SoundKept(at, DropEmpty(e, at.group.before))
                              /\ OpenFor(DropEmpty(e, at.group.before), g)
        BY <2>1, <3>2, DropEmptyIs
      <4>. QED  BY <3>3, <4>1, <4>2
    <3>5. Ended(at, mid) /\ mid.group = g  BY <3>1, <3>2, <3>4 DEF Stays, Ended
    <3>. QED  BY <3>4, <3>5
  <2>2. CASE ~OpenHere(at)
    <3>. DEFINE a == AfterFinish(at, step)
    <3>1. /\ LineState(a) /\ a.here = at.here /\ a.level = at.level /\ a.lines = at.lines
          /\ a.group = g \/ (g.is = "open" /\ a.group = Lost /\ at.group.is = "lost")
          /\ HeldOpen(at, g) /\ where => OpenFor(a, a.group)
      BY <2>2, AfterFinishIs
    <3>2. mid = IF Forgets(at) THEN ForgetGroup(a) ELSE a  BY <2>2 DEF WithGroupEnded
    <3>. HIDE DEF a, mid
    <3>3. Owed(at.group) = (IF Forgets(at) THEN 1 ELSE 0) /\ at.level \in Nat
      BY <2>2, OwedIs DEF LineState
    <3>4. /\ LineState(mid) /\ mid.here = a.here /\ mid.lines = a.lines /\ mid.group = a.group
          /\ mid.level = at.level - Owed(at.group)
      <4>1. CASE Forgets(at)  BY <3>1, <3>2, <3>3, <4>1, ForgetIs
      <4>2. CASE ~Forgets(at)  BY <3>1, <3>2, <3>3, <4>2
      <4>. QED  BY <4>1, <4>2
    <3>5. OpenFor(a, a.group) => OpenFor(mid, mid.group)  BY <3>4 DEF OpenFor, UndoAt
    <3>6. SoundKept(at, mid)  BY <3>1, <3>4 DEF SoundKept, UndoAt
    <3>. QED  BY <3>1, <3>4, <3>5, <3>6 DEF Ended
  <2>. QED  BY <2>1, <2>2
<1>2. to = WithinLine(IF TakesBack(at, step, result) THEN [mid EXCEPT !.point = step.point]
                      ELSE mid)
  BY DEF Finished
<1>. HIDE DEF mid, to, where
<1>3. Stays(mid, to) /\ to.lines = mid.lines
  <2>1. LineState(mid)  BY <1>1 DEF Ended
  <2>2. /\ Stays(mid, WithinLine(mid)) /\ WithinLine(mid).lines = mid.lines
        /\ \A p : /\ Stays(mid, WithinLine([mid EXCEPT !.point = p]))
                  /\ WithinLine([mid EXCEPT !.point = p]).lines = mid.lines
    BY <2>1, WithinLineIs
  <2>. QED  BY <1>2, <2>2
<1>4. OpenFor(mid, mid.group) => OpenFor(to, to.group)  BY <1>3 DEF OpenFor, UndoAt, Stays
<1>5. SoundKept(at, mid) => SoundKept(at, to)  BY <1>3 DEF SoundKept, UndoAt
<1>. QED  BY <1>1, <1>3, <1>4, <1>5 DEF Ended, Stays, to, where

\* What a step leaves when a panic goes through it.
LEMMA DroppedIs ==
    ASSUME NEW at, LineState(at), Owed(at.group) <= at.level, NEW step, GroupOK(step.outer)
    PROVE  LET to == Dropped(at, step) IN
           /\ Ended(at, to) /\ to.group = step.outer
           /\ \/ HeldOpen(at, step.outer)
              \/ OpenHere(at) => at.here = step.history
              => SoundKept(at, to)
<1>. DEFINE g == step.outer
            same == at.here = step.history
            mid == IF OpenHere(at)
                   THEN IF same THEN DoUndo(EndGroup(at)) ELSE EndGroup(at)
                   ELSE IF Forgets(at) THEN ForgetGroup(at) ELSE at
            out == [mid EXCEPT !.group = g]
            to == Dropped(at, step)
            ok == HeldOpen(at, g) \/ (OpenHere(at) => same)
<1>1. /\ LineState(mid) /\ mid.here = at.here /\ mid.level = at.level - Owed(at.group)
      /\ ok => SoundKept(at, mid)
  <2>1. CASE OpenHere(at)
    <3>. DEFINE e == EndGroup(at)
    <3>1. Owed(at.group) = 1 /\ at.level \in Nat /\ at.level >= 1
      BY <2>1, OwedIs DEF LineState
    <3>2. Ends(at, e) /\ e.level = at.level - 1 /\ e.here = at.here /\ LineState(e)
      BY <2>1, <3>1, EndsAs DEF Ends
    <3>3. mid = IF same THEN DoUndo(e) ELSE e  BY <2>1
    <3>. HIDE DEF e, mid
    <3>4. /\ Stays(e, DoUndo(e)) /\ SoundKept(at, DoUndo(e))
          /\ HeldOpen(at, g) => SoundKept(at, e)
      BY <2>1, <3>2, EndsIs
    <3>. QED  BY <2>1, <3>1, <3>2, <3>3, <3>4 DEF Stays
  <2>2. CASE ~OpenHere(at)
    <3>1. Owed(at.group) = (IF Forgets(at) THEN 1 ELSE 0) /\ at.level \in Nat
      BY <2>2, OwedIs DEF LineState
    <3>2. mid = IF Forgets(at) THEN ForgetGroup(at) ELSE at  BY <2>2
    <3>. HIDE DEF mid
    <3>3. /\ LineState(mid) /\ mid.here = at.here /\ mid.lines = at.lines
          /\ mid.level = at.level - Owed(at.group)
      <4>1. CASE Forgets(at)  BY <3>1, <3>2, <4>1, ForgetIs
      <4>2. CASE ~Forgets(at)  BY <3>1, <3>2, <4>2
      <4>. QED  BY <4>1, <4>2
    <3>. QED  BY <3>3 DEF SoundKept, UndoAt
  <2>. QED  BY <2>1, <2>2
<1>2. to = IF same THEN WithinLine([out EXCEPT !.point = step.point]) ELSE out
  BY DEF Dropped
<1>. HIDE DEF mid, to, ok
<1>3. LineState(out) /\ out.here = mid.here /\ out.level = mid.level /\ out.group = g
      /\ out.lines = mid.lines
  BY <1>1, SetIs
<1>. HIDE DEF out
<1>4. Stays(out, to) /\ to.lines = out.lines
  <2>1. Stays(out, out)  BY <1>3 DEF Stays
  <2>2. \A p : /\ Stays(out, WithinLine([out EXCEPT !.point = p]))
               /\ WithinLine([out EXCEPT !.point = p]).lines = out.lines
    BY <1>3, WithinLineIs
  <2>. QED  BY <1>2, <2>1, <2>2
<1>. QED  BY <1>1, <1>3, <1>4 DEF Ended, Stays, SoundKept, UndoAt, to, ok

-----------------------------------------------------------------------------
(* LispSteps: groups end where they began. *)

\* None, one, or a hook's and its function's.
RunsAre(r) == r = <<>> \/ r = <<r[1]>> \/ r = <<r[1], r[2]>>
StepOK(step) ==
    {"outer", "history", "did"} \subseteq DOMAIN step /\ GroupOK(step.outer)
\* The group of the hook's own step, as its function runs, and while none does.
OuterGroup == IF Len(running) = 2 THEN running[2].outer ELSE Outside
FirstStep ==
    running # <<>> =>
       /\ StepOK(running[1]) /\ running[1].outer = Outside /\ group.is # "none"
       /\ here # running[1].history => "moved" \in running[1].did
       /\ group.is = "lost" => "freed" \in running[1].did
Second ==
    Len(running) = 2 =>
       /\ StepOK(running[2]) /\ InHook /\ running[2].outer.is # "none"
       /\ running[2].outer.is = "lost" => "freed" \in running[1].did
HookGroup ==
    InHook => LET g == IF Len(running) = 2 THEN running[2].outer ELSE group
              IN g.is = "open" => g.history = running[1].history
\* What the steps keep: the count is that of their groups, and these are open on
\* their lists but where a list was freed and the line left.
StepsInv ==
    /\ LineState(LineNow) /\ RunsAre(running)
    /\ running = <<>> => group = Outside /\ toRun = <<>>
    /\ FirstStep /\ Second /\ HookGroup
    /\ level = Owed(group) + Owed(OuterGroup)
    /\ (InHook /\ Tangled) \/ HeldOpen(LineNow, OuterGroup)
SoundStep ==
    \A h \in Histories :
        Sound(lines[h].undo) => Sound(lines'[h].undo) \/ (InHook /\ Tangled)

\* How many steps run.
LEMMA RunsLen ==
    ASSUME NEW r, RunsAre(r)
    PROVE  /\ Len(r) \in {0, 1, 2} /\ DOMAIN r = 1 .. Len(r)
           /\ r = <<>> <=> Len(r) = 0
           /\ Len(r) = 1 => r = <<r[1]>>
           /\ Len(r) = 2 => r = <<r[1], r[2]>>
<1>1. CASE r = <<>>  BY <1>1
<1>2. CASE r = <<r[1]>>
  <2>1. Len(r) = 1 /\ DOMAIN r = 1 .. 1  BY <1>2
  <2>2. r # <<>>  BY <2>1
  <2>. QED  BY <1>2, <2>1, <2>2
<1>3. CASE r = <<r[1], r[2]>>
  <2>1. Len(r) = 2 /\ DOMAIN r = 1 .. 2  BY <1>3
  <2>2. r # <<>>  BY <2>1
  <2>. QED  BY <1>3, <2>1, <2>2
<1>. QED  BY <1>1, <1>2, <1>3 DEF RunsAre

\* The state a step leaves, as its record.
LEMMA BecomesIs ==
    ASSUME NEW to, LineState(to), LineBecomes(to)
    PROVE  /\ LineState(LineNow') /\ LineNow'.here = to.here /\ LineNow'.level = to.level
           /\ LineNow'.group = to.group /\ LineNow'.lines = to.lines
           /\ \A o : HeldOpen(to, o) => HeldOpen(LineNow', o)
           /\ \A o : (to.group.is # "none" /\ OpenFor(to, to.group) /\ o.is = "none")
                         => HeldOpen(LineNow', o)
<1>1. /\ LineNow'.lines = to.lines /\ LineNow'.here = to.here /\ LineNow'.level = to.level
      /\ LineNow'.group = to.group /\ DOMAIN LineNow' = {"lines", "here", "point", "level", "group"}
  BY DEF LineBecomes, LineNow
<1>2. LineState(LineNow')  BY <1>1 DEF LineState
<1>3. ASSUME NEW o PROVE HeldOpen(to, o) => HeldOpen(LineNow', o)  BY <1>1 DEF HeldOpen, UndoAt
<1>4. ASSUME NEW o, OpenFor(to, to.group), o.is = "none" PROVE HeldOpen(LineNow', o)
  <2>1. ASSUME NEW h \in Histories
        PROVE  OpenBy(UndoAt(LineNow', h), OpenOn(LineNow'.group, h) + OpenOn(o, h))
    <3>1. OpenOn(to.group, h) \in Nat /\ OpenOn(o, h) = 0  BY <1>4 DEF OpenOn
    <3>2. OpenOn(to.group, h) + OpenOn(o, h) = OpenOn(to.group, h)  BY <3>1
    <3>. QED  BY <1>1, <1>4, <3>2 DEF OpenFor, UndoAt
  <2>. QED  BY <2>1 DEF HeldOpen
<1>. QED  BY <1>1, <1>2, <1>3, <1>4

\* The steps that run, with what they did noted.
SameSteps ==
    /\ RunsAre(running') /\ Len(running') = Len(running)
    /\ \A i \in 1 .. Len(running) :
         /\ running'[i].outer = running[i].outer /\ running'[i].history = running[i].history
         /\ running[i].did \subseteq running'[i].did
         /\ StepOK(running[i]) => StepOK(running'[i])
\* Noting what was done changes the steps no further.
LEMMA NoteIs ==
    ASSUME RunsAre(running), \A i \in 1 .. Len(running) : StepOK(running[i]), NEW what, Note(what)
    PROVE  SameSteps /\ \A i \in 1 .. Len(running) : what \in running'[i].did
<1>1. /\ Len(running) \in {0, 1, 2} /\ DOMAIN running = 1 .. Len(running)
      /\ running = <<>> <=> Len(running) = 0
  BY RunsLen
<1>2. running' = [i \in 1 .. Len(running) |-> [running[i] EXCEPT !.did = @ \cup {what}]]
  BY <1>1 DEF Note
<1>3. \A i \in 1 .. Len(running) :
        /\ running'[i].outer = running[i].outer /\ running'[i].history = running[i].history
        /\ running'[i].did = running[i].did \cup {what}
        /\ DOMAIN running'[i] = DOMAIN running[i]
  <2>1. ASSUME NEW step, StepOK(step)
        PROVE  LET to == [step EXCEPT !.did = @ \cup {what}] IN
               /\ to.outer = step.outer /\ to.history = step.history
               /\ to.did = step.did \cup {what} /\ DOMAIN to = DOMAIN step
    BY <2>1 DEF StepOK
  <2>. QED  BY <1>2, <2>1
<1>4. RunsAre(running') /\ Len(running') = Len(running)
  <2>1. CASE Len(running) = 0
    <3>1. running' = <<>>  BY <1>2, <2>1
    <3>. QED  BY <2>1, <3>1 DEF RunsAre
  <2>2. CASE Len(running) = 1
    <3>1. running' = <<running'[1]>>  BY <1>2, <2>2
    <3>2. Len(running') = 1  BY <3>1
    <3>. QED  BY <2>2, <3>1, <3>2 DEF RunsAre
  <2>3. CASE Len(running) = 2
    <3>1. running' = <<running'[1], running'[2]>>  BY <1>2, <2>3
    <3>2. Len(running') = 2  BY <3>1
    <3>. QED  BY <2>3, <3>1, <3>2 DEF RunsAre
  <2>. QED  BY <1>1, <2>1, <2>2, <2>3
<1>. QED  BY <1>3, <1>4 DEF SameSteps, StepOK

\* What a running step does, but start and end, keeps what the steps keep.
LEMMA StepGoesOn ==
    ASSUME StepsInv, running # <<>>, InHook => Len(running) = 2, toRun' = toRun,
           NEW to, LineBecomes(to), Follows(LineNow, to, OuterGroup), SameSteps,
           to.here # here => "moved" \in running'[1].did,
           to.group.is = "lost" => (group.is = "lost" \/ "freed" \in running'[1].did)
    PROVE  StepsInv' /\ SoundStep
<1>. DEFINE n == Len(running)
            o == OuterGroup
            r == running
            s == running'
<1>1. /\ n \in {1, 2}
      /\ n = 2 => InHook
      /\ StepOK(r[1]) /\ r[1].outer = Outside /\ group.is # "none"
      /\ here # r[1].history => "moved" \in r[1].did
      /\ group.is = "lost" => "freed" \in r[1].did
      /\ n = 2 => StepOK(r[2]) /\ r[2].outer.is # "none"
      /\ n = 2 /\ r[2].outer.is = "lost" => "freed" \in r[1].did
      /\ InHook => n = 2 /\ (r[2].outer.is = "open" => r[2].outer.history = r[1].history)
      /\ LineState(LineNow) /\ level = Owed(group) + Owed(o)
      /\ (InHook /\ Tangled) \/ HeldOpen(LineNow, o)
  BY RunsLen DEF StepsInv, FirstStep, Second, HookGroup
<1>2. /\ s # <<>> /\ Len(s) = n /\ RunsAre(s)
      /\ s[1].outer = r[1].outer /\ s[1].history = r[1].history /\ r[1].did \subseteq s[1].did
      /\ StepOK(s[1])
      /\ n = 2 => s[2].outer = r[2].outer /\ StepOK(s[2])
  <2>1. RunsAre(s) /\ Len(s) = n  BY DEF SameSteps
  <2>2. s = <<>> <=> Len(s) = 0  BY <2>1, RunsLen
  <2>3. 1 \in 1 .. n /\ (n = 2 => 2 \in 1 .. n)  BY <1>1
  <2>. QED  BY <1>1, <2>1, <2>2, <2>3 DEF SameSteps
<1>3. InHook' <=> InHook  BY DEF InHook
<1>4. OuterGroup' = o /\ (InHook /\ Tangled => (InHook /\ Tangled)')
  <2>1. OuterGroup' = o  BY <1>1, <1>2 DEF OuterGroup
  <2>. QED  BY <1>2, <1>3, <2>1 DEF Tangled
<1>5. /\ LineState(to) /\ to.group.is # "none" /\ SoundKept(LineNow, to)
      /\ to.level + Owed(group) = level + Owed(to.group)
      /\ HeldOpen(LineNow, o) => HeldOpen(to, o)
  BY <1>1 DEF Follows, LineNow
<1>6. /\ LineState(LineNow)' /\ here' = to.here /\ level' = to.level /\ group' = to.group
      /\ lines' = to.lines
      /\ HeldOpen(to, o) => HeldOpen(LineNow, OuterGroup)'
  <2>1. /\ LineState(LineNow') /\ LineNow'.here = to.here /\ LineNow'.level = to.level
        /\ LineNow'.group = to.group /\ LineNow'.lines = to.lines
        /\ \A x : HeldOpen(to, x) => HeldOpen(LineNow', x)
    BY <1>5, BecomesIs
  <2>2. LineState(LineNow)' /\ (HeldOpen(to, o) => HeldOpen(LineNow', OuterGroup'))
    BY <1>4, <2>1 DEF LineState, GroupOK, IsList
  <2>3. HeldOpen(LineNow', OuterGroup') => HeldOpen(LineNow, OuterGroup)'  BY DEF HeldOpen, OpenBy, UndoAt, OpenOn
  <2>. QED  BY <2>1, <2>2, <2>3 DEF LineBecomes
<1>7. /\ FirstStep' /\ Second' /\ HookGroup'
      /\ level' = Owed(group') + Owed(OuterGroup')
      /\ (InHook /\ Tangled)' \/ HeldOpen(LineNow, OuterGroup)'
  <2>1. FirstStep'
    <3>1. here' # s[1].history => "moved" \in s[1].did  BY <1>1, <1>2, <1>6
    <3>2. group'.is = "lost" => "freed" \in s[1].did  BY <1>1, <1>2, <1>6
    <3>. QED  BY <1>1, <1>2, <1>5, <1>6, <3>1, <3>2 DEF FirstStep, StepOK, GroupOK
  <2>2. Second'  BY <1>1, <1>2, <1>3 DEF Second, StepOK, GroupOK
  <2>3. HookGroup'  BY <1>1, <1>2, <1>3 DEF HookGroup
  <2>4. level' = Owed(group') + Owed(OuterGroup')
    <3>1. level \in Nat /\ to.level \in Nat /\ Owed(group) \in Nat /\ Owed(to.group) \in Nat
          /\ Owed(o) \in Nat
      BY <1>1, <1>5 DEF LineState, LineNow, Owed
    <3>. QED  BY <1>1, <1>4, <1>5, <1>6, <3>1
  <2>. QED  BY <1>1, <1>4, <1>5, <1>6, <2>1, <2>2, <2>3, <2>4
<1>8. StepsInv'
  <2>1. (running = <<>>)' <=> FALSE  BY <1>2
  <2>. QED  BY <1>2, <1>6, <1>7, <2>1 DEF StepsInv, RunsAre, Owed
<1>9. SoundStep  BY <1>5, <1>6 DEF SoundStep, SoundKept, UndoAt, LineNow
<1>. QED  BY <1>8, <1>9

\* What holds as a step that runs may act.
LEMMA InStepIs ==
    ASSUME StepsInv, InStep
    PROVE  /\ running # <<>> /\ RunsAre(running) /\ \A i \in 1 .. Len(running) : StepOK(running[i])
           /\ InHook => Len(running) = 2
           /\ ~InHook => OuterGroup = Outside /\ HeldOpen(LineNow, Outside)
           /\ LineState(LineNow) /\ LineNow.group = group /\ LineNow.here = here
           /\ LineNow.level = level /\ LineNow.lines = lines
           /\ group.is # "none" /\ Owed(group) <= level
           /\ (InHook /\ Tangled) \/ HeldOpen(LineNow, OuterGroup)
           /\ 1 \in 1 .. Len(running)
<1>1. /\ running # <<>> /\ RunsAre(running)
      /\ LineState(LineNow) /\ level = Owed(group) + Owed(OuterGroup)
      /\ (InHook /\ Tangled) \/ HeldOpen(LineNow, OuterGroup)
  BY DEF StepsInv, InStep
<1>2. Len(running) \in {1, 2}  BY <1>1, RunsLen DEF StepsInv
<1>3. \A i \in 1 .. Len(running) : StepOK(running[i])
  <2>1. StepOK(running[1]) /\ (Len(running) = 2 => StepOK(running[2]))
    BY <1>1 DEF StepsInv, FirstStep, Second
  <2>2. \A n \in {1, 2} : \A i \in 1 .. n : i = 1 \/ (i = 2 /\ n = 2)  OBVIOUS
  <2>3. \A i \in 1 .. Len(running) : i = 1 \/ (i = 2 /\ Len(running) = 2)  BY <1>2, <2>2
  <2>. QED  BY <2>1, <2>3
<1>4. ~InHook => OuterGroup = Outside
  <2>1. Len(running) = 2 => InHook  BY DEF StepsInv, Second
  <2>. QED  BY <2>1 DEF OuterGroup
<1>5. group.is # "none"  BY <1>1 DEF StepsInv, FirstStep
<1>6. Owed(group) <= level  BY <1>1 DEF Owed
<1>7. /\ LineNow.group = group /\ LineNow.here = here /\ LineNow.level = level
      /\ LineNow.lines = lines
  BY DEF LineNow
<1>8. InHook => Len(running) = 2  BY DEF InStep
<1>9. (InHook /\ Tangled) \/ HeldOpen(LineNow, OuterGroup)  BY DEF StepsInv
<1>. QED  BY <1>1, <1>2, <1>3, <1>4, <1>5, <1>6, <1>7, <1>8, <1>9

\* The line and the group as a change is about to be made.
LEMMA BeforeStepIs ==
    ASSUME StepsInv, InStep
    PROVE  LET b == BeforeChange(LineNow) IN
           /\ LineState(b) /\ Follows(LineNow, b, OuterGroup) /\ b.here = here
           /\ b.group.is \in {"open", "lost"}
           /\ b.group.is = "lost" => group.is = "lost"
           /\ b.group.is = "open" => b.group.history = b.here
<1>. DEFINE b == BeforeChange(LineNow)
<1>1. /\ LineState(LineNow) /\ LineNow.group.is # "none" /\ Owed(LineNow.group) <= LineNow.level
      /\ LineNow.here = here /\ LineNow.group = group
  BY InStepIs
<1>2. /\ Follows(LineNow, b, OuterGroup) /\ b.here = LineNow.here
      /\ b.group.is \in {"open", "lost"} /\ (b.group.is = "lost" <=> LineNow.group.is = "lost")
      /\ b.group.is = "open" => b.group.history = LineNow.here
  BY <1>1, BeforeChangeIs
<1>. HIDE DEF b
<1>. QED  BY <1>1, <1>2 DEF Follows, b

\* A readline command that Lisp calls.
LEMMA CallGoesOn ==
    ASSUME StepsInv, InStep, toRun' = toRun, SameSteps, NEW at, Called(at),
           Follows(LineNow, at, OuterGroup),
           at.here # here => "moved" \in running'[1].did,
           at.group.is = "lost" => (group.is = "lost" \/ "freed" \in running'[1].did)
    PROVE  StepsInv' /\ SoundStep
<1>. DEFINE to == LoseIfFreed(at)
<1>1. LineBecomes(to)  BY DEF Called
<1>2. LineState(at) /\ LineState(LineNow)  BY InStepIs DEF Follows
<1>3. /\ Follows(at, to, OuterGroup) /\ to.here = at.here
      /\ to.group = at.group \/ (OpenHere(at) /\ to.group = Lost)
      /\ HeldOpen(at, OuterGroup) => to.group = at.group
  BY <1>2, LoseIs
<1>. HIDE DEF to
<1>4. Follows(LineNow, to, OuterGroup)  BY <1>2, <1>3, FollowsOn
<1>5. to.group = at.group \/ "freed" \in running'[1].did
  <2>1. CASE HeldOpen(LineNow, OuterGroup)  BY <2>1, <1>3 DEF Follows
  <2>2. CASE InHook /\ Tangled
    <3>1. "freed" \in running[1].did  BY <2>2 DEF Tangled
    <3>. QED  BY <3>1, InStepIs DEF SameSteps
  <2>. QED  BY <2>1, <2>2, InStepIs
<1>6. running # <<>> /\ (InHook => Len(running) = 2)  BY InStepIs
<1>7. to.here # here => "moved" \in running'[1].did  BY <1>3
<1>8. to.group.is = "lost" => (group.is = "lost" \/ "freed" \in running'[1].did)  BY <1>5
<1>. QED  BY <1>1, <1>4, <1>6, <1>7, <1>8, StepGoesOn

\* Steps and what they did, with something noted.
LEMMA Noting ==
    ASSUME StepsInv, InStep, NEW what, Note(what)
    PROVE  SameSteps /\ what \in running'[1].did
  BY InStepIs, NoteIs

\* Lisp's buffer functions, and the readline commands it calls.
LEMMA LispActs ==
    ASSUME StepsInv
    PROVE  /\ \A c \in Chars : LispInserts(c) => StepsInv' /\ SoundStep
           /\ LispDeletes => StepsInv' /\ SoundStep
           /\ \A p : LispMovesPoint(p) => StepsInv' /\ SoundStep
<1>. DEFINE b == BeforeChange(LineNow)
<1>1. ASSUME InStep
      PROVE  /\ LineState(b) /\ Follows(LineNow, b, OuterGroup) /\ b.here = here
             /\ b.group.is = "lost" => group.is = "lost"
             /\ LineState(LineNow) /\ running # <<>> /\ (InHook => Len(running) = 2)
  <2>1. running # <<>> /\ LineState(LineNow)  BY <1>1, InStepIs
  <2>2. InHook => Len(running) = 2  BY <1>1, InStepIs
  <2>. QED  BY <1>1, <2>1, <2>2, BeforeStepIs
<1>. HIDE DEF b
<1>2. ASSUME InStep, NEW to, LineBecomes(to), Note("changed"), HookSame,
             Follows(b, to, OuterGroup), to.here = b.here, to.group = b.group
      PROVE  StepsInv' /\ SoundStep
  <2>1. Follows(LineNow, to, OuterGroup)  BY <1>1, <1>2, FollowsOn
  <2>2. SameSteps /\ toRun' = toRun  BY <1>2, Noting DEF HookSame
  <2>3. to.here = here /\ (to.group.is = "lost" => group.is = "lost")  BY <1>1, <1>2
  <2>4. running # <<>> /\ (InHook => Len(running) = 2)  BY <1>2, InStepIs
  <2>. QED  BY <1>2, <2>1, <2>2, <2>3, <2>4, StepGoesOn
<1>3. ASSUME NEW c \in Chars, LispInserts(c) PROVE StepsInv' /\ SoundStep
  <2>. DEFINE to == Inserted(b, c)
  <2>1. InStep /\ LineBecomes(to) /\ Note("changed") /\ HookSame  BY <1>3 DEF LispInserts, b
  <2>2. Follows(b, to, OuterGroup) /\ to.here = b.here /\ to.group = b.group
    BY <1>1, <2>1, InsertedIs
  <2>. HIDE DEF to
  <2>. QED  BY <1>2, <2>1, <2>2
<1>4. ASSUME LispDeletes PROVE StepsInv' /\ SoundStep
  <2>. DEFINE to == Deleted(b)
  <2>1. InStep /\ LineBecomes(to) /\ Note("changed") /\ HookSame  BY <1>4 DEF LispDeletes, b
  <2>2. Follows(b, to, OuterGroup) /\ to.here = b.here /\ to.group = b.group
    BY <1>1, <2>1, DeletedIs
  <2>. HIDE DEF to
  <2>. QED  BY <1>2, <2>1, <2>2
<1>5. ASSUME NEW p, LispMovesPoint(p) PROVE StepsInv' /\ SoundStep
  <2>. DEFINE to == [LineNow EXCEPT !.point = p]
  <2>1. /\ InStep /\ point' = p /\ toRun' = toRun
        /\ UNCHANGED <<lines, here, level, group, running>>
    BY <1>5 DEF LispMovesPoint, HookSame
  <2>2. /\ running # <<>> /\ LineState(LineNow) /\ LineNow.group = group /\ LineNow.here = here
        /\ LineNow.level = level /\ LineNow.lines = lines /\ RunsAre(running)
    BY <2>1, InStepIs
  <2>3. /\ LineState(to) /\ to.here = here /\ to.level = level /\ to.group = group
        /\ to.lines = lines /\ to.point = p
    <3>1. to.point = p  BY DEF LineNow
    <3>. QED  BY <2>2, <3>1, SetIs
  <2>. HIDE DEF to
  <2>4. Follows(LineNow, to, OuterGroup)
    BY <2>2, <2>3 DEF Follows, SoundKept, UndoAt, HeldOpen
  <2>5. LineBecomes(to)  BY <2>1, <2>3 DEF LineBecomes
  <2>6. SameSteps  BY <2>1, <2>2 DEF SameSteps
  <2>7. InHook => Len(running) = 2  BY <2>1, InStepIs
  <2>8. to.here = here /\ to.group = group  BY <2>3
  <2>. QED  BY <2>1, <2>2, <2>4, <2>5, <2>6, <2>7, <2>8, StepGoesOn
<1>. QED  BY <1>3, <1>4, <1>5

\* The same of the readline commands that Lisp calls.
LEMMA CallsAct ==
    ASSUME StepsInv
    PROVE  /\ \A c \in Chars : CallEdits(c) => StepsInv' /\ SoundStep
           /\ \A h \in Histories : CallMoves(h) => StepsInv' /\ SoundStep
           /\ \A all \in BOOLEAN : CallUndoes(all) => StepsInv' /\ SoundStep
           /\ \A interrupt \in BOOLEAN : CallFrees(interrupt) => StepsInv' /\ SoundStep
<1>. DEFINE b == BeforeChange(LineNow)
            o == OuterGroup
<1>1. ASSUME InStep
      PROVE  /\ LineState(b) /\ Follows(LineNow, b, o) /\ b.here = here
             /\ b.group.is = "lost" => group.is = "lost"
             /\ b.group.is = "lost" \/ (b.group.is = "open" /\ b.group.history = b.here)
             /\ LineState(LineNow) /\ running # <<>>
  <2>1. running # <<>> /\ LineState(LineNow)  BY <1>1, InStepIs
  <2>. QED  BY <1>1, <2>1, BeforeStepIs
<1>2. ASSUME NEW c \in Chars, CallEdits(c) PROVE StepsInv' /\ SoundStep
  <2>. DEFINE to == Inserted(b, c)
  <2>1. InStep /\ Called(to) /\ Note("changed") /\ toRun' = toRun
    BY <1>2 DEF CallEdits, MayCall, HookSame, b
  <2>2. LineState(b) /\ LineState(LineNow)  BY <1>1, <2>1
  <2>. HIDE DEF b
  <2>3. Follows(b, to, o) /\ to.here = b.here /\ to.group = b.group  BY <2>2, InsertedIs
  <2>. HIDE DEF to
  <2>4. Follows(LineNow, to, o)  BY <1>1, <2>1, <2>2, <2>3, FollowsOn
  <2>5. SameSteps  BY <2>1, Noting
  <2>6. to.here = here /\ (to.group.is = "lost" => group.is = "lost")  BY <1>1, <2>1, <2>3
  <2>. QED  BY <2>1, <2>4, <2>5, <2>6, CallGoesOn
<1>3. ASSUME NEW h \in Histories, CallMoves(h) PROVE StepsInv' /\ SoundStep
  <2>. DEFINE to == Moved(b, h)
  <2>1. InStep /\ Called(to) /\ Note("moved") /\ toRun' = toRun
    BY <1>3 DEF CallMoves, MayCall, HookSame, b
  <2>2. LineState(b) /\ LineState(LineNow)  BY <1>1, <2>1
  <2>. HIDE DEF b
  <2>3. Follows(b, to, o) /\ to.group = b.group  BY <2>2, MovedIs
  <2>. HIDE DEF to
  <2>4. Follows(LineNow, to, o)  BY <1>1, <2>1, <2>2, <2>3, FollowsOn
  <2>5. SameSteps /\ "moved" \in running'[1].did  BY <2>1, Noting
  <2>6. to.group.is = "lost" => group.is = "lost"  BY <1>1, <2>1, <2>3
  <2>. QED  BY <2>1, <2>4, <2>5, <2>6, CallGoesOn
<1>4. ASSUME NEW interrupt \in BOOLEAN, CallFrees(interrupt) PROVE StepsInv' /\ SoundStep
  <2>. DEFINE to == LoseIfFreed(ListFreed(b))
  <2>1. InStep /\ LineBecomes(to) /\ Note("freed") /\ toRun' = toRun
    BY <1>4 DEF CallFrees, Called, MayCall, b
  <2>2. LineState(b) /\ LineState(LineNow)  BY <1>1, <2>1
  <2>. HIDE DEF b
  <2>3. Follows(b, to, o) /\ to.here = b.here  BY <1>1, <2>1, <2>2, FreedListIs
  <2>. HIDE DEF to
  <2>4. Follows(LineNow, to, o)  BY <1>1, <2>1, <2>2, <2>3, FollowsOn
  <2>5. SameSteps /\ "freed" \in running'[1].did  BY <2>1, Noting
  <2>6. to.here = here  BY <1>1, <2>1, <2>3
  <2>7. running # <<>> /\ (InHook => Len(running) = 2)  BY <2>1, InStepIs
  <2>. QED  BY <2>1, <2>4, <2>5, <2>6, <2>7, StepGoesOn
<1>5. ASSUME NEW all \in BOOLEAN, CallUndoes(all) PROVE StepsInv' /\ SoundStep
  <2>. DEFINE c == CloseGroup(LineNow)
              to == IF all THEN Revert(c) ELSE DoUndo(c)
  <2>1. InStep /\ Called(to) /\ Note("undid") /\ toRun' = toRun /\ ~InHook
    BY <1>5 DEF CallUndoes, MayCall, HookSame
  <2>2. /\ LineState(LineNow) /\ LineNow.group.is # "none" /\ Owed(LineNow.group) <= LineNow.level
        /\ LineNow.here = here /\ LineNow.group = group /\ LineNow.level = level
        /\ o = Outside /\ HeldOpen(LineNow, Outside)
    BY <2>1, InStepIs
  <2>3. Ended(LineNow, c) /\ c.group.is = "closed" /\ SoundKept(LineNow, c)
    BY <2>2, CloseIs
  <2>. HIDE DEF c
  <2>4. LineState(c)  BY <2>3 DEF Ended
  <2>5. \E k \in 0 .. Len(UndoAt(c, c.here)) : CutTo(c, to, k)
    <3>1. \E k \in 0 .. Len(UndoAt(c, c.here)) : CutTo(c, DoUndo(c), k)  BY <2>4, DoUndoIs
    <3>2. CutTo(c, Revert(c), 0)  BY <2>4, DoUndoIs
    <3>3. 0 \in 0 .. Len(UndoAt(c, c.here))  BY <3>2 DEF CutTo
    <3>. QED  BY <3>1, <3>2, <3>3
  <2>. HIDE DEF to
  <2>6. PICK k : CutTo(c, to, k)  BY <2>5
  <2>7. SoundKept(c, to)  BY <2>4, <2>6, CutSound
  <2>8. /\ LineState(to) /\ to.here = here /\ to.level = level - Owed(group)
        /\ to.group.is = "closed"
    BY <2>2, <2>3, <2>6 DEF CutTo, OnlyHere, Ended
  <2>9. Follows(LineNow, to, o)
    <3>1. SoundKept(LineNow, to)  BY <2>3, <2>7 DEF SoundKept
    <3>2. HeldOpen(to, o)
      <4>1. \A h \in Histories : OpenOn(to.group, h) + OpenOn(o, h) = 0
        BY <2>2, <2>8 DEF OpenOn, Outside
      <4>. QED  BY <4>1 DEF HeldOpen, OpenBy
    <3>3. to.level + Owed(LineNow.group) = LineNow.level + Owed(to.group)
      <4>1. level \in Nat /\ Owed(group) \in Nat /\ Owed(to.group) = 0
        BY <2>2, <2>8 DEF LineState, Owed
      <4>. QED  BY <2>2, <2>8, <4>1
    <3>. QED  BY <2>8, <3>1, <3>2, <3>3 DEF Follows
  <2>10. SameSteps  BY <2>1, Noting
  <2>11. to.here = here /\ to.group.is # "lost"  BY <2>8
  <2>. QED  BY <2>1, <2>9, <2>10, <2>11, CallGoesOn
<1>. QED  BY <1>2, <1>3, <1>4, <1>5

\* No step runs.
LEMMA NoneRuns ==
    ASSUME NEW to, LineState(to), LineBecomes(to), to.group = Outside, to.level = 0,
           running' = <<>>, toRun' = <<>>
    PROVE  StepsInv'
<1>1. /\ LineState(LineNow)' /\ group' = Outside /\ level' = 0
  <2>1. LineState(LineNow')  BY BecomesIs
  <2>2. LineState(LineNow)'  BY <2>1 DEF LineState, GroupOK, IsList
  <2>. QED  BY <2>2 DEF LineBecomes
<1>2. OuterGroup' = Outside /\ Len(running') # 2  BY DEF OuterGroup
<1>3. Owed(Outside) = 0 /\ \A h : OpenOn(Outside, h) = 0  BY DEF Owed, OpenOn, Outside
<1>4. HeldOpen(LineNow, OuterGroup)'
  <2>1. LineNow'.group = Outside  BY <1>1 DEF LineNow
  <2>2. \A h : OpenOn(LineNow'.group, h) + OpenOn(OuterGroup', h) = 0  BY <1>2, <1>3, <2>1
  <2>3. HeldOpen(LineNow', OuterGroup')  BY <2>2 DEF HeldOpen, OpenBy
  <2>. QED  BY <2>3 DEF HeldOpen, OpenBy, UndoAt, OpenOn
<1>5. FirstStep' /\ Second' /\ HookGroup'  BY <1>2 DEF FirstStep, Second, HookGroup, InHook
<1>6. level' = Owed(group') + Owed(OuterGroup')  BY <1>1, <1>2, <1>3
<1>7. RunsAre(running')  BY DEF RunsAre
<1>. QED  BY <1>1, <1>4, <1>5, <1>6, <1>7 DEF StepsInv, RunsAre, Owed

\* What holds as no step runs.
LEMMA NoStepIs ==
    ASSUME StepsInv, running = <<>>
    PROVE  /\ LineState(LineNow) /\ LineNow.group = Outside /\ LineNow.level = 0
           /\ LineNow.here = here /\ LineNow.lines = lines
           /\ group = Outside /\ level = 0 /\ toRun = <<>> /\ ~InHook
<1>1. OuterGroup = Outside /\ Owed(Outside) = 0  BY DEF OuterGroup, Owed, Outside
<1>. QED  BY <1>1 DEF StepsInv, LineNow, InHook

\* What the user does, and the new line.
LEMMA UsersActs ==
    ASSUME StepsInv
    PROVE  /\ \A c \in Chars : UserTypes(c) => StepsInv' /\ SoundStep
           /\ \A h \in Histories : UserMoves(h) => StepsInv' /\ SoundStep
           /\ UserUndoes => StepsInv' /\ SoundStep
           /\ NextLine => StepsInv' /\ SoundStep
<1>1. ASSUME running = <<>>, NEW to, LineBecomes(to), running' = running, toRun' = toRun,
             LineState(to), to.group = group, to.level = level, SoundKept(LineNow, to)
      PROVE  StepsInv' /\ SoundStep
  <2>1. group = Outside /\ level = 0 /\ toRun = <<>> /\ LineNow.lines = lines
    BY <1>1, NoStepIs
  <2>2. StepsInv'  BY <1>1, <2>1, NoneRuns
  <2>3. SoundStep  BY <1>1, <2>1 DEF SoundStep, SoundKept, LineBecomes, UndoAt
  <2>. QED  BY <2>2, <2>3
<1>2. ASSUME NEW c \in Chars, UserTypes(c) PROVE StepsInv' /\ SoundStep
  <2>. DEFINE to == Inserted(LineNow, c)
  <2>1. running = <<>> /\ LineBecomes(to) /\ running' = running /\ toRun' = toRun
    BY <1>2 DEF UserTypes
  <2>2. LineState(LineNow) /\ LineNow.group = group /\ LineNow.level = level
    BY <2>1, NoStepIs DEF LineNow
  <2>3. Follows(LineNow, to, Outside) /\ to.group = LineNow.group  BY <2>2, InsertedIs
  <2>. HIDE DEF to
  <2>4. to.level = level
    <3>1. level \in Nat /\ to.level \in Nat /\ Owed(to.group) \in Nat
      BY <2>2, <2>3 DEF LineState, Follows, Owed
    <3>. QED  BY <2>2, <2>3, <3>1 DEF Follows
  <2>. QED  BY <1>1, <2>1, <2>2, <2>3, <2>4 DEF Follows
<1>3. ASSUME NEW h \in Histories, UserMoves(h) PROVE StepsInv' /\ SoundStep
  <2>. DEFINE to == Moved(LineNow, h)
  <2>1. running = <<>> /\ LineBecomes(to) /\ running' = running /\ toRun' = toRun
    BY <1>3 DEF UserMoves
  <2>2. LineState(LineNow) /\ LineNow.group = group /\ LineNow.level = level
    BY <2>1, NoStepIs DEF LineNow
  <2>3. Follows(LineNow, to, Outside) /\ to.group = LineNow.group /\ to.level = LineNow.level
    BY <2>2, MovedIs
  <2>. HIDE DEF to
  <2>. QED  BY <1>1, <2>1, <2>2, <2>3 DEF Follows
<1>4. ASSUME UserUndoes PROVE StepsInv' /\ SoundStep
  <2>. DEFINE to == DoUndo(LineNow)
  <2>1. running = <<>> /\ LineBecomes(to) /\ running' = running /\ toRun' = toRun
    BY <1>4 DEF UserUndoes
  <2>2. LineState(LineNow) /\ LineNow.group = group /\ LineNow.level = level
    BY <2>1, NoStepIs DEF LineNow
  <2>3. PICK k : CutTo(LineNow, to, k)  BY <2>2, DoUndoIs
  <2>. HIDE DEF to
  <2>4. SoundKept(LineNow, to)  BY <2>2, <2>3, CutSound
  <2>5. LineState(to) /\ to.group = group /\ to.level = level  BY <2>2, <2>3 DEF CutTo, OnlyHere
  <2>. QED  BY <1>1, <2>1, <2>4, <2>5
<1>5. ASSUME NextLine PROVE StepsInv' /\ SoundStep
  <2>. DEFINE empty == [h \in Histories |-> [text |-> <<>>, undo |-> <<>>]]
              to == [lines |-> empty, here |-> here, point |-> 0, level |-> level, group |-> group]
  <2>1. running = <<>> /\ LineBecomes(to) /\ running' = running /\ toRun' = toRun
    BY <1>5 DEF NextLine, LineBecomes
  <2>2. LineState(LineNow) /\ LineNow.group = group /\ LineNow.level = level /\ LineNow.here = here
    BY <2>1, NoStepIs DEF LineNow
  <2>3. IsList(<<>>) /\ Sound(<<>>)
    <3>1. <<>> \in Seq({})  OBVIOUS
    <3>. QED  BY <3>1 DEF IsList, Sound
  <2>4. \A h \in Histories : DOMAIN empty[h] = {"text", "undo"} /\ empty[h].undo = <<>>
    OBVIOUS
  <2>5. DOMAIN empty = Histories  OBVIOUS
  <2>. HIDE DEF empty
  <2>6. LineState(to)  BY <2>2, <2>3, <2>4, <2>5 DEF LineState
  <2>7. SoundKept(LineNow, to)  BY <2>3, <2>4 DEF SoundKept, UndoAt
  <2>8. to.group = group /\ to.level = level  OBVIOUS
  <2>. HIDE DEF to
  <2>. QED  BY <1>1, <2>1, <2>6, <2>7, <2>8
<1>. QED  BY <1>2, <1>3, <1>4, <1>5

\* A step's start.
LEMMA StartIs ==
    ASSUME LineState(LineNow), NEW r, r = Start(LineNow)
    PROVE  /\ StepOK(r) /\ r.outer = group /\ r.history = here /\ r.did = {}
  BY DEF Start, StepOK, LineState, LineNow

\* One step and another.
LEMMA TwoIs ==
    ASSUME NEW x, NEW y
    PROVE  Append(<<x>>, y) = <<x, y>> /\ Front(<<x, y>>) = <<x>>
<1>. DEFINE S == {x, y}
<1>1. <<x>> \in Seq(S) /\ <<x, y>> \in Seq(S)  OBVIOUS
<1>2. Append(<<x>>, y) \in Seq(S) /\ Len(Append(<<x>>, y)) = 2  BY <1>1
<1>3. \A i \in 1 .. 2 : Append(<<x>>, y)[i] = <<x, y>>[i]
  <2>1. \A i \in 1 .. 2 : i = 1 \/ i = 2  OBVIOUS
  <2>2. Append(<<x>>, y)[1] = x /\ Append(<<x>>, y)[2] = y  BY <1>1
  <2>. QED  BY <2>1, <2>2
<1>4. Append(<<x>>, y) = <<x, y>>  BY <1>1, <1>2, <1>3, SeqEqual
<1>5. Front(<<x, y>>) = <<x>>
  <2>1. Front(<<x, y>>) = SubSeq(<<x, y>>, 1, 1)  BY DEF Front
  <2>2. /\ SubSeq(<<x, y>>, 1, 1) \in Seq(S) /\ Len(SubSeq(<<x, y>>, 1, 1)) = 1
        /\ SubSeq(<<x, y>>, 1, 1)[1] = x
    BY <1>1
  <2>3. \A i \in 1 .. 1 : SubSeq(<<x, y>>, 1, 1)[i] = <<x>>[i]
    <3>1. \A i \in 1 .. 1 : i = 1  OBVIOUS
    <3>. QED  BY <2>2, <3>1
  <2>. QED  BY <1>1, <2>1, <2>2, <2>3, SeqEqual
<1>. QED  BY <1>4, <1>5

\* Steps that start.
LEMMA StepStarts ==
    ASSUME StepsInv
    PROVE  /\ CommandStarts => StepsInv' /\ SoundStep
           /\ \A n \in 1 .. MaxFunctions : HookStarts(n) => StepsInv' /\ SoundStep
           /\ FunctionStarts => StepsInv' /\ SoundStep
<1>. DEFINE r == Start(LineNow)
<1>1. LineState(LineNow) /\ StepOK(r) /\ r.outer = group /\ r.history = here /\ r.did = {}
  BY StartIs DEF StepsInv
<1>. HIDE DEF r
<1>2. /\ Owed(Closed) = 0 /\ Owed(Outside) = 0
      /\ \A h : OpenOn(Closed, h) = 0 /\ OpenOn(Outside, h) = 0
      /\ Closed.is = "closed" /\ GroupOK(Closed)
  BY DEF Owed, Closed, Outside, OpenOn, GroupOK
<1>3. \A to : LineState(to) /\ LineBecomes(to) =>
          /\ LineState(LineNow)' /\ here' = to.here /\ level' = to.level /\ group' = to.group
          /\ lines' = to.lines /\ LineNow'.group = to.group
          /\ \A x : HeldOpen(to, x) => HeldOpen(LineNow', x)
  <2>1. SUFFICES ASSUME NEW to, LineState(to), LineBecomes(to)
        PROVE  /\ LineState(LineNow)' /\ here' = to.here /\ level' = to.level /\ group' = to.group
               /\ lines' = to.lines /\ LineNow'.group = to.group
               /\ \A x : HeldOpen(to, x) => HeldOpen(LineNow', x)
    OBVIOUS
  <2>2. /\ LineState(LineNow') /\ LineNow'.group = to.group
        /\ \A x : HeldOpen(to, x) => HeldOpen(LineNow', x)
    BY <2>1, BecomesIs
  <2>3. LineState(LineNow)'  BY <2>2 DEF LineState, GroupOK, IsList
  <2>. QED  BY <2>1, <2>2, <2>3 DEF LineBecomes
<1>. DEFINE a == [LineNow EXCEPT !.group = Closed]
<1>4. /\ LineState(a) /\ a.here = here /\ a.level = level /\ a.group = Closed /\ a.lines = lines
      /\ a.point = point
  <2>1. LineNow.here = here /\ LineNow.level = level /\ LineNow.lines = lines /\ a.point = point
    BY DEF LineNow
  <2>. QED  BY <1>1, <1>2, <2>1, SetIs
<1>5. \A x : HeldOpen(LineNow', x) => HeldOpen(LineNow, x)'
  BY DEF HeldOpen, OpenBy, UndoAt, OpenOn
<1>. HIDE DEF a
\* The first step starts.
<1>6. ASSUME running = <<>>, running' = <<r>>, NEW to, LineState(to), LineBecomes(to),
             to.here = here, to.group.is \notin {"none", "lost"},
             to.group.is = "open" => to.group.history = here,
             to.level = Owed(to.group), SoundKept(LineNow, to), HeldOpen(to, Outside)
      PROVE  StepsInv' /\ SoundStep
  <2>1. group = Outside /\ level = 0 /\ LineNow.lines = lines  BY <1>6, NoStepIs
  <2>2. /\ LineState(LineNow)' /\ here' = here /\ level' = to.level /\ group' = to.group
        /\ lines' = to.lines /\ HeldOpen(LineNow', Outside)
    BY <1>3, <1>6
  <2>3. Len(running') = 1 /\ running'[1] = r /\ running' # <<>> /\ running' = <<running'[1]>>
    BY <1>6
  <2>4. OuterGroup' = Outside  BY <2>3 DEF OuterGroup
  <2>5. FirstStep'  BY <1>1, <1>6, <2>1, <2>2, <2>3 DEF FirstStep, StepOK, GroupOK
  <2>6. Second' /\ HookGroup'  BY <1>1, <1>6, <2>2, <2>3 DEF Second, HookGroup
  <2>7. level' = Owed(group)' + Owed(OuterGroup)'
    <3>1. Owed(to.group) \in Nat  BY DEF Owed
    <3>2. level' = Owed(group') + Owed(OuterGroup')  BY <1>2, <1>6, <2>2, <2>4, <3>1
    <3>. QED  BY <3>2 DEF Owed
  <2>8. HeldOpen(LineNow, OuterGroup)'
    <3>1. HeldOpen(LineNow', OuterGroup')  BY <2>2, <2>4
    <3>. QED  BY <3>1 DEF HeldOpen, OpenBy, UndoAt, OpenOn
  <2>9. StepsInv'  BY <2>2, <2>3, <2>5, <2>6, <2>7, <2>8 DEF StepsInv, RunsAre
  <2>10. SoundStep  BY <1>6, <2>1, <2>2 DEF SoundStep, SoundKept, UndoAt
  <2>. QED  BY <2>9, <2>10
<1>7. ASSUME CommandStarts PROVE StepsInv' /\ SoundStep
  <2>1. running = <<>> /\ running' = <<r>> /\ LineBecomes(a)
    BY <1>4, <1>7 DEF CommandStarts, LineBecomes, r
  <2>2. LineNow.lines = lines /\ level = 0  BY <2>1, NoStepIs
  <2>3. SoundKept(LineNow, a)  BY <1>4, <2>2 DEF SoundKept, UndoAt
  <2>4. HeldOpen(a, Outside)  BY <1>2, <1>4 DEF HeldOpen, OpenBy
  <2>. QED  BY <1>2, <1>4, <1>6, <2>1, <2>2, <2>3, <2>4
<1>8. ASSUME NEW n \in 1 .. MaxFunctions, HookStarts(n) PROVE StepsInv' /\ SoundStep
  <2>. DEFINE to == BeforeChange(a)
  <2>1. running = <<>> /\ running' = <<r>> /\ LineBecomes(to)
    BY <1>8 DEF HookStarts, r, a
  <2>2. LineNow.lines = lines /\ level = 0  BY <2>1, NoStepIs
  <2>3. /\ Follows(a, to, Outside) /\ to.here = here
        /\ to.group.is = "open" /\ to.group.history = here
    <3>1. Owed(a.group) <= a.level /\ a.group.is # "none" /\ a.group.is # "lost"
      BY <1>2, <1>4, <2>2
    <3>2. /\ Follows(a, to, Outside) /\ to.here = a.here
          /\ to.group.is \in {"open", "lost"} /\ (to.group.is = "lost" <=> a.group.is = "lost")
          /\ to.group.is = "open" => to.group.history = a.here
      BY <1>4, <3>1, BeforeChangeIs
    <3>. HIDE DEF to
    <3>. QED  BY <1>4, <3>1, <3>2
  <2>. HIDE DEF to
  <2>4. HeldOpen(a, Outside)  BY <1>2, <1>4 DEF HeldOpen, OpenBy
  <2>5. SoundKept(LineNow, to)
    <3>1. SoundKept(LineNow, a)  BY <1>4, <2>2 DEF SoundKept, UndoAt
    <3>. QED  BY <2>3, <3>1 DEF SoundKept, Follows
  <2>6. LineState(to) /\ HeldOpen(to, Outside) /\ to.level = Owed(to.group)
    <3>1. to.level \in Nat /\ Owed(to.group) \in Nat
      BY <2>3 DEF Follows, LineState, Owed
    <3>. QED  BY <1>2, <1>4, <2>2, <2>3, <2>4, <3>1 DEF Follows
  <2>. QED  BY <1>6, <2>1, <2>3, <2>5, <2>6
<1>9. ASSUME FunctionStarts PROVE StepsInv' /\ SoundStep
  <2>. DEFINE one == running[1]
  <2>1. /\ InHook /\ Len(running) = 1 /\ running' = Append(running, r)
        /\ InHook' /\ LineBecomes(a)
    <3>1. \A x : <<x>> # <<>>  OBVIOUS
    <3>. QED  BY <1>4, <1>9, <3>1 DEF FunctionStarts, r, LineBecomes, InHook
  <2>2. running = <<one>> /\ running # <<>>  BY <2>1, RunsLen DEF StepsInv
  <2>3. /\ Len(running') = 2 /\ running' = <<one, r>> /\ running'[1] = one /\ running'[2] = r
        /\ running' # <<>> /\ running' = <<running'[1], running'[2]>>
    <3>1. \A x, y : Append(<<x>>, y) = <<x, y>>  BY TwoIs
    <3>2. running' = <<one, r>>
      <4>. HIDE DEF one
      <4>. QED  BY <2>1, <2>2, <3>1
    <3>. HIDE DEF one
    <3>. QED  BY <3>2
  <2>4. OuterGroup = Outside /\ OuterGroup' = group
    BY <1>1, <2>1, <2>3 DEF OuterGroup
  <2>5. /\ StepOK(one) /\ one.outer = Outside /\ group.is # "none"
        /\ here # one.history => "moved" \in one.did
        /\ group.is = "lost" => "freed" \in one.did
        /\ group.is = "open" => group.history = one.history
        /\ level = Owed(group) + Owed(Outside)
        /\ Tangled \/ HeldOpen(LineNow, Outside)
    BY <2>1, <2>2, <2>4 DEF StepsInv, FirstStep, HookGroup
  <2>6. /\ LineState(LineNow)' /\ here' = here /\ level' = level /\ group' = Closed
        /\ lines' = lines
        /\ HeldOpen(a, group) => HeldOpen(LineNow', OuterGroup')
    BY <1>3, <1>4, <2>1, <2>4
  <2>7. FirstStep'  BY <1>2, <2>3, <2>5, <2>6 DEF FirstStep, StepOK, GroupOK
  <2>8. Second'  BY <1>1, <2>1, <2>3, <2>5 DEF Second, StepOK, GroupOK
  <2>9. HookGroup'  BY <1>1, <2>3, <2>5 DEF HookGroup
  <2>10. level' = Owed(group)' + Owed(OuterGroup)'
    <3>1. Owed(group) \in Nat  BY DEF Owed
    <3>2. level' = Owed(group') + Owed(OuterGroup')  BY <1>2, <2>4, <2>5, <2>6, <3>1
    <3>. QED  BY <3>2 DEF Owed
  <2>11. HeldOpen(LineNow, Outside) => HeldOpen(LineNow, OuterGroup)'
    <3>1. SUFFICES ASSUME HeldOpen(LineNow, Outside) PROVE HeldOpen(LineNow', OuterGroup')
      BY DEF HeldOpen, OpenBy, UndoAt, OpenOn
    <3>2. ASSUME NEW h \in Histories PROVE OpenBy(UndoAt(a, h), OpenOn(Closed, h) + OpenOn(group, h))
      <4>1. OpenOn(group, h) \in {0, 1} /\ OpenOn(Closed, h) = 0 /\ OpenOn(Outside, h) = 0
        BY <1>2 DEF OpenOn
      <4>2. /\ OpenOn(Closed, h) + OpenOn(group, h) = OpenOn(group, h)
            /\ OpenOn(group, h) + OpenOn(Outside, h) = OpenOn(group, h)
        BY <4>1
      <4>3. UndoAt(a, h) = UndoAt(LineNow, h)  BY <1>4 DEF UndoAt, LineNow
      <4>4. CASE OpenOn(group, h) = 0  BY <4>2, <4>4 DEF OpenBy
      <4>5. CASE OpenOn(group, h) # 0
        <5>1. group.is # "lost" /\ LineNow.group = group  BY <4>5 DEF OpenOn, LineNow
        <5>2. OpenBy(UndoAt(LineNow, h), OpenOn(group, h) + OpenOn(Outside, h))
          BY <3>1, <5>1 DEF HeldOpen
        <5>. QED  BY <4>2, <4>3, <5>2
      <4>. QED  BY <4>4, <4>5
    <3>3. HeldOpen(a, group)  BY <1>4, <3>2 DEF HeldOpen
    <3>. QED  BY <2>6, <3>3
  <2>12. Tangled => (InHook /\ Tangled)'  BY <2>1, <2>2, <2>3 DEF Tangled
  <2>13. StepsInv'
    BY <2>3, <2>5, <2>6, <2>7, <2>8, <2>9, <2>10, <2>11, <2>12 DEF StepsInv, RunsAre
  <2>14. SoundStep  BY <2>6 DEF SoundStep
  <2>. QED  BY <2>13, <2>14
<1>. QED  BY <1>7, <1>8, <1>9

\* What holds as steps run.
LEMMA RunningIs ==
    ASSUME StepsInv, running # <<>>
    PROVE  /\ LineState(LineNow) /\ LineNow.group = group /\ LineNow.here = here
           /\ LineNow.level = level /\ LineNow.lines = lines
           /\ StepOK(running[1]) /\ running[1].outer = Outside /\ GroupOK(Outside)
           /\ Owed(Outside) = 0 /\ Owed(group) \in Nat /\ Owed(OuterGroup) \in Nat
           /\ level = Owed(group) + Owed(OuterGroup) /\ Owed(group) <= level
           /\ (InHook /\ Tangled) \/ HeldOpen(LineNow, OuterGroup)
           /\ Len(running) # 2 => OuterGroup = Outside /\ running = <<running[1]>>
           /\ Len(running) = 2 => /\ OuterGroup = running[2].outer /\ StepOK(running[2]) /\ InHook
                                  /\ running = <<running[1], running[2]>>
<1>1. /\ LineState(LineNow) /\ StepOK(running[1]) /\ running[1].outer = Outside
      /\ level = Owed(group) + Owed(OuterGroup)
      /\ (InHook /\ Tangled) \/ HeldOpen(LineNow, OuterGroup)
      /\ Len(running) = 2 => StepOK(running[2]) /\ InHook
  BY DEF StepsInv, FirstStep, Second
<1>2. /\ Len(running) # 2 => running = <<running[1]>>
      /\ Len(running) = 2 => running = <<running[1], running[2]>>
  BY RunsLen DEF StepsInv
<1>3. /\ Owed(Outside) = 0 /\ Owed(group) \in Nat /\ Owed(OuterGroup) \in Nat
      /\ GroupOK(Outside)
  BY DEF Owed, Outside, GroupOK
<1>4. Owed(group) <= level  BY <1>1, <1>3
<1>5. /\ LineNow.group = group /\ LineNow.here = here /\ LineNow.level = level
      /\ LineNow.lines = lines
  BY DEF LineNow
<1>. QED  BY <1>1, <1>2, <1>3, <1>4, <1>5 DEF OuterGroup

\* A step that no other runs in ends.
LEMMA LastEnds ==
    ASSUME StepsInv, running # <<>>, Len(running) # 2, NEW result,
           LineBecomes(Finished(LineNow, running[1], result)), running' = <<>>, toRun' = <<>>
    PROVE  StepsInv' /\ SoundStep
<1>. DEFINE to == Finished(LineNow, running[1], result)
            step == running[1]
<1>1. /\ LineState(LineNow) /\ LineNow.group = group /\ LineNow.here = here
      /\ LineNow.level = level /\ LineNow.lines = lines
      /\ StepOK(step) /\ step.outer = Outside /\ OuterGroup = Outside
      /\ Owed(Outside) = 0 /\ Owed(group) \in Nat /\ level = Owed(group) + Owed(Outside)
      /\ Owed(group) <= level
      /\ (InHook /\ Tangled) \/ HeldOpen(LineNow, Outside)
  <2>1. OuterGroup = Outside  BY RunningIs
  <2>. QED  BY <2>1, RunningIs
<1>2. LineBecomes(to)  OBVIOUS
<1>3. /\ Ended(LineNow, to)
      /\ to.group = Outside \/ Outside.is = "open"
      /\ HeldOpen(LineNow, Outside) => SoundKept(LineNow, to)
  <2>1. GroupOK(step.outer)  BY <1>1 DEF StepOK
  <2>. HIDE DEF step
  <2>. QED  BY <1>1, <2>1, FinishedIs DEF step
<1>. HIDE DEF to, step
<1>4. LineState(to) /\ to.group = Outside /\ to.level = 0
  BY <1>1, <1>3 DEF Ended, Outside
<1>5. StepsInv'  BY <1>2, <1>4, NoneRuns
<1>6. SoundStep
  BY <1>1, <1>2, <1>3 DEF SoundStep, SoundKept, UndoAt, LineBecomes
<1>. QED  BY <1>5, <1>6

\* A function of a hook ends.
LEMMA FunctionDone ==
    ASSUME StepsInv, NEW result, NEW ends, FunctionEnds(result, ends)
    PROVE  StepsInv' /\ SoundStep
<1>. DEFINE one == running[1]
            two == running[2]
            to == Finished(LineNow, two, result)
<1>1. InHook /\ Len(running) = 2 /\ LineBecomes(to) /\ running' = Front(running)
  BY DEF FunctionEnds
<1>2. InHook'
  <2>1. \A x, y : <<x, y>> # <<>>  OBVIOUS
  <2>. QED  BY <1>1, <2>1 DEF FunctionEnds, InHook
<1>3. running # <<>>  BY <1>1, RunsLen DEF StepsInv
<1>4. /\ LineState(LineNow) /\ LineNow.group = group /\ LineNow.here = here
      /\ LineNow.level = level /\ LineNow.lines = lines
      /\ StepOK(one) /\ one.outer = Outside /\ StepOK(two) /\ OuterGroup = two.outer
      /\ Owed(Outside) = 0 /\ Owed(group) \in Nat /\ Owed(two.outer) \in Nat
      /\ level = Owed(group) + Owed(two.outer) /\ Owed(group) <= level
      /\ Tangled \/ HeldOpen(LineNow, two.outer)
      /\ running = <<one, two>>
  BY <1>1, <1>3, RunningIs
<1>5. running' = <<one>> /\ Len(running') = 1 /\ running'[1] = one /\ running' # <<>>
  <2>1. running' = <<one>>
    <3>1. \A x, y : Front(<<x, y>>) = <<x>>  BY TwoIs
    <3>. HIDE DEF one, two
    <3>. QED  BY <1>1, <1>4, <3>1
  <2>. HIDE DEF one
  <2>. QED  BY <2>1
<1>6. /\ here # one.history => "moved" \in one.did
      /\ group.is = "lost" => "freed" \in one.did
      /\ two.outer.is # "none" /\ (two.outer.is = "lost" => "freed" \in one.did)
      /\ two.outer.is = "open" => two.outer.history = one.history
  BY <1>1, <1>3 DEF StepsInv, FirstStep, Second, HookGroup
<1>7. /\ Ended(LineNow, to)
      /\ to.group = two.outer \/ (two.outer.is = "open" /\ to.group = Lost /\ group.is = "lost")
      /\ HeldOpen(LineNow, two.outer) => SoundKept(LineNow, to)
      /\ HeldOpen(LineNow, two.outer)
           /\ (group.is = "lost" /\ two.outer.is = "open" => two.outer.history = here)
           => OpenFor(to, to.group)
  <2>1. GroupOK(two.outer)  BY <1>4 DEF StepOK
  <2>. HIDE DEF two
  <2>. QED  BY <1>4, <2>1, FinishedIs DEF two
<1>. HIDE DEF to
<1>8. /\ LineState(to) /\ to.here = here /\ to.level = Owed(two.outer)
      /\ Owed(to.group) = Owed(two.outer) /\ to.group.is # "none"
      /\ to.group.is = "lost" => "freed" \in one.did
      /\ to.group.is = "open" => to.group.history = one.history
  <2>1. LineState(to) /\ to.here = here /\ to.level = Owed(two.outer)
    BY <1>4, <1>7 DEF Ended
  <2>. QED  BY <1>6, <1>7, <2>1 DEF Owed, Lost
<1>9. /\ LineState(LineNow)' /\ here' = to.here /\ level' = to.level /\ group' = to.group
      /\ lines' = to.lines
      /\ OpenFor(to, to.group) => HeldOpen(LineNow, OuterGroup)'
  <2>1. /\ LineState(LineNow')
        /\ \A o : (to.group.is # "none" /\ OpenFor(to, to.group) /\ o.is = "none")
                      => HeldOpen(LineNow', o)
    BY <1>1, <1>8, BecomesIs
  <2>2. LineState(LineNow)'  BY <2>1 DEF LineState, GroupOK, IsList
  <2>3. OpenFor(to, to.group) => HeldOpen(LineNow', OuterGroup')
    <3>1. OuterGroup' = Outside /\ Outside.is = "none"  BY <1>5 DEF OuterGroup, Outside
    <3>. QED  BY <1>8, <2>1, <3>1
  <2>4. HeldOpen(LineNow', OuterGroup') => HeldOpen(LineNow, OuterGroup)'
    BY DEF HeldOpen, OpenBy, UndoAt, OpenOn
  <2>. QED  BY <1>1, <2>2, <2>3, <2>4 DEF LineBecomes
<1>10. OuterGroup' = Outside  BY <1>5 DEF OuterGroup
<1>11. FirstStep'  BY <1>4, <1>5, <1>6, <1>8, <1>9 DEF FirstStep, StepOK, GroupOK
<1>12. Second' /\ HookGroup'  BY <1>5, <1>8, <1>9 DEF Second, HookGroup
<1>13. level' = Owed(group)' + Owed(OuterGroup)'
  <2>1. level' = Owed(group') + Owed(OuterGroup')  BY <1>4, <1>8, <1>9, <1>10
  <2>. QED  BY <2>1 DEF Owed
<1>14. (InHook /\ Tangled)' \/ HeldOpen(LineNow, OuterGroup)'
  <2>1. CASE Tangled  BY <1>2, <1>3, <1>5, <2>1 DEF Tangled
  <2>2. CASE ~Tangled
    <3>1. "freed" \in one.did => here = one.history  BY <1>3, <1>6, <2>2 DEF Tangled
    <3>2. group.is = "lost" /\ two.outer.is = "open" => two.outer.history = here
      BY <1>6, <3>1
    <3>. QED  BY <1>4, <1>7, <1>9, <2>2, <3>2
  <2>. QED  BY <2>1, <2>2
<1>15. StepsInv'
  BY <1>5, <1>9, <1>11, <1>12, <1>13, <1>14 DEF StepsInv, RunsAre
<1>16. SoundStep
  BY <1>1, <1>4, <1>7, <1>9 DEF SoundStep, SoundKept, UndoAt
<1>. QED  BY <1>15, <1>16

\* A panic.
LEMMA PanicsEnd ==
    ASSUME StepsInv, Panics
    PROVE  StepsInv' /\ SoundStep
<1>. DEFINE one == running[1]
            two == running[2]
            to == AllDropped(LineNow)
            inner == Dropped(LineNow, Last(running))
<1>1. running # <<>> /\ LineBecomes(to) /\ running' = <<>> /\ toRun' = <<>>
  BY DEF Panics, InStep
<1>2. /\ LineState(LineNow) /\ LineNow.group = group /\ LineNow.here = here
      /\ LineNow.level = level /\ LineNow.lines = lines
      /\ StepOK(one) /\ one.outer = Outside /\ GroupOK(Outside)
      /\ Owed(Outside) = 0 /\ Owed(group) \in Nat /\ Owed(OuterGroup) \in Nat
      /\ level = Owed(group) + Owed(OuterGroup) /\ Owed(group) <= level
      /\ (InHook /\ Tangled) \/ HeldOpen(LineNow, OuterGroup)
      /\ Len(running) # 2 => OuterGroup = Outside /\ running = <<one>>
      /\ Len(running) = 2 => /\ OuterGroup = two.outer /\ StepOK(two) /\ InHook
                             /\ running = <<one, two>>
  BY <1>1, RunningIs
<1>3. to = IF Len(running) = 1 THEN inner ELSE Dropped(inner, one)  BY DEF AllDropped
<1>4. /\ LineState(to) /\ to.group = Outside /\ to.level = 0
      /\ (InHook /\ Tangled) \/ SoundKept(LineNow, to)
  <2>1. CASE Len(running) # 2
    <3>1. Len(running) = 1 /\ Last(running) = one
      <4>. HIDE DEF one
      <4>1. running = <<one>>  BY <1>2, <2>1
      <4>. QED  BY <4>1 DEF Last
    <3>2. GroupOK(one.outer)  BY <1>2
    <3>. HIDE DEF one
    <3>3. /\ Ended(LineNow, Dropped(LineNow, one)) /\ Dropped(LineNow, one).group = one.outer
          /\ HeldOpen(LineNow, one.outer) => SoundKept(LineNow, Dropped(LineNow, one))
      BY <1>2, <3>2, DroppedIs
    <3>4. to = Dropped(LineNow, one)  BY <1>3, <3>1
    <3>. HIDE DEF to, inner
    <3>. QED  BY <1>2, <2>1, <3>3, <3>4 DEF Ended
  <2>2. CASE Len(running) = 2
    <3>1. Last(running) = two  BY <2>2 DEF Last
    <3>2. GroupOK(two.outer) /\ GroupOK(one.outer)  BY <1>2, <2>2 DEF StepOK
    <3>3. inner = Dropped(LineNow, two) /\ to = Dropped(inner, one)  BY <1>3, <2>2, <3>1
    <3>. HIDE DEF two, one, to, inner
    <3>4. /\ Ended(LineNow, inner) /\ inner.group = two.outer
          /\ HeldOpen(LineNow, two.outer) => SoundKept(LineNow, inner)
      BY <1>2, <3>2, <3>3, DroppedIs
    <3>5. /\ LineState(inner) /\ inner.here = here /\ inner.level = Owed(two.outer)
          /\ Owed(two.outer) \in Nat
      BY <1>2, <2>2, <3>4 DEF Ended
    <3>6. Owed(inner.group) <= inner.level  BY <3>4, <3>5
    <3>7. /\ Ended(inner, to) /\ to.group = one.outer
          /\ (OpenHere(inner) => inner.here = one.history) => SoundKept(inner, to)
      BY <3>2, <3>3, <3>5, <3>6, DroppedIs
    <3>8. LineState(to) /\ to.group = Outside /\ to.level = 0
      BY <1>2, <3>4, <3>5, <3>7 DEF Ended
    <3>9. OpenHere(inner) => inner.here = one.history
      <4>1. InHook => (two.outer.is = "open" => two.outer.history = one.history)
        BY <2>2 DEF StepsInv, HookGroup, one, two
      <4>. QED  BY <1>2, <2>2, <3>4, <4>1 DEF OpenHere
    <3>10. (InHook /\ Tangled) \/ SoundKept(LineNow, to)
      BY <1>2, <2>2, <3>4, <3>7, <3>9 DEF SoundKept
    <3>. QED  BY <3>8, <3>10
  <2>. QED  BY <2>1, <2>2
<1>. HIDE DEF to
<1>5. StepsInv'  BY <1>1, <1>4, NoneRuns
<1>6. SoundStep  BY <1>1, <1>2, <1>4 DEF SoundStep, SoundKept, UndoAt, LineBecomes
<1>. QED  BY <1>5, <1>6

\* The count of the groups that are open is that of the steps.
LEMMA CountIsOfSteps ==
    ASSUME StepsInv
    PROVE  GroupsBalanced
<1>. DEFINE open == {"open", "lost"}
            s == {i \in DOMAIN running :
                     (IF i < Len(running) THEN running[i + 1].outer ELSE group).is \in open}
<1>1. /\ Len(running) \in {0, 1, 2} /\ DOMAIN running = 1 .. Len(running)
      /\ running = <<>> <=> Len(running) = 0
  BY RunsLen DEF StepsInv
<1>2. level = Owed(group) + Owed(OuterGroup)  BY DEF StepsInv
<1>3. \A x : Cardinality({x}) = 1  BY FS_Singleton
<1>4. Cardinality({}) = 0  BY FS_EmptySet
<1>5. level = Cardinality(s)
  <2>1. CASE Len(running) = 0
    <3>1. s = {}  BY <1>1, <2>1
    <3>2. group = Outside /\ OuterGroup = Outside
      BY <1>1, <2>1 DEF StepsInv, OuterGroup
    <3>3. Owed(Outside) = 0  BY DEF Owed, Outside
    <3>. HIDE DEF s
    <3>. QED  BY <1>2, <1>4, <3>1, <3>2, <3>3
  <2>2. CASE Len(running) = 1
    <3>1. s = IF group.is \in open THEN {1} ELSE {}  BY <1>1, <2>2
    <3>2. OuterGroup = Outside /\ Owed(Outside) = 0  BY <2>2 DEF OuterGroup, Owed, Outside
    <3>3. Owed(group) = IF group.is \in open THEN 1 ELSE 0  BY DEF Owed
    <3>. HIDE DEF s
    <3>. QED  BY <1>2, <1>3, <1>4, <3>1, <3>2, <3>3
  <2>3. CASE Len(running) = 2
    <3>. DEFINE g == running[2].outer
                first == IF g.is \in open THEN {1} ELSE {}
                second == IF group.is \in open THEN {2} ELSE {}
    <3>1. \A i \in 1 .. 2 : i = 1 \/ i = 2  OBVIOUS
    <3>2. s = first \cup second
      <4>1. \A i \in DOMAIN running : i = 1 \/ i = 2  BY <1>1, <2>3, <3>1
      <4>2. 1 \in DOMAIN running /\ 2 \in DOMAIN running  BY <1>1, <2>3
      <4>3. 1 \in s <=> g.is \in open  BY <2>3, <4>2
      <4>4. 2 \in s <=> group.is \in open  BY <2>3, <4>2
      <4>5. s \subseteq {1, 2}  BY <4>1
      <4>. HIDE DEF s, g
      <4>. QED  BY <4>3, <4>4, <4>5
    <3>3. OuterGroup = g  BY <2>3 DEF OuterGroup
    <3>4. /\ Owed(group) = IF group.is \in open THEN 1 ELSE 0
          /\ Owed(g) = IF g.is \in open THEN 1 ELSE 0
      BY DEF Owed
    <3>5. Cardinality({1, 2}) = 2
      <4>. DEFINE A == {1}
      <4>1. {1, 2} = A \cup {2} /\ 2 \notin A  OBVIOUS
      <4>2. IsFiniteSet(A) /\ Cardinality(A) = 1  BY FS_Singleton
      <4>. HIDE DEF A
      <4>3. Cardinality(A \cup {2}) = Cardinality(A) + 1  BY <4>1, <4>2, FS_AddElement
      <4>. QED  BY <4>1, <4>2, <4>3
    <3>6. \/ first \cup second = {1, 2} /\ Owed(group) + Owed(g) = 2
          \/ first \cup second = {1} /\ Owed(group) + Owed(g) = 1
          \/ first \cup second = {2} /\ Owed(group) + Owed(g) = 1
          \/ first \cup second = {} /\ Owed(group) + Owed(g) = 0
      BY <3>4
    <3>. HIDE DEF s, first, second, g
    <3>. QED  BY <1>2, <1>3, <1>4, <3>2, <3>3, <3>5, <3>6
  <2>. QED  BY <1>1, <2>1, <2>2, <2>3
<1>. QED  BY <1>5 DEF GroupsBalanced, OpenGroups

\* It starts so.
LEMMA StepsStart ==
    ASSUME StepsInit
    PROVE  StepsInv
<1>. DEFINE empty == [h \in Histories |-> [text |-> <<>>, undo |-> <<>>]]
<1>1. here \in Histories  BY StepsAssumption DEF StepsInit
<1>2. IsList(<<>>)
  <2>1. <<>> \in Seq({})  OBVIOUS
  <2>. QED  BY <2>1 DEF IsList
<1>3. DOMAIN empty = Histories
      /\ \A h \in Histories : DOMAIN empty[h] = {"text", "undo"} /\ empty[h].undo = <<>>
  OBVIOUS
<1>4. lines = empty /\ level = 0 /\ group = Outside /\ running = <<>> /\ toRun = <<>>
  BY DEF StepsInit
<1>. HIDE DEF empty
<1>5. LineState(LineNow)
  <2>1. GroupOK(Outside)  BY DEF GroupOK, Outside
  <2>. QED  BY <1>1, <1>2, <1>3, <1>4, <2>1 DEF LineState, LineNow
<1>6. OuterGroup = Outside  BY <1>4 DEF OuterGroup
<1>7. Owed(Outside) = 0 /\ \A h : OpenOn(Outside, h) = 0  BY DEF Owed, OpenOn, Outside
<1>8. HeldOpen(LineNow, OuterGroup)
  <2>1. LineNow.group = Outside  BY <1>4 DEF LineNow
  <2>2. \A h : OpenOn(LineNow.group, h) + OpenOn(OuterGroup, h) = 0  BY <1>6, <1>7, <2>1
  <2>. QED  BY <2>2 DEF HeldOpen, OpenBy
<1>9. FirstStep /\ Second /\ HookGroup  BY <1>4 DEF FirstStep, Second, HookGroup, InHook
<1>10. RunsAre(running)  BY <1>4 DEF RunsAre
<1>. QED  BY <1>4, <1>5, <1>6, <1>7, <1>8, <1>9, <1>10 DEF StepsInv

\* Every step keeps what the steps keep.
LEMMA StepsKept ==
    ASSUME StepsInv, [StepsNext]_stepsVars
    PROVE  StepsInv' /\ SoundStep
<1>1. CASE CommandStarts \/ FunctionStarts  BY <1>1, StepStarts
<1>2. CASE \E n \in 1 .. MaxFunctions : HookStarts(n)  BY <1>2, StepStarts
<1>3. CASE HookEnds
  <2>1. running # <<>> /\ Len(running) # 2
    BY <1>3, RunsLen DEF HookEnds, StepsInv
  <2>. DEFINE result == IF RunFailed THEN "quit" ELSE "ok"
  <2>2. LineBecomes(Finished(LineNow, running[1], result)) /\ running' = <<>> /\ toRun' = <<>>
    BY <1>3 DEF HookEnds
  <2>. HIDE DEF result
  <2>. QED  BY <2>1, <2>2, LastEnds
<1>4. CASE Panics  BY <1>4, PanicsEnd
<1>5. CASE LispDeletes  BY <1>5, LispActs
<1>6. CASE \E c \in Chars : LispInserts(c) \/ CallEdits(c) \/ UserTypes(c)
  BY <1>6, LispActs, CallsAct, UsersActs
<1>7. CASE \E to \in 0 .. Len(Text) : LispMovesPoint(to)  BY <1>7, LispActs
<1>8. CASE \E h \in Histories : CallMoves(h) \/ UserMoves(h)  BY <1>8, CallsAct, UsersActs
<1>9. CASE \E yes \in BOOLEAN : CallUndoes(yes) \/ CallFrees(yes)  BY <1>9, CallsAct
<1>10. CASE \E result \in {"ok", "error", "quit"} : CommandEnds(result)
  <2>1. PICK result \in {"ok", "error", "quit"} : CommandEnds(result)  BY <1>10
  <2>2. /\ running # <<>> /\ ~InHook /\ running' = <<>> /\ toRun' = <<>>
        /\ LineBecomes(Finished(LineNow, running[1], result))
    BY <2>1 DEF CommandEnds, InHook
  <2>3. Len(running) # 2  BY <2>2 DEF StepsInv, Second
  <2>. QED  BY <2>2, <2>3, LastEnds
<1>11. CASE \E result \in {"ok", "error", "quit"}, ends \in BOOLEAN : FunctionEnds(result, ends)
  BY <1>11, FunctionDone
<1>12. CASE UserUndoes \/ NextLine  BY <1>12, UsersActs
<1>13. CASE UNCHANGED stepsVars
  <2>1. /\ lines' = lines /\ here' = here /\ point' = point /\ level' = level /\ group' = group
        /\ running' = running /\ toRun' = toRun
    BY <1>13 DEF stepsVars
  <2>2. LineNow' = LineNow /\ OuterGroup' = OuterGroup  BY <2>1 DEF LineNow, OuterGroup
  <2>3. StepsInv'
    BY <2>1, <2>2 DEF StepsInv, RunsAre, FirstStep, Second, HookGroup, InHook, Tangled, LineState,
       GroupOK, HeldOpen, StepOK, Owed, OpenOn, OpenBy, UndoAt, IsList
  <2>4. SoundStep  BY <2>1 DEF SoundStep
  <2>. QED  BY <2>3, <2>4
<1>. QED
  BY <1>1, <1>2, <1>3, <1>4, <1>5, <1>6, <1>7, <1>8, <1>9, <1>10, <1>11, <1>12, <1>13
     DEF StepsNext

\* readline's undo groups end where they began, whatever steps run: its count of
\* open groups is that of the steps, and no line's list ends a group that did not
\* begin on it.
THEOREM GroupsEndWellAlways == StepsSpec => GroupsEndWell
<1>1. StepsInit => StepsInv  BY StepsStart
<1>2. StepsInv /\ [StepsNext]_stepsVars => StepsInv'  BY StepsKept
<1>3. StepsInv => GroupsBalanced  BY CountIsOfSteps
<1>4. StepsInv /\ [StepsNext]_stepsVars
        => [\A h \in Histories :
              Sound(lines[h].undo) => Sound(lines'[h].undo) \/ (InHook /\ Tangled)]_stepsVars
  BY StepsKept DEF SoundStep
<1>. QED  BY <1>1, <1>2, <1>3, <1>4, PTL DEF StepsSpec, GroupsEndWell, EndsHaveBegins

-----------------------------------------------------------------------------
\* A prefix of another length is shorter.
LEMMA PrefixLonger ==
    ASSUME NEW S, NEW a \in Seq(S), NEW b \in Seq(S), IsPrefix(a, b), a # b
    PROVE  Len(a) < Len(b)
<1>1. Len(a) \in Nat /\ Len(b) \in Nat /\ Len(a) <= Len(b) /\ SubSeq(a, 1, Len(a)) = SubSeq(b, 1, Len(a))
  BY DEF IsPrefix
<1>2. SubSeq(a, 1, Len(a)) = a /\ SubSeq(b, 1, Len(b)) = b
  OBVIOUS
<1>. QED
  BY <1>1, <1>2

\* The two pieces of a cut sequence make it.
LEMMA CutJoins ==
    ASSUME NEW S, NEW s \in Seq(S), NEW n \in 0 .. Len(s)
    PROVE  SubSeq(s, 1, n) \o SubSeq(s, n + 1, Len(s)) = s
<1>1. Len(s) \in Nat /\ 1 \in 1 .. (Len(s) + 1) /\ n \in (1 - 1) .. Len(s) /\ Len(s) \in n .. Len(s)
  OBVIOUS
<1>2. SubSeq(s, 1, n) \o SubSeq(s, n + 1, Len(s)) = SubSeq(s, 1, Len(s))
  BY <1>1, ConcatAdjacentSubSeq
<1>. QED
  BY <1>2, SubSeqFull

-----------------------------------------------------------------------------
(* Ranking: functions that are defined step by step. *)

\* A function on a .. b of what it is one place before, and one place after.
StepsUp(g, a, b, All, base, F) ==
    /\ g \in [a .. b -> All]
    /\ \A e \in a .. b : g[e] = IF e = a THEN base ELSE F[<<e, g[e - 1]>>]
StepsDown(g, a, b, All, base, F) ==
    /\ g \in [a .. b -> All]
    /\ \A e \in a .. b : g[e] = IF e = b THEN base ELSE F[<<e, g[e + 1]>>]

\* There is such a function of any length.
LEMMA StepsForward ==
    ASSUME NEW a \in Int, NEW b \in Int, a <= b, NEW All, NEW base \in All,
           NEW F \in [(a .. b) \X All -> All]
    PROVE  \E g : StepsUp(g, a, b, All, base, F)
<1>. DEFINE Is(n) == \E g \in [a .. a + n -> All] : \A e \in a .. a + n :
                        g[e] = IF e = a THEN base ELSE F[<<e, g[e - 1]>>]
            Bad == {n \in 0 .. b - a : ~Is(n)}
<1>1. Is(0)
  <2>. DEFINE g == [e \in a .. a + 0 |-> base]
  <2>1. g \in [a .. a + 0 -> All] /\ \A e \in a .. a + 0 : e = a /\ g[e] = base  OBVIOUS
  <2>. QED  BY <2>1
<1>2. ASSUME NEW n \in 0 .. (b - a) - 1, Is(n) PROVE Is(n + 1)
  <2>1. PICK g \in [a .. a + n -> All] : \A e \in a .. a + n :
              g[e] = IF e = a THEN base ELSE F[<<e, g[e - 1]>>]
    BY <1>2
  <2>. DEFINE d == a + (n + 1)
              more == [e \in a .. d |-> IF e = d THEN F[<<d, g[d - 1]>>] ELSE g[e]]
  <2>2. d \in a .. b /\ d - 1 \in a .. a + n /\ d # a  OBVIOUS
  <2>3. <<d, g[d - 1]>> \in (a .. b) \X All  BY <2>1, <2>2
  <2>4. F[<<d, g[d - 1]>>] \in All  BY <2>3
  <2>5. \A e \in a .. d : e = d \/ e \in a .. a + n  OBVIOUS
  <2>6. more \in [a .. d -> All]  BY <2>1, <2>4, <2>5
  <2>7. ASSUME NEW e \in a .. d
        PROVE  more[e] = IF e = a THEN base ELSE F[<<e, more[e - 1]>>]
    <3>1. CASE e = d
      <4>1. more[e] = F[<<d, g[d - 1]>>] /\ e - 1 \in a .. d /\ e - 1 # d  BY <3>1, <2>2
      <4>2. more[e - 1] = g[d - 1]  BY <4>1, <3>1
      <4>. QED  BY <4>1, <4>2, <3>1, <2>2
    <3>2. CASE e # d
      <4>1. e \in a .. a + n /\ more[e] = g[e]  BY <3>2, <2>5
      <4>2. CASE e = a  BY <4>1, <4>2, <2>1
      <4>3. CASE e # a
        <5>1. e - 1 \in a .. d /\ e - 1 # d  BY <4>1, <4>3
        <5>2. more[e - 1] = g[e - 1]  BY <5>1
        <5>. QED  BY <4>1, <4>3, <5>2, <2>1
      <4>. QED  BY <4>2, <4>3
    <3>. QED  BY <3>1, <3>2
  <2>. HIDE DEF more
  <2>. QED  BY <2>6, <2>7
<1>. HIDE DEF Is
<1>3. SUFFICES ASSUME Bad # {} PROVE FALSE
  <2>1. b - a \in 0 .. b - a /\ a + (b - a) = b  OBVIOUS
  <2>2. Is(b - a)  BY <1>3, <2>1
  <2>. QED  BY <2>1, <2>2 DEF Is, StepsUp
<1>4. PICK n \in Bad : \A m \in Bad : n <= m
  <2>1. Bad \subseteq Nat  OBVIOUS
  <2>. QED  BY <1>3, <2>1, LowestIs
<1>5. n # 0 /\ n \in 0 .. b - a  BY <1>1
<1>6. n - 1 \in 0 .. (b - a) - 1 /\ n - 1 \notin Bad  BY <1>4, <1>5
<1>7. Is(n - 1) /\ (n - 1) + 1 = n  BY <1>6
<1>8. Is((n - 1) + 1)  BY <1>2, <1>6, <1>7
<1>. QED  BY <1>5, <1>7, <1>8

\* The same from the other end.
LEMMA StepsBackward ==
    ASSUME NEW a \in Int, NEW b \in Int, a <= b, NEW All, NEW base \in All,
           NEW F \in [(a .. b) \X All -> All]
    PROVE  \E g : StepsDown(g, a, b, All, base, F)
<1>. DEFINE B == [p \in (a .. b) \X All |-> F[<<a + b - p[1], p[2]>>]]
<1>1. B \in [(a .. b) \X All -> All]
  <2>1. ASSUME NEW p \in (a .. b) \X All PROVE F[<<a + b - p[1], p[2]>>] \in All
    <3>1. a + b - p[1] \in a .. b /\ p[2] \in All  OBVIOUS
    <3>2. <<a + b - p[1], p[2]>> \in (a .. b) \X All  BY <3>1
    <3>. QED  BY <3>2
  <2>. QED  BY <2>1
<1>2. \A e \in a .. b, w \in All : B[<<e, w>>] = F[<<a + b - e, w>>]  OBVIOUS
<1>. HIDE DEF B
<1>3. PICK f \in [a .. b -> All] : \A e \in a .. b :
              f[e] = IF e = a THEN base ELSE B[<<e, f[e - 1]>>]
  <2>1. \E f : StepsUp(f, a, b, All, base, B)  BY <1>1, StepsForward
  <2>. QED  BY <2>1 DEF StepsUp
<1>. DEFINE g == [e \in a .. b |-> f[a + b - e]]
<1>4. \A e \in a .. b : a + b - e \in a .. b  OBVIOUS
<1>5. g \in [a .. b -> All]  BY <1>3, <1>4
<1>6. ASSUME NEW e \in a .. b PROVE g[e] = IF e = b THEN base ELSE F[<<e, g[e + 1]>>]
  <2>. DEFINE d == a + b - e
  <2>1. d \in a .. b /\ g[e] = f[d]  BY <1>4
  <2>2. CASE e = b
    <3>1. d = a  BY <2>2
    <3>. QED  BY <2>1, <2>2, <3>1, <1>3
  <2>3. CASE e # b
    <3>1. d # a /\ d - 1 \in a .. b /\ e + 1 \in a .. b /\ a + b - (e + 1) = d - 1 /\ a + b - d = e
      BY <2>3
    <3>2. g[e + 1] = f[d - 1] /\ f[d - 1] \in All  BY <3>1, <1>3
    <3>3. f[d] = F[<<e, f[d - 1]>>]  BY <2>1, <3>1, <3>2, <1>2, <1>3
    <3>. QED  BY <2>1, <2>3, <3>2, <3>3
  <2>. QED  BY <2>2, <2>3
<1>. HIDE DEF g
<1>. QED  BY <1>5, <1>6 DEF StepsDown

\* How many are matched going forward, and how many are wanted still going back.
GoesForward(run, h, t, text, from) ==
    /\ run \in [from .. Len(text) -> 0 .. Len(t)] /\ run[from] = 0
    /\ \A e \in from + 1 .. Len(text) :
         run[e] = IF run[e - 1] < Len(t) /\ Same(h, text[e], t[run[e - 1] + 1])
                  THEN run[e - 1] + 1 ELSE run[e - 1]
GoesBack(wanted, h, t, text, end) ==
    /\ wanted \in [0 .. end -> 0 .. Len(t)] /\ wanted[end] = Len(t)
    /\ \A s \in 0 .. end - 1 :
         wanted[s] = IF wanted[s + 1] > 0 /\ Same(h, text[s + 1], t[wanted[s + 1]])
                     THEN wanted[s + 1] - 1 ELSE wanted[s + 1]

\* The model's functions are these.
LEMMA MatchedIs ==
    ASSUME NEW h, NEW t \in Texts, NEW text \in Texts, NEW from \in 0 .. Len(text)
    PROVE  GoesForward(MatchedTo(h, t, text, from), h, t, text, from)
<1>. DEFINE n == Len(text)
            k == Len(t)
            Next(e, w) == IF w < k /\ Same(h, text[e], t[w + 1]) THEN w + 1 ELSE w
            F == [p \in (from .. n) \X (0 .. k) |-> Next(p[1], p[2])]
            Is(f) == f = [e \in from .. n |-> IF e = from THEN 0 ELSE Next(e, f[e - 1])]
            run == CHOOSE f : Is(f)
<1>1. n \in Nat /\ n \in Int /\ k \in Nat /\ from \in Int /\ from <= n  BY DEF Texts
<1>. HIDE DEF n, k
<1>2. \A e \in from .. n, w \in 0 .. k : Next(e, w) \in 0 .. k
  <2>1. ASSUME NEW e \in from .. n, NEW w \in 0 .. k PROVE Next(e, w) \in 0 .. k
    <3>1. w < k => w + 1 \in 0 .. k  BY <1>1
    <3>. QED  BY <3>1
  <2>. QED  BY <2>1
<1>3. F \in [(from .. n) \X (0 .. k) -> 0 .. k]
  <2>1. ASSUME NEW p \in (from .. n) \X (0 .. k) PROVE Next(p[1], p[2]) \in 0 .. k
    <3>1. p[1] \in from .. n /\ p[2] \in 0 .. k  OBVIOUS
    <3>. HIDE DEF Next
    <3>. QED  BY <3>1, <1>2
  <2>. HIDE DEF Next
  <2>. QED  BY <2>1
<1>4. \A e \in from .. n, w \in 0 .. k : F[<<e, w>>] = Next(e, w)
  <2>. HIDE DEF Next
  <2>. QED  OBVIOUS
<1>. HIDE DEF F
<1>5. PICK f \in [from .. n -> 0 .. k] : \A e \in from .. n :
              f[e] = IF e = from THEN 0 ELSE F[<<e, f[e - 1]>>]
  <2>1. 0 \in 0 .. k  BY <1>1
  <2>2. \E f : StepsUp(f, from, n, 0 .. k, 0, F)
    BY <1>1, <1>3, <2>1, StepsForward
  <2>. QED  BY <2>2 DEF StepsUp
<1>. HIDE DEF Next
<1>6. Is(f)
  <2>1. ASSUME NEW e \in from .. n PROVE f[e] = IF e = from THEN 0 ELSE Next(e, f[e - 1])
    <3>1. e # from => e - 1 \in from .. n /\ f[e - 1] \in 0 .. k  BY <1>1
    <3>. QED  BY <3>1, <1>4, <1>5
  <2>. QED  BY <2>1, <1>5
<1>7. Is(run)  BY <1>6
<1>8. \A e \in from .. n : run[e] = IF e = from THEN 0 ELSE Next(e, run[e - 1])
  <2>. HIDE DEF run
  <2>. QED  BY <1>7
<1>9. run = MatchedTo(h, t, text, from)
  BY DEF MatchedTo, Next, n, k
<1>. HIDE DEF run, Is
<1>10. run \in [from .. n -> 0 .. k]
  <2>. DEFINE Bad == {e \in from .. n : ~(run[e] \in 0 .. k)}
  <2>1. SUFFICES ASSUME Bad # {} PROVE FALSE
    <3>1. \A e \in from .. n : run[e] \in 0 .. k  BY <2>1
    <3>2. run = [e \in from .. n |-> run[e]]  BY <1>7 DEF Is
    <3>. QED  BY <3>1, <3>2
  <2>2. PICK e \in Bad : \A d \in Bad : e <= d
    <3>1. Bad \subseteq Nat  BY <1>1
    <3>. QED  BY <2>1, <3>1, LowestIs
  <2>3. e # from  BY <1>1, <1>8
  <2>4. e - 1 \in from .. n /\ e - 1 \notin Bad  BY <2>2, <2>3, <1>1
  <2>5. run[e] \in 0 .. k  BY <2>3, <2>4, <1>2, <1>8
  <2>. QED  BY <2>5
<1>. QED  BY <1>1, <1>8, <1>9, <1>10 DEF Next, n, k, GoesForward

\* Those are the model's going back.
LEMMA WantedIs ==
    ASSUME NEW h, NEW t \in Texts, NEW text \in Texts, NEW end \in 0 .. Len(text)
    PROVE  GoesBack(WantedFrom(h, t, text, end), h, t, text, end)
<1>. DEFINE k == Len(t)
            Next(s, w) == IF w > 0 /\ Same(h, text[s + 1], t[w]) THEN w - 1 ELSE w
            F == [p \in (0 .. end) \X (0 .. k) |-> Next(p[1], p[2])]
            Is(f) == f = [s \in 0 .. end |-> IF s = end THEN k ELSE Next(s, f[s + 1])]
            wanted == CHOOSE f : Is(f)
<1>1. k \in Nat /\ end \in Nat /\ 0 \in Int /\ end \in Int /\ 0 <= end  BY DEF Texts
<1>. HIDE DEF k
<1>2. \A s \in 0 .. end, w \in 0 .. k : Next(s, w) \in 0 .. k
  <2>1. ASSUME NEW s \in 0 .. end, NEW w \in 0 .. k PROVE Next(s, w) \in 0 .. k
    <3>1. w > 0 => w - 1 \in 0 .. k  BY <1>1
    <3>. QED  BY <3>1
  <2>. QED  BY <2>1
<1>. HIDE DEF Next
<1>3. F \in [(0 .. end) \X (0 .. k) -> 0 .. k]
  <2>1. ASSUME NEW p \in (0 .. end) \X (0 .. k) PROVE Next(p[1], p[2]) \in 0 .. k
    <3>1. p[1] \in 0 .. end /\ p[2] \in 0 .. k  OBVIOUS
    <3>. QED  BY <3>1, <1>2
  <2>. QED  BY <2>1
<1>4. \A s \in 0 .. end, w \in 0 .. k : F[<<s, w>>] = Next(s, w)  OBVIOUS
<1>. HIDE DEF F
<1>5. PICK f \in [0 .. end -> 0 .. k] : \A s \in 0 .. end :
              f[s] = IF s = end THEN k ELSE F[<<s, f[s + 1]>>]
  <2>1. k \in 0 .. k  BY <1>1
  <2>2. \E f : StepsDown(f, 0, end, 0 .. k, k, F)
    BY <1>1, <1>3, <2>1, StepsBackward
  <2>. QED  BY <2>2 DEF StepsDown
<1>6. Is(f)
  <2>1. ASSUME NEW s \in 0 .. end PROVE f[s] = IF s = end THEN k ELSE Next(s, f[s + 1])
    <3>1. s # end => s + 1 \in 0 .. end /\ f[s + 1] \in 0 .. k  BY <1>1
    <3>. QED  BY <3>1, <1>4, <1>5
  <2>. QED  BY <2>1, <1>5
<1>7. Is(wanted)  BY <1>6
<1>8. \A s \in 0 .. end : wanted[s] = IF s = end THEN k ELSE Next(s, wanted[s + 1])
  <2>. HIDE DEF wanted
  <2>. QED  BY <1>7
<1>9. wanted = WantedFrom(h, t, text, end)
  BY DEF WantedFrom, Next, k
<1>. HIDE DEF wanted, Is
<1>10. wanted \in [0 .. end -> 0 .. k]
  <2>. DEFINE Bad == {s \in 0 .. end : ~(wanted[s] \in 0 .. k)}
  <2>1. SUFFICES ASSUME Bad # {} PROVE FALSE
    <3>1. \A s \in 0 .. end : wanted[s] \in 0 .. k  BY <2>1
    <3>2. wanted = [s \in 0 .. end |-> wanted[s]]  BY <1>7 DEF Is
    <3>. QED  BY <3>1, <3>2
  <2>2. PICK s \in Bad : \A d \in Bad : d <= s
    <3>1. Bad \subseteq 0 .. end  OBVIOUS
    <3>. QED  BY <1>1, <2>1, <3>1, HighestIs
  <2>3. s # end  BY <1>1, <1>8
  <2>4. s + 1 \in 0 .. end /\ s + 1 \notin Bad  BY <2>2, <2>3, <1>1
  <2>5. wanted[s] \in 0 .. k  BY <2>3, <2>4, <1>2, <1>8
  <2>. QED  BY <2>5
<1>. QED  BY <1>1, <1>8, <1>9, <1>10 DEF Next, k, GoesBack

(* Ranking: a text that has all that is typed, in order, after its first a *)
(* characters and up to its b-th.                                          *)

UpTo(S, e) == {j \in S : j <= e}
Fits(h, t, text, a, b) ==
    \E S \in SUBSET (a + 1 .. b) :
       /\ Cardinality(S) = Len(t)
       /\ \A i \in S : Same(h, text[i], t[Cardinality(UpTo(S, i))])

\* How many places there are up to each.
CountsOn(S, a, b) ==
    /\ \A e : Cardinality(UpTo(S, e)) \in Nat
    /\ Cardinality(UpTo(S, a)) = 0 /\ UpTo(S, b) = S
    /\ \A e \in a + 1 .. b :
         Cardinality(UpTo(S, e)) = Cardinality(UpTo(S, e - 1)) + (IF e \in S THEN 1 ELSE 0)

\* And how many of the places are up to each of them.
LEMMA CountsUp ==
    ASSUME NEW a \in Nat, NEW b \in Nat, NEW S, S \subseteq a + 1 .. b
    PROVE  CountsOn(S, a, b)
<1>1. IsFiniteSet(S)
  <2>1. IsFiniteSet(a + 1 .. b)  BY FS_Interval
  <2>. QED  BY <2>1, FS_Subset
<1>2. \A e : IsFiniteSet(UpTo(S, e)) /\ Cardinality(UpTo(S, e)) \in Nat
  <2>1. \A e : UpTo(S, e) \in SUBSET S  BY DEF UpTo
  <2>. QED  BY <1>1, <2>1, FS_Subset, FS_CardinalityType
<1>3. UpTo(S, a) = {} /\ UpTo(S, b) = S
  <2>1. \A j \in S : j <= b /\ ~(j <= a)
    <3>1. \A j \in a + 1 .. b : j <= b /\ ~(j <= a)  OBVIOUS
    <3>. QED  BY <3>1
  <2>. QED  BY <2>1, Zenon DEF UpTo
<1>4. ASSUME NEW e \in a + 1 .. b
      PROVE  Cardinality(UpTo(S, e)) = Cardinality(UpTo(S, e - 1)) + (IF e \in S THEN 1 ELSE 0)
  <2>1. \A j \in S : j \in Int /\ (j <= e <=> j <= e - 1 \/ j = e)  OBVIOUS
  <2>2. e \notin UpTo(S, e - 1)  BY DEF UpTo
  <2>3. CASE e \in S
    <3>1. UpTo(S, e) = UpTo(S, e - 1) \cup {e}  BY <2>1, <2>3 DEF UpTo
    <3>2. Cardinality(UpTo(S, e - 1) \cup {e}) = Cardinality(UpTo(S, e - 1)) + 1
      BY <1>2, <2>2, FS_AddElement
    <3>. QED  BY <3>1, <3>2, <2>3
  <2>4. CASE e \notin S
    <3>1. UpTo(S, e) = UpTo(S, e - 1)  BY <2>1, <2>4 DEF UpTo
    <3>. QED  BY <3>1, <2>4, <1>2
  <2>. QED  BY <2>3, <2>4
<1>5. Cardinality(UpTo(S, a)) = 0  BY <1>3, FS_EmptySet
<1>. QED  BY <1>2, <1>3, <1>4, <1>5 DEF CountsOn

\* Going forward from an earlier place finds it all.
LEMMA FitsForward ==
    ASSUME NEW h, NEW t \in Texts, NEW text \in Texts, NEW from \in 0 .. Len(text),
           NEW a \in from .. Len(text), NEW b \in a .. Len(text), Fits(h, t, text, a, b)
    PROVE  MatchedTo(h, t, text, from)[b] = Len(t)
<1>. DEFINE n == Len(text)
            k == Len(t)
            run == MatchedTo(h, t, text, from)
<1>1. n \in Nat /\ k \in Nat /\ from \in Nat /\ a \in Nat /\ b \in Nat /\ from <= a /\ a <= b /\ b <= n
  BY DEF Texts
<1>2. /\ run \in [from .. n -> 0 .. k]
      /\ \A e \in from + 1 .. n :
           run[e] = IF run[e - 1] < k /\ Same(h, text[e], t[run[e - 1] + 1])
                    THEN run[e - 1] + 1 ELSE run[e - 1]
  BY MatchedIs DEF GoesForward
<1>. HIDE DEF run, n, k
<1>3. PICK S \in SUBSET (a + 1 .. b) :
         Cardinality(S) = k /\ \A i \in S : Same(h, text[i], t[Cardinality(UpTo(S, i))])
  BY DEF Fits, k
<1>. DEFINE c(e) == Cardinality(UpTo(S, e))
            Bad == {e \in a .. b : ~(c(e) <= run[e])}
<1>4. /\ \A e : c(e) \in Nat
      /\ c(a) = 0 /\ UpTo(S, b) = S
      /\ \A e \in a + 1 .. b : c(e) = c(e - 1) + (IF e \in S THEN 1 ELSE 0)
  BY <1>1, <1>3, CountsUp DEF CountsOn
<1>5. \A i \in S : Same(h, text[i], t[c(i)])  BY <1>3
<1>6. c(b) = k  BY <1>3, <1>4
<1>. HIDE DEF c
<1>7. Bad = {}
  <2>1. SUFFICES ASSUME Bad # {} PROVE FALSE  OBVIOUS
  <2>2. PICK e \in Bad : \A d \in Bad : e <= d
    <3>1. Bad \subseteq Nat  BY <1>1
    <3>. QED  BY <2>1, <3>1, LowestIs
  <2>3. run[a] \in 0 .. k  BY <1>1, <1>2
  <2>4. e # a /\ e \in a + 1 .. b /\ e \in from + 1 .. n /\ e - 1 \in from .. n
    BY <1>1, <1>4, <2>2, <2>3
  <2>5. e - 1 \in a .. b /\ e - 1 \notin Bad  BY <2>2, <2>4, <1>1
  <2>6. c(e - 1) <= run[e - 1] /\ run[e - 1] \in 0 .. k /\ run[e] \in 0 .. k
    BY <1>1, <1>2, <2>4, <2>5
  <2>7. c(e) = c(e - 1) + (IF e \in S THEN 1 ELSE 0) /\ c(e) \in Nat /\ c(e - 1) \in Nat
    BY <1>4, <2>4
  <2>8. run[e] = run[e - 1] \/ run[e] = run[e - 1] + 1  BY <1>2, <2>4
  <2>9. e \in S /\ c(e - 1) = run[e - 1] /\ ~(c(e) <= run[e])
    BY <1>1, <2>2, <2>6, <2>7, <2>8
  <2>10. c(e) = run[e - 1] + 1 /\ Same(h, text[e], t[run[e - 1] + 1])  BY <1>5, <2>7, <2>9
  <2>11. run[e] = run[e - 1]  BY <2>6, <2>7, <2>8, <2>9, <2>10
  <2>12. ~(run[e - 1] < k)
    <3>1. run[e - 1] < k => run[e] = run[e - 1] + 1  BY <1>2, <2>4, <2>10
    <3>. QED  BY <3>1, <2>6, <2>11
  <2>13. c(e) <= k
    <3>1. UpTo(S, e) \in SUBSET S  BY DEF UpTo
    <3>2. IsFiniteSet(S)
      <4>1. IsFiniteSet(a + 1 .. b)  BY <1>1, FS_Interval
      <4>. QED  BY <1>3, <4>1, FS_Subset
    <3>. QED  BY <3>1, <3>2, <1>3, FS_Subset DEF c
  <2>. QED  BY <1>1, <2>6, <2>7, <2>10, <2>12, <2>13
<1>8. b \in a .. b /\ run[b] \in 0 .. k  BY <1>1, <1>2
<1>9. c(b) <= run[b]  BY <1>7, <1>8
<1>. QED  BY <1>1, <1>6, <1>8, <1>9 DEF run, k

\* And so does going back to it.
LEMMA FitsBackward ==
    ASSUME NEW h, NEW t \in Texts, NEW text \in Texts, NEW end \in 0 .. Len(text),
           NEW a \in 0 .. end, Fits(h, t, text, a, end)
    PROVE  WantedFrom(h, t, text, end)[a] = 0
<1>. DEFINE k == Len(t)
            wanted == WantedFrom(h, t, text, end)
<1>1. k \in Nat /\ a \in Nat /\ end \in Nat /\ a <= end  BY DEF Texts
<1>2. /\ wanted \in [0 .. end -> 0 .. k] /\ wanted[end] = k
      /\ \A s \in 0 .. end - 1 :
           wanted[s] = IF wanted[s + 1] > 0 /\ Same(h, text[s + 1], t[wanted[s + 1]])
                       THEN wanted[s + 1] - 1 ELSE wanted[s + 1]
  <2>1. GoesBack(wanted, h, t, text, end)  BY WantedIs
  <2>. QED  BY <2>1 DEF GoesBack
<1>. HIDE DEF wanted, k
<1>3. PICK S \in SUBSET (a + 1 .. end) :
         Cardinality(S) = k /\ \A i \in S : Same(h, text[i], t[Cardinality(UpTo(S, i))])
  BY DEF Fits, k
<1>. DEFINE c(e) == Cardinality(UpTo(S, e))
            Bad == {s \in a .. end : ~(wanted[s] <= c(s))}
<1>4. /\ \A e : c(e) \in Nat
      /\ c(a) = 0 /\ UpTo(S, end) = S
      /\ \A e \in a + 1 .. end : c(e) = c(e - 1) + (IF e \in S THEN 1 ELSE 0)
  BY <1>1, <1>3, CountsUp DEF CountsOn
<1>5. \A i \in S : Same(h, text[i], t[c(i)])  BY <1>3
<1>6. c(end) = k  BY <1>3, <1>4
<1>. HIDE DEF c
<1>7. Bad = {}
  <2>1. SUFFICES ASSUME Bad # {} PROVE FALSE  OBVIOUS
  <2>2. PICK s \in Bad : \A d \in Bad : d <= s
    <3>1. Bad \subseteq 0 .. end  BY <1>1
    <3>. QED  BY <1>1, <2>1, <3>1, HighestIs
  <2>3. s # end  BY <1>1, <1>2, <1>6
  <2>4. s + 1 \in a + 1 .. end /\ s + 1 \in 0 .. end /\ s \in 0 .. end - 1 /\ (s + 1) - 1 = s
    BY <1>1, <2>2, <2>3
  <2>5. s + 1 \in a .. end /\ s + 1 \notin Bad  BY <2>2, <2>4, <1>1
  <2>6. wanted[s + 1] <= c(s + 1) /\ wanted[s + 1] \in 0 .. k /\ wanted[s] \in 0 .. k
    BY <1>1, <1>2, <2>4, <2>5
  <2>7. c(s + 1) = c(s) + (IF s + 1 \in S THEN 1 ELSE 0) /\ c(s) \in Nat /\ c(s + 1) \in Nat
    BY <1>4, <2>4
  <2>8. wanted[s] = wanted[s + 1] \/ wanted[s] = wanted[s + 1] - 1  BY <1>2, <2>4
  <2>9. s + 1 \in S /\ wanted[s + 1] = c(s + 1) /\ ~(wanted[s] <= c(s))
    BY <1>1, <2>2, <2>6, <2>7, <2>8
  <2>10. wanted[s + 1] > 0 /\ Same(h, text[s + 1], t[wanted[s + 1]])  BY <1>5, <2>7, <2>9
  <2>11. wanted[s] = wanted[s + 1] - 1  BY <1>2, <2>4, <2>10
  <2>. QED  BY <2>6, <2>7, <2>9, <2>11
<1>8. a \in a .. end /\ wanted[a] \in 0 .. k  BY <1>1, <1>2
<1>9. wanted[a] <= c(a)  BY <1>7, <1>8
<1>. QED  BY <1>1, <1>4, <1>8, <1>9 DEF wanted

\* Where a count goes up with each character matched, they are the places.
LEMMA StepsFit ==
    ASSUME NEW h, NEW t \in Texts, NEW text, NEW a \in Nat, NEW b \in Nat, a <= b, NEW f,
           \A e \in a .. b : f[e] \in Nat,
           f[a] = 0, f[b] = Len(t),
           \A e \in a + 1 .. b : \/ f[e] = f[e - 1]
                                 \/ f[e] = f[e - 1] + 1 /\ Same(h, text[e], t[f[e]])
    PROVE  Fits(h, t, text, a, b)
<1>. DEFINE S == {e \in a + 1 .. b : f[e] # f[e - 1]}
            Bad == {e \in a .. b : Cardinality(UpTo(S, e)) # f[e]}
<1>1. /\ \A e : Cardinality(UpTo(S, e)) \in Nat
      /\ Cardinality(UpTo(S, a)) = 0 /\ UpTo(S, b) = S
      /\ \A e \in a + 1 .. b :
           Cardinality(UpTo(S, e)) = Cardinality(UpTo(S, e - 1)) + (IF e \in S THEN 1 ELSE 0)
  <2>1. S \subseteq a + 1 .. b  OBVIOUS
  <2>. HIDE DEF S
  <2>2. CountsOn(S, a, b)  BY <2>1, CountsUp
  <2>. QED  BY <2>2 DEF CountsOn
<1>2. \A e \in a + 1 .. b : e \in S <=> f[e] # f[e - 1]  OBVIOUS
<1>3. S \in SUBSET (a + 1 .. b)  OBVIOUS
<1>. HIDE DEF S
<1>4. Bad = {}
  <2>1. SUFFICES ASSUME Bad # {} PROVE FALSE  OBVIOUS
  <2>2. PICK e \in Bad : \A d \in Bad : e <= d
    <3>1. Bad \subseteq Nat  OBVIOUS
    <3>. QED  BY <2>1, <3>1, LowestIs
  <2>3. e # a /\ e \in a + 1 .. b  BY <1>1, <2>2
  <2>4. e - 1 \in a .. b /\ e - 1 \notin Bad  BY <2>2, <2>3
  <2>5. Cardinality(UpTo(S, e - 1)) = f[e - 1] /\ f[e - 1] \in Nat /\ f[e] \in Nat  BY <2>4
  <2>6. Cardinality(UpTo(S, e)) = f[e - 1] + (IF e \in S THEN 1 ELSE 0)  BY <1>1, <2>3, <2>5
  <2>7. f[e] = f[e - 1] + (IF e \in S THEN 1 ELSE 0)
    <3>1. f[e] = f[e - 1] \/ f[e] = f[e - 1] + 1  BY <2>3
    <3>. QED  BY <1>2, <2>3, <2>5, <3>1
  <2>. QED  BY <2>2, <2>6, <2>7
<1>5. \A e \in a .. b : Cardinality(UpTo(S, e)) = f[e]  BY <1>4
<1>6. Cardinality(S) = Len(t)
  <2>1. b \in a .. b  OBVIOUS
  <2>. QED  BY <1>1, <1>5, <2>1
<1>7. ASSUME NEW i \in S PROVE Same(h, text[i], t[Cardinality(UpTo(S, i))])
  <2>1. i \in a + 1 .. b /\ i \in a .. b  BY <1>3
  <2>2. Same(h, text[i], t[f[i]])  BY <2>1, <1>2
  <2>. QED  BY <2>1, <2>2, <1>5
<1>. QED  BY <1>3, <1>6, <1>7 DEF Fits

\* What is matched going forward fits.
LEMMA MatchedFits ==
    ASSUME NEW h, NEW t \in Texts, NEW text \in Texts, NEW from \in 0 .. Len(text),
           NEW b \in from .. Len(text), MatchedTo(h, t, text, from)[b] = Len(t)
    PROVE  Fits(h, t, text, from, b)
<1>. DEFINE run == MatchedTo(h, t, text, from)
<1>1. /\ run \in [from .. Len(text) -> 0 .. Len(t)] /\ run[from] = 0
      /\ \A e \in from + 1 .. Len(text) :
           run[e] = IF run[e - 1] < Len(t) /\ Same(h, text[e], t[run[e - 1] + 1])
                    THEN run[e - 1] + 1 ELSE run[e - 1]
  BY MatchedIs DEF GoesForward
<1>2. run[b] = Len(t)  OBVIOUS
<1>. HIDE DEF run
<1>3. /\ Len(text) \in Nat /\ from \in Nat /\ b \in Nat /\ from <= b /\ b <= Len(text)
  BY DEF Texts
<1>4. \A e \in from .. b : run[e] \in Nat
  <2>1. \A e \in from .. b : e \in from .. Len(text)  BY <1>3
  <2>. QED  BY <1>1, <2>1
<1>5. \A e \in from + 1 .. b : \/ run[e] = run[e - 1]
                               \/ run[e] = run[e - 1] + 1 /\ Same(h, text[e], t[run[e]])
  <2>1. \A e \in from + 1 .. b : e \in from + 1 .. Len(text)  BY <1>3
  <2>. QED  BY <1>1, <2>1
<1>. QED  BY <1>1, <1>2, <1>3, <1>4, <1>5, StepsFit

\* And what is found going back.
LEMMA WantedFits ==
    ASSUME NEW h, NEW t \in Texts, NEW text \in Texts, NEW end \in 0 .. Len(text),
           NEW s \in 0 .. end, WantedFrom(h, t, text, end)[s] = 0
    PROVE  Fits(h, t, text, s, end)
<1>. DEFINE wanted == WantedFrom(h, t, text, end)
<1>1. /\ wanted \in [0 .. end -> 0 .. Len(t)] /\ wanted[end] = Len(t)
      /\ \A p \in 0 .. end - 1 :
           wanted[p] = IF wanted[p + 1] > 0 /\ Same(h, text[p + 1], t[wanted[p + 1]])
                       THEN wanted[p + 1] - 1 ELSE wanted[p + 1]
  BY WantedIs DEF GoesBack
<1>2. wanted[s] = 0  OBVIOUS
<1>. HIDE DEF wanted
<1>3. s \in Nat /\ end \in Nat /\ s <= end  BY DEF Texts
<1>4. \A e \in s .. end : wanted[e] \in Nat
  <2>1. \A e \in s .. end : e \in 0 .. end  BY <1>3
  <2>. QED  BY <1>1, <2>1
<1>5. ASSUME NEW e \in s + 1 .. end
      PROVE  \/ wanted[e] = wanted[e - 1]
             \/ wanted[e] = wanted[e - 1] + 1 /\ Same(h, text[e], t[wanted[e]])
  <2>1. e - 1 \in 0 .. end - 1 /\ (e - 1) + 1 = e /\ e \in s .. end  BY <1>3
  <2>2. wanted[e] \in Nat  BY <1>4, <2>1
  <2>3. wanted[e - 1] = IF wanted[e] > 0 /\ Same(h, text[e], t[wanted[e]])
                        THEN wanted[e] - 1 ELSE wanted[e]
    BY <1>1, <2>1
  <2>. QED  BY <2>2, <2>3
<1>. QED  BY <1>1, <1>2, <1>3, <1>4, <1>5, StepsFit

(* Ranking: tightest. *)

\* The least of some numbers.
LEMMA SmallestIs ==
    ASSUME NEW S, S \subseteq Nat, S # {}
    PROVE  Smallest(S) \in S /\ \A j \in S : Smallest(S) <= j
<1>. QED  BY LowestIs DEF Smallest, Lowest

\* And the greatest.
LEMMA LargestIs ==
    ASSUME NEW m \in Nat, NEW S, S \subseteq 0 .. m, S # {}
    PROVE  Largest(S) \in S /\ \A j \in S : j <= Largest(S)
<1>. QED  BY HighestIs DEF Largest, Highest

\* A round finds the earliest end, and from it the latest start, which is not
\* before the round's.
FirstFound(h, t, text, from, start, end) ==
    /\ end \in from .. Len(text) /\ start \in from .. end /\ Fits(h, t, text, start, end)
    /\ \A a \in from .. Len(text), b \in 0 .. Len(text) :
          a <= b /\ Fits(h, t, text, a, b) => end <= b
    /\ \A a \in 0 .. end : Fits(h, t, text, a, end) => a <= start

\* The model's end and start are those.
LEMMA FirstFoundIs ==
    ASSUME NEW h, NEW t \in Texts, NEW text \in Texts, NEW from \in 0 .. Len(text),
           EndsFrom(h, t, text, from) # {}
    PROVE  LET end == Smallest(EndsFrom(h, t, text, from))
               start == StartFor(h, t, text, end)
           IN FirstFound(h, t, text, from, start, end)
<1>. DEFINE n == Len(text)
            k == Len(t)
            ends == EndsFrom(h, t, text, from)
            end == Smallest(ends)
            starts == {s \in 0 .. end : WantedFrom(h, t, text, end)[s] = 0}
            start == StartFor(h, t, text, end)
<1>1. n \in Nat /\ k \in Nat /\ from \in Nat /\ from <= n  BY DEF Texts
<1>2. ends = {e \in from .. n : MatchedTo(h, t, text, from)[e] = k}  BY DEF EndsFrom
<1>3. end \in ends /\ \A e \in ends : end <= e
  <2>1. ends \subseteq Nat  BY <1>1, <1>2
  <2>. HIDE DEF ends
  <2>2. ends # {}  BY DEF ends
  <2>. QED  BY <2>1, <2>2, SmallestIs
<1>4. start = Largest(starts)  BY DEF StartFor
<1>. HIDE DEF ends, end, start, n, k
<1>5. end \in from .. n /\ end \in 0 .. n /\ from \in 0 .. end /\ end \in Nat
  BY <1>1, <1>2, <1>3
<1>6. Fits(h, t, text, from, end)  BY <1>2, <1>3, <1>5, MatchedFits DEF n, k
<1>7. from \in starts  BY <1>5, <1>6, FitsBackward DEF n
<1>8. start \in starts /\ \A s \in starts : s <= start
  <2>1. starts \subseteq 0 .. end  OBVIOUS
  <2>. HIDE DEF starts
  <2>. QED  BY <1>4, <1>5, <1>7, <2>1, LargestIs
<1>9. start \in from .. end /\ start \in 0 .. end  BY <1>1, <1>5, <1>7, <1>8
<1>10. Fits(h, t, text, start, end)  BY <1>5, <1>8, <1>9, WantedFits DEF n
<1>11. ASSUME NEW a \in from .. n, NEW b \in 0 .. n, a <= b, Fits(h, t, text, a, b) PROVE end <= b
  <2>1. b \in a .. n /\ b \in from .. n  BY <1>1, <1>11
  <2>2. MatchedTo(h, t, text, from)[b] = k  BY <1>11, <2>1, FitsForward DEF n, k
  <2>. QED  BY <1>2, <1>3, <2>1, <2>2
<1>12. ASSUME NEW a \in 0 .. end, Fits(h, t, text, a, end) PROVE a <= start
  <2>1. a \in starts  BY <1>5, <1>12, FitsBackward DEF n
  <2>. QED  BY <1>8, <2>1
<1>13. FirstFound(h, t, text, from, start, end)
  BY <1>5, <1>9, <1>10, <1>11, <1>12 DEF FirstFound, n
<1>. QED  BY <1>13 DEF start, end, ends

\* There is nothing to find after a round that finds nothing.
LEMMA NoneFound ==
    ASSUME NEW h, NEW t \in Texts, NEW text \in Texts, NEW from \in 0 .. Len(text),
           EndsFrom(h, t, text, from) = {}, NEW a \in from .. Len(text), NEW b \in a .. Len(text)
    PROVE  ~Fits(h, t, text, a, b)
<1>1. SUFFICES ASSUME Fits(h, t, text, a, b) PROVE FALSE  OBVIOUS
<1>2. MatchedTo(h, t, text, from)[b] = Len(t)  BY <1>1, FitsForward
<1>3. b \in from .. Len(text)  BY DEF Texts
<1>. QED  BY <1>2, <1>3 DEF EndsFrom

\* What a round comes to, from what the later ones have.
Round(h, t, text, best, from) ==
    LET ends == IF from > Len(text) THEN {} ELSE EndsFrom(h, t, text, from)
        end == Smallest(ends)
        start == StartFor(h, t, text, end)
    IN IF ends = {} THEN <<>> ELSE Shorter(end - start, start, best[start + 1])
Stretches == {<<>>} \cup Nat \X Nat

\* The tightest stretch that starts at from, or later.
BestFrom(best, h, t, text, from) ==
    /\ best \in Stretches
    /\ best = <<>> => \A a \in from .. Len(text) : \A b \in a .. Len(text) : ~Fits(h, t, text, a, b)
    /\ best # <<>> =>
          /\ \E a \in from .. Len(text) : \E b \in a .. Len(text) :
                Fits(h, t, text, a, b) /\ best = <<b - a, a>>
          /\ \A a \in from .. Len(text) : \A b \in a .. Len(text) :
                Fits(h, t, text, a, b) =>
                   best[1] < b - a \/ (best[1] = b - a /\ best[2] <= a)

\* So does a round find it, where the later rounds have.
LEMMA RoundFinds ==
    ASSUME NEW h, NEW t \in Texts, NEW text \in Texts, NEW from \in 0 .. Len(text) + 1,
           NEW best, \A x \in from + 1 .. Len(text) + 1 : BestFrom(best[x], h, t, text, x)
    PROVE  /\ BestFrom(Round(h, t, text, best, from), h, t, text, from)
           /\ \A other : (\A x \in from + 1 .. Len(text) + 1 : other[x] = best[x])
                            => Round(h, t, text, other, from) = Round(h, t, text, best, from)
<1>. DEFINE n == Len(text)
            ends == IF from > n THEN {} ELSE EndsFrom(h, t, text, from)
            end == Smallest(ends)
            start == StartFor(h, t, text, end)
            round == Round(h, t, text, best, from)
<1>1. n \in Nat /\ from \in Nat /\ from <= n + 1  BY DEF Texts
<1>2. \A b : Round(h, t, text, b, from) =
                IF ends = {} THEN <<>> ELSE Shorter(end - start, start, b[start + 1])
  BY DEF Round
<1>3. CASE ends = {}
  <2>1. \A b : Round(h, t, text, b, from) = <<>>  BY <1>2, <1>3
  <2>2. ASSUME NEW a \in from .. n, NEW b \in a .. n PROVE ~Fits(h, t, text, a, b)
    <3>1. from \in 0 .. n /\ ~(from > n)  BY <1>1
    <3>2. EndsFrom(h, t, text, from) = {}  BY <1>3, <3>1
    <3>. QED  BY <3>1, <3>2, NoneFound
  <2>3. BestFrom(<<>>, h, t, text, from)  BY <2>2 DEF BestFrom, Stretches
  <2>. QED  BY <2>1, <2>3
<1>4. CASE ends # {}
  <2>1. from \in 0 .. n /\ ends = EndsFrom(h, t, text, from)  BY <1>1, <1>4
  <2>2. FirstFound(h, t, text, from, start, end)
    <3>1. EndsFrom(h, t, text, from) # {}  BY <1>4, <2>1
    <3>2. LET e == Smallest(EndsFrom(h, t, text, from))
          IN FirstFound(h, t, text, from, StartFor(h, t, text, e), e)
      BY <2>1, <3>1, FirstFoundIs
    <3>. QED  BY <2>1, <3>2
  <2>. HIDE DEF ends, end, start
  <2>3. /\ end \in from .. n /\ start \in from .. end /\ Fits(h, t, text, start, end)
        /\ end \in Nat /\ start \in Nat /\ end - start \in Nat
        /\ start + 1 \in from + 1 .. n + 1 /\ start \in from .. n /\ end \in start .. n
    BY <1>1, <2>2 DEF FirstFound, n
  <2>. DEFINE later == best[start + 1]
              len == end - start
  <2>4. BestFrom(later, h, t, text, start + 1)  BY <2>3
  <2>5. round = Shorter(len, start, later)  BY <1>2, <1>4
  <2>6. \A other : (\A x \in from + 1 .. n + 1 : other[x] = best[x])
                      => Round(h, t, text, other, from) = round
    BY <1>2, <1>4, <2>3
  <2>7. \A a \in from .. n : \A b \in a .. n : Fits(h, t, text, a, b) =>
            \/ a \in start + 1 .. n
            \/ len < b - a
            \/ len = b - a /\ start <= a
    <3>1. ASSUME NEW a \in from .. n, NEW b \in a .. n, Fits(h, t, text, a, b), ~(a \in start + 1 .. n)
          PROVE  len < b - a \/ (len = b - a /\ start <= a)
      <4>1. a \in Nat /\ b \in Nat /\ a <= start /\ b \in 0 .. n /\ a <= b  BY <1>1, <2>3, <3>1
      <4>2. end <= b  BY <2>2, <3>1, <4>1 DEF FirstFound, n
      <4>. QED  BY <2>3, <4>1, <4>2
    <3>. QED  BY <3>1
  <2>8. BestFrom(round, h, t, text, from)
    <3>1. CASE later # <<>> /\ later[1] < len
      <4>1. round = later  BY <2>5, <3>1 DEF Shorter
      <4>2. PICK c \in start + 1 .. n : \E b \in c .. n : Fits(h, t, text, c, b) /\ later = <<b - c, c>>
        BY <2>4, <3>1 DEF BestFrom, n
      <4>3. c \in from .. n  BY <1>1, <2>3, <4>2
      <4>4. later \in Nat \X Nat  BY <2>4, <3>1 DEF BestFrom, Stretches
      <4>5. ASSUME NEW a \in from .. n, NEW b \in a .. n, Fits(h, t, text, a, b)
            PROVE  later[1] < b - a \/ (later[1] = b - a /\ later[2] <= a)
        <5>1. CASE a \in start + 1 .. n  BY <2>4, <3>1, <4>5, <5>1 DEF BestFrom, n
        <5>2. CASE ~(a \in start + 1 .. n)
          <6>1. len <= b - a /\ a \in Nat /\ b \in Nat  BY <1>1, <2>3, <2>7, <4>5, <5>2
          <6>. QED  BY <2>3, <3>1, <4>4, <6>1
        <5>. QED  BY <5>1, <5>2
      <4>6. later \in Stretches  BY <4>4 DEF Stretches
      <4>. HIDE DEF later
      <4>. QED  BY <3>1, <4>1, <4>2, <4>3, <4>5, <4>6 DEF BestFrom, n
    <3>2. CASE ~(later # <<>> /\ later[1] < len)
      <4>1. round = <<len, start>>  BY <2>5, <3>2 DEF Shorter
      <4>2. ASSUME NEW a \in from .. n, NEW b \in a .. n, Fits(h, t, text, a, b)
            PROVE  len < b - a \/ (len = b - a /\ start <= a)
        <5>1. CASE a \in start + 1 .. n
          <6>1. later # <<>>  BY <2>4, <4>2, <5>1 DEF BestFrom, n
          <6>2. later \in Nat \X Nat /\ later[1] <= b - a
            <7>1. later \in Nat \X Nat  BY <2>4, <6>1 DEF BestFrom, Stretches
            <7>2. later[1] < b - a \/ later[1] = b - a  BY <2>4, <4>2, <5>1, <6>1 DEF BestFrom, n
            <7>3. a \in Nat /\ b \in Nat /\ later[1] \in Nat  BY <1>1, <7>1
            <7>. QED  BY <7>1, <7>2, <7>3
          <6>3. later[1] \in Nat /\ ~(later[1] < len) /\ a \in Nat /\ b \in Nat /\ start <= a
            BY <1>1, <2>3, <3>2, <5>1, <6>1, <6>2
          <6>. QED  BY <2>3, <6>2, <6>3
        <5>2. CASE ~(a \in start + 1 .. n)  BY <2>7, <4>2, <5>2
        <5>. QED  BY <5>1, <5>2
      <4>3. <<len, start>> \in Nat \X Nat /\ <<len, start>> # <<>>  BY <2>3
      <4>4. <<len, start>> \in Stretches  BY <4>3 DEF Stretches
      <4>5. Fits(h, t, text, start, end) /\ start \in from .. n /\ end \in start .. n
        BY <2>3
      <4>6. <<len, start>>[1] = len /\ <<len, start>>[2] = start  OBVIOUS
      <4>7. \E a \in from .. n : \E b \in a .. n : Fits(h, t, text, a, b) /\ <<len, start>> = <<b - a, a>>
        BY <4>5
      <4>. HIDE DEF len
      <4>. QED  BY <4>1, <4>2, <4>3, <4>4, <4>6, <4>7 DEF BestFrom, n
    <3>. QED  BY <3>1, <3>2
  <2>. QED  BY <2>6, <2>8
<1>. QED  BY <1>3, <1>4

\* There are rounds from each place, and they find the tightest stretch.
LEMMA RoundsAre ==
    ASSUME NEW h, NEW t \in Texts, NEW text \in Texts
    PROVE  \E best : best = [from \in 0 .. Len(text) + 1 |-> Round(h, t, text, best, from)]
<1>. DEFINE n == Len(text)
            Is(m, b) == \A x \in m .. n + 1 : /\ b[x] = Round(h, t, text, b, x)
                                              /\ BestFrom(b[x], h, t, text, x)
            Bad == {m \in 0 .. n + 1 : \A b : ~Is(m, b)}
<1>1. n \in Nat  BY DEF Texts
<1>2. ASSUME NEW m \in 0 .. n + 1, NEW later, Is(m + 1, later)
      PROVE  \E b : Is(m, b)
  <2>. DEFINE b == [x \in m .. n + 1 |-> IF x = m THEN Round(h, t, text, later, m) ELSE later[x]]
  <2>1. /\ \A x \in m .. n + 1 : x = m \/ x \in m + 1 .. n + 1
        /\ \A x \in m + 1 .. n + 1 : x \in m .. n + 1 /\ x # m /\ x \in 0 .. n + 1
        /\ m \in m .. n + 1
    BY <1>1
  <2>2. \A x \in m + 1 .. n + 1 : b[x] = later[x]  BY <2>1
  <2>3. b[m] = Round(h, t, text, later, m)  BY <2>1
  <2>. HIDE DEF b
  <2>4. /\ BestFrom(Round(h, t, text, later, m), h, t, text, m)
        /\ Round(h, t, text, b, m) = Round(h, t, text, later, m)
    BY <1>2, <2>2, RoundFinds
  <2>5. ASSUME NEW x \in m + 1 .. n + 1
        PROVE  b[x] = Round(h, t, text, b, x) /\ BestFrom(b[x], h, t, text, x)
    <3>1. \A y \in x + 1 .. n + 1 : y \in m + 1 .. n + 1  BY <1>1
    <3>2. \A y \in x + 1 .. n + 1 : b[y] = later[y] /\ BestFrom(later[y], h, t, text, y)
      BY <1>2, <2>2, <3>1
    <3>3. Round(h, t, text, b, x) = Round(h, t, text, later, x)
      BY <2>1, <3>2, RoundFinds
    <3>. QED  BY <1>2, <2>2, <3>3
  <2>6. Is(m, b)  BY <2>1, <2>3, <2>4, <2>5
  <2>. QED  BY <2>6
<1>3. Bad = {}
  <2>1. SUFFICES ASSUME Bad # {} PROVE FALSE  OBVIOUS
  <2>2. PICK m \in Bad : \A d \in Bad : d <= m
    <3>1. Bad \subseteq 0 .. n + 1 /\ n + 1 \in Nat  BY <1>1
    <3>. HIDE DEF Bad
    <3>. QED  BY <2>1, <3>1, HighestIs
  <2>3. CASE m = n + 1
    <3>1. \A x \in m + 1 .. n + 1 : FALSE  BY <1>1, <2>3
    <3>2. Is(m + 1, <<>>)  BY <3>1
    <3>. HIDE DEF Is
    <3>. QED  BY <1>2, <2>2, <3>2
  <2>4. CASE m # n + 1
    <3>1. m + 1 \in 0 .. n + 1 /\ ~(m + 1 <= m) /\ m \in 0 .. n + 1  BY <1>1, <2>2, <2>4
    <3>. HIDE DEF Is
    <3>2. PICK b : Is(m + 1, b)  BY <2>2, <3>1
    <3>. QED  BY <1>2, <2>2, <3>1, <3>2
  <2>. QED  BY <2>3, <2>4
<1>4. PICK b : Is(0, b)
  <2>1. 0 \in 0 .. n + 1  BY <1>1
  <2>. HIDE DEF Is
  <2>. QED  BY <1>3, <2>1
<1>. DEFINE best == [x \in 0 .. n + 1 |-> b[x]]
<1>5. ASSUME NEW x \in 0 .. n + 1 PROVE b[x] = Round(h, t, text, best, x)
  <2>1. \A y \in x + 1 .. n + 1 : y \in 0 .. n + 1  BY <1>1
  <2>2. \A y \in x + 1 .. n + 1 : best[y] = b[y] /\ BestFrom(b[y], h, t, text, y)
    BY <1>4, <2>1
  <2>. HIDE DEF best
  <2>3. Round(h, t, text, best, x) = Round(h, t, text, b, x)  BY <2>2, RoundFinds
  <2>. QED  BY <1>4, <2>3
<1>6. best = [x \in 0 .. n + 1 |-> Round(h, t, text, best, x)]
  <2>1. best = [x \in 0 .. n + 1 |-> b[x]]  OBVIOUS
  <2>. HIDE DEF best
  <2>. QED  BY <1>5, <2>1
<1>. QED  BY <1>6

\* And the model's are such.
LEMMA TightestIs ==
    ASSUME NEW h, NEW t \in Texts, NEW text \in Texts, Len(t) # 0
    PROVE  BestFrom(Tightest(h, t, text), h, t, text, 0)
<1>. DEFINE n == Len(text)
            best == CHOOSE b : b = [from \in 0 .. n + 1 |-> Round(h, t, text, b, from)]
            Bad == {x \in 0 .. n + 1 : ~BestFrom(best[x], h, t, text, x)}
<1>1. n \in Nat  BY DEF Texts
<1>2. best = [from \in 0 .. n + 1 |-> Round(h, t, text, best, from)]  BY RoundsAre
<1>3. Tightest(h, t, text) = best[0]  BY DEF Tightest, Round
<1>. HIDE DEF best
<1>4. Bad = {}
  <2>1. SUFFICES ASSUME Bad # {} PROVE FALSE  OBVIOUS
  <2>2. PICK m \in Bad : \A d \in Bad : d <= m
    <3>1. Bad \subseteq 0 .. n + 1 /\ n + 1 \in Nat  BY <1>1
    <3>. HIDE DEF Bad
    <3>. QED  BY <2>1, <3>1, HighestIs
  <2>3. ASSUME NEW x \in m + 1 .. n + 1 PROVE BestFrom(best[x], h, t, text, x)
    <3>1. x \in 0 .. n + 1 /\ ~(x <= m)  BY <1>1, <2>2
    <3>. QED  BY <2>2, <3>1
  <2>4. BestFrom(Round(h, t, text, best, m), h, t, text, m)  BY <2>3, RoundFinds
  <2>5. best[m] = Round(h, t, text, best, m)  BY <1>2
  <2>. QED  BY <2>4, <2>5
<1>5. 0 \in 0 .. n + 1  BY <1>1
<1>. QED  BY <1>3, <1>4, <1>5

\* The stretches that hold what is typed.
LEMMA GapsAre ==
    ASSUME NEW h, NEW t \in Texts, NEW text \in Texts, NEW a, NEW b
    PROVE  <<a, b>> \in Gaps(h, t, text) <=>
              a \in 0 .. Len(text) /\ b \in a .. Len(text) /\ Fits(h, t, text, a, b)
<1>. DEFINE n == Len(text)
            k == Len(t)
<1>1. n \in Nat /\ k \in Nat  BY DEF Texts
<1>2. <<a, b>> \in Gaps(h, t, text) <=>
         /\ a \in 0 .. n /\ b \in 0 .. n /\ a <= b /\ b - a >= k /\ Fits(h, t, text, a, b)
  <2>. DEFINE Is(w) == /\ w[1] <= w[2] /\ w[2] - w[1] >= Len(t)
                       /\ \E S \in SUBSET ((w[1] + 1)..w[2]) :
                            /\ Cardinality(S) = Len(t)
                            /\ \A i \in S : Same(h, text[i], t[Cardinality({j \in S : j <= i})])
              w == <<a, b>>
  <2>1. Gaps(h, t, text) = {v \in (0 .. n) \X (0 .. n) : Is(v)}  BY DEF Gaps
  <2>2. w[1] = a /\ w[2] = b  OBVIOUS
  <2>3. Is(w) <=> a <= b /\ b - a >= k /\ Fits(h, t, text, a, b)
    BY <2>2 DEF Fits, UpTo
  <2>4. w \in (0 .. n) \X (0 .. n) <=> a \in 0 .. n /\ b \in 0 .. n  OBVIOUS
  <2>. HIDE DEF Is, w
  <2>5. w \in Gaps(h, t, text) <=> w \in (0 .. n) \X (0 .. n) /\ Is(w)  BY <2>1
  <2>6. w \in Gaps(h, t, text) <=>
           a \in 0 .. n /\ b \in 0 .. n /\ a <= b /\ b - a >= k /\ Fits(h, t, text, a, b)
    BY <2>3, <2>4, <2>5
  <2>. QED  BY <2>6 DEF w
<1>3. ASSUME a \in 0 .. n, b \in a .. n, Fits(h, t, text, a, b) PROVE b - a >= k
  <2>1. PICK S \in SUBSET (a + 1 .. b) : Cardinality(S) = k  BY <1>3 DEF Fits
  <2>2. IsFiniteSet(a + 1 .. b) /\ Cardinality(a + 1 .. b) = b - a
    <3>1. a \in Int /\ a + 1 \in Int /\ b \in Int /\ a <= b  BY <1>3
    <3>2. /\ IsFiniteSet(a + 1 .. b)
          /\ Cardinality(a + 1 .. b) = IF a + 1 > b THEN 0 ELSE b - (a + 1) + 1
      BY <3>1, FS_Interval
    <3>. QED  BY <3>1, <3>2
  <2>3. Cardinality(S) <= Cardinality(a + 1 .. b)  BY <2>1, <2>2, FS_Subset
  <2>. QED  BY <1>1, <1>3, <2>1, <2>2, <2>3
<1>4. a \in 0 .. n /\ b \in a .. n <=> a \in 0 .. n /\ b \in 0 .. n /\ a <= b  BY <1>1
<1>. QED  BY <1>2, <1>3, <1>4

\* A number of a set that no other is below is the least.
LEMMA IsSmallest ==
    ASSUME NEW S, S \subseteq Nat, NEW x \in S, \A y \in S : x <= y
    PROVE  Smallest(S) = x
<1>1. Smallest(S) \in S /\ Smallest(S) <= x  BY SmallestIs
<1>2. x <= Smallest(S) /\ x \in Nat /\ Smallest(S) \in Nat  BY <1>1
<1>. QED  BY <1>1, <1>2

\* tightest is the shortest of them, and the first of the shortest.
LEMMA TightestShortest ==
    ASSUME NEW h, NEW t \in Texts, NEW text \in Texts
    PROVE  Tightest(h, t, text) = ShortestGap(t, Gaps(h, t, text))
<1>. DEFINE gaps == Gaps(h, t, text)
            best == Tightest(h, t, text)
            n == Len(text)
<1>1. n \in Nat /\ (t = <<>> <=> Len(t) = 0)  BY DEF Texts
<1>2. CASE t = <<>>  BY <1>1, <1>2 DEF Tightest, ShortestGap
<1>3. CASE t # <<>>
  <2>1. BestFrom(best, h, t, text, 0)  BY <1>1, <1>3, TightestIs
  <2>2. \A a, b : <<a, b>> \in gaps <=> a \in 0 .. n /\ b \in a .. n /\ Fits(h, t, text, a, b)
    BY GapsAre
  <2>3. gaps \subseteq (0 .. n) \X (0 .. n)  BY DEF Gaps
  <2>. HIDE DEF gaps, best, n
  <2>4. CASE best = <<>>
    <3>1. \A a, b : <<a, b>> \notin gaps  BY <2>1, <2>2, <2>4 DEF BestFrom, n
    <3>2. gaps = {}  BY <2>3, <3>1
    <3>. QED  BY <2>4, <3>2 DEF ShortestGap, gaps, best
  <2>5. CASE best # <<>>
    <3>0. PICK a \in 0 .. n : \E b \in a .. n : Fits(h, t, text, a, b) /\ best = <<b - a, a>>
      BY <2>1, <2>5 DEF BestFrom, n
    <3>1. PICK b \in a .. n : Fits(h, t, text, a, b) /\ best = <<b - a, a>>  BY <3>0
    <3>2. <<a, b>> \in gaps /\ a \in Nat /\ b \in Nat /\ b - a \in Nat  BY <1>1, <2>2, <3>1
    <3>3. ASSUME NEW w \in gaps
          PROVE  /\ w[1] \in Nat /\ w[2] \in Nat /\ w[2] - w[1] \in Nat
                 /\ b - a < w[2] - w[1] \/ (b - a = w[2] - w[1] /\ a <= w[1])
      <4>1. w = <<w[1], w[2]>>  BY <2>3
      <4>2. w[1] \in 0 .. n /\ w[2] \in w[1] .. n /\ Fits(h, t, text, w[1], w[2])
        BY <2>2, <4>1
      <4>3. best[1] = b - a /\ best[2] = a  BY <3>1
      <4>4. best[1] < w[2] - w[1] \/ (best[1] = w[2] - w[1] /\ best[2] <= w[1])
        BY <2>1, <2>5, <4>2 DEF BestFrom, n
      <4>. QED  BY <1>1, <4>2, <4>3, <4>4
    <3>. DEFINE lengths == {w[2] - w[1] : w \in gaps}
                starts(len) == {w[1] : w \in {v \in gaps : v[2] - v[1] = len}}
    <3>4. Smallest(lengths) = b - a
      <4>1. lengths \subseteq Nat  BY <3>3
      <4>2. b - a \in lengths
        <5>1. <<a, b>>[2] - <<a, b>>[1] = b - a  OBVIOUS
        <5>. QED  BY <3>2, <5>1
      <4>3. \A y \in lengths : b - a <= y  BY <3>2, <3>3
      <4>. HIDE DEF lengths
      <4>. QED  BY <4>1, <4>2, <4>3, IsSmallest
    <3>5. Smallest(starts(b - a)) = a
      <4>1. starts(b - a) \subseteq Nat  BY <3>3
      <4>2. a \in starts(b - a)
        <5>1. <<a, b>>[1] = a /\ <<a, b>>[2] = b  OBVIOUS
        <5>. QED  BY <3>2, <5>1
      <4>3. \A y \in starts(b - a) : a <= y
        <5>1. ASSUME NEW w \in gaps, w[2] - w[1] = b - a PROVE a <= w[1]
          BY <3>2, <3>3, <5>1
        <5>. QED  BY <5>1
      <4>. HIDE DEF starts
      <4>. QED  BY <4>1, <4>2, <4>3, IsSmallest
    <3>6. ShortestGap(t, gaps) = <<Smallest(lengths), Smallest(starts(Smallest(lengths)))>>
      <4>1. gaps # {}  BY <3>2
      <4>. QED  BY <1>3, <4>1 DEF ShortestGap, ShortestOf
    <3>. QED  BY <3>1, <3>4, <3>5, <3>6 DEF gaps, best
  <2>. QED  BY <2>4, <2>5
<1>. QED  BY <1>2, <1>3

\* There is one exactly where what is typed can be matched in order.
LEMMA TightestOfInOrder ==
    ASSUME NEW h, NEW t \in Texts, NEW text \in Texts, t # <<>>
    PROVE  InOrder(h, t, text) <=> Tightest(h, t, text) # <<>>
<1>. DEFINE n == Len(text)
<1>1. n \in Nat /\ Len(t) # 0 /\ 0 \in 0 .. n /\ n \in 0 .. n /\ n \in n .. n  BY DEF Texts
<1>2. BestFrom(Tightest(h, t, text), h, t, text, 0)  BY <1>1, TightestIs
<1>3. ASSUME InOrder(h, t, text) PROVE Tightest(h, t, text) # <<>>
  <2>1. Fits(h, t, text, 0, n)  BY <1>1, <1>3, MatchedFits DEF InOrder
  <2>. QED  BY <1>1, <1>2, <2>1 DEF BestFrom
<1>4. ASSUME Tightest(h, t, text) # <<>> PROVE InOrder(h, t, text)
  <2>0. PICK a \in 0 .. n : \E b \in a .. n : Fits(h, t, text, a, b)  BY <1>2, <1>4 DEF BestFrom
  <2>1. PICK b \in a .. n : Fits(h, t, text, a, b)  BY <2>0
  <2>2. PICK S \in SUBSET (a + 1 .. b) :
           /\ Cardinality(S) = Len(t)
           /\ \A i \in S : Same(h, text[i], t[Cardinality(UpTo(S, i))])
    BY <2>1 DEF Fits
  <2>3. S \in SUBSET (0 + 1 .. n)
    <3>1. \A i \in a + 1 .. b : i \in 0 + 1 .. n  BY <1>1, <2>1
    <3>. QED  BY <3>1
  <2>4. Fits(h, t, text, 0, n)  BY <2>2, <2>3 DEF Fits
  <2>5. MatchedTo(h, t, text, 0)[n] = Len(t)  BY <1>1, <2>4, FitsForward
  <2>. QED  BY <2>5 DEF InOrder
<1>. QED  BY <1>3, <1>4

(* Ranking: the entries gathered. *)

\* The ranks there are.
LEMMA RanksAre ==
    ASSUME NEW h \in Matchings, NEW t \in Texts, NEW text \in Texts
    PROVE  /\ Starts(h, t, text) \in {Prefix, OtherCasePrefix, NoRank}
           /\ RankElsewhere(h, t, text) \in
                 {ContainsRank, Unordered, NoRank} \cup {Gapped(s, a) : s \in Int, a \in Nat}
           /\ \A a, b : Gapped(a, b) \notin {Prefix, OtherCasePrefix, ContainsRank, Unordered, NoRank}
           /\ NoRank \notin {Prefix, OtherCasePrefix, ContainsRank, Unordered}
           /\ Prefix \notin {OtherCasePrefix, ContainsRank, Unordered}
           /\ OtherCasePrefix \notin {ContainsRank, Unordered} /\ ContainsRank # Unordered
           /\ Starts(h, t, text) = NoRank => t # <<>>
<1>1. Starts(h, t, text) \in {Prefix, OtherCasePrefix, NoRank}  BY DEF Starts
<1>2. /\ \A a, b : Gapped(a, b) \notin {Prefix, OtherCasePrefix, ContainsRank, Unordered, NoRank}
      /\ NoRank \notin {Prefix, OtherCasePrefix, ContainsRank, Unordered}
      /\ Prefix \notin {OtherCasePrefix, ContainsRank, Unordered}
      /\ OtherCasePrefix \notin {ContainsRank, Unordered} /\ ContainsRank # Unordered
  <2>1. \A a, b, c, x, y, z : <<a, b, c>> = <<x, y, z>> => a = x  OBVIOUS
  <2>2. \A a, b : Gapped(a, b) \notin {Prefix, OtherCasePrefix, ContainsRank, Unordered, NoRank}
    BY <2>1 DEF Gapped, Prefix, OtherCasePrefix, ContainsRank, Unordered, NoRank
  <2>. QED  BY <2>1, <2>2 DEF Prefix, OtherCasePrefix, ContainsRank, Unordered, NoRank
<1>3. ASSUME Starts(h, t, text) = NoRank PROVE t # <<>>
  <2>1. SUFFICES ASSUME t = <<>> PROVE FALSE  OBVIOUS
  <2>2. IsPrefix(t, text)
    <3>1. Len(t) = 0 /\ Len(text) \in Nat  BY <2>1 DEF Texts
    <3>2. SubSeq(t, 1, 0) = SubSeq(text, 1, 0)  BY <2>1 DEF Texts
    <3>. QED  BY <3>1, <3>2 DEF IsPrefix
  <2>3. Starts(h, t, text) = Prefix  BY <2>2 DEF Starts
  <2>. QED  BY <1>2, <1>3, <2>3
<1>4. RankElsewhere(h, t, text) \in
         {ContainsRank, Unordered, NoRank} \cup {Gapped(s, a) : s \in Int, a \in Nat}
  <2>1. h.style \in Styles  BY DEF Matchings
  <2>2. CASE h.style = "prefix"  BY <2>2 DEF RankElsewhere
  <2>3. CASE h.style = "substring"  BY <2>3 DEF RankElsewhere
  <2>4. CASE h.style = "orderless"
    <3>1. Holds(h, t, text) \in {ContainsRank, Unordered, NoRank}  BY DEF Holds
    <3>. QED  BY <2>4, <3>1 DEF RankElsewhere
  <2>5. CASE h.style = "fuzzy"
    <3>. DEFINE match == Tightest(h, t, text)
    <3>1. match = <<>> \/ match \in Nat \X Nat
      <4>1. CASE Len(t) = 0  BY <4>1 DEF Tightest
      <4>2. CASE Len(t) # 0  BY <4>2, TightestIs DEF BestFrom, Stretches
      <4>. QED  BY <4>1, <4>2
    <3>2. RankElsewhere(h, t, text) = FuzzyRank(t, match)  BY <2>5 DEF RankElsewhere
    <3>3. Len(t) \in Nat  BY DEF Texts
    <3>. HIDE DEF match
    <3>4. match \in Nat \X Nat => match[1] - Len(t) \in Int /\ match[2] \in Nat  BY <3>3
    <3>. QED  BY <3>1, <3>2, <3>4 DEF FuzzyRank
  <2>. QED  BY <2>1, <2>2, <2>3, <2>4, <2>5 DEF Styles
<1>. QED  BY <1>1, <1>2, <1>3, <1>4

\* What offer tells of an entry without ranking it is the kind of its rank.
LEMMA OfferedKindIs ==
    ASSUME NEW h \in Matchings, NEW t \in Texts, NEW entry \in Texts, NEW g
    PROVE  {kind \in OfferedKinds(g, h, t, entry) : Room(g, kind)} =
              {kind \in Kinds : /\ RankOf(h, t, entry) # NoRank
                                /\ kind = KindOf(RankOf(h, t, entry)) /\ Room(g, kind)}
<1>. DEFINE starts == Starts(h, t, entry)
            rank == RankOf(h, t, entry)
            offered == {kind \in OfferedKinds(g, h, t, entry) : Room(g, kind)}
<1>1. /\ starts \in {Prefix, OtherCasePrefix, NoRank}
      /\ NoRank \notin {Prefix, OtherCasePrefix, ContainsRank, Unordered}
      /\ Prefix \notin {OtherCasePrefix, ContainsRank, Unordered}
      /\ OtherCasePrefix \notin {ContainsRank, Unordered} /\ ContainsRank # Unordered
      /\ \A a, b : Gapped(a, b) \notin {Prefix, OtherCasePrefix, ContainsRank, Unordered, NoRank}
      /\ starts = NoRank => t # <<>>
  BY RanksAre
<1>2. rank = IF starts # NoRank THEN starts ELSE RankElsewhere(h, t, entry)
  BY DEF RankOf, RankOr
<1>3. OfferedKinds(g, h, t, entry) =
         IF starts # NoRank THEN {KindOf(starts)} ELSE KindsElsewhere(g, h, t, entry)
  BY DEF OfferedKinds, KindsWith
<1>4. KindOf(rank) \in Kinds  BY DEF KindOf, Kinds
<1>5. CASE starts # NoRank  BY <1>2, <1>3, <1>4, <1>5
<1>6. CASE starts = NoRank
  <2>1. rank = RankElsewhere(h, t, entry) /\ OfferedKinds(g, h, t, entry) = KindsElsewhere(g, h, t, entry)
    BY <1>2, <1>3, <1>6
  <2>2. h.style \in Styles  BY DEF Matchings
  <2>3. KindOf(ContainsRank) = "not prefix" /\ KindOf(Unordered) = "unordered"
    BY <1>1 DEF KindOf
  <2>. HIDE DEF starts, rank
  <2>4. CASE h.style = "prefix"
    <3>1. rank = NoRank  BY <2>1, <2>4 DEF RankElsewhere
    <3>2. KindsElsewhere(g, h, t, entry) = {}  BY <2>4 DEF KindsElsewhere
    <3>. QED  BY <2>1, <3>1, <3>2 DEF rank
  <2>5. CASE h.style = "substring"
    <3>1. rank = IF ContainsTyped(h, t, entry) THEN ContainsRank ELSE NoRank
      BY <2>1, <2>5 DEF RankElsewhere
    <3>2. KindsElsewhere(g, h, t, entry) =
             IF Room(g, "not prefix") /\ ContainsTyped(h, t, entry) THEN {"not prefix"} ELSE {}
      BY <2>5 DEF KindsElsewhere
    <3>. QED  BY <1>1, <1>4, <2>1, <2>3, <3>1, <3>2 DEF rank
  <2>6. CASE h.style = "orderless"
    <3>1. rank = Holds(h, t, entry) /\ rank \in {ContainsRank, Unordered, NoRank}
      BY <2>1, <2>6 DEF RankElsewhere, Holds
    <3>2. KindsElsewhere(g, h, t, entry) =
             IF Room(g, "not prefix") \/ Room(g, "unordered")
             THEN {KindOf(r) : r \in {Holds(h, t, entry)} \ {NoRank}} ELSE {}
      BY <2>6 DEF KindsElsewhere
    <3>3. {KindOf(r) : r \in {Holds(h, t, entry)} \ {NoRank}} =
             IF rank = NoRank THEN {} ELSE {KindOf(rank)}
      BY <3>1
    <3>. QED  BY <1>1, <1>4, <2>1, <2>3, <3>1, <3>2, <3>3 DEF rank
  <2>7. CASE h.style = "fuzzy"
    <3>1. rank = FuzzyRank(t, Tightest(h, t, entry))  BY <2>1, <2>7 DEF RankElsewhere
    <3>2. KindsElsewhere(g, h, t, entry) =
             IF Room(g, "not prefix") /\ InOrder(h, t, entry) THEN {"not prefix"} ELSE {}
      BY <2>7 DEF KindsElsewhere
    <3>3. InOrder(h, t, entry) <=> Tightest(h, t, entry) # <<>>
      BY <1>1, <1>6, TightestOfInOrder
    <3>4. rank # NoRank <=> InOrder(h, t, entry)  BY <1>1, <3>1, <3>3 DEF FuzzyRank
    <3>5. rank # NoRank => KindOf(rank) = "not prefix"
      <4>1. \A a, b : KindOf(Gapped(a, b)) = "not prefix"  BY <1>1 DEF KindOf
      <4>. QED  BY <3>1, <4>1 DEF FuzzyRank
    <3>. QED  BY <1>4, <2>1, <3>2, <3>4, <3>5 DEF rank
  <2>. QED  BY <2>2, <2>4, <2>5, <2>6, <2>7 DEF Styles
<1>. QED  BY <1>5, <1>6

\* Of the entries looked at: those that match, their kinds, and those gathered.
WantedIn(h, t, hist) ==
    {i \in DOMAIN hist : /\ hist[i] # t /\ Drawable(hist[i]) /\ RankOf(h, t, hist[i]) # NoRank
                         /\ \A j \in 1..(i - 1) : hist[j] # hist[i]}
KindAt(h, t, hist, i) == KindOf(RankOf(h, t, hist[i]))
OfKind(h, t, hist, kind) == {i \in WantedIn(h, t, hist) : KindAt(h, t, hist, i) = kind}
Earlier(h, t, hist, i) ==
    {j \in WantedIn(h, t, hist) : j < i /\ KindAt(h, t, hist, j) = KindAt(h, t, hist, i)}
KeptIn(h, t, hist) ==
    {i \in WantedIn(h, t, hist) : Cardinality(Earlier(h, t, hist, i)) < HistoryLimit}
IsWanted(h, t, hist, entry) ==
    /\ entry # t /\ Drawable(entry) /\ RankOf(h, t, entry) # NoRank
    /\ \A j \in DOMAIN hist : hist[j] # entry

\* One entry more.
Grows(h, t, hist, entry, more, next, kind) ==
    /\ \A k : OfKind(h, t, more, k) = OfKind(h, t, hist, k)
                 \cup (IF IsWanted(h, t, hist, entry) /\ kind = k THEN {next} ELSE {})
    /\ \A k : next \notin OfKind(h, t, hist, k)
    /\ {more[i] : i \in KeptIn(h, t, more)} = {hist[i] : i \in KeptIn(h, t, hist)}
          \cup (IF /\ IsWanted(h, t, hist, entry)
                   /\ Cardinality(OfKind(h, t, hist, kind)) < HistoryLimit
                THEN {entry} ELSE {})

\* What a further entry adds to those wanted, of each kind, and to those kept.
LEMMA HistoryGrows ==
    ASSUME NEW h, NEW t, NEW hist \in Seq(Texts), NEW entry \in Texts
    PROVE  Grows(h, t, hist, entry, Append(hist, entry), Len(hist) + 1, KindOf(RankOf(h, t, entry)))
<1>. DEFINE more == Append(hist, entry)
            m == Len(hist)
            next == m + 1
            kind == KindOf(RankOf(h, t, entry))
            wants == IsWanted(h, t, hist, entry)
<1>1. /\ m \in Nat /\ DOMAIN hist = 1 .. m /\ DOMAIN more = 1 .. m + 1
      /\ \A i \in 1 .. m : more[i] = hist[i]
      /\ more[next] = entry
  OBVIOUS
<1>. HIDE DEF more, m
<1>2. WantedIn(h, t, more) = WantedIn(h, t, hist) \cup (IF wants THEN {next} ELSE {})
  <2>1. ASSUME NEW i \in 1 .. m PROVE i \in WantedIn(h, t, more) <=> i \in WantedIn(h, t, hist)
    <3>1. i \in DOMAIN hist /\ i \in DOMAIN more /\ more[i] = hist[i]
      BY <1>1
    <3>2. \A j \in 1 .. (i - 1) : more[j] = hist[j]  BY <1>1
    <3>. QED  BY <3>1, <3>2 DEF WantedIn
  <2>2. next \in WantedIn(h, t, more) <=> wants
    <3>1. next \in DOMAIN more /\ 1 .. (next - 1) = DOMAIN hist  BY <1>1
    <3>2. \A j \in DOMAIN hist : more[j] = hist[j]  BY <1>1
    <3>. QED  BY <1>1, <3>1, <3>2 DEF WantedIn, IsWanted
  <2>3. \A i \in WantedIn(h, t, more) : i \in 1 .. m \/ i = next  BY <1>1 DEF WantedIn
  <2>4. WantedIn(h, t, hist) \subseteq 1 .. m  BY <1>1 DEF WantedIn
  <2>. HIDE DEF wants, next
  <2>. QED  BY <2>1, <2>2, <2>3, <2>4
<1>3. /\ WantedIn(h, t, hist) \subseteq 1 .. m /\ next \notin 1 .. m
      /\ \A i \in 1 .. m : KindAt(h, t, more, i) = KindAt(h, t, hist, i)
      /\ KindAt(h, t, more, next) = kind
  BY <1>1 DEF WantedIn, KindAt
<1>. HIDE DEF wants, kind
<1>4. ASSUME NEW k
      PROVE  /\ OfKind(h, t, more, k) = OfKind(h, t, hist, k) \cup (IF wants /\ kind = k THEN {next} ELSE {})
             /\ next \notin OfKind(h, t, hist, k)
  BY <1>2, <1>3 DEF OfKind
<1>5. ASSUME NEW i \in WantedIn(h, t, hist)
      PROVE  Earlier(h, t, more, i) = Earlier(h, t, hist, i) /\ more[i] = hist[i]
  <2>1. i \in 1 .. m /\ ~(next < i)  BY <1>1, <1>3
  <2>. QED  BY <1>1, <1>2, <1>3, <2>1 DEF Earlier
<1>6. wants => Earlier(h, t, more, next) = OfKind(h, t, hist, kind)
  <2>1. \A j \in 1 .. m : j < next  BY <1>1
  <2>2. ~(next < next)  BY <1>1
  <2>. QED  BY <1>2, <1>3, <2>1, <2>2 DEF Earlier, OfKind
<1>. DEFINE new == wants /\ Cardinality(OfKind(h, t, hist, kind)) < HistoryLimit
<1>7. KeptIn(h, t, more) = KeptIn(h, t, hist) \cup (IF new THEN {next} ELSE {})
  <2>1. next \notin WantedIn(h, t, hist)  BY <1>3
  <2>2. \A i \in WantedIn(h, t, hist) : i \in KeptIn(h, t, more) <=> i \in KeptIn(h, t, hist)
    BY <1>2, <1>5 DEF KeptIn
  <2>3. next \in KeptIn(h, t, more) <=> new  BY <1>2, <1>6, <2>1 DEF KeptIn
  <2>4. KeptIn(h, t, hist) \subseteq WantedIn(h, t, hist) /\ KeptIn(h, t, more) \subseteq WantedIn(h, t, more)
    BY DEF KeptIn
  <2>. HIDE DEF new, next
  <2>. QED  BY <1>2, <2>2, <2>3, <2>4
<1>8. KeptIn(h, t, hist) \subseteq WantedIn(h, t, hist)  BY DEF KeptIn
<1>9. {more[i] : i \in KeptIn(h, t, more)} = {hist[i] : i \in KeptIn(h, t, hist)} \cup (IF new THEN {entry} ELSE {})
  <2>. HIDE DEF new, next
  <2>1. \A i \in KeptIn(h, t, hist) : more[i] = hist[i]  BY <1>5, <1>8
  <2>2. more[next] = entry  BY <1>1
  <2>. QED  BY <1>7, <2>1, <2>2
<1>. QED  BY <1>4, <1>9 DEF more, wants, kind, m, Grows

\* An entry that was there before is gathered, or its kind is full.
LEMMA SeenBefore ==
    ASSUME NEW h, NEW t, NEW hist \in Seq(Texts), NEW entry,
           entry # t, Drawable(entry), RankOf(h, t, entry) # NoRank,
           \E j \in DOMAIN hist : hist[j] = entry
    PROVE  \/ entry \in {hist[i] : i \in KeptIn(h, t, hist)}
           \/ ~(Cardinality(OfKind(h, t, hist, KindOf(RankOf(h, t, entry)))) < HistoryLimit)
<1>. DEFINE same == {j \in DOMAIN hist : hist[j] = entry}
            kind == KindOf(RankOf(h, t, entry))
<1>1. Len(hist) \in Nat /\ DOMAIN hist = 1 .. Len(hist)  OBVIOUS
<1>2. PICK i \in same : \A j \in same : i <= j
  <2>1. same \subseteq Nat /\ same # {}  BY <1>1
  <2>. HIDE DEF same
  <2>. QED  BY <2>1, LowestIs
<1>3. i \in WantedIn(h, t, hist)
  <2>1. i \in DOMAIN hist /\ hist[i] = entry  BY <1>2
  <2>2. \A j \in 1 .. (i - 1) : hist[j] # hist[i]
    <3>1. \A j \in 1 .. (i - 1) : j \in DOMAIN hist /\ ~(i <= j)  BY <1>1, <2>1
    <3>. QED  BY <1>2, <2>1, <3>1
  <2>. QED  BY <2>1, <2>2 DEF WantedIn
<1>4. Earlier(h, t, hist, i) \subseteq OfKind(h, t, hist, kind)
  BY <1>2 DEF Earlier, OfKind, KindAt
<1>5. IsFiniteSet(OfKind(h, t, hist, kind))
  <2>1. IsFiniteSet(1 .. Len(hist))  BY <1>1, FS_Interval
  <2>2. OfKind(h, t, hist, kind) \in SUBSET (1 .. Len(hist))  BY <1>1 DEF OfKind, WantedIn
  <2>. QED  BY <2>1, <2>2, FS_Subset
<1>6. /\ Cardinality(Earlier(h, t, hist, i)) <= Cardinality(OfKind(h, t, hist, kind))
      /\ Cardinality(Earlier(h, t, hist, i)) \in Nat /\ Cardinality(OfKind(h, t, hist, kind)) \in Nat
  BY <1>4, <1>5, FS_Subset, FS_CardinalityType
<1>7. CASE Cardinality(Earlier(h, t, hist, i)) < HistoryLimit
  <2>1. i \in KeptIn(h, t, hist)  BY <1>3, <1>7 DEF KeptIn
  <2>. QED  BY <1>2, <2>1
<1>8. CASE ~(Cardinality(Earlier(h, t, hist, i)) < HistoryLimit)
  <2>1. ~(Cardinality(OfKind(h, t, hist, kind)) < HistoryLimit)
    BY <1>6, <1>8, HistoryLimitAssumption
  <2>. QED  BY <2>1
<1>. QED  BY <1>7, <1>8

\* What is gathered at each moment: an item for each entry that is kept, and for
\* each kind the count of those, up to the limit.
GatheredItem(t, item) == item.text \in Texts /\ item = HistoryItem(t, item.text)
GatherOK(h, t, hist, g) ==
    /\ g \in [items : Seq(Items), taken : [Kinds -> Nat]]
    /\ \A n \in DOMAIN g.items : GatheredItem(t, g.items[n])
    /\ \A kind \in Kinds :
         g.taken[kind] = IF Cardinality(OfKind(h, t, hist, kind)) < HistoryLimit
                         THEN Cardinality(OfKind(h, t, hist, kind)) ELSE HistoryLimit
    /\ {g.items[n].text : n \in DOMAIN g.items} = {hist[i] : i \in KeptIn(h, t, hist)}
GatherInv ==
    /\ typed \in LinesTyped /\ how \in Matchings /\ history \in Seq(Texts)
    /\ GatherOK(how, typed, history, gather)

\* The first and the later entries keep it.
LEMMA NoneGathered ==
    ASSUME NEW h, NEW t PROVE GatherOK(h, t, <<>>, NoneTaken)
<1>1. \A kind : OfKind(h, t, <<>>, kind) = {} /\ KeptIn(h, t, <<>>) = {}
  BY DEF OfKind, KeptIn, WantedIn
<1>2. Cardinality({}) = 0 /\ HistoryLimit \in Nat /\ 0 < HistoryLimit
  BY FS_EmptySet, HistoryLimitAssumption
<1>3. NoneTaken.items = <<>> /\ NoneTaken.taken = [kind \in Kinds |-> 0]  BY DEF NoneTaken
<1>4. NoneTaken \in [items : Seq(Items), taken : [Kinds -> Nat]]  BY DEF NoneTaken
<1>5. DOMAIN NoneTaken.items = {} /\ \A kind \in Kinds : NoneTaken.taken[kind] = 0
  BY <1>3
<1>6. {NoneTaken.items[n].text : n \in DOMAIN NoneTaken.items} = {<<>>[i] : i \in KeptIn(h, t, <<>>)}
  BY <1>1, <1>5
<1>7. \A kind \in Kinds :
         NoneTaken.taken[kind] = IF Cardinality(OfKind(h, t, <<>>, kind)) < HistoryLimit
                                 THEN Cardinality(OfKind(h, t, <<>>, kind)) ELSE HistoryLimit
  BY <1>1, <1>2, <1>5
<1>. QED  BY <1>4, <1>5, <1>6, <1>7 DEF GatherOK

\* An entry offered is taken, or left, as what is gathered asks.
LEMMA OfferedKeeps ==
    ASSUME NEW h \in Matchings, NEW t \in Texts, NEW hist \in Seq(Texts), NEW entry \in Texts,
           NEW g, GatherOK(h, t, hist, g)
    PROVE  GatherOK(h, t, Append(hist, entry), Offered(g, h, t, entry))
<1>. DEFINE more == Append(hist, entry)
            next == Len(hist) + 1
            rank == RankOf(h, t, entry)
            kind == KindOf(rank)
            count(k) == Cardinality(OfKind(h, t, hist, k))
            wants == IsWanted(h, t, hist, entry)
            takes == wants /\ count(kind) < HistoryLimit
            kinds == {k \in OfferedKinds(g, h, t, entry) : Room(g, k)}
            to == Offered(g, h, t, entry)
<1>1. /\ \A k : OfKind(h, t, more, k) = OfKind(h, t, hist, k) \cup (IF wants /\ kind = k THEN {next} ELSE {})
      /\ \A k : next \notin OfKind(h, t, hist, k)
      /\ {more[i] : i \in KeptIn(h, t, more)} = {hist[i] : i \in KeptIn(h, t, hist)}
            \cup (IF takes THEN {entry} ELSE {})
  <2>1. Grows(h, t, hist, entry, more, next, kind)  BY HistoryGrows
  <2>. HIDE DEF more, next, kind
  <2>. QED  BY <2>1 DEF Grows
<1>2. \A k : IsFiniteSet(OfKind(h, t, hist, k)) /\ count(k) \in Nat
  <2>1. IsFiniteSet(1 .. Len(hist))  BY FS_Interval
  <2>2. \A k : OfKind(h, t, hist, k) \in SUBSET (1 .. Len(hist))  BY DEF OfKind, WantedIn
  <2>. QED  BY <2>1, <2>2, FS_Subset, FS_CardinalityType
<1>. HIDE DEF more, next
<1>3. \A k : Cardinality(OfKind(h, t, more, k)) = IF wants /\ kind = k THEN count(k) + 1 ELSE count(k)
  <2>1. ASSUME NEW k
        PROVE  Cardinality(OfKind(h, t, more, k)) = IF wants /\ kind = k THEN count(k) + 1 ELSE count(k)
    <3>1. CASE wants /\ kind = k
      <4>1. OfKind(h, t, more, k) = OfKind(h, t, hist, k) \cup {next}  BY <1>1, <3>1
      <4>. QED  BY <1>1, <1>2, <3>1, <4>1, FS_AddElement
    <3>2. CASE ~(wants /\ kind = k)
      <4>1. OfKind(h, t, more, k) = OfKind(h, t, hist, k)  BY <1>1, <3>2
      <4>. QED  BY <3>2, <4>1
    <3>. QED  BY <3>1, <3>2
  <2>. QED  BY <2>1
<1>4. HistoryLimit \in Nat /\ 0 < HistoryLimit  BY HistoryLimitAssumption
<1>5. /\ g \in [items : Seq(Items), taken : [Kinds -> Nat]]
      /\ \A n \in DOMAIN g.items : GatheredItem(t, g.items[n])
      /\ \A k \in Kinds : g.taken[k] = IF count(k) < HistoryLimit THEN count(k) ELSE HistoryLimit
      /\ {g.items[n].text : n \in DOMAIN g.items} = {hist[i] : i \in KeptIn(h, t, hist)}
  BY DEF GatherOK
<1>. HIDE DEF count, kind
<1>6. \A k \in Kinds : Room(g, k) <=> count(k) < HistoryLimit
  BY <1>2, <1>4, <1>5 DEF Room
<1>7. kind \in Kinds  BY DEF kind, KindOf, Kinds
<1>8. kinds = {k \in Kinds : rank # NoRank /\ k = kind /\ Room(g, k)}
  BY OfferedKindIs DEF kind
<1>9. kinds # {} => (CHOOSE k \in kinds : TRUE) = kind /\ rank # NoRank /\ Room(g, kind)
  <2>. HIDE DEF rank
  <2>. QED  BY <1>8
<1>10. rank # NoRank /\ Room(g, kind) => kinds # {}  BY <1>7, <1>8
<1>. HIDE DEF kinds
<1>11. kinds # {} /\ New(g, t, entry) <=> takes
  <2>1. ASSUME kinds # {}, New(g, t, entry) PROVE takes
    <3>1. entry # t /\ Drawable(entry) /\ entry \notin {g.items[n].text : n \in DOMAIN g.items}
      BY <2>1 DEF New
    <3>2. rank # NoRank /\ count(kind) < HistoryLimit  BY <1>6, <1>7, <1>9, <2>1
    <3>3. ~\E j \in DOMAIN hist : hist[j] = entry
      BY <1>5, <3>1, <3>2, SeenBefore DEF count, kind
    <3>. QED  BY <3>1, <3>2, <3>3 DEF IsWanted
  <2>2. ASSUME takes PROVE kinds # {} /\ New(g, t, entry)
    <3>1. entry # t /\ Drawable(entry) /\ rank # NoRank /\ \A j \in DOMAIN hist : hist[j] # entry
      BY <2>2 DEF IsWanted
    <3>2. KeptIn(h, t, hist) \subseteq DOMAIN hist  BY DEF KeptIn, WantedIn
    <3>3. entry \notin {g.items[n].text : n \in DOMAIN g.items}  BY <1>5, <3>1, <3>2
    <3>4. Room(g, kind)  BY <1>6, <1>7, <2>2
    <3>. QED  BY <1>10, <3>1, <3>3, <3>4 DEF New
  <2>. QED  BY <2>1, <2>2
<1>12. to = IF takes THEN Taken(g, t, entry, kind) ELSE g
  <2>1. to = IF kinds # {} /\ New(g, t, entry) THEN Taken(g, t, entry, CHOOSE k \in kinds : TRUE) ELSE g
    BY DEF Offered, TakenAs, kinds
  <2>. HIDE DEF takes, to
  <2>. QED  BY <1>9, <1>11, <2>1
<1>13. CASE takes
  <2>. DEFINE item == HistoryItem(t, entry)
  <2>1. to.items = Append(g.items, item) /\ to.taken = [g.taken EXCEPT ![kind] = @ + 1]
    BY <1>12, <1>13 DEF Taken
  <2>2. item \in Items /\ item.text = entry /\ GatheredItem(t, item)
    <3>1. Len(t) \in Nat /\ "history" \in Source  BY DEF Texts, Source
    <3>2. item = [text |-> entry, start |-> 0, end |-> Len(t), source |-> "history"]
      BY DEF HistoryItem
    <3>. HIDE DEF item
    <3>3. item \in Items /\ item.text = entry  BY <3>1, <3>2 DEF Items
    <3>4. item = HistoryItem(t, item.text)  BY <3>2, <3>3 DEF HistoryItem
    <3>. QED  BY <3>3, <3>4 DEF GatheredItem
  <2>. HIDE DEF item
  <2>3. to \in [items : Seq(Items), taken : [Kinds -> Nat]]
    <3>1. Append(g.items, item) \in Seq(Items)  BY <1>5, <2>2
    <3>2. [g.taken EXCEPT ![kind] = @ + 1] \in [Kinds -> Nat]  BY <1>5, <1>7
    <3>. QED  BY <1>12, <1>13, <3>1, <3>2 DEF Taken, item
  <2>4. /\ DOMAIN to.items = DOMAIN g.items \cup {Len(g.items) + 1}
        /\ \A n \in DOMAIN g.items : to.items[n] = g.items[n]
        /\ to.items[Len(g.items) + 1] = item
    <3>1. g.items \in Seq(Items)  BY <1>5
    <3>. QED  BY <2>1, <3>1
  <2>5. \A n \in DOMAIN to.items : GatheredItem(t, to.items[n])  BY <1>5, <2>2, <2>4
  <2>6. {to.items[n].text : n \in DOMAIN to.items} = {g.items[n].text : n \in DOMAIN g.items} \cup {entry}
    BY <2>2, <2>4
  <2>7. ASSUME NEW k \in Kinds
        PROVE  to.taken[k] = IF Cardinality(OfKind(h, t, more, k)) < HistoryLimit
                             THEN Cardinality(OfKind(h, t, more, k)) ELSE HistoryLimit
    <3>1. count(k) \in Nat /\ g.taken[k] = IF count(k) < HistoryLimit THEN count(k) ELSE HistoryLimit
      BY <1>2, <1>5
    <3>2. CASE k = kind
      <4>1. to.taken[k] = g.taken[k] + 1  BY <1>5, <2>1, <3>2
      <4>2. Cardinality(OfKind(h, t, more, k)) = count(k) + 1 /\ count(k) < HistoryLimit
        BY <1>3, <1>13, <3>2
      <4>. QED  BY <1>4, <3>1, <4>1, <4>2
    <3>3. CASE k # kind
      <4>1. to.taken[k] = g.taken[k]  BY <1>5, <2>1, <3>3
      <4>2. Cardinality(OfKind(h, t, more, k)) = count(k)  BY <1>3, <3>3
      <4>. QED  BY <3>1, <4>1, <4>2
    <3>. QED  BY <3>2, <3>3
  <2>. QED  BY <1>1, <1>5, <1>13, <2>3, <2>5, <2>6, <2>7 DEF GatherOK, more
<1>14. CASE ~takes
  <2>1. to = g  BY <1>12, <1>14
  <2>2. ASSUME NEW k \in Kinds
        PROVE  g.taken[k] = IF Cardinality(OfKind(h, t, more, k)) < HistoryLimit
                            THEN Cardinality(OfKind(h, t, more, k)) ELSE HistoryLimit
    <3>1. count(k) \in Nat /\ g.taken[k] = IF count(k) < HistoryLimit THEN count(k) ELSE HistoryLimit
      BY <1>2, <1>5
    <3>2. CASE wants /\ k = kind
      <4>1. Cardinality(OfKind(h, t, more, k)) = count(k) + 1 /\ ~(count(k) < HistoryLimit)
        BY <1>3, <1>14, <3>2
      <4>. QED  BY <1>4, <3>1, <4>1
    <3>3. CASE ~(wants /\ k = kind)
      <4>1. Cardinality(OfKind(h, t, more, k)) = count(k)  BY <1>3, <3>3
      <4>. QED  BY <3>1, <4>1
    <3>. QED  BY <3>2, <3>3
  <2>3. {more[i] : i \in KeptIn(h, t, more)} = {hist[i] : i \in KeptIn(h, t, hist)}
    BY <1>1, <1>14
  <2>4. GatherOK(h, t, more, g)  BY <1>5, <2>2, <2>3 DEF GatherOK
  <2>. QED  BY <2>1, <2>4 DEF more, to
<1>. QED  BY <1>13, <1>14

\* What is gathered stays right as history is looked through.
LEMMA GatherInvInit == ASSUME RankingInit PROVE GatherInv
<1>1. typed \in LinesTyped /\ how \in Matchings /\ history = <<>> /\ gather = NoneTaken
  BY DEF RankingInit
<1>. QED  BY <1>1, NoneGathered DEF GatherInv

\* And each step keeps it.
LEMMA GatherInvNext == ASSUME GatherInv, [RankingNext]_rankingVars PROVE GatherInv'
<1>1. typed \in Texts /\ Entries \subseteq Texts  BY TextsAssumption DEF GatherInv
<1>2. ASSUME NEW entry \in Entries, Offer(entry) PROVE GatherInv'
  <2>1. /\ history' = Append(history, entry) /\ gather' = Offered(gather, how, typed, entry)
        /\ typed' = typed /\ how' = how
    BY <1>2 DEF Offer
  <2>2. GatherOK(how, typed, Append(history, entry), Offered(gather, how, typed, entry))
    BY <1>1, OfferedKeeps DEF GatherInv
  <2>3. Append(history, entry) \in Seq(Texts)  BY <1>1 DEF GatherInv
  <2>. QED  BY <2>1, <2>2, <2>3 DEF GatherInv
<1>3. ASSUME NEW offer \in Offers[typed], Gathers(offer) PROVE GatherInv'
  BY <1>3 DEF GatherInv, Gathers
<1>4. CASE UNCHANGED rankingVars  BY <1>4 DEF GatherInv, rankingVars
<1>. QED  BY <1>2, <1>3, <1>4 DEF RankingNext

\* An entry of history is gathered unless as many newer ones match in the same
\* way, and a match with gaps is ranked by the shortest stretch there is.
LEMMA GatherInvSays == ASSUME GatherInv PROVE GatheredAtTheirBest
<1>1. typed \in Texts  BY TextsAssumption DEF GatherInv
<1>2. TightestIsShortest
  <2>1. history # <<>> => Last(history) \in Texts
    <3>1. history \in Seq(Texts)  BY DEF GatherInv
    <3>. QED  BY <3>1 DEF Last
  <2>. QED  BY <1>1, <2>1, TightestShortest DEF TightestIsShortest
<1>3. NoKindCrowdsAnother
  <2>1. {gather.items[n].text : n \in DOMAIN gather.items} = {history[i] : i \in KeptIn(how, typed, history)}
    BY DEF GatherInv, GatherOK
  <2>. QED  BY <2>1 DEF NoKindCrowdsAnother, KeptIn, WantedIn, Earlier, KindAt
<1>. QED  BY <1>2, <1>3 DEF GatheredAtTheirBest

(* Ranking: the order of the items. *)

\* Ranks are told apart by their numbers, and nothing comes before a prefix.
Ranks == {Prefix, OtherCasePrefix, ContainsRank, Unordered, NoRank}
            \cup {Gapped(s, a) : s \in Int, a \in Nat}
Triples == Int \X Int \X Int

\* They are triples of numbers, and the order of these tells them apart.
LEMMA RanksOrdered ==
    /\ Ranks \subseteq Triples
    /\ \A a \in Ranks : ~Before(a, Prefix) /\ (~Before(Prefix, a) => a = Prefix)
<1>1. \A s \in Int, a \in Nat : Gapped(s, a) \in Triples /\ Gapped(s, a)[1] = 4
  BY DEF Gapped, Triples
<1>2. /\ Prefix \in Triples /\ OtherCasePrefix \in Triples /\ ContainsRank \in Triples
      /\ Unordered \in Triples /\ NoRank \in Triples
      /\ Prefix[1] = 0 /\ Prefix[2] = 0 /\ Prefix[3] = 0
      /\ OtherCasePrefix[1] = 1 /\ ContainsRank[1] = 2 /\ Unordered[1] = 3 /\ NoRank[1] = 5
  BY DEF Prefix, OtherCasePrefix, ContainsRank, Unordered, NoRank, Triples
<1>3. \A a \in Ranks : a \in Triples /\ (a = Prefix \/ a[1] \in 1 .. 5)  BY <1>1, <1>2 DEF Ranks
<1>. QED  BY <1>2, <1>3 DEF Before

\* The order of the ranks is a strict and total one.
LEMMA BeforeOrders ==
    ASSUME NEW a \in Triples, NEW b \in Triples, NEW c \in Triples
    PROVE  /\ ~Before(a, a)
           /\ Before(a, b) => ~Before(b, a)
           /\ Before(a, b) /\ Before(b, c) => Before(a, c)
           /\ a = b \/ Before(a, b) \/ Before(b, a)
<1>1. /\ a[1] \in Int /\ a[2] \in Int /\ a[3] \in Int
      /\ b[1] \in Int /\ b[2] \in Int /\ b[3] \in Int
      /\ c[1] \in Int /\ c[2] \in Int /\ c[3] \in Int
  BY DEF Triples
<1>2. a = b <=> a[1] = b[1] /\ a[2] = b[2] /\ a[3] = b[3]
  <2>1. a = <<a[1], a[2], a[3]>> /\ b = <<b[1], b[2], b[3]>>  BY DEF Triples
  <2>. QED  BY <2>1
<1>. QED  BY <1>1, <1>2 DEF Before

\* What is typed of an item, up to the cursor, and the item's rank.
RankFor(h, t, item) == ItemRank(h, SubSeq(t, item.start + 1, Len(t)), item)

\* What is typed of an item is a text, and its rank one of the ranks.
LEMMA RankForIs ==
    ASSUME NEW h \in Matchings, NEW t \in Texts, NEW item \in Items
    PROVE  /\ SubSeq(t, item.start + 1, Len(t)) \in Texts
           /\ RankFor(h, t, item) \in Ranks /\ RankFor(h, t, item) \in Triples
<1>. DEFINE wanted == SubSeq(t, item.start + 1, Len(t))
<1>1. item.text \in Texts /\ item.start \in Nat /\ item.end \in Nat  BY DEF Items
<1>2. wanted \in Texts
  <2>1. Len(t) \in Nat /\ t \in Seq(Letters)  BY DEF Texts
  <2>2. \A i \in item.start + 1 .. Len(t) : i \in 1 .. Len(t)  BY <1>1, <2>1
  <2>. QED  BY <1>1, <2>1, <2>2 DEF Texts
<1>. HIDE DEF wanted
<1>3. ASSUME NEW text \in Texts PROVE RankOf(h, wanted, text) \in Ranks
  <2>1. /\ Starts(h, wanted, text) \in {Prefix, OtherCasePrefix, NoRank}
        /\ RankElsewhere(h, wanted, text) \in
              {ContainsRank, Unordered, NoRank} \cup {Gapped(s, a) : s \in Int, a \in Nat}
    BY <1>2, RanksAre
  <2>. QED  BY <2>1 DEF RankOf, RankOr, Ranks
<1>4. ItemRank(h, wanted, item) \in Ranks
  <2>1. CASE Quoted(item)
    <3>1. Tail(item.text) \in Texts  BY <1>1, <2>1 DEF Quoted, Texts
    <3>. QED  BY <1>1, <1>3, <2>1, <3>1 DEF ItemRank, BetterOf
  <2>2. CASE ~Quoted(item)  BY <1>1, <1>3, <2>2 DEF ItemRank
  <2>. QED  BY <2>1, <2>2
<1>. QED  BY <1>2, <1>4, RanksOrdered DEF RankFor, wanted

\* The elements of a sequence at some places are in their order, and all there.
PicksFrom(pick, items, places) ==
    /\ Len(pick) \in Nat /\ DOMAIN pick = 1 .. Len(pick)
    /\ \A n \in DOMAIN pick : NthOf(places, n) \in places /\ pick[n] = items[NthOf(places, n)]
    /\ \A i \in places : \E n \in DOMAIN pick : pick[n] = items[i] /\ NthOf(places, n) = i
    /\ \A k, n \in DOMAIN pick : k < n => NthOf(places, k) < NthOf(places, n)

\* What Picked gives.
LEMMA PickedIs ==
    ASSUME NEW items, NEW m \in Nat, NEW places, places \subseteq 1 .. m
    PROVE  PicksFrom(Picked(items, places), items, places)
<1>. DEFINE c == Cardinality(places)
            pick == Picked(items, places)
<1>0. \A k \in places : k \in Nat /\ k \in 0 .. m
  <2>1. \A k \in 1 .. m : k \in Nat /\ k \in 0 .. m  OBVIOUS
  <2>. QED  BY <2>1
<1>1. IsFiniteSet(places) /\ c \in Nat /\ places \subseteq 0 .. m
  <2>1. IsFiniteSet(1 .. m)  BY FS_Interval
  <2>2. places \in SUBSET (1 .. m)  OBVIOUS
  <2>3. IsFiniteSet(places)  BY <2>1, <2>2, FS_Subset
  <2>4. c \in Nat  BY <2>3, FS_CardinalityType
  <2>. QED  BY <1>0, <2>3, <2>4
<1>2. Len(pick) = c /\ DOMAIN pick = 1 .. c /\ \A n \in 1 .. c : pick[n] = items[NthOf(places, n)]
  BY <1>1 DEF Picked
<1>. HIDE DEF c, pick
<1>3. ASSUME NEW n \in 1 .. c
      PROVE  NthOf(places, n) \in places /\ Cardinality(UpTo(places, NthOf(places, n))) = n
  BY <1>1, NthIs DEF Nth, NthOf, UpTo, c
<1>4. ASSUME NEW i \in places, NEW j \in places, i < j
      PROVE  Cardinality(UpTo(places, i)) < Cardinality(UpTo(places, j))
  <2>1. UpTo(places, j) \in SUBSET places /\ UpTo(places, i) \in SUBSET UpTo(places, j)
    <3>1. i \in Nat /\ j \in Nat  BY <1>0
    <3>2. ASSUME NEW k \in places, k <= i PROVE k <= j
      <4>1. k \in Nat  BY <1>0
      <4>. QED  BY <1>4, <3>1, <3>2, <4>1
    <3>. QED  BY <3>2 DEF UpTo
  <2>2. j \in UpTo(places, j) /\ j \notin UpTo(places, i)
    <3>1. i \in Nat /\ j \in Nat  BY <1>0
    <3>2. j <= j /\ ~(j <= i)  BY <1>4, <3>1
    <3>. QED  BY <3>2 DEF UpTo
  <2>3. IsFiniteSet(UpTo(places, j)) /\ Cardinality(UpTo(places, j)) \in Nat
    BY <1>1, <2>1, FS_Subset, FS_CardinalityType
  <2>4. /\ IsFiniteSet(UpTo(places, i)) /\ Cardinality(UpTo(places, i)) \in Nat
        /\ Cardinality(UpTo(places, i)) <= Cardinality(UpTo(places, j))
        /\ Cardinality(UpTo(places, i)) # Cardinality(UpTo(places, j))
    BY <2>1, <2>2, <2>3, FS_Subset, FS_CardinalityType
  <2>. QED  BY <2>3, <2>4
<1>5. ASSUME NEW i \in places PROVE \E n \in 1 .. c : NthOf(places, n) = i
  <2>. DEFINE n == Cardinality(UpTo(places, i))
  <2>1. UpTo(places, i) \in SUBSET places /\ i \in UpTo(places, i)
    <3>1. i <= i  BY <1>0
    <3>. QED  BY <3>1 DEF UpTo
  <2>2. n \in Nat /\ n <= c /\ n # 0
    <3>1. IsFiniteSet(UpTo(places, i))  BY <1>1, <2>1, FS_Subset
    <3>2. n \in Nat /\ n <= c  BY <1>1, <2>1, FS_Subset, FS_CardinalityType DEF c
    <3>3. n # 0  BY <2>1, <3>1, FS_EmptySet
    <3>. QED  BY <3>2, <3>3
  <2>3. n \in 1 .. c
    <3>1. c \in Nat  BY <1>1
    <3>. HIDE DEF n
    <3>. QED  BY <2>2, <3>1
  <2>4. PICK x : x = NthOf(places, n)  OBVIOUS
  <2>5. x \in places /\ Cardinality(UpTo(places, x)) = n  BY <1>3, <2>3, <2>4
  <2>6. x \in Nat /\ i \in Nat  BY <1>0, <2>5
  <2>7. ~(x < i)
    <3>1. ~(n < n)  BY <2>2
    <3>. QED  BY <1>4, <2>5, <3>1
  <2>8. ~(i < x)
    <3>1. ~(n < n)  BY <2>2
    <3>. QED  BY <1>4, <2>5, <3>1
  <2>9. x = i  BY <2>6, <2>7, <2>8
  <2>. QED  BY <2>3, <2>4, <2>9
<1>6. ASSUME NEW k \in 1 .. c, NEW n \in 1 .. c, k < n PROVE NthOf(places, k) < NthOf(places, n)
  <2>. DEFINE x == NthOf(places, k)
              y == NthOf(places, n)
  <2>1. x \in places /\ y \in places /\ Cardinality(UpTo(places, x)) = k /\ Cardinality(UpTo(places, y)) = n
    BY <1>3
  <2>. HIDE DEF x, y
  <2>2. x # y  BY <1>6, <2>1
  <2>3. ~(y < x)
    <3>1. ~(n < k)  BY <1>6
    <3>. QED  BY <1>4, <2>1, <3>1
  <2>4. x \in Nat /\ y \in Nat  BY <1>0, <2>1
  <2>5. x < y  BY <2>2, <2>3, <2>4
  <2>. QED  BY <2>5 DEF x, y
<1>7. \A i \in places : \E n \in 1 .. c : pick[n] = items[i] /\ NthOf(places, n) = i
  BY <1>2, <1>5
<1>. QED  BY <1>1, <1>2, <1>3, <1>6, <1>7 DEF PicksFrom, pick

\* The items come in the order of their ranks.
InOrderOf(h, t, s) ==
    \A k, n \in DOMAIN s : k < n => ~Before(RankFor(h, t, s[n]), RankFor(h, t, s[k]))

\* All from a sequence.
From(pick, items) == pick \in Seq(Items) /\ \A n \in DOMAIN pick : \E i \in DOMAIN items : pick[n] = items[i]

\* What is picked of items is of these items, and in their order.
LEMMA PickedFrom ==
    ASSUME NEW items \in Seq(Items), NEW places, places \subseteq DOMAIN items
    PROVE  /\ PicksFrom(Picked(items, places), items, places)
           /\ From(Picked(items, places), items)
           /\ \A h, t : InOrderOf(h, t, items) => InOrderOf(h, t, Picked(items, places))
<1>. DEFINE pick == Picked(items, places)
            m == Len(items)
<1>1. m \in Nat /\ DOMAIN items = 1 .. m /\ \A i \in 1 .. m : items[i] \in Items  OBVIOUS
<1>2. PicksFrom(pick, items, places)  BY <1>1, PickedIs
<1>3. pick = [n \in 1 .. Cardinality(places) |-> items[NthOf(places, n)]]  BY DEF Picked
<1>. HIDE DEF pick
<1>4. From(pick, items)
  <2>1. \A n \in DOMAIN pick : pick[n] \in Items /\ \E i \in DOMAIN items : pick[n] = items[i]
    BY <1>1, <1>2 DEF PicksFrom
  <2>2. pick \in Seq(Items)
    <3>1. DOMAIN pick = 1 .. Len(pick) /\ Len(pick) \in Nat  BY <1>2 DEF PicksFrom
    <3>2. pick = [n \in 1 .. Len(pick) |-> pick[n]]  BY <1>3, <3>1
    <3>. QED  BY <2>1, <3>1, <3>2
  <2>. QED  BY <2>1, <2>2 DEF From
<1>5. ASSUME NEW h, NEW t, InOrderOf(h, t, items) PROVE InOrderOf(h, t, pick)
  <2>1. ASSUME NEW k \in DOMAIN pick, NEW n \in DOMAIN pick, k < n
        PROVE  ~Before(RankFor(h, t, pick[n]), RankFor(h, t, pick[k]))
    <3>1. /\ NthOf(places, k) \in DOMAIN items /\ NthOf(places, n) \in DOMAIN items
          /\ NthOf(places, k) < NthOf(places, n)
          /\ pick[k] = items[NthOf(places, k)] /\ pick[n] = items[NthOf(places, n)]
      BY <1>2, <2>1 DEF PicksFrom
    <3>. QED  BY <1>5, <3>1 DEF InOrderOf
  <2>. QED  BY <2>1 DEF InOrderOf
<1>. QED  BY <1>2, <1>4, <1>5 DEF pick

\* A stable sort by rank: everything sorted is there, and in the order of its rank.
Sorts(res, kept) ==
    /\ DOMAIN res = DOMAIN kept
    /\ \A n \in DOMAIN res : \E i \in DOMAIN kept : res[n] = kept[i].item
    /\ \A i \in DOMAIN kept : \E n \in DOMAIN res : res[n] = kept[i].item
    /\ \A k, n \in DOMAIN res : k < n =>
          \E i, j \in DOMAIN kept : /\ res[k] = kept[i].item /\ res[n] = kept[j].item
                                    /\ ~Before(kept[j].rank, kept[i].rank)

\* What Sorted gives: each has as many ahead of it as its place says.
LEMMA SortedSorts ==
    ASSUME NEW kept, NEW m \in Nat, DOMAIN kept = 1 .. m,
           \A i \in 1 .. m : kept[i].rank \in Triples
    PROVE  Sorts(Sorted(kept), kept)
<1>. DEFINE Goes(i, j) == Before(kept[i].rank, kept[j].rank) \/ (kept[i].rank = kept[j].rank /\ i < j)
            D == 1 .. m
<1>1. IsFiniteSet(D) /\ Cardinality(D) = m
  BY FS_Interval
<1>2. \A i, j \in D : Ahead(kept, j) = {k \in D : Goes(k, j)}
  BY DEF Ahead
<1>3. ASSUME NEW i \in D, NEW j \in D, NEW k \in D
      PROVE  /\ ~Goes(i, i) /\ (i = j \/ Goes(i, j) \/ Goes(j, i))
             /\ Goes(k, i) /\ Goes(i, j) => Goes(k, j)
  <2>1. i \in Nat /\ j \in Nat /\ k \in Nat
    OBVIOUS
  <2>2. kept[i].rank \in Triples /\ kept[j].rank \in Triples /\ kept[k].rank \in Triples
    OBVIOUS
  <2>3. PICK a \in Triples, b \in Triples, c \in Triples :
            a = kept[i].rank /\ b = kept[j].rank /\ c = kept[k].rank
    BY <2>2
  <2>4. ~Before(a, a)
    BY BeforeOrders
  <2>5. a = b \/ Before(a, b) \/ Before(b, a)
    BY BeforeOrders
  <2>6. Before(c, a) /\ Before(a, b) => Before(c, b)
    BY BeforeOrders
  <2>. QED
    BY <2>1, <2>3, <2>4, <2>5, <2>6
<1>4. ASSUME NEW i \in D
      PROVE  /\ IsFiniteSet(Ahead(kept, i)) /\ Cardinality(Ahead(kept, i)) \in Nat
             /\ Ahead(kept, i) \subseteq D /\ i \notin Ahead(kept, i)
  <2>1. Ahead(kept, i) \in SUBSET D /\ i \notin Ahead(kept, i)
    BY <1>2, <1>3
  <2>. QED
    BY <1>1, <2>1, FS_Subset, FS_CardinalityType
<1>5. ASSUME NEW i \in D, NEW j \in D, Goes(i, j)
      PROVE  Cardinality(Ahead(kept, i)) < Cardinality(Ahead(kept, j))
  <2>1. Ahead(kept, i) \in SUBSET Ahead(kept, j) /\ i \in Ahead(kept, j) /\ i \notin Ahead(kept, i)
    BY <1>2, <1>3, <1>5
  <2>2. /\ Cardinality(Ahead(kept, i)) <= Cardinality(Ahead(kept, j))
        /\ Cardinality(Ahead(kept, i)) # Cardinality(Ahead(kept, j))
    BY <1>4, <2>1, FS_Subset
  <2>3. Cardinality(Ahead(kept, i)) \in Nat /\ Cardinality(Ahead(kept, j)) \in Nat
    BY <1>4
  <2>. QED
    BY <2>2, <2>3
<1>6. ASSUME NEW i \in D PROVE PlaceOf(kept, i) \in D
  <2>1. Ahead(kept, i) \in SUBSET D /\ Ahead(kept, i) # D
    BY <1>4
  <2>2. Cardinality(Ahead(kept, i)) <= m /\ Cardinality(Ahead(kept, i)) # m
    BY <1>1, <2>1, FS_Subset
  <2>3. Cardinality(Ahead(kept, i)) \in Nat
    BY <1>4
  <2>. QED
    BY <2>2, <2>3 DEF PlaceOf
<1>7. ASSUME NEW i \in D, NEW j \in D, Goes(i, j) PROVE PlaceOf(kept, i) < PlaceOf(kept, j)
  BY <1>4, <1>5, <1>7 DEF PlaceOf
<1>8. ASSUME NEW i \in D, NEW j \in D, PlaceOf(kept, i) = PlaceOf(kept, j) PROVE i = j
  <2>1. PlaceOf(kept, i) \in Nat /\ PlaceOf(kept, j) \in Nat
    BY <1>6
  <2>2. ~Goes(i, j)
    BY <1>7, <1>8, <2>1
  <2>3. ~Goes(j, i)
    BY <1>7, <1>8, <2>1
  <2>. QED
    BY <1>3, <2>2, <2>3
<1>9. \A n \in D : \E i \in D : PlaceOf(kept, i) = n
  <2>. DEFINE f == [i \in D |-> PlaceOf(kept, i)]
  <2>1. f \in Injection(D, D)
    <3>1. f \in [D -> D]
      BY <1>6
    <3>2. \A i, j \in D : f[i] = f[j] => i = j
      BY <1>8
    <3>. QED
      BY <3>1, <3>2 DEF Injection, IsInjective
  <2>2. f \in Surjection(D, D)
    BY <1>1, <2>1, FS_Injection
  <2>. QED
    BY <2>2 DEF Surjection
<1>. DEFINE at(n) == CHOOSE i \in D : PlaceOf(kept, i) = n
            res == Sorted(kept)
<1>10. \A n \in D : at(n) \in D /\ PlaceOf(kept, at(n)) = n
  BY <1>9
<1>11. DOMAIN res = D /\ \A n \in D : res[n] = kept[at(n)].item
  BY DEF Sorted
<1>. HIDE DEF at, res
<1>12. ASSUME NEW i \in D PROVE \E n \in D : res[n] = kept[i].item
  <2>1. PlaceOf(kept, i) \in D
    BY <1>6
  <2>2. at(PlaceOf(kept, i)) = i
    BY <1>8, <1>10, <2>1
  <2>. QED
    BY <1>11, <2>1, <2>2
<1>13. ASSUME NEW k \in D, NEW n \in D, k < n
       PROVE  ~Before(kept[at(n)].rank, kept[at(k)].rank)
  <2>1. at(k) \in D /\ at(n) \in D /\ PlaceOf(kept, at(k)) = k /\ PlaceOf(kept, at(n)) = n
    BY <1>10
  <2>2. ~(n < k)
    BY <1>13
  <2>. QED
    BY <1>7, <2>1, <2>2
<1>14. Sorts(res, kept)
  <2>1. DOMAIN res = D /\ DOMAIN kept = D
    BY <1>11
  <2>2. \A n \in DOMAIN res : \E i \in DOMAIN kept : res[n] = kept[i].item
    BY <1>10, <1>11, <2>1
  <2>3. \A i \in DOMAIN kept : \E n \in DOMAIN res : res[n] = kept[i].item
    BY <1>12, <2>1
  <2>4. \A k, n \in DOMAIN res : k < n =>
            \E i, j \in DOMAIN kept : /\ res[k] = kept[i].item /\ res[n] = kept[j].item
                                     /\ ~Before(kept[j].rank, kept[i].rank)
    <3>. SUFFICES ASSUME NEW k \in DOMAIN res, NEW n \in DOMAIN res, k < n
                  PROVE  \E i, j \in DOMAIN kept :
                             /\ res[k] = kept[i].item /\ res[n] = kept[j].item
                             /\ ~Before(kept[j].rank, kept[i].rank)
      OBVIOUS
    <3>1. k \in D /\ n \in D
      BY <2>1
    <3>2. at(k) \in D /\ at(n) \in D /\ res[k] = kept[at(k)].item /\ res[n] = kept[at(n)].item
      BY <1>10, <1>11, <3>1
    <3>3. ~Before(kept[at(n)].rank, kept[at(k)].rank)
      BY <1>13, <3>1
    <3>. QED
      BY <2>1, <3>2, <3>3
  <2>5. DOMAIN res = DOMAIN kept
    BY <2>1
  <2>. HIDE DEF D
  <2>. QED
    BY <2>2, <2>3, <2>4, <2>5 DEF Sorts
<1>. QED
  BY <1>14 DEF res

\* What `ordered' gives of a line's items, with the cursor at its end.
Fit(h, t, item) == item.start <= Len(t) /\ item.end = Len(t) /\ RankFor(h, t, item) # NoRank
OrderedSays(res, h, t, items) ==
    /\ res \in Seq(Items)
    /\ \A n \in DOMAIN res : Fit(h, t, res[n]) /\ \E i \in DOMAIN items : res[n] = items[i]
    /\ \A i \in DOMAIN items : Fit(h, t, items[i]) => \E n \in DOMAIN res : res[n] = items[i]
    /\ InOrderOf(h, t, res)

\* What Ordered gives: all that match, best first.
LEMMA OrderedIs ==
    ASSUME NEW h \in Matchings, NEW t \in Texts, NEW items \in Seq(Items)
    PROVE  OrderedSays(Ordered(t, Len(t), h, items), h, t, items)
<1>. DEFINE m == Len(items)
            ranked == Ranked(t, Len(t), h, items)
            places == {i \in DOMAIN ranked : Matches(t, Len(t), ranked[i])}
            kept == Matched(t, Len(t), ranked)
            res == Ordered(t, Len(t), h, items)
<1>1. m \in Nat /\ DOMAIN items = 1 .. m /\ \A i \in 1 .. m : items[i] \in Items
  OBVIOUS
<1>2. /\ DOMAIN ranked = 1 .. m
      /\ \A i \in 1 .. m : ranked[i] = [item |-> items[i], rank |-> RankFor(h, t, items[i])]
  BY <1>1 DEF Ranked, RankFor
<1>. HIDE DEF ranked
<1>3. \A i \in 1 .. m : /\ ranked[i].item = items[i] /\ ranked[i].rank = RankFor(h, t, items[i])
                        /\ ranked[i].rank \in Triples
  <2>. SUFFICES ASSUME NEW i \in 1 .. m
                PROVE  /\ ranked[i].item = items[i] /\ ranked[i].rank = RankFor(h, t, items[i])
                       /\ ranked[i].rank \in Triples
    OBVIOUS
  <2>1. ranked[i] = [item |-> items[i], rank |-> RankFor(h, t, items[i])]
    BY <1>2
  <2>2. items[i] \in Items
    BY <1>1
  <2>3. RankFor(h, t, items[i]) \in Triples
    BY <2>2, RankForIs
  <2>. QED
    BY <2>1, <2>3
<1>4. \A i \in 1 .. m : Matches(t, Len(t), ranked[i]) <=> Fit(h, t, items[i])
  <2>. SUFFICES ASSUME NEW i \in 1 .. m
                PROVE  Matches(t, Len(t), ranked[i]) <=> Fit(h, t, items[i])
    OBVIOUS
  <2>1. ranked[i].item = items[i] /\ ranked[i].rank = RankFor(h, t, items[i])
    BY <1>3
  <2>2. items[i].start \in Nat /\ items[i].end \in Nat /\ Len(t) \in Nat
    BY <1>1 DEF Items, Texts
  <2>. QED
    BY <2>1, <2>2 DEF Matches, Fit
<1>5. places \subseteq 1 .. m /\ kept = Picked(ranked, places)
  BY <1>2 DEF Matched
<1>6. \A i \in 1 .. m : i \in places <=> Fit(h, t, items[i])
  BY <1>2, <1>4
<1>. HIDE DEF places
<1>7. PicksFrom(kept, ranked, places)
  BY <1>1, <1>5, PickedIs
<1>. HIDE DEF kept
<1>8. /\ Len(kept) \in Nat /\ DOMAIN kept = 1 .. Len(kept)
      /\ \A n \in DOMAIN kept : \E i \in places : kept[n] = ranked[i]
      /\ \A i \in places : \E n \in DOMAIN kept : kept[n] = ranked[i]
  BY <1>7 DEF PicksFrom
<1>9. \A n \in DOMAIN kept : \E i \in 1 .. m : /\ kept[n].item = items[i] /\ Fit(h, t, items[i])
                                               /\ kept[n].rank = RankFor(h, t, items[i])
                                               /\ kept[n].rank \in Triples
  BY <1>3, <1>5, <1>6, <1>8
<1>10. Sorts(res, kept)
  <2>1. Sorts(Sorted(kept), kept)
    BY <1>8, <1>9, SortedSorts
  <2>. QED
    BY <2>1 DEF Ordered, kept, ranked
<1>11. res = [n \in 1 .. Len(kept) |-> res[n]]
  <2>1. res = Sorted(kept)
    BY DEF Ordered, kept, ranked
  <2>2. DOMAIN kept = 1 .. Len(kept)
    BY <1>8
  <2>. QED
    BY <2>1, <2>2 DEF Sorted
<1>. HIDE DEF res
<1>12. \A n \in DOMAIN res : Fit(h, t, res[n]) /\ \E i \in DOMAIN items : res[n] = items[i]
  <2>1. \A n \in DOMAIN res : \E i \in DOMAIN kept : res[n] = kept[i].item
    BY <1>10 DEF Sorts
  <2>. QED
    BY <1>1, <1>9, <2>1
<1>13. res \in Seq(Items)
  <2>1. DOMAIN res = 1 .. Len(kept)
    BY <1>8, <1>10 DEF Sorts
  <2>2. \A n \in 1 .. Len(kept) : res[n] \in Items
    BY <1>1, <1>12, <2>1
  <2>. QED
    BY <1>8, <1>11, <2>2
<1>14. ASSUME NEW i \in DOMAIN items, Fit(h, t, items[i])
       PROVE  \E n \in DOMAIN res : res[n] = items[i]
  <2>1. i \in places /\ ranked[i].item = items[i]
    BY <1>1, <1>3, <1>6, <1>14
  <2>2. PICK k \in DOMAIN kept : kept[k] = ranked[i]
    BY <1>8, <2>1
  <2>3. PICK n \in DOMAIN res : res[n] = kept[k].item
    BY <1>10 DEF Sorts
  <2>. QED
    BY <2>1, <2>2, <2>3
<1>15. InOrderOf(h, t, res)
  <2>1. ASSUME NEW k \in DOMAIN res, NEW n \in DOMAIN res, k < n
        PROVE  ~Before(RankFor(h, t, res[n]), RankFor(h, t, res[k]))
    <3>1. PICK i \in DOMAIN kept, j \in DOMAIN kept :
              /\ res[k] = kept[i].item /\ res[n] = kept[j].item
              /\ ~Before(kept[j].rank, kept[i].rank)
      BY <1>10, <2>1 DEF Sorts
    <3>2. kept[i].rank = RankFor(h, t, kept[i].item) /\ kept[j].rank = RankFor(h, t, kept[j].item)
      BY <1>9
    <3>. QED
      BY <3>1, <3>2
  <2>. QED
    BY <2>1 DEF InOrderOf
<1>. QED
  BY <1>12, <1>13, <1>14, <1>15 DEF OrderedSays, res


(* Ranking: what is listed, and the grey text. *)

\* An item that may be shown for a line, and is not the line itself.
Shown(h, t, item) == Fit(h, t, item) /\ Drawable(item.text) /\ Applied(t, item) # t
AssembleSays(res, h, t, items) ==
    /\ res \in Seq(Items)
    /\ \A n \in DOMAIN res : Shown(h, t, res[n]) /\ \E i \in DOMAIN items : res[n] = items[i]
    /\ \A i \in DOMAIN items : Shown(h, t, items[i]) =>
          \E n \in DOMAIN res : /\ Applied(t, res[n]) = Applied(t, items[i])
                                /\ ~Before(RankFor(h, t, items[i]), RankFor(h, t, res[n]))
    /\ InOrderOf(h, t, res)

\* Of the items that give the same line, the first is as good a match as the rest.
LEMMA DistinctIs ==
    ASSUME NEW h \in Matchings, NEW t \in Texts, NEW items \in Seq(Items),
           InOrderOf(h, t, items)
    PROVE  /\ From(Distinct(t, items), items)
           /\ \A n \in DOMAIN Distinct(t, items) : Applied(t, Distinct(t, items)[n]) # t
           /\ \A i \in DOMAIN items : Applied(t, items[i]) # t =>
                 \E n \in DOMAIN Distinct(t, items) :
                     /\ Applied(t, Distinct(t, items)[n]) = Applied(t, items[i])
                     /\ ~Before(RankFor(h, t, items[i]), RankFor(h, t, Distinct(t, items)[n]))
           /\ InOrderOf(h, t, Distinct(t, items))
<1>. DEFINE gives == [i \in DOMAIN items |-> Applied(t, items[i])]
            places == {i \in DOMAIN items : gives[i] # t /\ \A j \in 1..(i - 1) : gives[j] # gives[i]}
            res == Distinct(t, items)
<1>1. res = Picked(items, places)
  BY DEF Distinct, FirstOfEach
<1>2. \A i \in DOMAIN items : gives[i] = Applied(t, items[i])
  OBVIOUS
<1>3. places \subseteq DOMAIN items
  OBVIOUS
<1>4. /\ PicksFrom(res, items, places) /\ From(res, items)
      /\ \A g, s : InOrderOf(g, s, items) => InOrderOf(g, s, res)
  BY <1>1, <1>3, PickedFrom
<1>. HIDE DEF res
<1>5. \A n \in DOMAIN res : Applied(t, res[n]) # t
  <2>1. \A i \in places : Applied(t, items[i]) # t
    BY <1>2
  <2>. HIDE DEF places
  <2>. QED
    BY <1>4, <2>1 DEF PicksFrom
<1>6. ASSUME NEW i \in DOMAIN items, Applied(t, items[i]) # t
      PROVE  \E n \in DOMAIN res : /\ Applied(t, res[n]) = Applied(t, items[i])
                                   /\ ~Before(RankFor(h, t, items[i]), RankFor(h, t, res[n]))
  <2>1. DOMAIN items = 1 .. Len(items) /\ Len(items) \in Nat
    OBVIOUS
  <2>2. PICK S : S = {k \in DOMAIN items : Applied(t, items[k]) = Applied(t, items[i])}
    OBVIOUS
  <2>3. S \subseteq Nat /\ S # {} /\ i \in S
    BY <2>1, <2>2
  <2>4. PICK k \in S : \A j \in S : k <= j
    BY <2>3, LowestIs
  <2>5. k \in DOMAIN items /\ k \in Nat /\ i \in Nat /\ k <= i /\ Applied(t, items[k]) = Applied(t, items[i])
    BY <2>2, <2>3, <2>4
  <2>6. \A j \in 1 .. (k - 1) : gives[j] # gives[k]
    <3>. SUFFICES ASSUME NEW j \in 1 .. (k - 1), gives[j] = gives[k] PROVE FALSE
      OBVIOUS
    <3>1. j \in DOMAIN items /\ j < k /\ j \in Nat
      BY <2>1, <2>5
    <3>2. j \in S
      BY <1>2, <2>2, <2>5, <3>1
    <3>. QED
      BY <2>4, <2>5, <3>1, <3>2
  <2>7. k \in places
    BY <1>2, <1>6, <2>5, <2>6
  <2>8. PICK n \in DOMAIN res : res[n] = items[k]
    BY <1>4, <2>7 DEF PicksFrom
  <2>9. ~Before(RankFor(h, t, items[i]), RankFor(h, t, items[k]))
    <3>1. CASE k = i
      <4>1. items[i] \in Items
        BY <2>1
      <4>2. RankFor(h, t, items[i]) \in Triples
        BY <4>1, RankForIs
      <4>. QED
        BY <3>1, <4>2, BeforeOrders
    <3>2. CASE k < i
      BY <2>5, <3>2 DEF InOrderOf
    <3>. QED
      BY <2>5, <3>1, <3>2
  <2>. QED
    BY <2>5, <2>8, <2>9
<1>. QED
  BY <1>4, <1>5, <1>6 DEF res

\* A line's menu holds what may be shown, a better or as good a match of the
\* same line in the place of another, in the order of the ranks.
LEMMA AssembleIs ==
    ASSUME NEW h \in Matchings, NEW t \in Texts, NEW items \in Seq(Items)
    PROVE  AssembleSays(Assemble(t, Len(t), h, items), h, t, items)
<1>. DEFINE sorted == Ordered(t, Len(t), h, items)
            places == {i \in DOMAIN sorted : Drawable(sorted[i].text)}
            drawn == Drawn(sorted)
            res == Distinct(t, drawn)
<1>1. OrderedSays(sorted, h, t, items)
  BY OrderedIs
<1>. HIDE DEF sorted
<1>2. drawn = Picked(sorted, places) /\ places \subseteq DOMAIN sorted
  BY DEF Drawn
<1>3. sorted \in Seq(Items) /\ InOrderOf(h, t, sorted)
  BY <1>1 DEF OrderedSays
<1>4. PicksFrom(drawn, sorted, places) /\ From(drawn, sorted) /\ InOrderOf(h, t, drawn)
  BY <1>2, <1>3, PickedFrom
<1>5. /\ \A i \in places : i \in DOMAIN sorted /\ Drawable(sorted[i].text)
      /\ \A i \in DOMAIN sorted : Drawable(sorted[i].text) => i \in places
  OBVIOUS
<1>. HIDE DEF drawn, places
<1>6. \A n \in DOMAIN drawn : /\ Fit(h, t, drawn[n]) /\ Drawable(drawn[n].text)
                              /\ \E i \in DOMAIN items : drawn[n] = items[i]
  BY <1>1, <1>4, <1>5 DEF PicksFrom, OrderedSays
<1>7. \A i \in DOMAIN items : Fit(h, t, items[i]) /\ Drawable(items[i].text) =>
          \E n \in DOMAIN drawn : drawn[n] = items[i]
  <2>. SUFFICES ASSUME NEW i \in DOMAIN items, Fit(h, t, items[i]), Drawable(items[i].text)
                PROVE  \E n \in DOMAIN drawn : drawn[n] = items[i]
    OBVIOUS
  <2>1. PICK k \in DOMAIN sorted : sorted[k] = items[i]
    BY <1>1 DEF OrderedSays
  <2>2. k \in places
    BY <1>5, <2>1
  <2>. QED
    BY <1>4, <2>1, <2>2 DEF PicksFrom
<1>8. drawn \in Seq(Items)
  BY <1>4 DEF From
<1>9. /\ From(res, drawn) /\ InOrderOf(h, t, res)
      /\ \A n \in DOMAIN res : Applied(t, res[n]) # t
      /\ \A i \in DOMAIN drawn : Applied(t, drawn[i]) # t =>
            \E n \in DOMAIN res : /\ Applied(t, res[n]) = Applied(t, drawn[i])
                                  /\ ~Before(RankFor(h, t, drawn[i]), RankFor(h, t, res[n]))
  BY <1>4, <1>8, DistinctIs
<1>. HIDE DEF res
<1>10. \A n \in DOMAIN res : Shown(h, t, res[n]) /\ \E i \in DOMAIN items : res[n] = items[i]
  BY <1>6, <1>9 DEF From, Shown
<1>11. \A i \in DOMAIN items : Shown(h, t, items[i]) =>
          \E n \in DOMAIN res : /\ Applied(t, res[n]) = Applied(t, items[i])
                                /\ ~Before(RankFor(h, t, items[i]), RankFor(h, t, res[n]))
  <2>. SUFFICES ASSUME NEW i \in DOMAIN items, Shown(h, t, items[i])
                PROVE  \E n \in DOMAIN res : /\ Applied(t, res[n]) = Applied(t, items[i])
                                             /\ ~Before(RankFor(h, t, items[i]), RankFor(h, t, res[n]))
    OBVIOUS
  <2>1. PICK k \in DOMAIN drawn : drawn[k] = items[i]
    BY <1>7 DEF Shown
  <2>2. Applied(t, drawn[k]) # t
    BY <2>1 DEF Shown
  <2>. QED
    BY <1>9, <2>1, <2>2
<1>12. res \in Seq(Items)
  BY <1>9 DEF From
<1>13. AssembleSays(res, h, t, items)
  BY <1>9, <1>10, <1>11, <1>12 DEF AssembleSays
<1>. QED
  BY <1>13 DEF res, drawn, sorted, Assemble

\* The listed items are all of them, in their order.
ListedSays(res, listed, cursor, items) ==
    /\ res \in Seq(Items)
    /\ \A i \in DOMAIN items : Lists(listed, cursor, items[i]) => \E n \in DOMAIN res : res[n] = items[i]

\* What Listed gives.
LEMMA ListedIs ==
    ASSUME NEW items \in Seq(Items), NEW cursor, NEW listed
    PROVE  ListedSays(Listed(listed, cursor, items), listed, cursor, items)
<1>. DEFINE places == {i \in DOMAIN items : Lists(listed, cursor, items[i])}
            res == Listed(listed, cursor, items)
<1>1. res = Picked(items, places) /\ places \subseteq DOMAIN items
  BY DEF Listed
<1>2. PicksFrom(res, items, places) /\ From(res, items)
  BY <1>1, PickedFrom
<1>3. \A i \in DOMAIN items : Lists(listed, cursor, items[i]) => i \in places
  OBVIOUS
<1>. HIDE DEF places, res
<1>4. ListedSays(res, listed, cursor, items)
  BY <1>2, <1>3 DEF PicksFrom, From, ListedSays
<1>. QED
  BY <1>4 DEF res

\* An item up to the cursor that goes on from what is typed is one that starts
\* with it, and does not leave the line as it is.
Goes(t, item) == item.start <= Len(t) /\ item.end = Len(t) /\ Grey(t, item) # <<>>

\* For an item with no quote mark the two are one.
LEMMA GreyIs ==
    ASSUME NEW h \in Matchings, NEW t \in Texts, NEW item \in Items, ~Quoted(item)
    PROVE  /\ Goes(t, item) => RankFor(h, t, item) = Prefix /\ Applied(t, item) # t
           /\ Fit(h, t, item) /\ Applied(t, item) # t /\ RankFor(h, t, item) = Prefix => Goes(t, item)
<1>. DEFINE wanted == SubSeq(t, item.start + 1, Len(t))
            start == item.start
            text == item.text
<1>1. /\ t \in Seq(Letters) /\ Len(t) \in Nat /\ start \in Nat /\ text \in Seq(Letters) /\ Len(text) \in Nat
      /\ DOMAIN t = 1 .. Len(t) /\ DOMAIN text = 1 .. Len(text)
  BY DEF Items, Texts
<1>2. wanted \in Texts
  BY RankForIs
<1>3. RankFor(h, t, item) = RankOf(h, wanted, text)
  BY DEF RankFor, ItemRank
<1>4. start <= Len(t) => Len(wanted) = Len(t) - start
  BY <1>1
<1>5. item.end = Len(t) => Applied(t, item) = SubSeq(t, 1, start) \o text
  <2>. SUFFICES ASSUME item.end = Len(t) PROVE Applied(t, item) = SubSeq(t, 1, start) \o text
    OBVIOUS
  <2>1. SubSeq(t, Len(t) + 1, Len(t)) = <<>>
    BY <1>1
  <2>2. SubSeq(t, 1, start) \o text \o <<>> = SubSeq(t, 1, start) \o text
    <3>1. start <= Len(t) \/ start > Len(t)
      BY <1>1
    <3>2. PICK s : s = SubSeq(t, 1, start) \o text
      OBVIOUS
    <3>. QED
      BY <1>1
  <2>. QED
    BY <2>1, <2>2 DEF Applied
<1>6. IsPrefix(wanted, text) => RankOf(h, wanted, text) = Prefix
  BY DEF Starts, RankOf, RankOr, Prefix, NoRank
<1>7. RankOf(h, wanted, text) = Prefix => IsPrefix(wanted, text)
  <2>1. text \in Texts
    BY DEF Items
  <2>2. RankElsewhere(h, wanted, text) # Prefix
    <3>1. RankElsewhere(h, wanted, text) \in
              {ContainsRank, Unordered, NoRank} \cup {Gapped(s, a) : s \in Int, a \in Nat}
      BY <1>2, <2>1, RanksAre
    <3>2. \A s \in Int, a \in Nat : Gapped(s, a)[1] = 4
      BY DEF Gapped
    <3>3. Prefix[1] = 0 /\ ContainsRank[1] = 2 /\ Unordered[1] = 3 /\ NoRank[1] = 5
      BY DEF Prefix, ContainsRank, Unordered, NoRank
    <3>. QED
      BY <3>1, <3>2, <3>3
  <2>. QED
    BY <2>2 DEF Starts, RankOf, RankOr, Prefix, OtherCasePrefix, NoRank
<1>8. start <= Len(t) /\ text = wanted => SubSeq(t, 1, start) \o text = t
  <2>. SUFFICES ASSUME start <= Len(t), text = wanted PROVE SubSeq(t, 1, start) \o text = t
    OBVIOUS
  <2>1. start \in 0 .. Len(t)
    BY <1>1
  <2>. QED
    BY <1>1, <2>1, CutJoins
<1>9. ASSUME Goes(t, item) PROVE RankFor(h, t, item) = Prefix /\ Applied(t, item) # t
  <2>1. start <= Len(t) /\ item.end = Len(t) /\ IsStrictPrefix(wanted, text)
    BY <1>9 DEF Goes, Grey
  <2>2. IsPrefix(wanted, text) /\ wanted # text
    BY <2>1 DEF IsStrictPrefix
  <2>3. Len(wanted) < Len(text)
    BY <1>1, <1>2, <2>2, PrefixLonger DEF Texts
  <2>4. Len(SubSeq(t, 1, start) \o text) # Len(t)
    <3>1. SubSeq(t, 1, start) \in Seq(Letters) /\ Len(SubSeq(t, 1, start)) = start
      <4>1. \A i \in 1 .. start : i \in 1 .. Len(t)
        BY <1>1, <2>1
      <4>. QED
        BY <1>1, <2>1, <4>1
    <3>. QED
      BY <1>1, <1>4, <2>1, <2>3, <3>1
  <2>. QED
    BY <1>3, <1>5, <1>6, <2>1, <2>2, <2>4
<1>10. ASSUME Fit(h, t, item), Applied(t, item) # t, RankFor(h, t, item) = Prefix PROVE Goes(t, item)
  <2>1. start <= Len(t) /\ item.end = Len(t)
    BY <1>10 DEF Fit
  <2>2. IsPrefix(wanted, text)
    BY <1>3, <1>7, <1>10
  <2>3. wanted # text
    BY <1>5, <1>8, <1>10, <2>1
  <2>4. Len(wanted) < Len(text) /\ Len(wanted) \in Nat
    <3>1. wanted \in Seq(Letters)
      BY <1>2 DEF Texts
    <3>2. Len(wanted) \in Nat
      BY <3>1
    <3>. HIDE DEF wanted
    <3>. QED
      BY <1>1, <2>2, <2>3, <3>1, <3>2, PrefixLonger
  <2>5. Grey(t, item) = SubSeq(text, Len(wanted) + 1, Len(text))
    BY <2>1, <2>2, <2>3 DEF Grey, IsStrictPrefix
  <2>. HIDE DEF wanted
  <2>6. Len(SubSeq(text, Len(wanted) + 1, Len(text))) # 0
    BY <1>1, <2>4
  <2>7. Grey(t, item) # <<>>
    <3>1. Len(<<>>) = 0
      OBVIOUS
    <3>. QED
      BY <2>5, <2>6, <3>1
  <2>. QED
    BY <2>1, <2>7 DEF Goes
<1>. QED
  BY <1>9, <1>10

\* The menu made is that of what was gathered and of what the other sources gave.
MenuInv ==
    menu # NoMenu =>
        /\ menu.offer \in Offers[typed]
        /\ menu.items = Assemble(typed, Len(typed), how,
              Listed(menu.offer.listed, Len(typed), gather.items \o menu.offer.items))
        /\ menu.top = First(Assemble(typed, Len(typed), how, gather.items \o menu.offer.items))

\* It is not made again, and nothing is gathered after it.
LEMMA MenuInvNext == ASSUME MenuInv, [RankingNext]_rankingVars PROVE MenuInv'
<1>1. ASSUME NEW entry \in Entries, Offer(entry) PROVE MenuInv'
  BY <1>1 DEF Offer, MenuInv
<1>2. ASSUME NEW offer \in Offers[typed], Gathers(offer) PROVE MenuInv'
  <2>. DEFINE made == MenuFor(typed, how, gather.items \o offer.items, offer.listed)
  <2>1. /\ menu' = [items |-> made.items, top |-> made.top, offer |-> offer]
        /\ typed' = typed /\ how' = how /\ gather' = gather
    BY <1>2 DEF Gathers
  <2>2. /\ made.items = Assemble(typed, Len(typed), how,
              Listed(offer.listed, Len(typed), gather.items \o offer.items))
        /\ made.top = First(Assemble(typed, Len(typed), how, gather.items \o offer.items))
    BY DEF MenuFor
  <2>. HIDE DEF made
  <2>3. menu'.items = made.items /\ menu'.top = made.top /\ menu'.offer = offer
    BY <2>1
  <2>. QED
    BY <2>1, <2>2, <2>3 DEF MenuInv
<1>3. CASE UNCHANGED rankingVars
  BY <1>3 DEF MenuInv, rankingVars
<1>. QED
  BY <1>1, <1>2, <1>3 DEF RankingNext

\* The best matches are listed, in order, and the best of all is the grey text.
LEMMA MenuInvSays == ASSUME GatherInv, MenuInv PROVE BestIsShown
<1>. DEFINE items == gather.items \o menu.offer.items
            listed == Listed(menu.offer.listed, Len(typed), items)
            all == Assemble(typed, Len(typed), how, items)
<1>1. typed \in Texts /\ how \in Matchings /\ gather.items \in Seq(Items)
  BY TextsAssumption DEF GatherInv, GatherOK
<1>2. CASE menu = NoMenu
  <2>1. menu.items = <<>>
    BY <1>2 DEF NoMenu
  <2>2. 2 .. Len(menu.items) = {}
    BY <2>1
  <2>. QED
    BY <1>2, <2>2 DEF BestIsShown, ListedNotHidden, BestFirst, GreyWhenOneStarts
<1>3. CASE menu # NoMenu
  <2>1. menu.offer \in Offers[typed] /\ menu.items = Assemble(typed, Len(typed), how, listed)
        /\ menu.top = First(all)
    BY <1>3 DEF MenuInv
  <2>2. items \in Seq(Items)
    <3>1. menu.offer.items \in Seq(Items)
      BY <2>1, TextsAssumption DEF GatherInv
    <3>. QED
      BY <1>1, <3>1
  <2>. HIDE DEF items
  <2>3. /\ listed \in Seq(Items)
        /\ \A i \in DOMAIN items : Lists(menu.offer.listed, Len(typed), items[i]) =>
              \E n \in DOMAIN listed : listed[n] = items[i]
    <3>1. ListedSays(listed, menu.offer.listed, Len(typed), items)
      BY <2>2, ListedIs
    <3>. QED
      BY <3>1 DEF ListedSays
  <2>. HIDE DEF listed
  <2>4. AssembleSays(menu.items, how, typed, listed) /\ AssembleSays(all, how, typed, items)
    BY <1>1, <2>1, <2>2, <2>3, AssembleIs
  <2>. HIDE DEF all
  <2>5. \A item : RankHere(item) = RankFor(how, typed, item)
    BY DEF RankHere, RankFor
  <2>6. ListedNotHidden
    <3>1. ASSUME NEW item \in ToSet(items),
                 UpToCursor(item), Lists(menu.offer.listed, Len(typed), item),
                 RankHere(item) # NoRank, Drawable(item.text), Applied(typed, item) # typed
          PROVE  \E n \in DOMAIN menu.items : Applied(typed, menu.items[n]) = Applied(typed, item)
      <4>1. PICK i \in DOMAIN items : item = items[i]
        BY DEF ToSet
      <4>2. PICK n \in DOMAIN listed : listed[n] = item
        BY <2>3, <3>1, <4>1
      <4>3. Shown(how, typed, listed[n])
        BY <2>5, <3>1, <4>2 DEF Shown, Fit, UpToCursor
      <4>. QED
        BY <2>4, <4>2, <4>3 DEF AssembleSays
    <3>. QED
      BY <3>1 DEF ListedNotHidden, items
  <2>7. BestFirst
    <3>. SUFFICES ASSUME NEW n \in 2 .. Len(menu.items)
                  PROVE  ~Before(RankHere(menu.items[n]), RankHere(menu.items[n - 1]))
      BY DEF BestFirst
    <3>1. menu.items \in Seq(Items) /\ InOrderOf(how, typed, menu.items)
      BY <2>4 DEF AssembleSays
    <3>2. n \in DOMAIN menu.items /\ n - 1 \in DOMAIN menu.items /\ n - 1 < n
      BY <3>1
    <3>. QED
      BY <2>5, <3>1, <3>2 DEF InOrderOf
  <2>8. GreyWhenOneStarts
    <3>1. ASSUME NEW i \in DOMAIN items, UpToCursor(items[i]), Drawable(items[i].text),
                 Grey(typed, items[i]) # <<>>, \A j \in DOMAIN items : ~Quoted(items[j])
          PROVE  menu.top # <<>> /\ Grey(typed, menu.top[1]) # <<>>
      <4>1. DOMAIN items = 1 .. Len(items) /\ Len(items) \in Nat /\ \A j \in DOMAIN items : items[j] \in Items
        BY <2>2
      <4>2. RankFor(how, typed, items[i]) = Prefix /\ Applied(typed, items[i]) # typed
        BY <1>1, <3>1, <4>1, GreyIs DEF Goes, UpToCursor
      <4>3. Prefix # NoRank
        BY DEF Prefix, NoRank
      <4>4. Shown(how, typed, items[i])
        BY <3>1, <4>2, <4>3 DEF Shown, Fit, UpToCursor
      <4>5. PICK n \in DOMAIN all : ~Before(RankFor(how, typed, items[i]), RankFor(how, typed, all[n]))
        BY <2>4, <4>4 DEF AssembleSays
      <4>6. all \in Seq(Items) /\ InOrderOf(how, typed, all)
        BY <2>4 DEF AssembleSays
      <4>7. DOMAIN all = 1 .. Len(all) /\ Len(all) \in Nat /\ 1 \in DOMAIN all /\ n \in Nat /\ 1 <= n
        BY <4>6
      <4>8. all[n] \in Items /\ all[1] \in Items
        BY <4>6, <4>7
      <4>9. RankFor(how, typed, all[n]) = Prefix
        <5>1. RankFor(how, typed, all[n]) \in Ranks
          BY <1>1, <4>8, RankForIs
        <5>. QED
          BY <4>2, <4>5, <5>1, RanksOrdered
      <4>10. RankFor(how, typed, all[1]) = Prefix
        <5>1. CASE n = 1
          BY <4>9, <5>1
        <5>2. CASE 1 < n
          <6>1. ~Before(Prefix, RankFor(how, typed, all[1]))
            BY <4>6, <4>7, <4>9, <5>2 DEF InOrderOf
          <6>2. RankFor(how, typed, all[1]) \in Ranks
            BY <1>1, <4>8, RankForIs
          <6>. QED
            BY <6>1, <6>2, RanksOrdered
        <5>. QED
          BY <4>7, <5>1, <5>2
      <4>11. Shown(how, typed, all[1]) /\ ~Quoted(all[1])
        <5>1. Shown(how, typed, all[1]) /\ \E j \in DOMAIN items : all[1] = items[j]
          BY <2>4, <4>7 DEF AssembleSays
        <5>. QED
          BY <3>1, <5>1
      <4>12. Grey(typed, all[1]) # <<>>
        BY <1>1, <4>8, <4>10, <4>11, GreyIs DEF Shown, Goes
      <4>13. menu.top = <<all[1]>>
        <5>1. all # <<>> /\ Head(all) = all[1]
          BY <4>6, <4>7
        <5>. QED
          BY <2>1, <5>1 DEF First
      <4>. QED
        BY <4>12, <4>13
    <3>2. ASSUME NEW starts,
                 starts = {i \in DOMAIN items : /\ UpToCursor(items[i]) /\ Drawable(items[i].text)
                                                /\ Grey(typed, items[i]) # <<>>},
                 NEW marked, marked = {i \in DOMAIN items : Quoted(items[i])},
                 menu # NoMenu /\ starts # {} /\ marked = {}
          PROVE  menu.top # <<>> /\ Grey(typed, menu.top[1]) # <<>>
      <4>1. PICK i \in starts : TRUE
        BY <3>2
      <4>2. \A j \in DOMAIN items : ~Quoted(items[j])
        BY <3>2
      <4>. QED
        BY <3>1, <3>2, <4>1, <4>2
    <3>. QED
      BY <3>2 DEF GreyWhenOneStarts, items
  <2>. QED
    BY <2>6, <2>7, <2>8 DEF BestIsShown
<1>. QED
  BY <1>2, <1>3

(***************************************************************************)
(* Whatever entries history offers, an entry is gathered unless as many    *)
(* newer ones match in the same way, and a match with gaps is ranked by    *)
(* the shortest stretch of the text that holds what is typed.              *)
(***************************************************************************)
THEOREM GatheredAtTheirBestAlways == RankingSpec => []GatheredAtTheirBest
<1>1. RankingInit => GatherInv
  BY GatherInvInit
<1>2. GatherInv /\ [RankingNext]_rankingVars => GatherInv'
  BY GatherInvNext
<1>3. GatherInv => GatheredAtTheirBest
  BY GatherInvSays
<1>. QED
  BY <1>1, <1>2, <1>3, PTL DEF RankingSpec

(***************************************************************************)
(* Whatever the sources give, the menu that is made lists every listed     *)
(* item that matches, or one that gives the same line, best match first,   *)
(* and the grey text is of the best match of all.                          *)
(***************************************************************************)
THEOREM BestIsShownAlways == RankingSpec => []BestIsShown
<1>1. RankingInit => GatherInv /\ MenuInv
  BY GatherInvInit DEF MenuInv, RankingInit
<1>2. GatherInv /\ MenuInv /\ [RankingNext]_rankingVars => GatherInv' /\ MenuInv'
  BY GatherInvNext, MenuInvNext
<1>3. GatherInv /\ MenuInv => BestIsShown
  BY MenuInvSays
<1>. QED
  BY <1>1, <1>2, <1>3, PTL DEF RankingSpec
=============================================================================
