----------------------------- MODULE LispProofs -----------------------------
(***************************************************************************)
(* What inkline does for Lisp, and under it, one part after another.       *)
(*                                                                         *)
(* Keys: whatever Lisp, the layout and the user bind over one another, a   *)
(* key of a Lisp command runs that command, and under what inkline bound   *)
(* lies what the user would have without it.  The invariant says of the    *)
(* table that each sequence is in it once, is still reached in the keymap  *)
(* and is no key the terminal would bind over; that what is saved under it *)
(* is the user's; and that its function is its command's slot, or the one  *)
(* they share.                                                             *)
(*                                                                         *)
(* LispHooks: whatever the hooks' functions do, however the line is edited *)
(* and whatever Lisp and shell code run in between, what shows was given   *)
(* on this command line, and no suggestion function is asked twice.  The   *)
(* invariant says of everything that is kept where it came from: the last  *)
(* answer and the answers by line were given by a function on this line,   *)
(* an answer by line is longer than its text, the items kept were given at *)
(* their line and cursor, and every text that was asked about has its      *)
(* answer kept, so that asking again finds it.                             *)
(*                                                                         *)
(* Switching: however inkline is switched, by whatever shell code and over *)
(* whatever panics and jumps, it never saves a function of its own as      *)
(* readline's, and readline calls its functions only while it is on or     *)
(* Lisp runs.  Each thing inkline does to its state has a lemma: it keeps  *)
(* Sound, or takes a Resting state, whose reader has yet to go back, to a  *)
(* Sound one.                                                              *)
(***************************************************************************)
EXTENDS Keys, LispHooks, Switching, FiniteSetTheorems, SequenceTheorems,
        WellFoundedInduction, TLAPS

(* Keys. *)

Bindings == OtherCommands \cup Range(SlotFunctions) \cup {Shared}
Given == LispCommands \cup OtherCommands
Bounds == [seq : Sequence, key : Seq(Sequence), command : Given,
           function : Bindings, group : Groups \cup {NoGroup, "multi-line"},
           saved : [prefix : BOOLEAN, binding : Bindings]]
KeyTables == [map : Keymaps(Bindings), tty : BOOLEAN, table : Seq(Bounds)]
LeftTables == [map : Keymaps(Bindings), tty : BOOLEAN, table : Seq(Bounds),
               left : Seq(Sequence)]
Uses == {<<>>} \cup {<<command>> : command \in LispCommands}

\* What is bound is reached, once each, and not by the terminal's keys.
TableOK(at) ==
    /\ \A b \in ElementsOf(at.table) : Reached(at.map, b.seq)
    /\ \A b, c \in ElementsOf(at.table) : b.seq = c.seq => b = c
    /\ at.tty => \A b \in ElementsOf(at.table) : b.seq \notin DOMAIN TtyKeys
\* Only what is reached is bound.
ReachedOK(m) == \A seq \in Sequence : ~Reached(m, seq) => m.bound[seq] = Unbound
\* UsersKeysKept of a table.
UnderOK(at, w) ==
    \A seq \in Sequence :
        IF \E b \in ElementsOf(at.table) : b.seq = seq /\ Ours(at.map, b)
        THEN \A b \in ElementsOf(at.table) : b.seq = seq => b.saved.binding = w.bound[seq]
        ELSE at.map.bound[seq] = w.bound[seq]
\* A Lisp command's function is its slot's, or the shared one.
RunsAs(function, command, uses) ==
    IsLispFunction(function) =>
        \/ function = Shared
        \/ \E n \in DOMAIN uses : SlotFunctions[n] = function /\ uses[n] = <<command>>
RunOK(t, uses) == \A b \in ElementsOf(t) : RunsAs(b.function, b.command, uses)
Good(at, w, uses) ==
    /\ at.map \in Keymaps(Bindings) /\ at.tty \in BOOLEAN /\ at.table \in Seq(Bounds)
    /\ TableOK(at) /\ ReachedOK(at.map) /\ UnderOK(at, w) /\ RunOK(at.table, uses)
NamedIn(uses) == {SlotFunctions[n] : n \in {m \in DOMAIN uses :
                       uses[m] # <<>> /\ uses[m][1] \in Named}}
\* A keymap and a table, what the user would have, and the slots.
Held(at, w, uses, alone) ==
    /\ at \in KeyTables /\ w \in Keymaps(Bindings) /\ alone \in Seq(Sequence)
    /\ uses \in Seq(Uses) /\ Len(uses) <= SlotCount
    /\ Good(at, w, uses)
    /\ \A seq \in Sequence : IsLispFunction(w.bound[seq]) => w.bound[seq] \in NamedIn(uses)
KeysInv == Held(Now, without, slots, left)
-----------------------------------------------------------------------------
Less == {pair \in Nat \X Nat : pair[1] < pair[2]}

\* Numbers do not go down for ever.
LEMMA LessWellFounded == IsWellFoundedOn(Less, Nat)
<1>1. IsWellFoundedOn(OpToRel(<, Nat), Nat)  BY NatLessThanWellFounded
<1>2. OpToRel(<, Nat) = Less  BY DEF OpToRel, Less
<1>. QED  BY <1>1, <1>2

\* A set of naturals with something in it has a least.
LEMMA LowestIs ==
    ASSUME NEW S, S \subseteq Nat, S # {}
    PROVE  \E n \in S : \A m \in S : n <= m
<1>1. PICK x \in S : \A y \in S : ~ (<<y, x>> \in Less)
  BY LessWellFounded, WFMin
<1>2. \A m, n \in Nat : m < n => <<m, n>> \in Less  BY DEF Less
<1>3. ASSUME NEW y \in S PROVE x <= y
  <2>1. x \in Nat /\ y \in Nat  OBVIOUS
  <2>2. ~ (y < x)  BY <1>1, <1>2, <2>1
  <2>. QED  BY <2>1, <2>2
<1>. QED  BY <1>3

\* Max of a set of positions with the last in it.
LEMMA LastOfPlaces ==
    ASSUME NEW n \in Nat, NEW s \in SUBSET (1 .. n + 1), n + 1 \in s
    PROVE  Max(s) = n + 1
<1>1. \A y \in s : n + 1 >= y  OBVIOUS
<1>2. \A x \in s : (\A y \in s : x >= y) => x = n + 1  OBVIOUS
<1>. QED  BY <1>1, <1>2 DEF Max

\* Max of a set of positions is one of them.
LEMMA MaxOfPlaces ==
    ASSUME NEW n \in Nat, NEW s \in SUBSET (1 .. n), s # {}
    PROVE  Max(s) \in s
<1>. DEFINE D == {n - x : x \in s}
<1>1. D \subseteq Nat /\ D # {}
  <2>1. \A x \in s : n - x \in Nat  OBVIOUS
  <2>. QED  BY <2>1
<1>2. PICK k \in D : \A m \in D : k <= m
  <2>. HIDE DEF D
  <2>. QED  BY <1>1, LowestIs
<1>3. PICK x \in s : k = n - x  BY <1>2
<1>4. ASSUME NEW y \in s PROVE x >= y
  <2>1. n - y \in D  OBVIOUS
  <2>2. n - x <= n - y  BY <2>1, <1>2, <1>3
  <2>3. x \in Int /\ y \in Int  OBVIOUS
  <2>. QED  BY <2>2, <2>3
<1>. QED  BY <1>4 DEF Max

\* A fold from the left, whose steps stay in a set, is assigned by a function of
\* the positions taken so far.
Folds(I, n, All, base, F) ==
    /\ I \in [SUBSET (1 .. n) -> All]
    /\ \A s \in SUBSET (1 .. n) :
          I[s] = IF s = {} THEN base ELSE F[<<I[s \ {Max(s)}], Max(s)>>]
\* A fold whose steps stay in a set has one.
LEMMA FoldIs ==
    ASSUME NEW n \in Nat, NEW All, NEW base \in All, NEW F \in [All \X (1 .. n) -> All]
    PROVE  \E I : Folds(I, n, All, base, F)
<1>. DEFINE Is(m) == \E I \in [SUBSET (1 .. m) -> All] : \A s \in SUBSET (1 .. m) :
              I[s] = IF s = {} THEN base ELSE F[<<I[s \ {Max(s)}], Max(s)>>]
            Bad == {m \in 0 .. n : ~Is(m)}
<1>1. Is(0)
  <2>. DEFINE I == [s \in SUBSET (1 .. 0) |-> base]
  <2>1. I \in [SUBSET (1 .. 0) -> All] /\ \A s \in SUBSET (1 .. 0) : s = {} /\ I[s] = base
    OBVIOUS
  <2>. QED  BY <2>1
<1>2. ASSUME NEW m \in 0 .. n - 1, Is(m) PROVE Is(m + 1)
  <2>1. PICK I \in [SUBSET (1 .. m) -> All] : \A s \in SUBSET (1 .. m) :
              I[s] = IF s = {} THEN base ELSE F[<<I[s \ {Max(s)}], Max(s)>>]
    BY <1>2
  <2>. DEFINE J == [s \in SUBSET (1 .. m + 1) |->
                      IF m + 1 \in s THEN F[<<I[s \ {m + 1}], m + 1>>] ELSE I[s]]
  <2>2. ASSUME NEW s \in SUBSET (1 .. m + 1)
        PROVE  /\ s \ {m + 1} \in SUBSET (1 .. m) /\ m + 1 \notin s => s \in SUBSET (1 .. m)
    OBVIOUS
  <2>3. ASSUME NEW s \in SUBSET (1 .. m + 1) PROVE J[s] \in All
    <3>1. CASE m + 1 \in s
      <4>1. <<I[s \ {m + 1}], m + 1>> \in All \X (1 .. n)  BY <2>1, <2>2
      <4>. QED  BY <3>1, <4>1
    <3>2. CASE m + 1 \notin s  BY <3>2, <2>1, <2>2
    <3>. QED  BY <3>1, <3>2
  <2>4. J \in [SUBSET (1 .. m + 1) -> All]
    <3>. HIDE DEF J
    <3>1. J = [s \in SUBSET (1 .. m + 1) |-> J[s]]  BY DEF J
    <3>. QED  BY <3>1, <2>3
  <2>5. ASSUME NEW s \in SUBSET (1 .. m + 1)
        PROVE  J[s] = IF s = {} THEN base ELSE F[<<J[s \ {Max(s)}], Max(s)>>]
    <3>1. CASE m + 1 \in s
      <4>1. Max(s) = m + 1  BY <3>1, LastOfPlaces
      <4>2. J[s \ {m + 1}] = I[s \ {m + 1}]  BY <2>2
      <4>. QED  BY <3>1, <4>1, <4>2
    <3>2. CASE m + 1 \notin s
      <4>1. s \in SUBSET (1 .. m)  BY <2>2, <3>2
      <4>2. s \ {Max(s)} \in SUBSET (1 .. m) /\ m + 1 \notin s \ {Max(s)}
        <5>1. \A x : s \ {x} \in SUBSET (1 .. m) /\ m + 1 \notin s \ {x}  BY <4>1, <3>2
        <5>. QED  BY <5>1
      <4>3. J[s] = I[s] /\ J[s \ {Max(s)}] = I[s \ {Max(s)}]
        BY <4>1, <4>2, <3>2
      <4>. QED  BY <4>1, <4>3, <2>1
    <3>. QED  BY <3>1, <3>2
  <2>. QED
    <3>. HIDE DEF J
    <3>. QED  BY <2>4, <2>5
<1>3. Bad = {}
  <2>1. SUFFICES ASSUME Bad # {} PROVE FALSE  OBVIOUS
  <2>. HIDE DEF Is
  <2>2. PICK k \in Bad : \A m \in Bad : k <= m
    <3>1. Bad \subseteq Nat  OBVIOUS
    <3>. HIDE DEF Bad
    <3>. QED  BY <2>1, <3>1, LowestIs
  <2>3. k # 0 /\ k - 1 \notin Bad
    <3>1. k \in 0 .. n /\ ~Is(k)  BY <2>2
    <3>2. k # 0  BY <3>1, <1>1
    <3>3. \A m \in Bad : k <= m  BY <2>2
    <3>. HIDE DEF Bad
    <3>. QED  BY <3>1, <3>2, <3>3
  <2>4. Is(k - 1) /\ k - 1 \in 0 .. n - 1  BY <2>2, <2>3
  <2>5. Is((k - 1) + 1)  BY <2>4, <1>2
  <2>. QED  BY <2>2, <2>5
<1>4. Is(n)
  <2>. HIDE DEF Is
  <2>. QED  BY <1>3
<1>. QED  BY <1>4 DEF Folds

\* The step that takes the k-th element.
LEMMA LastPlace ==
    ASSUME NEW n \in Nat, NEW k \in 1 .. n
    PROVE  /\ Max(1 .. k) = k /\ (1 .. k) \ {Max(1 .. k)} = 1 .. (k - 1)
           /\ 1 .. k # {} /\ 1 .. k \in SUBSET (1 .. n)
<1>1. Max(1 .. k) = k  BY DEF Max
<1>2. k \in 1 .. k /\ \A x \in 1 .. k : x \in 1 .. n  OBVIOUS
<1>. QED  BY <1>1, <1>2

\* What holds before a step holds after it.
GoesOn(C, P, n) == \A k \in 1 .. n : C[1 .. (k - 1)] \in P[k - 1] => C[1 .. k] \in P[k]
\* What holds before the first step, and goes on at every step, holds of the fold.
LEMMA FoldReaches ==
    ASSUME NEW n \in Nat, NEW C, NEW P, C[{}] \in P[0], GoesOn(C, P, n)
    PROVE  C[1 .. n] \in P[n]
<1>. DEFINE Bad == {k \in 0 .. n : C[1 .. k] \notin P[k]}
<1>1. 0 \notin Bad
  <2>1. 1 .. 0 = {}  OBVIOUS
  <2>. QED  BY <2>1
<1>2. Bad = {}
  <2>1. SUFFICES ASSUME Bad # {} PROVE FALSE  OBVIOUS
  <2>2. PICK k \in Bad : \A m \in Bad : k <= m
    <3>1. Bad \subseteq Nat  OBVIOUS
    <3>. HIDE DEF Bad
    <3>. QED  BY <2>1, <3>1, LowestIs
  <2>3. k \in 1 .. n  BY <1>1, <2>2
  <2>4. k - 1 \notin Bad  BY <2>2, <2>3
  <2>5. C[1 .. (k - 1)] \in P[k - 1]  BY <2>3, <2>4
  <2>6. C[1 .. k] \in P[k]  BY <2>3, <2>5 DEF GoesOn
  <2>. QED  BY <2>2, <2>6
<1>. QED  BY <1>2

\* The same of what holds before every step.
LEMMA FoldStays ==
    ASSUME NEW n \in Nat, NEW C, NEW All, C[{}] \in All,
           \A k \in 1 .. n : C[1 .. (k - 1)] \in All => C[1 .. k] \in All
    PROVE  C[1 .. n] \in All
<1>. DEFINE P == [k \in 0 .. n |-> All]
<1>1. \A k \in 0 .. n : P[k] = All  OBVIOUS
<1>2. 0 \in 0 .. n /\ n \in 0 .. n /\ \A k \in 1 .. n : k \in 0 .. n /\ k - 1 \in 0 .. n
  OBVIOUS
<1>. HIDE DEF P
<1>3. C[{}] \in P[0]  BY <1>1, <1>2
<1>4. GoesOn(C, P, n)  BY <1>1, <1>2 DEF GoesOn
<1>5. C[1 .. n] \in P[n]  BY <1>3, <1>4, FoldReaches
<1>. QED  BY <1>1, <1>2, <1>5

\* One element more.
LEMMA ElementsGrow ==
    ASSUME NEW S, NEW t \in Seq(S), NEW e \in S
    PROVE  ElementsOf(Append(t, e)) = ElementsOf(t) \cup {e}
<1>1. /\ Len(t) \in Nat /\ DOMAIN t = 1 .. Len(t) /\ DOMAIN Append(t, e) = 1 .. Len(t) + 1
      /\ \A i \in 1 .. Len(t) : Append(t, e)[i] = t[i]
      /\ Append(t, e)[Len(t) + 1] = e
  OBVIOUS
<1>2. ASSUME NEW x \in ElementsOf(Append(t, e)) PROVE x \in ElementsOf(t) \cup {e}
  BY <1>1 DEF ElementsOf
<1>3. ASSUME NEW x \in ElementsOf(t) PROVE x \in ElementsOf(Append(t, e))
  BY <1>1 DEF ElementsOf
<1>4. e \in ElementsOf(Append(t, e))  BY <1>1 DEF ElementsOf
<1>. QED  BY <1>2, <1>3, <1>4

\* Only keeps the elements that are in the set.
LEMMA OnlyIs ==
    ASSUME NEW S, NEW list \in Seq(S), NEW set
    PROVE  Only(list, set) \in Seq(S) /\ ElementsOf(Only(list, set)) = ElementsOf(list) \cap set
<1>. DEFINE n == Len(list)
            step(kept, e) == IF e \in set THEN Append(kept, e) ELSE kept
            F == [p \in Seq(S) \X (1 .. n) |-> step(p[1], list[p[2]])]
<1>1. n \in Nat /\ DOMAIN list = 1 .. n /\ \A i \in 1 .. n : list[i] \in S  OBVIOUS
<1>2. F \in [Seq(S) \X (1 .. n) -> Seq(S)]
  <2>1. ASSUME NEW t \in Seq(S), NEW i \in 1 .. n PROVE step(t, list[i]) \in Seq(S)
    <3>. HIDE DEF n
    <3>. QED  BY <1>1
  <2>. QED  BY <2>1
<1>3. PICK I : Folds(I, n, Seq(S), <<>>, F)
  <2>1. <<>> \in Seq(S)  OBVIOUS
  <2>. HIDE DEF n, F
  <2>. QED  BY <1>1, <1>2, <2>1, FoldIs
<1>4. I = [s \in SUBSET (1 .. n) |->
             IF s = {} THEN <<>> ELSE step(I[s \ {Max(s)}], list[Max(s)])]
  <2>1. ASSUME NEW s \in SUBSET (1 .. n), s # {}
        PROVE  F[<<I[s \ {Max(s)}], Max(s)>>] = step(I[s \ {Max(s)}], list[Max(s)])
    <3>1. Max(s) \in 1 .. n  BY <2>1, <1>1, MaxOfPlaces
    <3>2. I[s \ {Max(s)}] \in Seq(S)  BY <1>3 DEF Folds
    <3>. QED  BY <3>1, <3>2
  <2>. QED  BY <1>3, <2>1 DEF Folds
<1>. DEFINE C == CHOOSE iter : iter = [s \in SUBSET (DOMAIN list) |->
             IF s = {} THEN <<>> ELSE step(iter[s \ {Max(s)}], list[Max(s)])]
<1>5. C = [s \in SUBSET (DOMAIN list) |->
             IF s = {} THEN <<>> ELSE step(C[s \ {Max(s)}], list[Max(s)])]
  BY <1>1, <1>4
<1>6. Only(list, set) = C[DOMAIN list]
  BY DEF Only, FoldLeft, MapThenFoldSet
<1>7. C[1 .. n] \in {t \in Seq(S) : ElementsOf(t) = {list[i] : i \in 1 .. n} \cap set}
  <2>. DEFINE P == [k \in 0 .. n |-> {t \in Seq(S) : ElementsOf(t) = {list[i] : i \in 1 .. k} \cap set}]
  <2>0. \A k \in 0 .. n : P[k] = {t \in Seq(S) : ElementsOf(t) = {list[i] : i \in 1 .. k} \cap set}
    OBVIOUS
  <2>. HIDE DEF C, P, n
  <2>1. C[{}] \in P[0]
    <3>1. C[{}] = <<>>  BY <1>1, <1>5
    <3>2. <<>> \in Seq(S) /\ ElementsOf(<<>>) = {}  BY DEF ElementsOf
    <3>3. {list[i] : i \in 1 .. 0} \cap set = {}  OBVIOUS
    <3>4. 0 \in 0 .. n  BY <1>1
    <3>. QED  BY <2>0, <3>1, <3>2, <3>3, <3>4
  <2>2. ASSUME NEW k \in 1 .. n, C[1 .. (k - 1)] \in P[k - 1]
        PROVE  C[1 .. k] \in P[k]
    <3>1. C[1 .. k] = step(C[1 .. (k - 1)], list[k])
      BY <1>1, <1>5, LastPlace
    <3>. DEFINE t == C[1 .. (k - 1)]
    <3>2. t \in Seq(S) /\ ElementsOf(t) = {list[i] : i \in 1 .. (k - 1)} \cap set
      BY <1>1, <2>0, <2>2
    <3>3. list[k] \in S  BY <1>1
    <3>. HIDE DEF t
    <3>4. ElementsOf(Append(t, list[k])) = ElementsOf(t) \cup {list[k]}
      BY <3>2, <3>3, ElementsGrow
    <3>5. {list[i] : i \in 1 .. k} = {list[i] : i \in 1 .. (k - 1)} \cup {list[k]}  BY <1>1
    <3>6. step(t, list[k]) \in Seq(S) /\ ElementsOf(step(t, list[k])) = {list[i] : i \in 1 .. k} \cap set
      BY <3>2, <3>3, <3>4, <3>5
    <3>7. C[1 .. k] = step(t, list[k])  BY <3>1 DEF t
    <3>8. k \in 0 .. n  BY <1>1
    <3>. HIDE DEF step
    <3>. QED  BY <2>0, <3>6, <3>7, <3>8
  <2>3. C[1 .. n] \in P[n]
    <3>1. GoesOn(C, P, n)  BY <2>2 DEF GoesOn
    <3>2. n \in Nat  BY <1>1
    <3>. QED  BY <2>1, <3>1, <3>2, FoldReaches
  <2>. QED  BY <1>1, <2>0, <2>3
<1>. QED
  <2>. HIDE DEF C
  <2>. QED  BY <1>1, <1>6, <1>7 DEF ElementsOf
-----------------------------------------------------------------------------
(* The keymap. *)

\* What leads to a sequence are sequences.
LEMMA BeforeIs ==
    ASSUME NEW seq \in Sequence PROVE Before(seq) \subseteq Sequence
<1>1. PICK n \in 1 .. MaxLength : seq \in [1 .. n -> Bytes]  BY DEF Sequence
<1>2. n \in Nat /\ MaxLength \in Nat /\ seq \in Seq(Bytes) /\ Len(seq) = n
  BY <1>1, KeymapAssumption
<1>3. ASSUME NEW k \in 1 .. n - 1 PROVE SubSeq(seq, 1, k) \in Sequence
  <2>1. SubSeq(seq, 1, k) \in [1 .. k -> Bytes]
    <3>1. k \in 1 .. Len(seq)  BY <1>2
    <3>2. SubSeq(seq, 1, k) = [i \in 1 .. k |-> seq[i]]  BY <1>2, <3>1
    <3>3. \A i \in 1 .. k : seq[i] \in Bytes  BY <1>1, <1>2
    <3>. QED  BY <3>2, <3>3
  <2>2. k \in 1 .. MaxLength  BY <1>2
  <2>. QED  BY <2>1, <2>2 DEF Sequence
<1>. QED  BY <1>2, <1>3 DEF Before

\* A sequence is what leads to its last key, and that key.
LEMMA SequencesDiffer ==
    ASSUME NEW a \in Sequence, NEW b \in Sequence, Front(a) = Front(b), Last(a) = Last(b)
    PROVE  a = b
<1>1. PICK m \in 1 .. MaxLength : a \in [1 .. m -> Bytes]  BY DEF Sequence
<1>2. PICK n \in 1 .. MaxLength : b \in [1 .. n -> Bytes]  BY DEF Sequence
<1>3. /\ m \in Nat /\ m > 0 /\ a \in Seq(Bytes) /\ Len(a) = m
      /\ n \in Nat /\ n > 0 /\ b \in Seq(Bytes) /\ Len(b) = n
  BY <1>1, <1>2, KeymapAssumption
<1>4. /\ Len(Front(a)) = m - 1 /\ \A i \in 1 .. m - 1 : Front(a)[i] = a[i]
      /\ Len(Front(b)) = n - 1 /\ \A i \in 1 .. n - 1 : Front(b)[i] = b[i]
  BY <1>3 DEF Front
<1>5. m = n  BY <1>3, <1>4
<1>6. \A i \in 1 .. n : a[i] = b[i]
  BY <1>3, <1>4, <1>5 DEF Last
<1>. QED  BY <1>1, <1>2, <1>5, <1>6

\* rl_generic_bind changes one binding, and leaves every keymap a key leads to.
LEMMA BindIs ==
    ASSUME NEW m \in Keymaps(Bindings), NEW seq \in Sequence, NEW binding \in Bindings,
           NEW r, r = Bind(m, seq, binding)
    PROVE  /\ r \in Keymaps(Bindings)
           /\ r.bound[seq] = binding
           /\ \A q \in Sequence : q # seq => r.bound[q] = m.bound[q]
           /\ Reached(r, seq)
           /\ \A q \in Sequence : Reached(m, q) => Reached(r, q)
  BY BeforeIs DEF Bind, Keymaps, Reached

\* A binding put back changes that one only.
LEMMA RestoreIs ==
    ASSUME NEW m \in Keymaps(Bindings), NEW seq \in Sequence, Reached(m, seq),
           NEW saved, saved.binding \in Bindings, NEW r, r = Restore(m, seq, saved)
    PROVE  /\ r \in Keymaps(Bindings) /\ r.prefixes = m.prefixes
           /\ r.bound[seq] = saved.binding
           /\ \A q \in Sequence : q # seq => r.bound[q] = m.bound[q]
  BY DEF Restore, Keymaps

-----------------------------------------------------------------------------
(* bind_seq and unset_where. *)

\* Nothing bound is none of Lisp's functions.
LEMMA UnboundIs == Unbound \in Bindings /\ ~IsLispFunction(Unbound)
  BY NamesAssumption DEF Bindings, OtherCommands

\* What is saved under a key is what the user would have.
LEMMA SavedIs ==
    ASSUME NEW at, NEW w, NEW uses, Good(at, w, uses), NEW seq \in Sequence
    PROVE  /\ Saved(at, seq) \in [prefix : BOOLEAN, binding : Bindings]
           /\ Saved(at, seq).binding = w.bound[seq]
<1>. DEFINE own == {b \in ElementsOf(at.table) : b.seq = seq /\ Ours(at.map, b)}
<1>1. CASE own # {}
  <2>1. PICK b : b = (CHOOSE c \in own : TRUE)  OBVIOUS
  <2>2. b \in own  BY <1>1, <2>1
  <2>3. b \in Bounds  BY <2>2 DEF Good, ElementsOf
  <2>4. b.saved.binding = w.bound[seq]  BY <2>2 DEF Good, UnderOK
  <2>5. Saved(at, seq) = b.saved  BY <1>1, <2>1 DEF Saved
  <2>. QED  BY <2>3, <2>4, <2>5 DEF Bounds
<1>2. CASE own = {}
  <2>1. at.map.bound[seq] = w.bound[seq]  BY <1>2 DEF Good, UnderOK
  <2>2. Saved(at, seq) = SavedNow(at, seq)  BY <1>2 DEF Saved
  <2>3. at.map.bound[seq] \in Bindings  BY DEF Good, Keymaps
  <2>4. CASE Reached(at.map, seq)
    <3>1. Lookup(at.map, seq) = <<[prefix |-> seq \in at.map.prefixes, binding |-> at.map.bound[seq]]>>
      BY <2>4 DEF Lookup
    <3>2. SavedNow(at, seq) = [prefix |-> seq \in at.map.prefixes, binding |-> at.map.bound[seq]]
      BY <3>1 DEF SavedNow
    <3>. QED  BY <2>1, <2>2, <2>3, <3>2
  <2>5. CASE ~Reached(at.map, seq)
    <3>1. SavedNow(at, seq) = [prefix |-> FALSE, binding |-> Unbound]
      BY <2>5 DEF Lookup, SavedNow
    <3>2. at.map.bound[seq] = Unbound  BY <2>5 DEF Good, ReachedOK
    <3>. QED  BY <2>1, <2>2, <3>1, <3>2, UnboundIs
  <2>. QED  BY <2>4, <2>5
<1>. QED  BY <1>1, <1>2

\* A bound sequence keeps what a table promises.
LEMMA BindSeqOK ==
    ASSUME NEW at, NEW w, NEW uses, Good(at, w, uses),
           NEW seq \in Sequence, NEW desc \in Seq(Sequence), NEW command \in Given,
           NEW function \in Bindings, NEW group \in Groups \cup {NoGroup, "multi-line"},
           RunsAs(function, command, uses),
           NEW r, r.map = Bind(at.map, seq, function), r.tty = TtyAfter(at, seq),
           r.table = Append(Only(at.table, {b \in ElementsOf(at.table) : b.seq # seq}),
                         [seq |-> seq, key |-> desc, command |-> command,
                          function |-> function, group |-> group,
                          saved |-> Saved(at, seq)])
    PROVE  Good(r, w, uses)
<1>. DEFINE new == [seq |-> seq, key |-> desc, command |-> command, function |-> function,
                    group |-> group, saved |-> Saved(at, seq)]
            rest == {b \in ElementsOf(at.table) : b.seq # seq}
<1>1. new \in Bounds /\ new.saved.binding = w.bound[seq]  BY SavedIs DEF Bounds
<1>2. at.map \in Keymaps(Bindings) /\ at.tty \in BOOLEAN /\ at.table \in Seq(Bounds)
  BY DEF Good
<1>3. r.table \in Seq(Bounds) /\ ElementsOf(r.table) = rest \cup {new}
  <2>. DEFINE kept == Only(at.table, rest)
  <2>1. r.table = Append(kept, new)  OBVIOUS
  <2>2. new \in Bounds  BY <1>1
  <2>3. ElementsOf(at.table) \cap rest = rest  OBVIOUS
  <2>. HIDE DEF new, rest
  <2>4. kept \in Seq(Bounds) /\ ElementsOf(kept) = rest  BY <1>2, <2>3, OnlyIs
  <2>. HIDE DEF kept
  <2>5. ElementsOf(Append(kept, new)) = ElementsOf(kept) \cup {new}
    BY <2>2, <2>4, ElementsGrow
  <2>6. Append(kept, new) \in Seq(Bounds)  BY <2>2, <2>4
  <2>. QED  BY <2>1, <2>4, <2>5, <2>6
<1>4. \A b \in ElementsOf(at.table) : b \in Bounds /\ b.seq \in Sequence
  <2>1. \A b \in ElementsOf(at.table) : b \in Bounds  BY <1>2 DEF ElementsOf
  <2>. QED  BY <2>1 DEF Bounds
<1>5. /\ r.map \in Keymaps(Bindings)
      /\ r.map.bound[seq] = function
      /\ \A q \in Sequence : q # seq => r.map.bound[q] = at.map.bound[q]
      /\ Reached(r.map, seq)
      /\ \A q \in Sequence : Reached(at.map, q) => Reached(r.map, q)
  BY <1>2, BindIs
<1>6. new.seq = seq /\ new.function = function /\ new.command = command  OBVIOUS
<1>. HIDE DEF new
<1>7. TableOK(r)
  <2>1. \A b \in ElementsOf(r.table) : Reached(r.map, b.seq)
    BY <1>3, <1>4, <1>5, <1>6 DEF Good, TableOK
  <2>2. \A b, c \in ElementsOf(r.table) : b.seq = c.seq => b = c
    BY <1>3, <1>6 DEF Good, TableOK
  <2>3. r.tty => \A b \in ElementsOf(r.table) : b.seq \notin DOMAIN TtyKeys
    BY <1>3, <1>6 DEF Good, TableOK, TtyAfter
  <2>. QED  BY <2>1, <2>2, <2>3 DEF TableOK
<1>8. ReachedOK(r.map)
  BY <1>5 DEF Good, ReachedOK
<1>9. UnderOK(r, w)
  <2>1. ASSUME NEW q \in Sequence
        PROVE  IF \E b \in ElementsOf(r.table) : b.seq = q /\ Ours(r.map, b)
               THEN \A b \in ElementsOf(r.table) : b.seq = q => b.saved.binding = w.bound[q]
               ELSE r.map.bound[q] = w.bound[q]
    <3>1. CASE q = seq
      <4>1. Ours(r.map, new)  BY <1>5, <1>6 DEF Ours
      <4>2. \A b \in ElementsOf(r.table) : b.seq = q => b = new  BY <1>3, <3>1
      <4>. QED  BY <1>1, <1>3, <1>6, <3>1, <4>1, <4>2
    <3>2. CASE q # seq
      <4>1. ASSUME NEW b, b.seq = q
            PROVE  b \in ElementsOf(r.table) <=> b \in ElementsOf(at.table)
        BY <1>3, <1>6, <3>2, <4>1
      <4>2. ASSUME NEW b \in ElementsOf(at.table), b.seq = q
            PROVE  Ours(r.map, b) <=> Ours(at.map, b)
        BY <1>5, <3>2, <4>2 DEF Ours, Good, TableOK
      <4>3. IF \E b \in ElementsOf(at.table) : b.seq = q /\ Ours(at.map, b)
            THEN \A b \in ElementsOf(at.table) : b.seq = q => b.saved.binding = w.bound[q]
            ELSE at.map.bound[q] = w.bound[q]
        BY DEF Good, UnderOK
      <4>4. r.map.bound[q] = at.map.bound[q]  BY <1>5, <3>2
      <4>. QED  BY <4>1, <4>2, <4>3, <4>4
    <3>. QED  BY <3>1, <3>2
  <2>. QED  BY <2>1 DEF UnderOK
<1>10. RunOK(r.table, uses)
  BY <1>3, <1>6 DEF Good, RunOK
<1>11. r.tty \in BOOLEAN  BY <1>2 DEF TtyAfter
<1>. QED  BY <1>3, <1>5, <1>7, <1>8, <1>9, <1>10, <1>11 DEF Good

\* The keymap unset_where leaves: what was picked and still inkline's runs what
\* it would without inkline, and all else what it ran.
LEMMA UnsetMapIs ==
    ASSUME NEW at, NEW w, w \in Keymaps(Bindings), NEW uses, Good(at, w, uses), NEW picked,
           at \in KeyTables, NEW r, r = UnsetWhere(at, picked).map
    PROVE  /\ r \in Keymaps(Bindings) /\ r.prefixes = at.map.prefixes
           /\ \A q \in Sequence :
                IF \E b \in ElementsOf(at.table) : b \in picked /\ b.seq = q /\ Ours(at.map, b)
                THEN r.bound[q] = w.bound[q] ELSE r.bound[q] = at.map.bound[q]
<1>. DEFINE All == Keymaps(Bindings)
            list == at.table
            base == at.map
            n == Len(list)
            step(m, b) == IF b \in picked /\ Ours(m, b) THEN Restore(m, b.seq, b.saved) ELSE m
            F == [p \in All \X (1 .. n) |-> step(p[1], list[p[2]])]
            Taken(k, q) == \E i \in 1 .. k :
                list[i] \in picked /\ list[i].seq = q /\ Ours(at.map, list[i])
<1>1. /\ n \in Nat /\ DOMAIN list = 1 .. n /\ base \in All
      /\ \A i \in 1 .. n : list[i] \in Bounds /\ list[i] \in ElementsOf(list)
  <2>1. list \in Seq(Bounds) /\ base \in All  BY DEF Good
  <2>2. n \in Nat /\ DOMAIN list = 1 .. n /\ \A i \in 1 .. n : list[i] \in Bounds  BY <2>1
  <2>. QED  BY <2>1, <2>2 DEF ElementsOf
<1>2. F \in [All \X (1 .. n) -> All]
  <2>1. ASSUME NEW m \in All, NEW i \in 1 .. n PROVE step(m, list[i]) \in All
    <3>1. list[i] \in Bounds  BY <1>1
    <3>2. list[i].seq \in Sequence /\ list[i].saved.binding \in Bindings  BY <3>1 DEF Bounds
    <3>3. Reached(m, list[i].seq) => Restore(m, list[i].seq, list[i].saved) \in All
      BY <3>2, RestoreIs
    <3>. HIDE DEF All, list
    <3>. QED  BY <3>3 DEF Ours
  <2>. HIDE DEF All, list, n, step
  <2>. QED  BY <2>1
<1>3. PICK I : Folds(I, n, All, base, F)
  <2>. HIDE DEF n, F, All, base
  <2>. QED  BY <1>1, <1>2, FoldIs
<1>4. I = [s \in SUBSET (1 .. n) |->
             IF s = {} THEN base ELSE step(I[s \ {Max(s)}], list[Max(s)])]
  <2>1. ASSUME NEW s \in SUBSET (1 .. n), s # {}
        PROVE  F[<<I[s \ {Max(s)}], Max(s)>>] = step(I[s \ {Max(s)}], list[Max(s)])
    <3>1. Max(s) \in 1 .. n  BY <2>1, <1>1, MaxOfPlaces
    <3>2. I[s \ {Max(s)}] \in All  BY <1>3 DEF Folds
    <3>. HIDE DEF All, list, step, n
    <3>. QED  BY <3>1, <3>2
  <2>. HIDE DEF F, step
  <2>. QED  BY <1>3, <2>1 DEF Folds
<1>. DEFINE C == CHOOSE iter : iter = [s \in SUBSET (DOMAIN list) |->
             IF s = {} THEN base ELSE step(iter[s \ {Max(s)}], list[Max(s)])]
<1>5. C = [s \in SUBSET (DOMAIN list) |->
             IF s = {} THEN base ELSE step(C[s \ {Max(s)}], list[Max(s)])]
  <2>. HIDE DEF step
  <2>. QED  BY <1>1, <1>4
<1>6. r = C[DOMAIN list]
  <2>1. at = [map |-> at.map, tty |-> at.tty, table |-> at.table]  BY DEF KeyTables
  <2>. QED  BY <2>1 DEF UnsetWhere, FoldLeft, MapThenFoldSet
<1>. DEFINE Is(k, m) == /\ m \in All /\ m.prefixes = base.prefixes
                        /\ \A q \in Sequence :
                             IF Taken(k, q) THEN m.bound[q] = w.bound[q]
                                            ELSE m.bound[q] = base.bound[q]
<1>7. Is(n, C[1 .. n])
  <2>. DEFINE P == [k \in 0 .. n |-> {m \in All : Is(k, m)}]
  <2>0. \A k \in 0 .. n : P[k] = {m \in All : Is(k, m)}  OBVIOUS
  <2>. HIDE DEF P
  <2>1. C[{}] \in P[0]
    <3>1. C[{}] = base
      <4>. HIDE DEF C, step
      <4>. QED  BY <1>1, <1>5
    <3>2. \A q : ~Taken(0, q)  OBVIOUS
    <3>3. base \in All  BY <1>1
    <3>4. Is(0, base)
      <4>. HIDE DEF Taken, All, base
      <4>. QED  BY <3>2, <3>3
    <3>5. 0 \in 0 .. n  BY <1>1
    <3>. HIDE DEF Is, C, All, base
    <3>. QED  BY <2>0, <3>1, <3>3, <3>4, <3>5
  <2>2. ASSUME NEW k \in 1 .. n, C[1 .. (k - 1)] \in P[k - 1]
        PROVE  C[1 .. k] \in P[k]
    <3>. DEFINE m == C[1 .. (k - 1)]
                b == list[k]
    <3>0. k \in 0 .. n /\ k - 1 \in 0 .. n  BY <1>1
    <3>1. C[1 .. k] = step(m, b)
      <4>. HIDE DEF C, step
      <4>. QED  BY <1>1, <1>5, LastPlace
    <3>2. m \in All /\ Is(k - 1, m)
      <4>. HIDE DEF Is, C, All
      <4>. QED  BY <2>0, <2>2, <3>0
    <3>. HIDE DEF m
    <3>3. b \in Bounds /\ b \in ElementsOf(list)  BY <1>1
    <3>4. b.seq \in Sequence /\ b.saved.binding \in Bindings  BY <3>3 DEF Bounds
    <3>5. Ours(at.map, b) => b.saved.binding = w.bound[b.seq]  BY <3>3, <3>4 DEF Good, UnderOK
    <3>6. \A q : Taken(k, q) <=> Taken(k - 1, q) \/ (b \in picked /\ b.seq = q /\ Ours(at.map, b))
      <4>1. 1 .. k = (1 .. (k - 1)) \cup {k}  BY <1>1
      <4>. HIDE DEF list
      <4>. QED  BY <4>1
    <3>7. Reached(m, b.seq) <=> Reached(at.map, b.seq)  BY <3>2 DEF Reached
    <3>8. Reached(at.map, b.seq)  BY <3>3 DEF Good, TableOK
    <3>9. Taken(k - 1, b.seq) => b \in picked /\ Ours(at.map, b)
      <4>1. SUFFICES ASSUME NEW i \in 1 .. k - 1, list[i] \in picked, list[i].seq = b.seq,
                            Ours(at.map, list[i])
                     PROVE  b \in picked /\ Ours(at.map, b)
        OBVIOUS
      <4>2. list[i] \in ElementsOf(list)  BY <1>1
      <4>3. list[i] = b  BY <3>3, <4>1, <4>2 DEF Good, TableOK
      <4>. HIDE DEF b
      <4>. QED  BY <4>1, <4>3
    <3>10. Is(k, step(m, b))
      <4>. HIDE DEF Taken, b, All, base, list
      <4>1. CASE b \in picked /\ Ours(m, b)
        <5>1. PICK x : x = step(m, b)  OBVIOUS
        <5>2. x = Restore(m, b.seq, b.saved)  BY <4>1, <5>1
        <5>3. /\ x \in Keymaps(Bindings) /\ x.prefixes = m.prefixes
              /\ x.bound[b.seq] = b.saved.binding
              /\ \A q \in Sequence : q # b.seq => x.bound[q] = m.bound[q]
          BY <3>2, <3>4, <3>7, <3>8, <5>2, RestoreIs DEF All
        <5>4. Ours(at.map, b)
          <6>1. CASE Taken(k - 1, b.seq)  BY <3>9, <6>1
          <6>2. CASE ~Taken(k - 1, b.seq)
            <7>1. m.bound[b.seq] = at.map.bound[b.seq]  BY <3>2, <3>4, <6>2 DEF base
            <7>. QED  BY <4>1, <3>8, <7>1 DEF Ours
          <6>. QED  BY <6>1, <6>2
        <5>5. ASSUME NEW q \in Sequence
              PROVE  IF Taken(k, q) THEN x.bound[q] = w.bound[q] ELSE x.bound[q] = base.bound[q]
          BY <3>2, <3>5, <3>6, <4>1, <5>3, <5>4
        <5>6. x \in All /\ x.prefixes = base.prefixes  BY <3>2, <5>3 DEF All
        <5>. HIDE DEF step
        <5>. QED  BY <5>1, <5>5, <5>6
      <4>2. CASE ~(b \in picked /\ Ours(m, b))
        <5>1. step(m, b) = m  BY <4>2
        <5>2. b \in picked /\ Ours(at.map, b) => Taken(k - 1, b.seq)
          <6>1. SUFFICES ASSUME b \in picked, Ours(at.map, b), ~Taken(k - 1, b.seq) PROVE FALSE
            OBVIOUS
          <6>2. m.bound[b.seq] = at.map.bound[b.seq]  BY <3>2, <3>4, <6>1 DEF base
          <6>. QED  BY <4>2, <6>1, <6>2, <3>7, <3>8 DEF Ours
        <5>3. \A q : Taken(k, q) <=> Taken(k - 1, q)  BY <3>6, <5>2
        <5>. HIDE DEF step
        <5>. QED  BY <5>1, <5>3, <3>2
      <4>. QED  BY <4>1, <4>2
    <3>11. step(m, b) \in All  BY <3>10
    <3>. HIDE DEF step, Is, C, b, All
    <3>. QED  BY <2>0, <3>0, <3>1, <3>10, <3>11
  <2>3. C[1 .. n] \in P[n]
    <3>. HIDE DEF C, n, Is, All
    <3>1. GoesOn(C, P, n)  BY <2>2 DEF GoesOn
    <3>2. n \in Nat  BY <1>1
    <3>. QED  BY <2>1, <3>1, <3>2, FoldReaches
  <2>4. n \in 0 .. n  BY <1>1
  <2>. HIDE DEF C, n, Is, All
  <2>. QED  BY <2>0, <2>3, <2>4
<1>8. Is(n, r)
  <2>. HIDE DEF C, Is
  <2>. QED  BY <1>1, <1>6, <1>7
<1>9. ASSUME NEW q
      PROVE  Taken(n, q) <=>
               \E b \in ElementsOf(at.table) : b \in picked /\ b.seq = q /\ Ours(at.map, b)
  BY <1>1 DEF ElementsOf
<1>. HIDE DEF Taken
<1>. QED  BY <1>8, <1>9

\* unset_where keeps what a table promises, and takes out what was picked.
LEMMA UnsetWhereOK ==
    ASSUME NEW at, NEW w, w \in Keymaps(Bindings), NEW uses, Good(at, w, uses), NEW picked,
           at \in KeyTables, NEW r, r = UnsetWhere(at, picked)
    PROVE  /\ r \in KeyTables /\ Good(r, w, uses)
           /\ ElementsOf(r.table) = ElementsOf(at.table) \ picked
<1>1. /\ r.map \in Keymaps(Bindings) /\ r.map.prefixes = at.map.prefixes
      /\ \A q \in Sequence :
           IF \E b \in ElementsOf(at.table) : b \in picked /\ b.seq = q /\ Ours(at.map, b)
           THEN r.map.bound[q] = w.bound[q] ELSE r.map.bound[q] = at.map.bound[q]
  <2>. DEFINE m == r.map
  <2>1. m = UnsetWhere(at, picked).map  OBVIOUS
  <2>. HIDE DEF m
  <2>2. /\ m \in Keymaps(Bindings) /\ m.prefixes = at.map.prefixes
        /\ \A q \in Sequence :
             IF \E b \in ElementsOf(at.table) : b \in picked /\ b.seq = q /\ Ours(at.map, b)
             THEN m.bound[q] = w.bound[q] ELSE m.bound[q] = at.map.bound[q]
    BY ONLY Good(at, w, uses), w \in Keymaps(Bindings), at \in KeyTables, <2>1, UnsetMapIs
  <2>. QED  BY <2>2 DEF m
<1>2. r.table \in Seq(Bounds) /\ ElementsOf(r.table) = ElementsOf(at.table) \ picked
  <2>1. at.table \in Seq(Bounds)  BY DEF Good
  <2>2. r.table = Only(at.table, ElementsOf(at.table) \ picked)  BY DEF UnsetWhere, KeyTables
  <2>3. ElementsOf(at.table) \cap (ElementsOf(at.table) \ picked) = ElementsOf(at.table) \ picked
    OBVIOUS
  <2>. QED  BY <2>1, <2>2, <2>3, OnlyIs
<1>3. r.tty = at.tty /\ r = [map |-> r.map, tty |-> r.tty, table |-> r.table]
  BY DEF UnsetWhere, KeyTables
<1>4. r \in KeyTables
  <2>1. r.tty \in BOOLEAN  BY <1>3 DEF Good
  <2>. QED  BY <1>1, <1>2, <1>3, <2>1 DEF KeyTables
<1>5. \A b \in ElementsOf(at.table) : b \in Bounds /\ b.seq \in Sequence /\ Reached(at.map, b.seq)
  <2>1. \A b \in ElementsOf(at.table) : b \in Bounds  BY DEF Good, ElementsOf
  <2>. QED  BY <2>1 DEF Bounds, Good, TableOK
<1>6. \A q : Reached(r.map, q) <=> Reached(at.map, q)  BY <1>1 DEF Reached
<1>7. \A b, c \in ElementsOf(at.table) : b.seq = c.seq => b = c  BY DEF Good, TableOK
<1>8. TableOK(r)  BY <1>2, <1>3, <1>6 DEF TableOK, Good
<1>9. ReachedOK(r.map)  BY <1>1, <1>5, <1>6 DEF ReachedOK, Good
<1>10. ASSUME NEW q \in Sequence
       PROVE  IF \E b \in ElementsOf(r.table) : b.seq = q /\ Ours(r.map, b)
              THEN \A b \in ElementsOf(r.table) : b.seq = q => b.saved.binding = w.bound[q]
              ELSE r.map.bound[q] = w.bound[q]
  <2>0. IF \E b \in ElementsOf(at.table) : b.seq = q /\ Ours(at.map, b)
        THEN \A b \in ElementsOf(at.table) : b.seq = q => b.saved.binding = w.bound[q]
        ELSE at.map.bound[q] = w.bound[q]
    BY DEF Good, UnderOK
  <2>1. CASE \E b \in ElementsOf(r.table) : b.seq = q /\ Ours(r.map, b)
    <3>1. PICK e \in ElementsOf(r.table) : e.seq = q /\ Ours(r.map, e)  BY <2>1
    <3>2. e \in ElementsOf(at.table) /\ e \notin picked  BY <1>2
    <3>3. r.map.bound[q] = at.map.bound[q]  BY <1>1, <1>7, <3>1, <3>2
    <3>4. Ours(at.map, e)  BY <1>6, <3>1, <3>3 DEF Ours
    <3>. QED  BY <1>2, <2>0, <2>1, <3>1, <3>2, <3>4
  <2>2. CASE ~\E b \in ElementsOf(r.table) : b.seq = q /\ Ours(r.map, b)
    <3>1. CASE \E b \in ElementsOf(at.table) : b \in picked /\ b.seq = q /\ Ours(at.map, b)
      BY <1>1, <2>2, <3>1
    <3>2. CASE ~\E b \in ElementsOf(at.table) : b \in picked /\ b.seq = q /\ Ours(at.map, b)
      <4>1. r.map.bound[q] = at.map.bound[q]  BY <1>1, <3>2
      <4>2. ASSUME NEW e \in ElementsOf(at.table), e.seq = q PROVE ~Ours(at.map, e)
        <5>1. CASE e \in picked  BY <3>2, <4>2, <5>1
        <5>2. CASE e \notin picked
          <6>1. ~Ours(r.map, e)  BY <1>2, <2>2, <4>2, <5>2
          <6>. QED  BY <1>6, <4>1, <4>2, <6>1 DEF Ours
        <5>. QED  BY <5>1, <5>2
      <4>. QED  BY <2>0, <2>2, <4>1, <4>2
    <3>. QED  BY <3>1, <3>2
  <2>. QED  BY <2>1, <2>2
<1>11. UnderOK(r, w)  BY <1>10 DEF UnderOK
<1>12. RunOK(r.table, uses)  BY <1>2 DEF RunOK, Good
<1>. QED  BY <1>1, <1>2, <1>3, <1>4, <1>8, <1>9, <1>11, <1>12 DEF Good, KeyTables

\* bind_seq keeps what a table promises.
LEMMA BindSeqKeeps ==
    ASSUME NEW w, NEW uses, NEW at, Good(at, w, uses), at \in KeyTables \/ at \in LeftTables,
           NEW seq \in Sequence, NEW desc \in Seq(Sequence), NEW command \in Given,
           NEW function \in Bindings, NEW group \in Groups \cup {NoGroup, "multi-line"},
           RunsAs(function, command, uses)
    PROVE  /\ Good(BindSeq(at, seq, desc, command, function, group), w, uses)
           /\ at \in KeyTables => BindSeq(at, seq, desc, command, function, group) \in KeyTables
           /\ at \in LeftTables => BindSeq(at, seq, desc, command, function, group) \in LeftTables
<1>. DEFINE r == BindSeq(at, seq, desc, command, function, group)
            b == [seq |-> seq, key |-> desc, command |-> command,
                  function |-> function, group |-> group, saved |-> Saved(at, seq)]
            map1 == Bind(at.map, seq, function)
            tty1 == TtyAfter(at, seq)
            table1 == Append(Only(at.table, {c \in ElementsOf(at.table) : c.seq # seq}), b)
<1>1. r = [at EXCEPT !.map = map1, !.tty = tty1, !.table = table1]  BY DEF BindSeq
<1>. HIDE DEF r, map1, tty1, table1
<1>2. at \in KeyTables => r = [map |-> map1, tty |-> tty1, table |-> table1]
  BY <1>1 DEF KeyTables
<1>3. at \in LeftTables =>
        r = [map |-> map1, tty |-> tty1, table |-> table1, left |-> at.left]
  BY <1>1 DEF LeftTables
<1>4. r.map = map1 /\ r.tty = tty1 /\ r.table = table1  BY <1>2, <1>3
<1>5. Good(r, w, uses)  BY <1>4, BindSeqOK DEF map1, tty1, table1
<1>6. r.map \in Keymaps(Bindings) /\ r.tty \in BOOLEAN /\ r.table \in Seq(Bounds)
  BY <1>5 DEF Good
<1>7. at \in KeyTables => r \in KeyTables
  BY <1>2, <1>4, <1>6 DEF KeyTables
<1>8. at \in LeftTables => r \in LeftTables
  BY <1>3, <1>4, <1>6 DEF LeftTables
<1>. QED  BY <1>5, <1>7, <1>8 DEF r

\* keymap-global-set binds every sequence of the key.
LEMMA BoundAllOK ==
    ASSUME NEW w, NEW uses, NEW at \in KeyTables, Good(at, w, uses),
           NEW desc \in Seq(Sequence), NEW command \in Given, NEW function \in Bindings,
           RunsAs(function, command, uses)
    PROVE  /\ BoundAll(at, desc, command, function) \in KeyTables
           /\ Good(BoundAll(at, desc, command, function), w, uses)
<1>. DEFINE All == {t \in KeyTables : Good(t, w, uses)}
            list == desc
            base == at
            step(t, seq) == BindSeq(t, seq, desc, command, function, NoGroup)
<1>. DEFINE n == Len(list)
            F == [p \in All \X (1 .. n) |-> step(p[1], list[p[2]])]
<1>1. n \in Nat /\ DOMAIN list = 1 .. n /\ base \in All /\ \A i \in 1 .. n : list[i] \in Sequence
  OBVIOUS
<1>2. F \in [All \X (1 .. n) -> All]
  <2>1. ASSUME NEW t \in All, NEW i \in 1 .. n PROVE step(t, list[i]) \in All
    <3>1. list[i] \in Sequence  BY <1>1
    <3>. HIDE DEF list, n
    <3>. QED  BY <3>1, BindSeqKeeps
  <2>. HIDE DEF All, list, n, step
  <2>. QED  BY <2>1
<1>3. PICK I : Folds(I, n, All, base, F)
  <2>. HIDE DEF n, F, All, base
  <2>. QED  BY <1>1, <1>2, FoldIs
<1>4. I = [s \in SUBSET (1 .. n) |->
             IF s = {} THEN base ELSE step(I[s \ {Max(s)}], list[Max(s)])]
  <2>1. ASSUME NEW s \in SUBSET (1 .. n), s # {}
        PROVE  F[<<I[s \ {Max(s)}], Max(s)>>] = step(I[s \ {Max(s)}], list[Max(s)])
    <3>1. Max(s) \in 1 .. n  BY <2>1, <1>1, MaxOfPlaces
    <3>2. I[s \ {Max(s)}] \in All  BY <1>3 DEF Folds
    <3>. HIDE DEF All, list, step, n
    <3>. QED  BY <3>1, <3>2
  <2>. HIDE DEF F, step, base, list, n, All
  <2>. QED  BY <1>3, <2>1 DEF Folds
<1>. DEFINE C == CHOOSE iter : iter = [s \in SUBSET (DOMAIN list) |->
             IF s = {} THEN base ELSE step(iter[s \ {Max(s)}], list[Max(s)])]
<1>5. C = [s \in SUBSET (DOMAIN list) |->
             IF s = {} THEN base ELSE step(C[s \ {Max(s)}], list[Max(s)])]
  <2>. HIDE DEF step, base, list, n
  <2>. QED  BY <1>1, <1>4
<1>6. BoundAll(at, desc, command, function) = C[DOMAIN list]
  BY DEF BoundAll, FoldLeft, MapThenFoldSet
<1>7. C[1 .. n] \in All
  <2>1. C[{}] \in All
    <3>. HIDE DEF C, step, base, list, n, All
    <3>. QED  BY <1>1, <1>5
  <2>2. ASSUME NEW k \in 1 .. n, C[1 .. (k - 1)] \in All PROVE C[1 .. k] \in All
    <3>1. C[1 .. k] = step(C[1 .. (k - 1)], list[k])
      <4>. HIDE DEF C, step, base, list, n, All
      <4>. QED  BY <1>1, <1>5, LastPlace
    <3>2. <<C[1 .. (k - 1)], k>> \in All \X (1 .. n)
      <4>. HIDE DEF C, n, All
      <4>. QED  BY <2>2
    <3>3. F[<<C[1 .. (k - 1)], k>>] = step(C[1 .. (k - 1)], list[k])
      <4>. HIDE DEF C, step, list, n, All
      <4>. QED  BY <3>2
    <3>. HIDE DEF C, step, base, list, n, All, F
    <3>. QED  BY <1>2, <3>1, <3>2, <3>3
  <2>. HIDE DEF C, step, base, list, n, All
  <2>. QED  BY <1>1, <2>1, <2>2, FoldStays
<1>. QED
  <2>. HIDE DEF C, list, n, step
  <2>. QED  BY <1>1, <1>6, <1>7

\* inkline-unbind-defaults binds the menu's keys that still move.
LEMMA MenuBoundOK ==
    ASSUME NEW w, NEW uses, NEW at \in KeyTables, Good(at, w, uses), NEW kept \in Seq(Bounds),
           \A b \in ElementsOf(kept) : /\ b.command \in DOMAIN MenuFallback
                                       /\ b.saved.binding \in DOMAIN MenuFallback[b.command]
    PROVE  MenuKeysBound(at, kept) \in KeyTables /\ Good(MenuKeysBound(at, kept), w, uses)
<1>. DEFINE All == {t \in KeyTables : Good(t, w, uses)}
            list == kept
            base == at
            step(t, b) == BindSeq(t, b.seq, b.key, Moves(b), Moves(b), "multi-line")
<1>. DEFINE n == Len(list)
            F == [p \in All \X (1 .. n) |-> step(p[1], list[p[2]])]
<1>1. n \in Nat /\ DOMAIN list = 1 .. n /\ base \in All /\ \A i \in 1 .. n : list[i] \in Bounds
  OBVIOUS
<1>2. F \in [All \X (1 .. n) -> All]
  <2>1. ASSUME NEW t \in All, NEW i \in 1 .. n PROVE step(t, list[i]) \in All
    <3>. DEFINE b == list[i]
                runs == Moves(b)
    <3>1. b \in Bounds /\ b \in ElementsOf(kept)  BY <1>1 DEF ElementsOf
    <3>2. b.seq \in Sequence /\ b.key \in Seq(Sequence)  BY <3>1 DEF Bounds
    <3>3. runs \in OtherCommands
      <4>1. b.command \in DOMAIN MenuFallback /\ b.saved.binding \in DOMAIN MenuFallback[b.command]
        BY <3>1
      <4>2. runs = MenuFallback[b.command][b.saved.binding]  BY DEF Moves
      <4>. HIDE DEF runs, b
      <4>3. runs \in UNION {Range(MenuFallback[c]) : c \in DOMAIN MenuFallback}
        BY <4>1, <4>2 DEF Range
      <4>. QED  BY <4>3 DEF OtherCommands
    <3>4. step(t, b) = BindSeq(t, b.seq, b.key, runs, runs, "multi-line")  OBVIOUS
    <3>. HIDE DEF b, runs, step, list
    <3>5. runs \in Bindings /\ runs \in Given  BY <3>3 DEF Bindings, Given
    <3>6. RunsAs(runs, runs, uses)  BY <3>3, NamesAssumption DEF RunsAs
    <3>7. step(t, b) \in All  BY <3>2, <3>4, <3>5, <3>6, BindSeqKeeps
    <3>. QED  BY <3>7 DEF b
  <2>. HIDE DEF All, list, n, step
  <2>. QED  BY <2>1
<1>3. PICK I : Folds(I, n, All, base, F)
  <2>. HIDE DEF n, F, All, base
  <2>. QED  BY <1>1, <1>2, FoldIs
<1>4. I = [s \in SUBSET (1 .. n) |->
             IF s = {} THEN base ELSE step(I[s \ {Max(s)}], list[Max(s)])]
  <2>1. ASSUME NEW s \in SUBSET (1 .. n), s # {}
        PROVE  F[<<I[s \ {Max(s)}], Max(s)>>] = step(I[s \ {Max(s)}], list[Max(s)])
    <3>1. Max(s) \in 1 .. n  BY <2>1, <1>1, MaxOfPlaces
    <3>2. I[s \ {Max(s)}] \in All  BY <1>3 DEF Folds
    <3>. HIDE DEF All, list, step, n
    <3>. QED  BY <3>1, <3>2
  <2>. HIDE DEF F, step, base, list, n, All
  <2>. QED  BY <1>3, <2>1 DEF Folds
<1>. DEFINE C == CHOOSE iter : iter = [s \in SUBSET (DOMAIN list) |->
             IF s = {} THEN base ELSE step(iter[s \ {Max(s)}], list[Max(s)])]
<1>5. C = [s \in SUBSET (DOMAIN list) |->
             IF s = {} THEN base ELSE step(C[s \ {Max(s)}], list[Max(s)])]
  <2>. HIDE DEF step, base, list, n
  <2>. QED  BY <1>1, <1>4
<1>6. MenuKeysBound(at, kept) = C[DOMAIN list]
  BY DEF MenuKeysBound, FoldLeft, MapThenFoldSet
<1>7. C[1 .. n] \in All
  <2>1. C[{}] \in All
    <3>. HIDE DEF C, step, base, list, n, All
    <3>. QED  BY <1>1, <1>5
  <2>2. ASSUME NEW k \in 1 .. n, C[1 .. (k - 1)] \in All PROVE C[1 .. k] \in All
    <3>1. C[1 .. k] = step(C[1 .. (k - 1)], list[k])
      <4>. HIDE DEF C, step, base, list, n, All
      <4>. QED  BY <1>1, <1>5, LastPlace
    <3>2. <<C[1 .. (k - 1)], k>> \in All \X (1 .. n)
      <4>. HIDE DEF C, n, All
      <4>. QED  BY <2>2
    <3>3. F[<<C[1 .. (k - 1)], k>>] = step(C[1 .. (k - 1)], list[k])
      <4>. HIDE DEF C, step, list, n, All
      <4>. QED  BY <3>2
    <3>. HIDE DEF C, step, base, list, n, All, F
    <3>. QED  BY <1>2, <3>1, <3>2, <3>3
  <2>. HIDE DEF C, step, base, list, n, All
  <2>. QED  BY <1>1, <2>1, <2>2, FoldStays
<1>. QED
  <2>. HIDE DEF C, list, n, step
  <2>. QED  BY <1>1, <1>6, <1>7

\* Every sequence of the layout, with its entry.
LEMMA LayoutSeqsAre == LayoutSeqs \in Seq([entry : Range(Layout), seq : Sequence])
<1>. DEFINE All == Seq([entry : Range(Layout), seq : Sequence])
            list == Layout
            base == <<>>
            step(acc, e) == acc \o [i \in DOMAIN e.seqs |-> [entry |-> e, seq |-> e.seqs[i]]]
<1>. DEFINE n == Len(list)
            F == [p \in All \X (1 .. n) |-> step(p[1], list[p[2]])]
<1>1. n \in Nat /\ DOMAIN list = 1 .. n /\ base \in All /\ \A i \in 1 .. n : list[i] \in Range(Layout)
  BY KeysAssumption
<1>2. F \in [All \X (1 .. n) -> All]
  <2>1. ASSUME NEW t \in All, NEW i \in 1 .. n PROVE step(t, list[i]) \in All
    <3>1. list[i] \in Range(Layout)  BY <1>1
    <3>2. list[i].seqs \in Seq(Sequence)  BY <3>1, KeysAssumption
    <3>. DEFINE e == list[i]
                more == [j \in DOMAIN e.seqs |-> [entry |-> e, seq |-> e.seqs[j]]]
    <3>3. \A j \in DOMAIN e.seqs : [entry |-> e, seq |-> e.seqs[j]] \in [entry : Range(Layout), seq : Sequence]
      BY <3>1, <3>2
    <3>4. more \in All
      <4>. DEFINE Ones == [entry : Range(Layout), seq : Sequence]
      <4>1. e.seqs \in Seq(Sequence)  BY <3>2
      <4>2. \A j \in DOMAIN e.seqs : more[j] \in Ones  BY <3>3
      <4>. HIDE DEF Ones, e
      <4>3. more \in Seq(Ones)
        <5>1. PICK N \in Nat : DOMAIN e.seqs = 1 .. N  BY <4>1
        <5>2. more \in [1 .. N -> Ones]  BY <4>2, <5>1
        <5>. HIDE DEF more
        <5>. QED  BY <5>2
      <4>. QED  BY <4>3 DEF Ones
    <3>5. step(t, e) = t \o more  OBVIOUS
    <3>. HIDE DEF more, step, e
    <3>6. step(t, e) \in All  BY <3>4, <3>5
    <3>. QED  BY <3>6 DEF e
  <2>. HIDE DEF All, list, n, step
  <2>. QED  BY <2>1
<1>3. PICK I : Folds(I, n, All, base, F)
  <2>. HIDE DEF n, F, All, base
  <2>. QED  BY <1>1, <1>2, FoldIs
<1>4. I = [s \in SUBSET (1 .. n) |->
             IF s = {} THEN base ELSE step(I[s \ {Max(s)}], list[Max(s)])]
  <2>1. ASSUME NEW s \in SUBSET (1 .. n), s # {}
        PROVE  F[<<I[s \ {Max(s)}], Max(s)>>] = step(I[s \ {Max(s)}], list[Max(s)])
    <3>1. Max(s) \in 1 .. n  BY <2>1, <1>1, MaxOfPlaces
    <3>2. I[s \ {Max(s)}] \in All  BY <1>3 DEF Folds
    <3>. HIDE DEF All, list, step, n
    <3>. QED  BY <3>1, <3>2
  <2>. HIDE DEF F, step, base, list, n, All
  <2>. QED  BY <1>3, <2>1 DEF Folds
<1>. DEFINE C == CHOOSE iter : iter = [s \in SUBSET (DOMAIN list) |->
             IF s = {} THEN base ELSE step(iter[s \ {Max(s)}], list[Max(s)])]
<1>5. C = [s \in SUBSET (DOMAIN list) |->
             IF s = {} THEN base ELSE step(C[s \ {Max(s)}], list[Max(s)])]
  <2>. HIDE DEF step, base, list, n
  <2>. QED  BY <1>1, <1>4
<1>6. LayoutSeqs = C[DOMAIN list]
  BY DEF LayoutSeqs, FoldLeft, MapThenFoldSet
<1>7. C[1 .. n] \in All
  <2>1. C[{}] \in All
    <3>. HIDE DEF C, step, base, list, n, All
    <3>. QED  BY <1>1, <1>5
  <2>2. ASSUME NEW k \in 1 .. n, C[1 .. (k - 1)] \in All PROVE C[1 .. k] \in All
    <3>1. C[1 .. k] = step(C[1 .. (k - 1)], list[k])
      <4>. HIDE DEF C, step, base, list, n, All
      <4>. QED  BY <1>1, <1>5, LastPlace
    <3>2. <<C[1 .. (k - 1)], k>> \in All \X (1 .. n)
      <4>. HIDE DEF C, n, All
      <4>. QED  BY <2>2
    <3>3. F[<<C[1 .. (k - 1)], k>>] = step(C[1 .. (k - 1)], list[k])
      <4>. HIDE DEF C, step, list, n, All
      <4>. QED  BY <3>2
    <3>. HIDE DEF C, step, base, list, n, All, F
    <3>. QED  BY <1>2, <3>1, <3>2, <3>3
  <2>. HIDE DEF C, step, base, list, n, All
  <2>. QED  BY <1>1, <2>1, <2>2, FoldStays
<1>. QED
  <2>. HIDE DEF C, list, n, step
  <2>. QED  BY <1>1, <1>6, <1>7

\* bind_defaults binds the layout over the defaults.
LEMMA DefaultsBoundOK ==
    ASSUME NEW w, NEW uses, NEW at, Good(at, w, uses)
    PROVE  DefaultsBound(at) \in LeftTables /\ Good(DefaultsBound(at), w, uses)
<1>. DEFINE All == {t \in LeftTables : Good(t, w, uses)}
            list == LayoutSeqs
            base == [map |-> at.map, tty |-> at.tty, table |-> at.table, left |-> <<>>]
            step(acc, one) ==
                IF HasDefault(acc.map, one.seq, one.entry.defaults)
                THEN BindSeq(acc, one.seq, one.entry.seqs, one.entry.command,
                             one.entry.command, one.entry.group)
                ELSE [acc EXCEPT !.left = Append(@, one.seq)]
<1>. DEFINE n == Len(list)
            F == [p \in All \X (1 .. n) |-> step(p[1], list[p[2]])]
<1>1. n \in Nat /\ DOMAIN list = 1 .. n /\ base \in All /\ \A i \in 1 .. n : list[i] \in [entry : Range(Layout), seq : Sequence]
  <2>1. list \in Seq([entry : Range(Layout), seq : Sequence])  BY LayoutSeqsAre
  <2>2. at.map \in Keymaps(Bindings) /\ at.tty \in BOOLEAN /\ at.table \in Seq(Bounds)
    BY DEF Good
  <2>3. base \in LeftTables  BY <2>2 DEF LeftTables
  <2>4. Good(base, w, uses)  BY DEF Good, TableOK, UnderOK
  <2>5. n \in Nat /\ DOMAIN list = 1 .. n
        /\ \A i \in 1 .. n : list[i] \in [entry : Range(Layout), seq : Sequence]
    <3>. DEFINE Ones == [entry : Range(Layout), seq : Sequence]
    <3>1. list \in Seq(Ones)  BY <2>1
    <3>. HIDE DEF list, Ones
    <3>2. n \in Nat /\ DOMAIN list = 1 .. n /\ \A i \in 1 .. n : list[i] \in Ones  BY <3>1
    <3>. QED  BY <3>2 DEF Ones
  <2>. HIDE DEF list, base, n
  <2>. QED  BY <2>3, <2>4, <2>5
<1>2. F \in [All \X (1 .. n) -> All]
  <2>1. ASSUME NEW t \in All, NEW i \in 1 .. n PROVE step(t, list[i]) \in All
    <3>. DEFINE one == list[i]
                e == one.entry
    <3>1. one \in [entry : Range(Layout), seq : Sequence]  BY <1>1
    <3>2. e \in Range(Layout) /\ one.seq \in Sequence /\ e.seqs \in Seq(Sequence)
      BY <3>1, KeysAssumption
    <3>3. e.command \in OtherCommands /\ e.group \in Groups
      <4>1. e.command \in OtherCommands  BY <3>2 DEF OtherCommands
      <4>2. e.group \in Groups  BY <3>2 DEF Groups, Range
      <4>. QED  BY <4>1, <4>2
    <3>. HIDE DEF one, list
    <3>4. CASE HasDefault(t.map, one.seq, e.defaults)
      <4>1. step(t, one) = BindSeq(t, one.seq, e.seqs, e.command, e.command, e.group)  BY <3>4
      <4>. HIDE DEF step, e
      <4>2. e.command \in Bindings /\ e.command \in Given  BY <3>3 DEF Bindings, Given
      <4>3. RunsAs(e.command, e.command, uses)  BY <3>3, NamesAssumption DEF RunsAs
      <4>4. step(t, one) \in All  BY <3>2, <3>3, <4>1, <4>2, <4>3, BindSeqKeeps
      <4>. QED  BY <4>4 DEF one
    <3>5. CASE ~HasDefault(t.map, one.seq, e.defaults)
      <4>1. step(t, one) = [t EXCEPT !.left = Append(@, one.seq)]  BY <3>5
      <4>. HIDE DEF step
      <4>2. Append(t.left, one.seq) \in Seq(Sequence)  BY <3>2 DEF LeftTables
      <4>. DEFINE x == step(t, one)
      <4>3. x = [map |-> t.map, tty |-> t.tty, table |-> t.table, left |-> Append(t.left, one.seq)]
        BY <4>1 DEF LeftTables
      <4>. HIDE DEF x
      <4>4. x \in LeftTables  BY <4>2, <4>3 DEF LeftTables
      <4>5. x.map = t.map /\ x.tty = t.tty /\ x.table = t.table  BY <4>3
      <4>6. Good(x, w, uses)  BY <4>5 DEF Good, TableOK, UnderOK
      <4>. QED  BY <4>4, <4>6 DEF x, one
    <3>. QED  BY <3>4, <3>5
  <2>. HIDE DEF All, list, n, step
  <2>. QED  BY <2>1
<1>3. PICK I : Folds(I, n, All, base, F)
  <2>. HIDE DEF n, F, All, base
  <2>. QED  BY <1>1, <1>2, FoldIs
<1>4. I = [s \in SUBSET (1 .. n) |->
             IF s = {} THEN base ELSE step(I[s \ {Max(s)}], list[Max(s)])]
  <2>1. ASSUME NEW s \in SUBSET (1 .. n), s # {}
        PROVE  F[<<I[s \ {Max(s)}], Max(s)>>] = step(I[s \ {Max(s)}], list[Max(s)])
    <3>1. Max(s) \in 1 .. n  BY <2>1, <1>1, MaxOfPlaces
    <3>2. I[s \ {Max(s)}] \in All  BY <1>3 DEF Folds
    <3>. HIDE DEF All, list, step, n
    <3>. QED  BY <3>1, <3>2
  <2>. HIDE DEF F, step, base, list, n, All
  <2>. QED  BY <1>3, <2>1 DEF Folds
<1>. DEFINE C == CHOOSE iter : iter = [s \in SUBSET (DOMAIN list) |->
             IF s = {} THEN base ELSE step(iter[s \ {Max(s)}], list[Max(s)])]
<1>5. C = [s \in SUBSET (DOMAIN list) |->
             IF s = {} THEN base ELSE step(C[s \ {Max(s)}], list[Max(s)])]
  <2>. HIDE DEF step, base, list, n
  <2>. QED  BY <1>1, <1>4
<1>6. DefaultsBound(at) = C[DOMAIN list]
  BY DEF DefaultsBound, FoldLeft, MapThenFoldSet
<1>7. C[1 .. n] \in All
  <2>1. C[{}] \in All
    <3>. HIDE DEF C, step, base, list, n, All
    <3>. QED  BY <1>1, <1>5
  <2>2. ASSUME NEW k \in 1 .. n, C[1 .. (k - 1)] \in All PROVE C[1 .. k] \in All
    <3>1. C[1 .. k] = step(C[1 .. (k - 1)], list[k])
      <4>. HIDE DEF C, step, base, list, n, All
      <4>. QED  BY <1>1, <1>5, LastPlace
    <3>2. <<C[1 .. (k - 1)], k>> \in All \X (1 .. n)
      <4>. HIDE DEF C, n, All
      <4>. QED  BY <2>2
    <3>3. F[<<C[1 .. (k - 1)], k>>] = step(C[1 .. (k - 1)], list[k])
      <4>. HIDE DEF C, step, list, n, All
      <4>. QED  BY <3>2
    <3>. HIDE DEF C, step, base, list, n, All, F
    <3>. QED  BY <1>2, <3>1, <3>2, <3>3
  <2>. HIDE DEF C, step, base, list, n, All
  <2>. QED  BY <1>1, <2>1, <2>2, FoldStays
<1>. QED
  <2>. HIDE DEF C, list, n, step
  <2>. QED  BY <1>1, <1>6, <1>7
-----------------------------------------------------------------------------
(* The slots. *)

\* What Least picks.
LEMMA LeastIs ==
    ASSUME NEW set, set \subseteq Nat, set # {}
    PROVE  Least(set) \in set /\ \A m \in set : Least(set) <= m
  BY LowestIs DEF Least

\* assign_slot gives a command a slot of its own, and takes none from another.
LEMMA AssignedIs ==
    ASSUME NEW uses \in Seq(Uses), Len(uses) <= SlotCount, NEW command \in LispCommands,
           NEW assigned, assigned = Assigned(uses, command)
    PROVE  /\ assigned.slots \in Seq(Uses) /\ Len(assigned.slots) <= SlotCount
           /\ \A n \in DOMAIN uses : /\ n \in DOMAIN assigned.slots
                                     /\ uses[n] # <<>> => assigned.slots[n] = uses[n]
           /\ \/ assigned.slot = <<>>
              \/ /\ assigned.slot[1] \in DOMAIN assigned.slots /\ assigned.slot # <<>>
                 /\ assigned.slots[assigned.slot[1]] = <<command>>
<1>0. /\ Len(uses) \in Nat /\ DOMAIN uses = 1 .. Len(uses) /\ <<command>> \in Uses
      /\ SlotsOf(uses, command) \subseteq DOMAIN uses /\ FreeSlots(uses) \subseteq DOMAIN uses
  BY DEF Uses, SlotsOf, FreeSlots
<1>1. CASE SlotsOf(uses, command) # {}
  <2>1. PICK n \in SlotsOf(uses, command) : n = Least(SlotsOf(uses, command))
    <3>1. SlotsOf(uses, command) \subseteq Nat  BY <1>0
    <3>. QED  BY <1>1, <3>1, LeastIs
  <2>2. assigned = [slots |-> uses, slot |-> <<n>>]  BY <1>1, <2>1 DEF Assigned
  <2>3. n \in DOMAIN uses /\ uses[n] = <<command>>  BY <2>1 DEF SlotsOf
  <2>. QED  BY <2>2, <2>3
<1>2. CASE SlotsOf(uses, command) = {} /\ FreeSlots(uses) # {}
  <2>1. PICK n \in FreeSlots(uses) : n = Least(FreeSlots(uses))
    <3>1. FreeSlots(uses) \subseteq Nat  BY <1>0
    <3>. QED  BY <1>2, <3>1, LeastIs
  <2>2. assigned = [slots |-> [uses EXCEPT ![n] = <<command>>], slot |-> <<n>>]
    BY <1>2, <2>1 DEF Assigned
  <2>3. n \in DOMAIN uses /\ uses[n] = <<>>  BY <2>1 DEF FreeSlots
  <2>. DEFINE now == [uses EXCEPT ![n] = <<command>>]
  <2>4. now \in Seq(Uses) /\ Len(now) = Len(uses) /\ DOMAIN now = DOMAIN uses
        /\ now[n] = <<command>> /\ \A m \in DOMAIN uses : m # n => now[m] = uses[m]
    BY <1>0, <2>3
  <2>. HIDE DEF now
  <2>5. assigned.slots = now /\ assigned.slot = <<n>>  BY <2>2 DEF now
  <2>. QED  BY <2>3, <2>4, <2>5
<1>3. CASE SlotsOf(uses, command) = {} /\ FreeSlots(uses) = {} /\ Len(uses) < SlotCount
  <2>. DEFINE now == Append(uses, <<command>>)
  <2>1. assigned = [slots |-> now, slot |-> <<Len(uses) + 1>>]  BY <1>3 DEF Assigned
  <2>2. SlotCount \in Nat  BY KeysAssumption DEF SlotCount
  <2>3. now \in Seq(Uses) /\ Len(now) = Len(uses) + 1 /\ Len(now) <= SlotCount
        /\ DOMAIN now = 1 .. Len(uses) + 1
        /\ now[Len(uses) + 1] = <<command>> /\ \A m \in DOMAIN uses : now[m] = uses[m]
    BY <1>0, <1>3, <2>2
  <2>. HIDE DEF now
  <2>. QED  BY <1>0, <2>1, <2>3
<1>4. CASE SlotsOf(uses, command) = {} /\ FreeSlots(uses) = {} /\ ~(Len(uses) < SlotCount)
  <2>1. assigned = [slots |-> uses, slot |-> <<>>]  BY <1>4 DEF Assigned
  <2>. QED  BY <2>1
<1>. QED  BY <1>1, <1>2, <1>3, <1>4

\* The function of a slot is that of no other.
LEMMA SlotFunctionsDiffer ==
    ASSUME NEW m \in 1 .. SlotCount, NEW n \in 1 .. SlotCount, SlotFunctions[m] = SlotFunctions[n]
    PROVE  m = n
  BY KeysAssumption DEF SlotCount, IsInjective

\* A slot's function is one of Lisp's.
LEMMA SlotRuns ==
    ASSUME NEW n \in 1 .. SlotCount
    PROVE  /\ SlotFunctions[n] \in Bindings /\ IsLispFunction(SlotFunctions[n])
           /\ SlotFunctions[n] # Shared
<1>1. DOMAIN SlotFunctions = 1 .. SlotCount  BY KeysAssumption DEF SlotCount
<1>2. SlotFunctions[n] \in Range(SlotFunctions)  BY <1>1 DEF Range
<1>. QED  BY <1>2, NamesAssumption DEF Bindings, IsLispFunction

\* free_lambda_slots keeps the slot of every key still bound, and of every
\* named command.
LEMMA FreedIs ==
    ASSUME NEW uses \in Seq(Uses), Len(uses) <= SlotCount, NEW t \in Seq(Bounds), RunOK(t, uses)
    PROVE  /\ Freed(uses, t) \in Seq(Uses) /\ Len(Freed(uses, t)) <= SlotCount
           /\ RunOK(t, Freed(uses, t))
           /\ NamedIn(uses) \subseteq NamedIn(Freed(uses, t))
<1>. DEFINE now == Freed(uses, t)
<1>1. now = [n \in DOMAIN uses |->
                IF uses[n] # <<>> /\ uses[n][1] \in Lambdas /\ SlotFunctions[n] \notin InUse(t)
                THEN <<>> ELSE uses[n]]
  BY DEF Freed
<1>. HIDE DEF now
<1>2. /\ DOMAIN now = DOMAIN uses
      /\ \A n \in DOMAIN uses : now[n] = uses[n] \/ (now[n] = <<>> /\ uses[n] # <<>>
              /\ uses[n][1] \in Lambdas /\ SlotFunctions[n] \notin InUse(t))
  BY <1>1
<1>3. now \in Seq(Uses) /\ Len(now) = Len(uses)
  <2>1. PICK k \in Nat : DOMAIN uses = 1 .. k /\ k = Len(uses)  OBVIOUS
  <2>2. <<>> \in Uses /\ \A n \in DOMAIN uses : uses[n] \in Uses  BY DEF Uses
  <2>3. \A n \in 1 .. k : now[n] \in Uses  BY <1>2, <2>1, <2>2
  <2>4. now = [n \in 1 .. k |-> now[n]]  BY <1>1, <2>1
  <2>5. now \in [1 .. k -> Uses]  BY <2>3, <2>4
  <2>. QED  BY <2>1, <2>5
<1>4. RunOK(t, now)
  <2>1. SUFFICES ASSUME NEW b \in ElementsOf(t), IsLispFunction(b.function), b.function # Shared
                 PROVE  \E n \in DOMAIN now :
                            SlotFunctions[n] = b.function /\ now[n] = <<b.command>>
    BY DEF RunOK, RunsAs
  <2>2. PICK n \in DOMAIN uses : SlotFunctions[n] = b.function /\ uses[n] = <<b.command>>
    BY <2>1 DEF RunOK, RunsAs
  <2>3. SlotFunctions[n] \in InUse(t)  BY <2>2 DEF InUse
  <2>. QED  BY <1>2, <2>2, <2>3
<1>5. NamedIn(uses) \subseteq NamedIn(now)
  <2>1. SUFFICES ASSUME NEW n \in DOMAIN uses, uses[n] # <<>>, uses[n][1] \in Named
                 PROVE  SlotFunctions[n] \in NamedIn(now)
    BY DEF NamedIn
  <2>2. uses[n][1] \notin Lambdas  BY <2>1, KeysAssumption
  <2>3. now[n] = uses[n]  BY <1>2, <2>2
  <2>. QED  BY <1>2, <2>1, <2>3 DEF NamedIn
<1>. QED  BY <1>3, <1>4, <1>5 DEF now

\* A table whose slots only get more commands.
LEMMA MoreSlots ==
    ASSUME NEW at, NEW w, NEW uses, NEW more, Good(at, w, uses),
           \A n \in DOMAIN uses : n \in DOMAIN more /\ (uses[n] # <<>> => more[n] = uses[n])
    PROVE  Good(at, w, more) /\ NamedIn(uses) \subseteq NamedIn(more)
<1>1. \A c : <<c>> # <<>>  OBVIOUS
<1>2. RunOK(at.table, more)
  <2>1. SUFFICES ASSUME NEW b \in ElementsOf(at.table) PROVE RunsAs(b.function, b.command, more)
    BY DEF RunOK
  <2>2. RunsAs(b.function, b.command, uses)  BY DEF Good, RunOK
  <2>. QED  BY <1>1, <2>2 DEF RunsAs
<1>3. NamedIn(uses) \subseteq NamedIn(more)
  <2>1. SUFFICES ASSUME NEW n \in DOMAIN uses, uses[n] # <<>>, uses[n][1] \in Named
                 PROVE  SlotFunctions[n] \in NamedIn(more)
    BY DEF NamedIn
  <2>. QED  BY <2>1 DEF NamedIn
<1>. QED  BY <1>2, <1>3 DEF Good
-----------------------------------------------------------------------------
(* The invariant. *)

\* A table made and its slots freed hold what they held.
LEMMA FreedHolds ==
    ASSUME NEW at \in KeyTables, NEW w, NEW uses, NEW alone, Held(at, w, uses, alone)
    PROVE  Held(at, w, Freed(uses, at.table), alone)
<1>1. at.table \in Seq(Bounds) /\ RunOK(at.table, uses)  BY DEF Held, Good
<1>2. uses \in Seq(Uses) /\ Len(uses) <= SlotCount  BY DEF Held
<1>. DEFINE now == Freed(uses, at.table)
<1>3. /\ now \in Seq(Uses) /\ Len(now) <= SlotCount /\ RunOK(at.table, now)
      /\ NamedIn(uses) \subseteq NamedIn(now)
  BY <1>1, <1>2, FreedIs
<1>. HIDE DEF now
<1>4. Good(at, w, now)  BY <1>3 DEF Held, Good
<1>. QED  BY <1>3, <1>4 DEF Held, now

\* What the next state holds, from what it is made of.
LEMMA NextHolds ==
    ASSUME NEW at \in KeyTables, map' = at.map, tty' = at.tty, table' = at.table
    PROVE  Now' = at
  BY DEF Now, KeyTables

\* keymap-global-set keeps the invariant.
LEMMA GlobalSetHolds ==
    ASSUME NEW desc \in Descs, NEW command \in LispCommands \cup Readline, KeysInv,
           GlobalSet(desc, command)
    PROVE  KeysInv'
<1>. DEFINE assigned == IF command \in LispCommands THEN Assigned(slots, command)
                     ELSE [slots |-> slots, slot |-> <<>>]
            function == IF command \notin LispCommands THEN command
                        ELSE IF assigned.slot = <<>> THEN Shared
                        ELSE SlotFunctions[assigned.slot[1]]
            at == BoundAll(Now, desc, command, function)
<1>1. /\ Becomes(at) /\ slots' = Freed(assigned.slots, at.table)
      /\ left' = left /\ without' = without
  BY DEF GlobalSet
<1>2. slots \in Seq(Uses) /\ Len(slots) <= SlotCount /\ Now \in KeyTables
  BY DEF KeysInv, Held
<1>3. command \in Given /\ desc \in Seq(Sequence) /\ Shared \in Bindings
  BY KeysAssumption DEF Given, OtherCommands, Bindings
<1>4. /\ assigned.slots \in Seq(Uses) /\ Len(assigned.slots) <= SlotCount
      /\ \A n \in DOMAIN slots : n \in DOMAIN assigned.slots
                                 /\ (slots[n] # <<>> => assigned.slots[n] = slots[n])
      /\ function \in Bindings /\ RunsAs(function, command, assigned.slots)
  <2>1. CASE command \notin LispCommands
    <3>1. command \in OtherCommands  BY <2>1 DEF OtherCommands
    <3>2. command \in Bindings /\ ~IsLispFunction(command)
      BY <3>1, NamesAssumption DEF Bindings
    <3>. QED  BY <1>2, <2>1, <3>2 DEF RunsAs
  <2>2. CASE command \in LispCommands
    <3>1. assigned = Assigned(slots, command)  BY <2>2
    <3>. HIDE DEF assigned
    <3>2. /\ assigned.slots \in Seq(Uses) /\ Len(assigned.slots) <= SlotCount
          /\ \A n \in DOMAIN slots : /\ n \in DOMAIN assigned.slots
                                     /\ slots[n] # <<>> => assigned.slots[n] = slots[n]
          /\ \/ assigned.slot = <<>>
             \/ /\ assigned.slot[1] \in DOMAIN assigned.slots /\ assigned.slot # <<>>
                /\ assigned.slots[assigned.slot[1]] = <<command>>
      BY <1>2, <2>2, <3>1, AssignedIs
    <3>3. CASE assigned.slot = <<>>
      <4>1. function = Shared  BY <2>2, <3>3
      <4>. QED  BY <1>3, <3>2, <4>1 DEF RunsAs
    <3>4. CASE assigned.slot # <<>>
      <4>. DEFINE n == assigned.slot[1]
      <4>1. n \in DOMAIN assigned.slots /\ assigned.slots[n] = <<command>>  BY <3>2, <3>4
      <4>2. function = SlotFunctions[n]  BY <2>2, <3>4
      <4>3. n \in 1 .. SlotCount
        <5>1. SlotCount \in Nat  BY KeysAssumption DEF SlotCount
        <5>2. PICK k \in Nat : k = Len(assigned.slots) /\ DOMAIN assigned.slots = 1 .. k  BY <3>2
        <5>. HIDE DEF n
        <5>. QED  BY <3>2, <4>1, <5>1, <5>2
      <4>. HIDE DEF n, function
      <4>4. function \in Bindings  BY <4>2, <4>3, SlotRuns
      <4>. QED  BY <3>2, <4>1, <4>2, <4>4 DEF RunsAs
    <3>. QED  BY <3>3, <3>4
  <2>. QED  BY <2>1, <2>2
<1>. HIDE DEF assigned, function
<1>5. Good(Now, without, assigned.slots) /\ NamedIn(slots) \subseteq NamedIn(assigned.slots)
  BY <1>4, MoreSlots DEF KeysInv, Held
<1>6. at \in KeyTables /\ Good(at, without, assigned.slots)
  BY <1>2, <1>3, <1>4, <1>5, BoundAllOK
<1>. HIDE DEF at
<1>7. Held(at, without, assigned.slots, left)
  BY <1>4, <1>5, <1>6 DEF KeysInv, Held
<1>8. Held(at, without, slots', left)  BY <1>1, <1>6, <1>7, FreedHolds
<1>9. Now' = at  BY <1>1, <1>6, NextHolds DEF Becomes
<1>. QED  BY <1>1, <1>8, <1>9 DEF KeysInv

\* keymap-global-unset keeps the invariant.
LEMMA GlobalUnsetHolds ==
    ASSUME NEW desc, KeysInv, GlobalUnset(desc)
    PROVE  KeysInv'
<1>. DEFINE at == UnsetWhere(Now, {b \in ElementsOf(table) : b.seq \in ElementsOf(desc)})
<1>1. Becomes(at) /\ slots' = Freed(slots, at.table) /\ left' = left /\ without' = without
  BY DEF GlobalUnset
<1>2. /\ Now \in KeyTables /\ without \in Keymaps(Bindings) /\ Good(Now, without, slots)
  BY DEF KeysInv, Held
<1>3. at \in KeyTables /\ Good(at, without, slots)  BY <1>2, UnsetWhereOK
<1>. HIDE DEF at
<1>4. Held(at, without, slots, left)  BY <1>3 DEF KeysInv, Held
<1>5. Held(at, without, slots', left)  BY <1>1, <1>3, <1>4, FreedHolds
<1>6. Now' = at  BY <1>1, <1>3, NextHolds DEF Becomes
<1>. QED  BY <1>1, <1>5, <1>6 DEF KeysInv

\* inkline-unbind-defaults keeps the invariant.
LEMMA UnbindDefaultsHolds ==
    ASSUME NEW groups, KeysInv, UnbindDefaults(groups)
    PROVE  KeysInv'
<1>. DEFINE one == UnsetWhere(Now, {b \in ElementsOf(table) : b.group \in groups})
            kept == MenuKeysKept(groups)
            at == MenuKeysBound(one, kept)
            tty1 == at.tty \/ \A b \in ElementsOf(at.table) : b.seq \notin DOMAIN TtyKeys
            x == [map |-> at.map, tty |-> tty1, table |-> at.table]
<1>1. /\ map' = at.map /\ table' = at.table /\ tty' = tty1
      /\ slots' = slots /\ left' = left /\ without' = without
  BY DEF UnbindDefaults
<1>2. Now \in KeyTables /\ without \in Keymaps(Bindings) /\ Good(Now, without, slots)
      /\ table \in Seq(Bounds)
  BY DEF KeysInv, Held, Good, Now
<1>3. one \in KeyTables /\ Good(one, without, slots)  BY <1>2, UnsetWhereOK
<1>4. /\ kept \in Seq(Bounds)
      /\ \A b \in ElementsOf(kept) : /\ b.command \in DOMAIN MenuFallback
                                     /\ b.saved.binding \in DOMAIN MenuFallback[b.command]
  <2>. DEFINE set == {b \in ElementsOf(table) :
             /\ b.group = "menu" /\ Ours(map, b)
             /\ b.command \in DOMAIN MenuFallback
             /\ b.saved.binding \in DOMAIN MenuFallback[b.command]}
  <2>1. kept = Only(table, set) \/ kept = <<>>  BY DEF MenuKeysKept
  <2>2. /\ \A b \in set : /\ b.command \in DOMAIN MenuFallback
                          /\ b.saved.binding \in DOMAIN MenuFallback[b.command]
    OBVIOUS
  <2>. HIDE DEF set, kept
  <2>3. Only(table, set) \in Seq(Bounds) /\ ElementsOf(Only(table, set)) = ElementsOf(table) \cap set
    BY <1>2, OnlyIs
  <2>4. <<>> \in Seq(Bounds) /\ ElementsOf(<<>>) = {}  BY DEF ElementsOf
  <2>5. kept \in Seq(Bounds) /\ \A b \in ElementsOf(kept) : b \in set
    <3>1. CASE kept = Only(table, set)  BY <2>3, <3>1
    <3>2. CASE kept = <<>>  BY <2>4, <3>2
    <3>. QED  BY <2>1, <3>1, <3>2
  <2>. QED  BY <2>2, <2>5
<1>. HIDE DEF one, kept
<1>5. at \in KeyTables /\ Good(at, without, slots)  BY <1>3, <1>4, MenuBoundOK
<1>. HIDE DEF at
<1>6. x.map = at.map /\ x.table = at.table /\ x.tty = tty1 /\ tty1 \in BOOLEAN  OBVIOUS
<1>7. TableOK(x)
  <2>1. x.tty => \A b \in ElementsOf(x.table) : b.seq \notin DOMAIN TtyKeys
    BY <1>5, <1>6 DEF Good, TableOK
  <2>. QED  BY <1>5, <1>6, <2>1 DEF Good, TableOK
<1>8. Good(x, without, slots) /\ x \in KeyTables
  <2>1. x.map \in Keymaps(Bindings) /\ x.table \in Seq(Bounds) /\ x.tty \in BOOLEAN
    BY <1>5, <1>6 DEF Good
  <2>2. x = [map |-> x.map, tty |-> x.tty, table |-> x.table]  OBVIOUS
  <2>. HIDE DEF x
  <2>3. UnderOK(x, without) /\ ReachedOK(x.map) /\ RunOK(x.table, slots)
    BY <1>5, <1>6 DEF Good, UnderOK
  <2>. QED  BY <1>7, <2>1, <2>2, <2>3 DEF Good, KeyTables
<1>9. Now' = x  BY <1>1 DEF Now
<1>. HIDE DEF x
<1>10. Held(x, without, slots, left)  BY <1>8 DEF KeysInv, Held
<1>. QED  BY <1>1, <1>9, <1>10 DEF KeysInv

\* What bind_defaults leaves is a table, and the sequences it left alone.
LEMMA LoadedIs ==
    ASSUME NEW at, at \in LeftTables, NEW w, NEW uses, Good(at, w, uses),
           map' = at.map, tty' = at.tty, table' = at.table, left' = at.left
    PROVE  Now' \in KeyTables /\ Good(Now', w, uses) /\ left' \in Seq(Sequence)
<1>. DEFINE x == Now'
<1>1. x.map = at.map /\ x.tty = at.tty /\ x.table = at.table
      /\ x = [map |-> at.map, tty |-> at.tty, table |-> at.table]
  BY DEF Now
<1>2. at.map \in Keymaps(Bindings) /\ at.tty \in BOOLEAN /\ at.table \in Seq(Bounds)
      /\ at.left \in Seq(Sequence)
  BY DEF LeftTables
<1>. HIDE DEF x
<1>3. x \in KeyTables  BY <1>1, <1>2 DEF KeyTables
<1>4. Good(x, w, uses)  BY <1>1 DEF Good, TableOK, UnderOK
<1>. QED  BY <1>2, <1>3, <1>4 DEF x

\* prepare_readline turns bind-tty-special-chars off.
LEMMA TtyOff ==
    ASSUME NEW w, NEW uses, NEW at \in KeyTables, Good(at, w, uses)
    PROVE  Good([at EXCEPT !.tty = FALSE], w, uses)
<1>. DEFINE x == [at EXCEPT !.tty = FALSE]
<1>1. x.map = at.map /\ x.tty = FALSE /\ x.table = at.table  BY DEF KeyTables
<1>. HIDE DEF x
<1>2. TableOK(x) /\ UnderOK(x, w)  BY <1>1 DEF Good, TableOK, UnderOK
<1>3. Good(x, w, uses)  BY <1>1, <1>2 DEF Good
<1>. QED  BY <1>3 DEF x

\* A reload keeps the invariant.
LEMMA ReloadHolds ==
    ASSUME KeysInv, Reload
    PROVE  KeysInv'
<1>. DEFINE restored == UnsetWhere(Now, ElementsOf(table))
            fresh == [restored EXCEPT !.tty = FALSE]
            at == DefaultsBound(fresh)
            uses == Freed(slots, restored.table)
<1>1. /\ map' = at.map /\ tty' = at.tty /\ table' = at.table /\ left' = at.left
      /\ slots' = uses /\ without' = without
  BY DEF Reload
<1>2. Now \in KeyTables /\ without \in Keymaps(Bindings) /\ Good(Now, without, slots)
      /\ Now.table = table
  BY DEF KeysInv, Held, Now
<1>3. restored \in KeyTables /\ Good(restored, without, slots)
      /\ ElementsOf(restored.table) = {}
  <2>1. ElementsOf(table) \ ElementsOf(table) = {}  OBVIOUS
  <2>. QED  BY <1>2, <2>1, UnsetWhereOK
<1>. HIDE DEF restored
<1>4. Held(restored, without, slots, left)  BY <1>3 DEF KeysInv, Held
<1>5. Held(restored, without, uses, left)  BY <1>3, <1>4, FreedHolds
<1>. HIDE DEF uses
<1>6. Good(fresh, without, uses)
  <2>1. Good(restored, without, uses)  BY <1>5 DEF Held
  <2>. QED  BY <1>3, <2>1, TtyOff
<1>. HIDE DEF fresh
<1>7. at \in LeftTables /\ Good(at, without, uses)  BY <1>6, DefaultsBoundOK
<1>. HIDE DEF at
<1>8. Now' \in KeyTables /\ Good(Now', without, uses) /\ left' \in Seq(Sequence)
  BY <1>1, <1>7, LoadedIs
<1>9. Held(Now', without, uses, left')  BY <1>5, <1>8 DEF Held
<1>. QED  BY <1>1, <1>9 DEF KeysInv

\* The user's bind keeps the invariant.
LEMMA UserBindsHolds ==
    ASSUME NEW seq \in Sequence, NEW binding \in Users \cup {Unbound} \cup NamedFunctions, KeysInv,
           UserBinds(seq, binding)
    PROVE  KeysInv'
<1>1. /\ \A b \in ElementsOf(table) : b.seq = seq => b.function # binding
      /\ map' = Bind(map, seq, binding) /\ without' = Bind(without, seq, binding)
      /\ tty' = tty /\ table' = table /\ slots' = slots /\ left' = left
  BY DEF UserBinds
<1>2. Now.map = map /\ Now.tty = tty /\ Now.table = table
      /\ Now \in KeyTables /\ Good(Now, without, slots)
  BY DEF Now, KeysInv, Held
<1>3. map \in Keymaps(Bindings) /\ without \in Keymaps(Bindings)
  BY <1>2 DEF Good, KeysInv, Held
<1>4. binding \in Bindings /\ (IsLispFunction(binding) => binding \in NamedIn(slots))
  <2>1. CASE binding \in Users \cup {Unbound}
    <3>1. binding \in OtherCommands  BY <2>1 DEF OtherCommands
    <3>. QED  BY <3>1, NamesAssumption DEF Bindings
  <2>2. CASE binding \in NamedFunctions
    <3>1. PICK n \in DOMAIN slots : binding = SlotFunctions[n]  BY <2>2 DEF NamedFunctions
    <3>2. slots \in Seq(Uses) /\ Len(slots) <= SlotCount  BY DEF KeysInv, Held
    <3>3. SlotCount \in Nat  BY KeysAssumption DEF SlotCount
    <3>4. n \in 1 .. SlotCount
      <4>1. PICK k \in Nat : k = Len(slots) /\ DOMAIN slots = 1 .. k  BY <3>2
      <4>. QED  BY <3>1, <3>2, <3>3, <4>1
    <3>5. binding \in Bindings  BY <3>1, <3>4, SlotRuns
    <3>. QED  BY <2>2, <3>5 DEF NamedFunctions, NamedIn
  <2>. QED  BY <2>1, <2>2
<1>5. /\ map' \in Keymaps(Bindings) /\ map'.bound[seq] = binding
      /\ \A q \in Sequence : q # seq => map'.bound[q] = map.bound[q]
      /\ Reached(map', seq) /\ \A q \in Sequence : Reached(map, q) => Reached(map', q)
  BY <1>1, <1>3, <1>4, BindIs
<1>6. /\ without' \in Keymaps(Bindings) /\ without'.bound[seq] = binding
      /\ \A q \in Sequence : q # seq => without'.bound[q] = without.bound[q]
  BY <1>1, <1>3, <1>4, BindIs
<1>. DEFINE x == Now'
<1>7. x = [map |-> map', tty |-> tty, table |-> table] /\ x.map = map' /\ x.tty = tty /\ x.table = table
  BY <1>1 DEF Now
<1>. HIDE DEF x
<1>8. tty \in BOOLEAN /\ table \in Seq(Bounds)  BY <1>2 DEF Good
<1>9. x \in KeyTables  BY <1>5, <1>7, <1>8 DEF KeyTables
<1>10. \A b \in ElementsOf(table) : b.seq \in Sequence /\ Reached(map, b.seq)
  <2>1. \A b \in ElementsOf(table) : b \in Bounds  BY <1>8 DEF ElementsOf
  <2>. QED  BY <1>2, <2>1 DEF Bounds, Good, TableOK
<1>11. TableOK(x)  BY <1>2, <1>5, <1>7, <1>10 DEF Good, TableOK
<1>12. ReachedOK(x.map)  BY <1>2, <1>5, <1>7 DEF Good, ReachedOK
<1>13. ASSUME NEW q \in Sequence
       PROVE  IF \E b \in ElementsOf(table) : b.seq = q /\ Ours(map', b)
              THEN \A b \in ElementsOf(table) : b.seq = q => b.saved.binding = without'.bound[q]
              ELSE map'.bound[q] = without'.bound[q]
  <2>0. IF \E b \in ElementsOf(table) : b.seq = q /\ Ours(map, b)
        THEN \A b \in ElementsOf(table) : b.seq = q => b.saved.binding = without.bound[q]
        ELSE map.bound[q] = without.bound[q]
    BY <1>2 DEF Good, UnderOK
  <2>1. CASE q = seq
    <3>1. \A b \in ElementsOf(table) : b.seq = q => ~Ours(map', b)  BY <1>1, <1>5, <2>1 DEF Ours
    <3>. QED  BY <1>5, <1>6, <2>1, <3>1
  <2>2. CASE q # seq
    <3>1. \A b \in ElementsOf(table) : b.seq = q => (Ours(map', b) <=> Ours(map, b))
      BY <1>5, <1>10, <2>2 DEF Ours
    <3>2. map'.bound[q] = map.bound[q] /\ without'.bound[q] = without.bound[q]
      BY <1>5, <1>6, <2>2
    <3>. QED  BY <2>0, <3>1, <3>2
  <2>. QED  BY <2>1, <2>2
<1>14. UnderOK(x, without')  BY <1>7, <1>13 DEF UnderOK
<1>15. RunOK(x.table, slots)  BY <1>2, <1>7 DEF Good
<1>16. Good(x, without', slots)
  BY <1>5, <1>7, <1>8, <1>11, <1>12, <1>14, <1>15 DEF Good
<1>17. \A q \in Sequence : IsLispFunction(without'.bound[q]) => without'.bound[q] \in NamedIn(slots)
  BY <1>4, <1>6 DEF KeysInv, Held
<1>18. Held(x, without', slots, left)  BY <1>6, <1>9, <1>16, <1>17 DEF KeysInv, Held
<1>. QED  BY <1>1, <1>18 DEF KeysInv, x

\* What TTY_KEYS leaves of a keymap.
LEMMA TtyBoundIs ==
    ASSUME NEW m \in Keymaps(Bindings), NEW r, r = TtyBound(m)
    PROVE  /\ r \in Keymaps(Bindings)
           /\ \A q \in Sequence : Reached(m, q) => Reached(r, q)
           /\ \A q \in DOMAIN TtyKeys : Reached(r, q) /\ r.bound[q] = TtyKeys[q]
           /\ \A q \in Sequence : q \notin DOMAIN TtyKeys => r.bound[q] = m.bound[q]
<1>1. DOMAIN TtyKeys \subseteq Sequence  BY KeysAssumption
<1>2. \A q \in DOMAIN TtyKeys : Before(q) \subseteq Sequence  BY <1>1, BeforeIs
<1>3. \A q \in DOMAIN TtyKeys : TtyKeys[q] \in Bindings  BY DEF Bindings, OtherCommands, Range
<1>4. /\ r.prefixes = m.prefixes \cup UNION {Before(q) : q \in DOMAIN TtyKeys}
      /\ r.bound = [q \in Sequence |-> IF q \in DOMAIN TtyKeys THEN TtyKeys[q] ELSE m.bound[q]]
      /\ r = [prefixes |-> r.prefixes, bound |-> r.bound]
  BY DEF TtyBound
<1>5. r.bound \in [Sequence -> Bindings]  BY <1>3, <1>4 DEF Keymaps
<1>6. r.prefixes \subseteq Sequence  BY <1>2, <1>4 DEF Keymaps
<1>7. r \in Keymaps(Bindings)  BY <1>4, <1>5, <1>6 DEF Keymaps
<1>8. \A q \in DOMAIN TtyKeys : Reached(r, q)  BY <1>4 DEF Reached
<1>9. \A q : Reached(m, q) => Reached(r, q)  BY <1>4 DEF Reached
<1>. QED  BY <1>1, <1>4, <1>7, <1>8, <1>9

\* A new line keeps the invariant.
LEMMA NewLineHolds ==
    ASSUME KeysInv, NewLine
    PROVE  KeysInv'
<1>1. /\ tty /\ map' = TtyBound(map) /\ without' = TtyBound(without)
      /\ tty' = tty /\ table' = table /\ slots' = slots /\ left' = left
  BY DEF NewLine
<1>2. Now.map = map /\ Now.tty = tty /\ Now.table = table
      /\ Now \in KeyTables /\ Good(Now, without, slots)
  BY DEF Now, KeysInv, Held
<1>3. map \in Keymaps(Bindings) /\ without \in Keymaps(Bindings)
  BY <1>2 DEF Good, KeysInv, Held
<1>4. /\ map' \in Keymaps(Bindings)
      /\ \A q \in Sequence : Reached(map, q) => Reached(map', q)
      /\ \A q \in DOMAIN TtyKeys : Reached(map', q) /\ map'.bound[q] = TtyKeys[q]
      /\ \A q \in Sequence : q \notin DOMAIN TtyKeys => map'.bound[q] = map.bound[q]
  BY <1>1, <1>3, TtyBoundIs
<1>5. /\ without' \in Keymaps(Bindings)
      /\ \A q \in DOMAIN TtyKeys : without'.bound[q] = TtyKeys[q]
      /\ \A q \in Sequence : q \notin DOMAIN TtyKeys => without'.bound[q] = without.bound[q]
  BY <1>1, <1>3, TtyBoundIs
<1>. DEFINE x == Now'
<1>6. x = [map |-> map', tty |-> tty, table |-> table] /\ x.map = map' /\ x.tty = tty /\ x.table = table
  BY <1>1 DEF Now
<1>. HIDE DEF x
<1>7. tty \in BOOLEAN /\ table \in Seq(Bounds)  BY <1>2 DEF Good
<1>8. x \in KeyTables  BY <1>4, <1>6, <1>7 DEF KeyTables
<1>9. \A b \in ElementsOf(table) : b.seq \in Sequence /\ Reached(map, b.seq) /\ b.seq \notin DOMAIN TtyKeys
  <2>1. \A b \in ElementsOf(table) : b \in Bounds  BY <1>7 DEF ElementsOf
  <2>2. \A b \in ElementsOf(table) : b.seq \in Sequence  BY <2>1 DEF Bounds
  <2>. QED  BY <1>1, <1>2, <2>2 DEF Good, TableOK
<1>10. TableOK(x)  BY <1>2, <1>4, <1>6, <1>9 DEF Good, TableOK
<1>11. ReachedOK(x.map)  BY <1>2, <1>4, <1>6 DEF Good, ReachedOK
<1>12. ASSUME NEW q \in Sequence
       PROVE  IF \E b \in ElementsOf(table) : b.seq = q /\ Ours(map', b)
              THEN \A b \in ElementsOf(table) : b.seq = q => b.saved.binding = without'.bound[q]
              ELSE map'.bound[q] = without'.bound[q]
  <2>0. IF \E b \in ElementsOf(table) : b.seq = q /\ Ours(map, b)
        THEN \A b \in ElementsOf(table) : b.seq = q => b.saved.binding = without.bound[q]
        ELSE map.bound[q] = without.bound[q]
    BY <1>2 DEF Good, UnderOK
  <2>1. CASE q \in DOMAIN TtyKeys
    <3>1. \A b \in ElementsOf(table) : b.seq # q  BY <1>9, <2>1
    <3>2. map'.bound[q] = without'.bound[q]  BY <1>4, <1>5, <2>1
    <3>. QED  BY <3>1, <3>2
  <2>2. CASE q \notin DOMAIN TtyKeys
    <3>1. \A b \in ElementsOf(table) : b.seq = q => (Ours(map', b) <=> Ours(map, b))
      BY <1>4, <1>9, <2>2 DEF Ours
    <3>2. map'.bound[q] = map.bound[q] /\ without'.bound[q] = without.bound[q]
      BY <1>4, <1>5, <2>2
    <3>. QED  BY <2>0, <3>1, <3>2
  <2>. QED  BY <2>1, <2>2
<1>13. UnderOK(x, without')  BY <1>6, <1>12 DEF UnderOK
<1>14. Good(x, without', slots)
  BY <1>2, <1>4, <1>6, <1>7, <1>10, <1>11, <1>13 DEF Good
<1>15. ASSUME NEW q \in Sequence, IsLispFunction(without'.bound[q])
       PROVE  without'.bound[q] \in NamedIn(slots)
  <2>1. CASE q \in DOMAIN TtyKeys
    <3>1. TtyKeys[q] \in OtherCommands  BY <2>1 DEF OtherCommands, Range
    <3>. QED  BY <1>5, <1>15, <2>1, <3>1, NamesAssumption
  <2>2. CASE q \notin DOMAIN TtyKeys  BY <1>5, <1>15, <2>2 DEF KeysInv, Held
  <2>. QED  BY <2>1, <2>2
<1>16. Held(x, without', slots, left)  BY <1>5, <1>8, <1>14, <1>15 DEF KeysInv, Held
<1>. QED  BY <1>1, <1>16 DEF KeysInv, x

\* Loading over the defaults.
LEMMA KeysStart ==
    ASSUME NEW start, start = [map |-> Defaults, tty |-> FALSE, table |-> <<>>]
    PROVE  /\ Good(start, Defaults, <<>>) /\ Defaults \in Keymaps(Bindings)
           /\ \A seq \in Sequence : ~IsLispFunction(Defaults.bound[seq])
<1>1. DOMAIN Defaults.bound = Sequence  BY DefaultsAssumption
<1>2. \A seq \in Sequence : Defaults.bound[seq] \in OtherCommands
  BY <1>1 DEF OtherCommands, Range
<1>3. Defaults \in Keymaps(Bindings)
  <2>1. \A seq \in Sequence : Defaults.bound[seq] \in Bindings  BY <1>2 DEF Bindings
  <2>. DEFINE bound == [seq \in Sequence |-> Defaults.bound[seq]]
  <2>2. bound \in [Sequence -> Bindings]  BY <2>1
  <2>3. Defaults = [prefixes |-> Defaults.prefixes, bound |-> bound]
        /\ Defaults.prefixes \in SUBSET Sequence
    BY DefaultsAssumption
  <2>. HIDE DEF bound
  <2>. QED  BY <2>2, <2>3 DEF Keymaps
<1>4. start.map = Defaults /\ start.tty = FALSE /\ start.table = <<>>  OBVIOUS
<1>5. ElementsOf(<<>>) = {} /\ <<>> \in Seq(Bounds)  BY DEF ElementsOf
<1>6. ReachedOK(Defaults)  BY DefaultsAssumption DEF ReachedOK
<1>7. TableOK(start) /\ UnderOK(start, Defaults) /\ RunOK(start.table, <<>>)
  BY <1>4, <1>5 DEF TableOK, UnderOK, RunOK
<1>. QED  BY <1>2, <1>3, <1>4, <1>5, <1>6, <1>7, NamesAssumption DEF Good

\* The first state holds what it must.
LEMMA KeysInitHolds ==
    ASSUME KeysInit
    PROVE  KeysInv
<1>. DEFINE start == [map |-> Defaults, tty |-> FALSE, table |-> <<>>]
            at == DefaultsBound(start)
<1>1. /\ without = Defaults /\ slots = <<>>
      /\ map = at.map /\ tty = at.tty /\ table = at.table /\ left = at.left
  BY DEF KeysInit
<1>2. /\ Good(start, Defaults, <<>>) /\ Defaults \in Keymaps(Bindings)
      /\ \A seq \in Sequence : ~IsLispFunction(Defaults.bound[seq])
  BY KeysStart
<1>. HIDE DEF start
<1>3. at \in LeftTables /\ Good(at, Defaults, <<>>)  BY <1>2, DefaultsBoundOK
<1>. HIDE DEF at
<1>. DEFINE x == Now
<1>4. x.map = at.map /\ x.tty = at.tty /\ x.table = at.table
      /\ x = [map |-> at.map, tty |-> at.tty, table |-> at.table]
  BY <1>1 DEF Now
<1>5. at.map \in Keymaps(Bindings) /\ at.tty \in BOOLEAN /\ at.table \in Seq(Bounds)
      /\ left \in Seq(Sequence)
  BY <1>1, <1>3 DEF LeftTables
<1>. HIDE DEF x
<1>6. x \in KeyTables  BY <1>4, <1>5 DEF KeyTables
<1>7. Good(x, Defaults, <<>>)  BY <1>3, <1>4 DEF Good, TableOK, UnderOK
<1>8. slots \in Seq(Uses) /\ Len(slots) <= SlotCount
  <2>1. SlotCount \in Nat  BY KeysAssumption DEF SlotCount
  <2>2. <<>> \in Seq(Uses) /\ Len(<<>>) = 0  OBVIOUS
  <2>. QED  BY <1>1, <2>1, <2>2
<1>. QED  BY <1>1, <1>2, <1>5, <1>6, <1>7, <1>8 DEF KeysInv, Held, x

\* Every reachable state of the keys: each table of inkline's holds what its
\* binds promised, over a keymap that without it would be the user's.
THEOREM KeysInvariant == KeysSpec => []KeysInv
<1>1. KeysInit => KeysInv  BY KeysInitHolds
<1>2. KeysInv /\ [KeysNext]_keysVars => KeysInv'
  <2>1. SUFFICES ASSUME KeysInv, [KeysNext]_keysVars PROVE KeysInv'  OBVIOUS
  <2>2. ASSUME NEW desc \in Descs, NEW command \in LispCommands \cup Readline,
               GlobalSet(desc, command)
        PROVE  KeysInv'
    BY <2>1, <2>2, GlobalSetHolds
  <2>3. ASSUME NEW desc \in Descs, GlobalUnset(desc) PROVE KeysInv'
    BY <2>1, <2>3, GlobalUnsetHolds
  <2>4. ASSUME NEW groups, UnbindDefaults(groups) PROVE KeysInv'
    BY <2>1, <2>4, UnbindDefaultsHolds
  <2>5. CASE Reload  BY <2>1, <2>5, ReloadHolds
  <2>6. ASSUME NEW seq \in Sequence, NEW binding \in Users \cup {Unbound} \cup NamedFunctions,
               UserBinds(seq, binding)
        PROVE  KeysInv'
    BY <2>1, <2>6, UserBindsHolds
  <2>7. CASE NewLine  BY <2>1, <2>7, NewLineHolds
  <2>8. CASE UNCHANGED keysVars  BY <2>1, <2>8 DEF keysVars, KeysInv, Now
  <2>. QED  BY <2>1, <2>2, <2>3, <2>4, <2>5, <2>6, <2>7, <2>8 DEF KeysNext
<1>. QED  BY <1>1, <1>2, PTL DEF KeysSpec

\* Whatever inkline binds and gives back, under it lies what the user would
\* have without it.
THEOREM UsersKeysKeptAlways == KeysSpec => []UsersKeysKept
<1>1. KeysInv => UsersKeysKept
  <2>1. SUFFICES ASSUME KeysInv, NEW seq \in Sequence
                 PROVE  IF \E b \in EntryOf(seq) : Ours(map, b)
                        THEN \A b \in EntryOf(seq) : b.saved.binding = without.bound[seq]
                        ELSE map.bound[seq] = without.bound[seq]
    BY DEF UsersKeysKept
  <2>2. Now.map = map /\ Now.table = table /\ UnderOK(Now, without)
    BY <2>1 DEF Now, KeysInv, Held, Good
  <2>3. IF \E b \in ElementsOf(table) : b.seq = seq /\ Ours(map, b)
        THEN \A b \in ElementsOf(table) : b.seq = seq => b.saved.binding = without.bound[seq]
        ELSE map.bound[seq] = without.bound[seq]
    BY <2>2 DEF UnderOK
  <2>. QED  BY <2>3 DEF EntryOf
<1>. QED  BY <1>1, KeysInvariant, PTL

\* The key that runs tells its sequence.
LEMMA RunningKeyTells ==
    ASSUME NEW m, NEW a \in Sequence, NEW b \in Sequence, RunningKey(m, a) = RunningKey(m, b)
    PROVE  a = b
  BY SequencesDiffer DEF RunningKey

\* A key of a Lisp command runs it: its slot is not freed under it, and
\* shared_command finds it past the slots.
THEOREM RunsItsCommandAlways == KeysSpec => []RunsItsCommand
<1>1. KeysInv => RunsItsCommand
  <2>1. SUFFICES ASSUME KeysInv, NEW seq \in Sequence, Reached(map, seq),
                        IsLispFunction(map.bound[seq])
                 PROVE  \/ \E b \in EntryOf(seq) : Ours(map, b) /\ CommandOf(b) = b.command
                        \/ map.bound[seq] = without.bound[seq] /\ map.bound[seq] \in NamedFunctions
    BY DEF RunsItsCommand
  <2>2. Now.map = map /\ Now.table = table /\ Good(Now, without, slots) /\ Now \in KeyTables
    BY <2>1 DEF Now, KeysInv, Held
  <2>3. CASE ~\E b \in ElementsOf(table) : b.seq = seq /\ Ours(map, b)
    <3>1. map.bound[seq] = without.bound[seq]  BY <2>2, <2>3 DEF Good, UnderOK
    <3>2. map.bound[seq] \in NamedIn(slots)  BY <2>1, <3>1 DEF KeysInv, Held
    <3>. QED  BY <3>1, <3>2 DEF NamedIn, NamedFunctions
  <2>4. CASE \E b \in ElementsOf(table) : b.seq = seq /\ Ours(map, b)
    <3>1. PICK b \in ElementsOf(table) : b.seq = seq /\ Ours(map, b)  BY <2>4
    <3>2. IsLispFunction(b.function) /\ RunsAs(b.function, b.command, slots)
      BY <2>1, <2>2, <3>1 DEF Ours, Good, RunOK
    <3>3. table \in Seq(Bounds)  BY <2>2 DEF Good
    <3>4. CASE b.function = Shared
      <4>. DEFINE running == RunningKey(map, seq)
                  found == {i \in DOMAIN table : table[i].function = Shared /\ RunsAt(table[i], running)}
      <4>1. PICK k \in DOMAIN table : table[k] = b  BY <3>1 DEF ElementsOf
      <4>2. k \in found  BY <2>1, <3>1, <3>4, <4>1 DEF RunsAt
      <4>3. found \subseteq Nat
        <5>1. DOMAIN table = 1 .. Len(table)  BY <3>3
        <5>. QED  BY <5>1
      <4>. DEFINE i == Least(found)
      <4>4. i \in found
        <5>. HIDE DEF found
        <5>. QED  BY <4>2, <4>3, LeastIs
      <4>. HIDE DEF i
      <4>5. i \in DOMAIN table /\ RunningKey(map, table[i].seq) = running
        BY <4>4 DEF RunsAt
      <4>6. table[i] \in ElementsOf(table) /\ table[i] \in Bounds
        BY <3>3, <4>5 DEF ElementsOf
      <4>7. table[i].seq \in Sequence  BY <4>6 DEF Bounds
      <4>8. table[i].seq = seq  BY <4>5, <4>7, RunningKeyTells
      <4>9. table[i] = b  BY <2>2, <3>1, <4>6, <4>8 DEF Good, TableOK
      <4>10. SharedCommand(running) = table[i].command
        <5>1. SharedCommand(running) = IF found = {} THEN Unbound ELSE table[Least(found)].command
          BY DEF SharedCommand
        <5>2. found # {}  BY <4>2
        <5>. HIDE DEF found, running
        <5>. QED  BY <5>1, <5>2 DEF i
      <4>11. CommandOf(b) = SharedCommand(running)  BY <3>1, <3>4 DEF CommandOf
      <4>12. CommandOf(b) = b.command  BY <4>9, <4>10, <4>11
      <4>. QED  BY <3>1, <4>12 DEF EntryOf
    <3>5. CASE b.function # Shared
      <4>1. PICK n \in DOMAIN slots : SlotFunctions[n] = b.function /\ slots[n] = <<b.command>>
        BY <3>2, <3>5 DEF RunsAs
      <4>2. n \in 1 .. SlotCount
        <5>1. SlotCount \in Nat  BY KeysAssumption DEF SlotCount
        <5>2. slots \in Seq(Uses) /\ Len(slots) <= SlotCount  BY <2>1 DEF KeysInv, Held
        <5>3. PICK k \in Nat : k = Len(slots) /\ DOMAIN slots = 1 .. k  BY <5>2
        <5>. QED  BY <4>1, <5>1, <5>2, <5>3
      <4>. DEFINE slot == CHOOSE i \in 1 .. SlotCount : SlotFunctions[i] = b.function
      <4>3. slot \in 1 .. SlotCount /\ SlotFunctions[slot] = b.function  BY <4>1, <4>2
      <4>. HIDE DEF slot
      <4>4. slot = n  BY <4>1, <4>2, <4>3, SlotFunctionsDiffer
      <4>5. CommandOf(b) = IF slot \notin DOMAIN slots \/ slots[slot] = <<>>
                           THEN Unbound ELSE slots[slot][1]
        BY <3>5 DEF CommandOf, slot
      <4>6. CommandOf(b) = b.command  BY <4>1, <4>4, <4>5
      <4>. QED  BY <3>1, <4>6 DEF EntryOf
    <3>. QED  BY <3>4, <3>5
  <2>. QED  BY <2>3, <2>4
<1>. QED  BY <1>1, KeysInvariant, PTL
-----------------------------------------------------------------------------
(* LispHooks. *)

\* None, or given by a suggestion function on this command line.
WasGiven(answers, answer) ==
    answer = <<>> \/ \E g \in Range(answers) : g.is = "suggestion" /\ g.gave = answer
ItemsGiven(answers, items, text, at) ==
    items = {} \/ \E g \in Range(answers) :
                      g.is = "items" /\ g.line = text /\ g.cursor = at /\ g.gave = items

KeptAnswersGiven ==
    /\ WasGiven(given, lastAnswer)
    /\ \A text \in DOMAIN byLine :
          /\ WasGiven(given, byLine[text])
          /\ byLine[text] # <<>> => Longer(byLine[text][1], text)
KeptItemsGiven ==
    completions # <<>> =>
        ItemsGiven(given, completions[1].items, completions[1].line, completions[1].cursor)
ShownGiven ==
    /\ WasGiven(given, shown.suggestion)
    /\ shown.suggestion # <<>> => Longer(shown.suggestion[1], line)
    /\ ItemsGiven(given, shown.items, line, cursor)
AskedIsKept ==
    \A i \in DOMAIN given : given[i].is = "suggestion" => given[i].line \in DOMAIN byLine

HooksInv ==
    /\ given \in Seq(Range(given))
    /\ shown \in [suggestion : {shown.suggestion}, items : {shown.items}]
    /\ KeptAnswersGiven /\ KeptItemsGiven /\ ShownGiven /\ AskedIsKept /\ AskedOnce
----------------------------------------------------------------------------
\* One more answer: those of before, and it.
LEMMA GivenGrows ==
    ASSUME NEW s, s \in Seq(Range(s)), NEW g, NEW t, t = Append(s, g)
    PROVE /\ t \in Seq(Range(t)) /\ Range(t) = Range(s) \cup {g}
          /\ DOMAIN s = 1 .. Len(s) /\ DOMAIN t = 1 .. Len(s) + 1 /\ Len(s) \in Nat
          /\ \A i \in DOMAIN s : t[i] = s[i]
          /\ t[Len(s) + 1] = g
<1>1. /\ DOMAIN s = 1 .. Len(s) /\ Len(s) \in Nat /\ DOMAIN t = 1 .. Len(s) + 1
      /\ \A i \in 1 .. Len(s) : t[i] = s[i]
      /\ t[Len(s) + 1] = g /\ t \in Seq(Range(s) \cup {g})
  OBVIOUS
<1>2. Range(t) = Range(s) \cup {g}
  <2>1. ASSUME NEW x \in Range(t) PROVE x \in Range(s) \cup {g}
    BY <1>1 DEF Range
  <2>2. ASSUME NEW x \in Range(s) PROVE x \in Range(t)
    BY <1>1 DEF Range
  <2>3. g \in Range(t)  BY <1>1 DEF Range
  <2>. QED  BY <2>1, <2>2, <2>3
<1>. QED  BY <1>1, <1>2

\* What was given stays so while nothing is taken from it.
LEMMA StaysGiven ==
    ASSUME NEW s, NEW t, Range(s) \subseteq Range(t)
    PROVE /\ \A answer : WasGiven(s, answer) => WasGiven(t, answer)
          /\ \A items, text, at : ItemsGiven(s, items, text, at) => ItemsGiven(t, items, text, at)
  BY DEF WasGiven, ItemsGiven

\* A suggestion function's answer wins only where it goes on from the line.
LEMMA AnswerIsLonger ==
    ASSUME NEW does, Suggested(does).answer # <<>>
    PROVE Longer(Suggested(does).answer[1], line)
  BY DEF Suggested, Wins

\* kept_suggestion: an answer kept for the line was given for it.
LEMMA KeptAnswerFits ==
    ASSUME HooksInv, KeptAnswer # <<>>
    PROVE /\ WasGiven(given, KeptAnswer[1])
          /\ KeptAnswer[1] # <<>> => Longer(KeptAnswer[1][1], line)
  BY DEF HooksInv, KeptAnswersGiven, KeptAnswer

\* So are items kept for the line and cursor.
LEMMA KeptItemsFit ==
    ASSUME HooksInv, KeptItems # <<>> PROVE ItemsGiven(given, KeptItems[1], line, cursor)
  BY DEF HooksInv, KeptItemsGiven, KeptItems
----------------------------------------------------------------------------
(* The steps. *)

\* What shows before a draw asks is nothing.
LEMMA NothingIsGiven == ASSUME TRUE
    PROVE /\ NothingShown \in [suggestion : {NothingShown.suggestion}, items : {NothingShown.items}]
          /\ NothingShown.suggestion = <<>> /\ NothingShown.items = {}
  BY DEF NothingShown

\* A draw that uses what is kept asks nobody, and keeps it.
LEMMA KeptIsShown ==
    ASSUME HooksInv, SuggestionKept \/ CompletionsKept PROVE HooksInv'
<1>. USE DEF HooksInv
<1>1. /\ UNCHANGED <<given, line, cursor, byLine, completions>>
      /\ lastAnswer' \in {lastAnswer, KeptAnswer[1]}
      /\ lastAnswer' # lastAnswer => WasGiven(given, lastAnswer')
  BY KeptAnswerFits DEF SuggestionKept, CompletionsKept, Gives
<1>2. KeptAnswersGiven' /\ KeptItemsGiven' /\ AskedIsKept' /\ AskedOnce'
  BY <1>1 DEF KeptAnswersGiven, KeptItemsGiven, AskedIsKept, AskedOnce, WasGiven, ItemsGiven
<1>3. CASE SuggestionKept
  <2>1. shown' = [shown EXCEPT !.suggestion = KeptAnswer[1]] /\ KeptAnswer # <<>>
    BY <1>3 DEF SuggestionKept, Gives
  <2>2. shown'.suggestion = KeptAnswer[1] /\ shown'.items = shown.items
        /\ shown' \in [suggestion : {shown'.suggestion}, items : {shown'.items}]
    BY <2>1
  <2>3. ShownGiven'
    BY <1>1, <2>1, <2>2, KeptAnswerFits DEF ShownGiven, WasGiven, ItemsGiven
  <2>. QED  BY <1>1, <1>2, <2>2, <2>3
<1>4. CASE CompletionsKept
  <2>1. shown' = [shown EXCEPT !.items = KeptItems[1]] /\ KeptItems # <<>>
    BY <1>4 DEF CompletionsKept, GivesItems
  <2>2. shown'.suggestion = shown.suggestion /\ shown'.items = KeptItems[1]
        /\ shown' \in [suggestion : {shown'.suggestion}, items : {shown'.items}]
    BY <2>1
  <2>3. ShownGiven'
    BY <1>1, <2>1, <2>2, KeptItemsFit DEF ShownGiven, WasGiven, ItemsGiven
  <2>. QED  BY <1>1, <1>2, <2>2, <2>3
<1>. QED  BY <1>3, <1>4

\* A suggestion function is asked about this line, and its answer kept for it.
LEMMA SuggestionIsAsked ==
    ASSUME HooksInv, NEW does, SuggestionAsked(does) PROVE HooksInv'
<1>. USE DEF HooksInv
<1>. DEFINE r == Suggested(does)
            g == [is |-> "suggestion", line |-> line, gave |-> r.answer]
<1>1. /\ UNCHANGED <<line, cursor, completions>>
      /\ IF r.stopped
         THEN shown' = [shown EXCEPT !.suggestion = <<>>] /\ UNCHANGED <<lastAnswer, byLine, given>>
         ELSE /\ shown' = [shown EXCEPT !.suggestion = r.answer]
              /\ lastAnswer' = (IF r.answer = <<>> THEN lastAnswer ELSE r.answer)
              /\ byLine' = [text \in DOMAIN byLine \cup {line} |->
                              IF text = line THEN r.answer ELSE byLine[text]]
              /\ given' = Append(given, g)
  BY DEF SuggestionAsked, Gives
\* The line was not asked about before: its answer would be kept.
<1>2. line \notin DOMAIN byLine
  BY DEF SuggestionAsked, HooksAllowed, KeptAnswer
<1>3. r.answer # <<>> => Longer(r.answer[1], line)
  BY AnswerIsLonger
<1>4. g.is = "suggestion" /\ g.line = line /\ g.gave = r.answer
  OBVIOUS
<1>. HIDE DEF r, g
<1>5. CASE r.stopped
  <2>1. /\ shown'.suggestion = <<>> /\ shown'.items = shown.items
        /\ shown' \in [suggestion : {shown'.suggestion}, items : {shown'.items}]
    BY <1>1, <1>5
  <2>. QED
    BY <1>1, <1>5, <2>1 DEF KeptAnswersGiven, KeptItemsGiven, ShownGiven, AskedIsKept,
       AskedOnce, WasGiven, ItemsGiven
<1>6. CASE ~r.stopped
  <2>1. /\ shown'.suggestion = r.answer /\ shown'.items = shown.items
        /\ shown' \in [suggestion : {shown'.suggestion}, items : {shown'.items}]
    BY <1>1, <1>6
  <2>2. /\ given' \in Seq(Range(given')) /\ Range(given') = Range(given) \cup {g}
        /\ DOMAIN given = 1 .. Len(given) /\ DOMAIN given' = 1 .. Len(given) + 1
        /\ Len(given) \in Nat /\ \A i \in DOMAIN given : given'[i] = given[i]
        /\ given'[Len(given) + 1] = g
    BY <1>1, <1>6, GivenGrows
  <2>3. WasGiven(given', r.answer)  BY <1>4, <2>2 DEF WasGiven
  <2>4. /\ DOMAIN byLine' = DOMAIN byLine \cup {line}
        /\ byLine'[line] = r.answer
        /\ \A text \in DOMAIN byLine : byLine'[text] = byLine[text]
    BY <1>1, <1>2, <1>6
  <2>5. KeptAnswersGiven'
    <3>1. WasGiven(given', lastAnswer')
      BY <1>1, <1>6, <2>2, <2>3, StaysGiven DEF KeptAnswersGiven, WasGiven
    <3>2. \A text \in DOMAIN byLine' :
             WasGiven(given', byLine'[text]) /\ (byLine'[text] # <<>> => Longer(byLine'[text][1], text))
      BY <1>3, <2>2, <2>3, <2>4 DEF KeptAnswersGiven, WasGiven
    <3>. QED  BY <3>1, <3>2 DEF KeptAnswersGiven
  <2>6. KeptItemsGiven'
    BY <1>1, <2>2 DEF KeptItemsGiven, ItemsGiven
  <2>7. ShownGiven'
    BY <1>1, <1>3, <2>1, <2>2, <2>3 DEF ShownGiven, ItemsGiven, WasGiven
  <2>8. AskedIsKept'
    BY <1>4, <2>2, <2>4 DEF AskedIsKept
  <2>9. AskedOnce'
    <3>. SUFFICES ASSUME NEW i \in DOMAIN given', NEW j \in DOMAIN given',
                         given'[i].is = "suggestion", given'[j].is = "suggestion",
                         given'[i].line = given'[j].line, i # j
                  PROVE FALSE
      BY DEF AskedOnce
    <3>1. CASE i \in DOMAIN given /\ j \in DOMAIN given
      BY <2>2, <3>1 DEF AskedOnce
    <3>2. CASE i \in DOMAIN given /\ j = Len(given) + 1
      BY <1>2, <1>4, <2>2, <3>2 DEF AskedIsKept
    <3>3. CASE j \in DOMAIN given /\ i = Len(given) + 1
      BY <1>2, <1>4, <2>2, <3>3 DEF AskedIsKept
    <3>. QED  BY <2>2, <3>1, <3>2, <3>3
  <2>. QED  BY <2>1, <2>2, <2>5, <2>6, <2>7, <2>8, <2>9
<1>. QED  BY <1>5, <1>6

\* So are the completion functions, for the line and cursor.
LEMMA CompletionsAreAsked ==
    ASSUME HooksInv, NEW does, CompletionsAsked(does) PROVE HooksInv'
<1>. USE DEF HooksInv
<1>. DEFINE r == Completed(does)
            g == [is |-> "items", line |-> line, cursor |-> cursor, gave |-> r.items]
            c == [line |-> line, cursor |-> cursor, items |-> r.items]
<1>1. /\ UNCHANGED <<line, cursor, lastAnswer, byLine>>
      /\ IF r.stopped
         THEN shown' = [shown EXCEPT !.items = {}] /\ UNCHANGED <<completions, given>>
         ELSE /\ shown' = [shown EXCEPT !.items = r.items]
              /\ completions' = <<c>>
              /\ given' = Append(given, g)
  BY DEF CompletionsAsked, GivesItems
<1>2. /\ g.is = "items" /\ g.line = line /\ g.cursor = cursor /\ g.gave = r.items
      /\ c.line = line /\ c.cursor = cursor /\ c.items = r.items
  OBVIOUS
<1>. HIDE DEF r, g, c
<1>3. CASE r.stopped
  <2>1. /\ shown'.suggestion = shown.suggestion /\ shown'.items = {}
        /\ shown' \in [suggestion : {shown'.suggestion}, items : {shown'.items}]
    BY <1>1, <1>3
  <2>. QED
    BY <1>1, <1>3, <2>1 DEF KeptAnswersGiven, KeptItemsGiven, ShownGiven, AskedIsKept,
       AskedOnce, WasGiven, ItemsGiven
<1>4. CASE ~r.stopped
  <2>1. /\ shown'.suggestion = shown.suggestion /\ shown'.items = r.items
        /\ shown' \in [suggestion : {shown'.suggestion}, items : {shown'.items}]
    BY <1>1, <1>4
  <2>2. /\ given' \in Seq(Range(given')) /\ Range(given') = Range(given) \cup {g}
        /\ DOMAIN given = 1 .. Len(given) /\ DOMAIN given' = 1 .. Len(given) + 1
        /\ Len(given) \in Nat /\ \A i \in DOMAIN given : given'[i] = given[i]
        /\ given'[Len(given) + 1] = g
    BY <1>1, <1>4, GivenGrows
  <2>3. ItemsGiven(given', r.items, line, cursor)  BY <1>1, <1>2, <2>2 DEF ItemsGiven
  <2>4. KeptAnswersGiven'
    BY <1>1, <2>2 DEF KeptAnswersGiven, WasGiven
  <2>5. KeptItemsGiven'
    BY <1>1, <1>2, <1>4, <2>3 DEF KeptItemsGiven, ItemsGiven
  <2>6. ShownGiven'
    BY <1>1, <2>1, <2>2, <2>3 DEF ShownGiven, WasGiven, ItemsGiven
  <2>7. AskedIsKept' /\ AskedOnce'
    <3>1. \A i \in DOMAIN given' :
             given'[i].is = "suggestion" => i \in DOMAIN given /\ given'[i] = given[i]
      BY <1>2, <2>2
    <3>. QED  BY <1>1, <3>1 DEF AskedIsKept, AskedOnce
  <2>. QED  BY <2>1, <2>2, <2>4, <2>5, <2>6, <2>7
<1>. QED  BY <1>3, <1>4

\* A key, a C-c, and Lisp that begins or ends: nothing shows anew.
LEMMA LineGoesOn ==
    ASSUME HooksInv, UNCHANGED <<given, lastAnswer, byLine, completions>>,
           shown' = NothingShown \/ UNCHANGED <<shown, line, cursor>>
    PROVE HooksInv'
<1>. USE DEF HooksInv
<1>1. KeptAnswersGiven' /\ KeptItemsGiven' /\ AskedIsKept' /\ AskedOnce'
  BY DEF KeptAnswersGiven, KeptItemsGiven, AskedIsKept, AskedOnce, WasGiven, ItemsGiven
<1>2. CASE shown' = NothingShown
  BY <1>1, <1>2, NothingIsGiven DEF ShownGiven, WasGiven, ItemsGiven
<1>3. CASE UNCHANGED <<shown, line, cursor>>
  BY <1>1, <1>3 DEF ShownGiven, WasGiven, ItemsGiven
<1>. QED  BY <1>2, <1>3

\* line_started, and the start: nothing was given and nothing is kept.
Anew == /\ given = <<>> /\ lastAnswer = <<>> /\ byLine = [text \in {} |-> <<>>]
        /\ completions = <<>> /\ shown = NothingShown

\* With everything forgotten, nothing of another line is there.
LEMMA AnewInv == Anew => HooksInv
<1>. SUFFICES ASSUME Anew PROVE HooksInv  OBVIOUS
<1>1. given \in Seq(Range(given)) /\ DOMAIN given = {} /\ DOMAIN byLine = {}
  BY DEF Anew
<1>. QED
  BY <1>1, NothingIsGiven DEF Anew, HooksInv, KeptAnswersGiven, KeptItemsGiven, ShownGiven, AskedIsKept, AskedOnce,
     WasGiven, ItemsGiven
----------------------------------------------------------------------------
(* Everything kept of the hooks was given on this command line.            *)
THEOREM HooksInvariant == HooksSpec => []HooksInv
<1>1. HooksInit => HooksInv
  BY AnewInv DEF HooksInit, Anew
<1>2. HooksInv /\ [HooksNext]_hooksVars => HooksInv'
  <2>. SUFFICES ASSUME HooksInv, [HooksNext]_hooksVars PROVE HooksInv'
    OBVIOUS
  <2>1. CASE SuggestionKept \/ CompletionsKept
    BY <2>1, KeptIsShown
  <2>2. CASE \E does \in [DOMAIN suggesters -> SuggesterDoes] : SuggestionAsked(does)
    BY <2>2, SuggestionIsAsked
  <2>3. CASE \E does \in [DOMAIN completers -> CompleterDoes] : CompletionsAsked(does)
    BY <2>3, CompletionsAreAsked
  <2>4. CASE \/ \E text \in Line, at \in 0 .. LongestLine : Typed(text, at)
             \/ LispStarts \/ CtrlC
             \/ \E some, others \in FunctionLists : LispEnds(some, others)
    BY <2>4, LineGoesOn DEF Typed, LispStarts, CtrlC, LispEnds
  <2>5. CASE LineStarted
    <3>1. Anew'  BY <2>5 DEF LineStarted, Anew, NothingShown
    <3>. QED  BY <3>1, AnewInv, PTL
  <2>6. CASE UNCHANGED hooksVars
    BY <2>6, LineGoesOn DEF hooksVars
  <2>. QED  BY <2>1, <2>2, <2>3, <2>4, <2>5, <2>6 DEF HooksNext
<1>. QED  BY <1>1, <1>2, PTL DEF HooksSpec

(* A suggestion shows only where it goes on from the line, items only at    *)
(* the line and cursor they were asked for, both given on this command line, and no text of the line *)
(* is asked about twice (suggestion, completions, line_started), whatever  *)
(* was interrupted, failed, or was read under Lisp in between.             *)
THEOREM AnswersAreOfThisLineAlways == HooksSpec => []AnswersAreOfThisLine
<1>1. HooksInv => AnswersAreOfThisLine
  BY DEF HooksInv, ShownGiven, WasGiven, ItemsGiven, AnswersAreOfThisLine, GivenOnThisLine
<1>. QED  BY <1>1, HooksInvariant, PTL
-----------------------------------------------------------------------------
(* Switching. *)

Resting(s) == /\ s \in Ink
              /\ \A f \in Replaced : s.saved[f] # "ours"
              /\ IF s.enabled THEN \A f \in {"getc", "deprep", "preInput"} : s.now[f] = "ours"
                 ELSE \A f \in {"redisplay", "deprep", "preInput"} : s.now[f] # "ours"
Sound(s) == Resting(s) /\ (~s.enabled /\ ~s.running => s.now.getc # "ours")

StackOK(s) == /\ s \in Seq(Frame) /\ Len(s) > 0 /\ s[1].is = "shell"
              /\ \A i \in 2 .. Len(s) : s[i].is = "lisp" => s[i - 1].is = "line"
SwitchingInv == Sound(ink) /\ StackOK(stack)
----------------------------------------------------------------------------
(* What inkline does to its state. *)

\* use_own_key_reader, while inkline is on or Lisp runs.
LEMMA ReaderSound == ASSUME NEW s, Sound(s), s.enabled \/ s.running PROVE Sound(UseOwnKeyReader(s))
  BY DEF Sound, Resting, UseOwnKeyReader, Ink, Replaced, Owner

\* before_lisp
LEMMA BeforeLispSound == ASSUME NEW s, Sound(s) PROVE Sound(BeforeLisp(s))
  BY DEF Sound, Resting, BeforeLisp, UseOwnKeyReader, Ink, Replaced, Owner

\* after_lisp puts the reader back where disable left it.
LEMMA AfterLispSound == ASSUME NEW s, Resting(s) PROVE Sound(AfterLisp(s))
  BY DEF Sound, Resting, AfterLisp, Ink, Replaced, Owner

\* The completion function goes in and out.
LEMMA CompletionSound ==
    ASSUME NEW s, Sound(s) PROVE Sound(WrapCompletion(s)) /\ Sound(UnwrapCompletion(s))
  BY DEF Sound, Resting, WrapCompletion, UnwrapCompletion, Ink, Replaced, Owner

\* So does another's.
LEMMA SetsCompletion ==
    ASSUME NEW s, Sound(s), NEW f \in Owner PROVE Sound([s EXCEPT !.now.completion = f])
  BY DEF Sound, Resting, Ink, Replaced, Owner

\* What is kept of a line has no part in it,
LEMMA SetsKept ==
    ASSUME NEW s, Sound(s), NEW k \in Kept, NEW e \in Kept
    PROVE /\ Sound([s EXCEPT !.seen = k, !.errors = e])
          /\ Sound([s EXCEPT !.seen = k]) /\ Sound([s EXCEPT !.errors = e])
  BY DEF Sound, Resting, Ink

\* nor have the flags.
LEMMA SetsFlag ==
    ASSUME NEW s, Sound(s), NEW b \in BOOLEAN
    PROVE /\ Sound([s EXCEPT !.panicked = b]) /\ Sound([s EXCEPT !.unloaded = b])
          /\ Sound([s EXCEPT !.broken = b]) /\ Sound([s EXCEPT !.started = b])
  BY DEF Sound, Resting, Ink

\* enable
LEMMA EnableSound == ASSUME NEW s, Sound(s) PROVE Sound(Enable(s))
<1>1. CASE s.enabled
  BY <1>1 DEF Enable
<1>2. CASE ~s.enabled
  <2>. DEFINE t == SaveOriginals(s)
              u == UseOwnKeyReader(t)
  <2>1. /\ t \in Ink /\ t.now = s.now /\ t.enabled = s.enabled
        /\ \A f \in Replaced : t.saved[f] # "ours"
    BY <1>2 DEF Sound, Resting, SaveOriginals, Ink, Replaced, Owner
  <2>2. /\ u \in Ink /\ u.now.getc = "ours"
        /\ \A f \in Replaced : u.saved[f] # "ours"
    BY <2>1 DEF UseOwnKeyReader, Ink, Replaced, Owner
  <2>. HIDE DEF u
  <2>. DEFINE n == [u.now EXCEPT !.deprep = "ours", !.preInput = "ours"]
  <2>3. /\ n \in [Replaced -> Owner]
        /\ \A f \in {"getc", "deprep", "preInput"} : n[f] = "ours"
    BY <2>2 DEF Ink, Replaced, Owner
  <2>. HIDE DEF n
  <2>4. Enable(s) = [u EXCEPT !.now = n, !.seen = "none", !.enabled = TRUE]
    BY <1>2 DEF Enable, u, n
  <2>5. /\ Enable(s) \in Ink /\ Enable(s).now = n
        /\ Enable(s).saved = u.saved /\ Enable(s).enabled
    BY <2>2, <2>3, <2>4 DEF Ink, Kept
  <2>. QED
    BY <2>2, <2>3, <2>5 DEF Sound, Resting
<1>. QED  BY <1>1, <1>2

\* Where the state was on or no Lisp runs, all of inkline's goes back.
LEMMA PutBackSound ==
    ASSUME NEW t \in Ink, ~t.enabled, \A f \in Replaced : t.saved[f] # "ours"
    PROVE Resting(PutBack(t)) /\ (~t.running => Sound(PutBack(t)))
<1>. DEFINE n == [t.now EXCEPT !.redisplay = t.saved.redisplay, !.deprep = t.saved.deprep,
                               !.preInput = t.saved.preInput,
                               !.getc = IF t.running THEN t.now.getc ELSE t.saved.getc]
<1>1. /\ n \in [Replaced -> Owner]
      /\ \A f \in {"redisplay", "deprep", "preInput"} : n[f] # "ours"
      /\ ~t.running => n.getc # "ours"
  BY DEF Ink, Replaced, Owner
<1>2. PutBack(t) = [t EXCEPT !.now = n]  BY DEF PutBack, n
<1>. HIDE DEF n
<1>. QED  BY <1>1, <1>2 DEF Sound, Resting, Ink

\* disable, of whatever rests: under Lisp it leaves the reader.
LEMMA DisableResting == ASSUME NEW s, Resting(s) PROVE Resting(Disable(s))
<1>. DEFINE t == Forgetful(s)
<1>1. /\ t \in Ink /\ t.saved = s.saved /\ ~t.enabled /\ t.running = s.running
      /\ \A f \in {"redisplay", "getc", "deprep", "preInput"} : t.now[f] = s.now[f]
  BY DEF Resting, Forgetful, UnwrapCompletion, Ink, Replaced, Owner, Kept
<1>. HIDE DEF t
<1>2. CASE s.enabled
  <2>1. Disable(s) = PutBack(t)  BY <1>2 DEF Disable, t
  <2>. QED  BY <1>1, <2>1, PutBackSound DEF Resting
<1>3. CASE ~s.enabled
  <2>1. Disable(s) = t  BY <1>3 DEF Disable, t
  <2>. QED  BY <1>1, <1>3, <2>1 DEF Resting
<1>. QED  BY <1>2, <1>3

\* disable
LEMMA DisableSound == ASSUME NEW s, Sound(s) PROVE Sound(Disable(s))
<1>. DEFINE t == Forgetful(s)
<1>1. /\ t \in Ink /\ t.saved = s.saved /\ t.running = s.running
      /\ t.now.getc = s.now.getc /\ ~t.enabled
  BY DEF Sound, Resting, Forgetful, UnwrapCompletion, Ink, Replaced, Owner, Kept
<1>. HIDE DEF t
<1>2. Resting(Disable(s))  BY DisableResting DEF Sound
<1>3. CASE s.enabled
  <2>1. Disable(s) = PutBack(t)  BY <1>3 DEF Disable, t
  <2>2. \A f \in Replaced : t.saved[f] # "ours"  BY <1>1 DEF Sound, Resting
  <2>3. PutBack(t).running = t.running  BY <1>1 DEF PutBack, Ink
  <2>. QED  BY <1>1, <1>2, <2>1, <2>2, <2>3, PutBackSound DEF Sound
<1>4. CASE ~s.enabled
  <2>1. Disable(s) = t  BY <1>4 DEF Disable, t
  <2>. QED  BY <1>1, <1>2, <1>4, <2>1 DEF Sound
<1>. QED  BY <1>3, <1>4

\* guard, which switches inkline off after a panic.
LEMMA GuardSound == ASSUME NEW s, Sound(s) PROVE Sound(Guard(s))
  BY SetsFlag, DisableSound DEF Guard

\* A panic in Lisp that ran while inkline was off leaves the reader in place
\* until after_lisp.
LEMMA LispPanicResting == ASSUME NEW s, Sound(s) PROVE Resting(LispPanic(s))
<1>. DEFINE t == [[s EXCEPT !.running = FALSE, !.broken = TRUE] EXCEPT !.panicked = TRUE]
<1>1. Resting(t)  BY DEF Sound, Resting, Ink
<1>. HIDE DEF t
<1>2. LispPanic(s) = Disable(t)  BY DEF LispPanic, Guard, t
<1>. QED  BY <1>1, <1>2, DisableResting

\* Without Lisp the reader is put back at once.
LEMMA LispPanicSound == ASSUME NEW s, Sound(s), ~s.running PROVE Sound(LispPanic(s))
<1>. DEFINE t == [[s EXCEPT !.running = FALSE, !.broken = TRUE] EXCEPT !.panicked = TRUE]
<1>1. Sound(t)  BY DEF Sound, Resting, Ink
<1>. HIDE DEF t
<1>2. LispPanic(s) = Disable(t)  BY DEF LispPanic, Guard, t
<1>. QED  BY <1>1, <1>2, DisableSound

\* getc puts readline's drawing in while it waits, and inkline's after.
LEMMA GetcSound == ASSUME NEW s, Sound(s) PROVE Sound(GetcWaits(s)) /\ Sound(GetcEnds(s))
  BY DEF Sound, Resting, GetcWaits, GetcEnds, Ink, Replaced, Owner

\* deprep_terminal
LEMMA DeprepSound == ASSUME NEW s, Sound(s) PROVE Sound(CallDeprep(s))
<1>1. CASE s.now.deprep = "ours"
  <2>. DEFINE seen == IF s.running THEN s.seen ELSE "none"
              r == [s EXCEPT !.now.redisplay = s.saved.redisplay]
  <2>1. "none" \in Kept /\ seen \in Kept  BY DEF Sound, Resting, Ink, Kept
  <2>2. Sound(r)  BY <1>1 DEF Sound, Resting, Ink, Replaced, Owner
  <2>3. Deprep(s) = [r EXCEPT !.errors = "none", !.seen = seen]
    BY DEF Deprep, Sound, Resting, Ink
  <2>. HIDE DEF seen, r
  <2>4. Sound([r EXCEPT !.errors = "none", !.seen = seen])  BY <2>1, <2>2, SetsKept
  <2>. QED  BY <1>1, <2>3, <2>4 DEF CallDeprep
<1>2. CASE s.now.deprep # "ours"
  BY <1>2 DEF CallDeprep
<1>. QED  BY <1>1, <1>2

\* A line's own things become an earlier line's.
LEMMA PastKept == ASSUME NEW k \in Kept PROVE Past(k) \in Kept
  BY DEF Past, Kept
----------------------------------------------------------------------------
(* What runs. *)

\* A line goes to another place.
LEMMA GoOK ==
    ASSUME NEW s, StackOK(s), s[Len(s)].is = "line", NEW at \in Places
    PROVE LET g == [s EXCEPT ![Len(s)].at = at]
          IN StackOK(g) /\ Len(g) = Len(s) /\ g[Len(g)].is = "line"
<1>. DEFINE f == [s[Len(s)] EXCEPT !.at = at]
<1>1. f \in Frame /\ f.is = "line"
  BY DEF StackOK, Frame, Places
<1>2. [s EXCEPT ![Len(s)].at = at] = [s EXCEPT ![Len(s)] = f]
  OBVIOUS
<1>. HIDE DEF f
<1>3. LET g == [s EXCEPT ![Len(s)] = f]
      IN StackOK(g) /\ Len(g) = Len(s) /\ g[Len(g)].is = "line"
  BY <1>1 DEF StackOK
<1>. QED  BY <1>2, <1>3

\* Something more runs, Lisp only on a line.
LEMMA PushOK ==
    ASSUME NEW s, StackOK(s), NEW f \in Frame, f.is = "lisp" => s[Len(s)].is = "line"
    PROVE StackOK(Append(s, f))
  BY DEF StackOK

\* What runs below something, after a jump to it.
LEMMA PrefixOK ==
    ASSUME NEW s, StackOK(s), NEW n \in 1 .. Len(s)
    PROVE /\ StackOK(SubSeq(s, 1, n)) /\ Len(SubSeq(s, 1, n)) = n
          /\ \A i \in 1 .. n : SubSeq(s, 1, n)[i] = s[i]
<1>1. /\ SubSeq(s, 1, n) \in Seq(Frame) /\ Len(SubSeq(s, 1, n)) = n
      /\ \A i \in 1 .. n : SubSeq(s, 1, n)[i] = s[i]
  BY SubSeqProperties DEF StackOK
<1>. QED  BY <1>1 DEF StackOK

\* Lisp below is told to stop.
LEMMA StopsOK ==
    ASSUME NEW s, StackOK(s), NEW n \in 1 .. Len(s), s[n].is = "lisp"
    PROVE StackOK([SubSeq(s, 1, n) EXCEPT ![n].stops = TRUE])
<1>. DEFINE p == SubSeq(s, 1, n)
            f == [p[n] EXCEPT !.stops = TRUE]
<1>1. StackOK(p) /\ Len(p) = n /\ p[n].is = "lisp"
  BY PrefixOK
<1>2. p[n] \in Frame /\ n # 1
  BY <1>1 DEF StackOK
<1>2a. p[n] \in [is : {"lisp"}, of : Callers, stops : BOOLEAN]
  BY <1>1, <1>2 DEF Frame
<1>2b. f \in [is : {"lisp"}, of : Callers, stops : BOOLEAN]
  BY <1>2a
<1>2c. f \in Frame /\ f.is = "lisp"
  BY <1>2b DEF Frame
<1>3. [p EXCEPT ![n].stops = TRUE] = [p EXCEPT ![n] = f]
  OBVIOUS
<1>. HIDE DEF p, f
<1>4. StackOK([p EXCEPT ![n] = f])
  BY <1>1, <1>2, <1>2c DEF StackOK
<1>. QED  BY <1>3, <1>4 DEF p

\* What runs below the innermost.
LEMMA BelowOK ==
    ASSUME StackOK(stack), Len(stack) > 1
    PROVE StackOK(Below) /\ Len(Below) = Len(stack) - 1 /\ Below[Len(stack) - 1] = stack[Len(stack) - 1]
<1>1. Len(stack) - 1 \in 1 .. Len(stack)
  BY DEF StackOK
<1>. QED  BY <1>1, PrefixOK DEF Below

\* The innermost, and that Lisp is on a line.
LEMMA TopOK ==
    ASSUME StackOK(stack)
    PROVE /\ Top \in Frame
          /\ Top.is # "shell" => Len(stack) > 1
          /\ Top.is = "lisp" => Len(stack) > 1 /\ stack[Len(stack) - 1].is = "line"
<1>1. Top \in Frame /\ Len(stack) \in Nat /\ Len(stack) > 0
  BY DEF StackOK, Top
<1>2. Top.is # "shell" => Len(stack) > 1
  BY <1>1 DEF StackOK, Top
<1>3. Top.is = "lisp" => Len(stack) > 1 /\ stack[Len(stack) - 1].is = "line"
  BY <1>1, <1>2 DEF StackOK, Top
<1>. QED  BY <1>1, <1>2, <1>3

\* At first a shell runs.
LEMMA FirstOK == StackOK(<<Shell>>)
  BY DEF StackOK, Shell, Frame

\* A line starts Lisp.
LEMMA PushLispOK ==
    ASSUME StackOK(stack), Top.is = "line", NEW of \in Callers, NEW at \in Places,
           PushLisp(of, at)
    PROVE StackOK(stack')
<1>. DEFINE g == [stack EXCEPT ![Len(stack)].at = at]
<1>1. StackOK(g) /\ g[Len(g)].is = "line"
  BY GoOK DEF Top
<1>3. Lisp(of) \in Frame  BY DEF Lisp, Frame, Callers
<1>. HIDE DEF g
<1>4. StackOK(Append(g, Lisp(of)))  BY <1>1, <1>3, PushOK
<1>. QED  BY <1>4 DEF PushLisp, g
----------------------------------------------------------------------------
(* The steps. *)

\* A line goes on.
LEMMA GoStep ==
    ASSUME StackOK(stack), Top.is = "line", NEW at \in Places, Go(at) PROVE StackOK(stack')
  BY GoOK DEF Go, Top

\* A jump puts the completion functions of the lines it leaves back.
LEMMA CompletionBackSound ==
    ASSUME NEW s, Sound(s), StackOK(stack), NEW t \in CompletionBack(s) PROVE Sound(t)
<1>1. Asides \subseteq Owner
  BY DEF Asides, StackOK, Frame
<1>2. CASE s.now.completion # "none"
  BY <1>2 DEF CompletionBack
<1>3. CASE s.now.completion = "none"
  <2>1. PICK f \in Asides \cup {"theirs"} : t = [s EXCEPT !.now.completion = f]
    BY <1>3 DEF CompletionBack
  <2>2. f \in Owner  BY <1>1, <2>1 DEF Owner
  <2>. QED  BY <2>1, <2>2, SetsCompletion
<1>. QED  BY <1>2, <1>3

\* A jump to bash's top level,
LEMMA JumpStep ==
    ASSUME NEW s, Sound(s), StackOK(stack), JumpToTopLevel(s) PROVE SwitchingInv'
<1>. DEFINE t == [s EXCEPT !.seen = Past(@), !.errors = Past(@)]
<1>1. s.seen \in Kept /\ s.errors \in Kept  BY DEF Sound, Resting, Ink
<1>2. Sound(t)  BY <1>1, PastKept, SetsKept
<1>3. ink' \in CompletionBack(t)  BY DEF JumpToTopLevel
<1>. HIDE DEF t
<1>4. Sound(ink')  BY <1>2, <1>3, CompletionBackSound
<1>5. StackOK(stack')  BY FirstOK DEF JumpToTopLevel
<1>. QED  BY <1>4, <1>5 DEF SwitchingInv, Sound, Resting

\* also one that stops at running Lisp.
LEMMA JumpsStep == ASSUME NEW s, Sound(s), StackOK(stack), Jumps(s) PROVE SwitchingInv'
<1>1. CASE LispBelow = {}
  BY <1>1, JumpStep DEF Jumps
<1>2. CASE LispBelow # {}
  <2>1. PICK i \in LispBelow :
            /\ stack' = [SubSeq(stack, 1, i) EXCEPT ![i].stops = TRUE]
            /\ ink' \in CompletionBack(s)
    BY <1>2 DEF Jumps
  <2>2. i \in 1 .. Len(stack) /\ stack[i].is = "lisp"
    BY DEF LispBelow, StackOK
  <2>3. StackOK(stack')  BY <2>1, <2>2, StopsOK
  <2>4. Sound(ink')  BY <2>1, CompletionBackSound
  <2>. QED  BY <2>3, <2>4 DEF SwitchingInv, Sound, Resting
<1>. QED  BY <1>1, <1>2

\* Lisp ends, and a key's line goes on.
LEMMA LeavesStep ==
    ASSUME NEW s, Sound(s), StackOK(stack), Top.is = "lisp", NEW accepted \in BOOLEAN,
           Leaves(s, accepted)
    PROVE SwitchingInv'
<1>1. CASE Top.stops
  <2>. DEFINE t == [s EXCEPT !.seen = "none"]
  <2>1. Sound(t)  BY SetsKept DEF Kept
  <2>2. JumpToTopLevel(t)  BY <1>1 DEF Leaves
  <2>. HIDE DEF t
  <2>. QED  BY <2>1, <2>2, JumpStep
<1>2. CASE ~Top.stops
  <2>0. Len(stack) > 1 /\ stack[Len(stack) - 1].is = "line"
    BY TopOK
  <2>1. StackOK(Below) /\ Len(Below) = Len(stack) - 1 /\ Below[Len(Below)].is = "line"
    BY <2>0, BelowOK
  <2>2. StackOK([Below EXCEPT ![Len(Below)].at = "done"])
    BY <2>1, GoOK DEF Places
  <2>3. stack' = (IF accepted THEN [Below EXCEPT ![Len(Below)].at = "done"] ELSE Below) /\ ink' = s
    BY <1>2, <2>1 DEF Leaves
  <2>. QED  BY <2>1, <2>2, <2>3 DEF SwitchingInv, Sound, Resting
<1>. QED  BY <1>1, <1>2

\* The builtins leave the stack as it is.
LEMMA ReloadSound == ASSUME NEW s, Sound(s) PROVE Sound(AgainIfBroken(s)) /\ Sound(Loads(s))
<1>1. Sound(AgainIfBroken(s))  BY SetsFlag DEF AgainIfBroken, Reloads
<1>2. Sound(Loads(s))  BY DEF Sound, Resting, Ink, Loads
<1>. QED  BY <1>1, <1>2

\* The builtins: on, off, loading and unloading.
LEMMA SwitchStep ==
    ASSUME SwitchingInv, EnableF \/ EnableD \/ On \/ Off \/ Eval PROVE SwitchingInv'
<1>. USE DEF SwitchingInv
<1>0. StackOK(stack)'
  BY DEF EnableF, EnableD, On, Off, Eval, SwitchEnds, StackOK
<1>1. CASE EnableF
  <2>1. Sound(Loads(ink))  BY ReloadSound
  <2>2. Sound([Loads(ink) EXCEPT !.unloaded = FALSE])  BY <2>1, SetsFlag
  <2>3. ink' = Enable([Loads(ink) EXCEPT !.unloaded = FALSE]) \/ ink' = Guard(Loads(ink))
    BY <1>1 DEF EnableF
  <2>. QED  BY <1>0, <2>1, <2>2, <2>3, EnableSound, GuardSound DEF Sound, Resting
<1>2. CASE EnableD
  BY <1>0, <1>2, DisableSound, SetsFlag DEF EnableD, Sound, Resting
<1>3. CASE On
  <2>. DEFINE c == [ink EXCEPT !.panicked = FALSE]
  <2>1. Sound(c)  BY SetsFlag
  <2>2. ink' = Enable(AgainIfBroken(c)) \/ ink' = Guard(AgainIfBroken(c))
    BY <1>3 DEF On
  <2>. HIDE DEF c
  <2>3. Sound(AgainIfBroken(c))  BY <2>1, ReloadSound
  <2>. QED  BY <1>0, <2>2, <2>3, EnableSound, GuardSound DEF Sound, Resting
<1>4. CASE Off
  BY <1>0, <1>4, DisableSound DEF Off, Sound, Resting
<1>5. CASE Eval
  <2>1. Sound(AgainIfBroken(ink))  BY ReloadSound
  <2>2. ~ink.running => ~AgainIfBroken(ink).running
    BY DEF AgainIfBroken, Reloads, Sound, Resting, Ink
  <2>3. \/ ink' = AgainIfBroken(ink) \/ ink' = Guard(AgainIfBroken(ink))
        \/ ~ink.running /\ ink' = LispPanic(AgainIfBroken(ink))
    BY <1>5 DEF Eval
  <2>. QED  BY <1>0, <2>1, <2>2, <2>3, GuardSound, LispPanicSound DEF Sound, Resting
<1>. QED  BY <1>1, <1>2, <1>3, <1>4, <1>5
\* What shell code does to what runs.
LEMMA ShellStep ==
    ASSUME SwitchingInv, BeginsMain \/ BeginsReadE \/ ShellEnds \/ ShellJumps
    PROVE SwitchingInv'
<1>. USE DEF SwitchingInv
<1>1. CASE BeginsMain
  <2>. DEFINE c == IF ink.now.completion = "none" THEN "theirs" ELSE ink.now.completion
  <2>1. c \in Owner  BY DEF Sound, Resting, Ink, Replaced, Owner
  <2>2. ink' = [ink EXCEPT !.now.completion = c]  BY <1>1 DEF BeginsMain
  <2>. HIDE DEF c
  <2>3. Sound(ink')  BY <2>1, <2>2, SetsCompletion
  <2>4. LineFrame(TRUE, "none") \in Frame /\ LineFrame(TRUE, "none").is # "lisp"
    BY DEF LineFrame, Frame, Places, Owner
  <2>5. stack' = Append(stack, LineFrame(TRUE, "none"))  BY <1>1 DEF BeginsMain, Push
  <2>6. StackOK(stack')  BY <2>4, <2>5, PushOK
  <2>. QED  BY <2>3, <2>6 DEF Sound, Resting
<1>2. CASE BeginsReadE
  <2>. DEFINE f == LineFrame(FALSE, ink.now.completion)
  <2>1. ink.now.completion \in Owner  BY DEF Sound, Resting, Ink, Replaced, Owner
  <2>2. f \in Frame /\ f.is # "lisp"  BY <2>1 DEF LineFrame, Frame, Places
  <2>3. stack' = Append(stack, f)  BY <1>2 DEF BeginsReadE, Push
  <2>. HIDE DEF f
  <2>4. StackOK(stack')  BY <2>2, <2>3, PushOK
  <2>5. ink' = [ink EXCEPT !.now.completion = "none"] /\ "none" \in Owner
    BY <1>2 DEF BeginsReadE, Owner
  <2>6. Sound(ink')  BY <2>5, SetsCompletion
  <2>. QED  BY <2>4, <2>6 DEF Sound, Resting
<1>3. CASE ShellEnds
  BY <1>3, BelowOK DEF ShellEnds, Sound, Resting
<1>4. CASE ShellJumps
  BY <1>4, JumpsStep DEF ShellJumps
<1>. QED  BY <1>1, <1>2, <1>3, <1>4

\* line_started
LEMMA SeesSound == ASSUME NEW s, Sound(s) PROVE Sound(SeesNewLine(s))
  BY SetsKept DEF SeesNewLine, Kept

\* A line's own steps that start no Lisp and leave inkline's state to a
\* function of it: only the place changes, or the frame goes.
LEMMA GoesStep ==
    ASSUME SwitchingInv, Top.is = "line", NEW at \in Places, Go(at), Sound(ink')
    PROVE SwitchingInv'
  BY GoStep DEF SwitchingInv, Sound, Resting

\* A line's step that starts Lisp.
LEMMA LispStartsStep ==
    ASSUME SwitchingInv, Top.is = "line", NEW of \in Callers, NEW at \in Places,
           PushLisp(of, at), Sound(ink')
    PROVE SwitchingInv'
  BY PushLispOK DEF SwitchingInv, Sound, Resting

\* What a line does until it has a key.
LEMMA DrawingStep ==
    ASSUME SwitchingInv, Draws \/ DrawsAfterKey \/ Starts PROVE SwitchingInv'
<1>. USE DEF SwitchingInv
<1>1. CASE Draws
  <2>1. Top.is = "line" /\ After \in Places /\ Go(After) /\ ink' = ink
    BY <1>1 DEF Draws, AtLine, After, Places
  <2>2. Sound(ink')  BY <2>1
  <2>. QED  BY <2>1, <2>2, GoesStep
<1>2. CASE DrawsAfterKey
  <2>1. Top.is = "line" /\ After \in Places /\ ink.enabled
    BY <1>2 DEF DrawsAfterKey, AtLine, After, Places, AfterKeyHere, MayRunHooks
  <2>2. CASE Go(After) /\ ink' = [UseOwnKeyReader(ink) EXCEPT !.seen = "current"]
    <3>1. Sound(UseOwnKeyReader(ink))  BY <2>1, ReaderSound
    <3>2. Sound(ink')  BY <2>2, <3>1, SetsKept DEF Kept
    <3>. QED  BY <2>1, <2>2, <3>2, GoesStep
  <2>3. CASE PushLisp("afterChange", After) /\ ink' = [BeforeLisp(ink) EXCEPT !.seen = "none"]
    <3>1. Sound(BeforeLisp(ink))  BY BeforeLispSound
    <3>2. Sound(ink')  BY <2>3, <3>1, SetsKept DEF Kept
    <3>. QED  BY <2>1, <2>3, <3>2, LispStartsStep DEF Callers
  <2>. QED  BY <1>2, <2>2, <2>3 DEF DrawsAfterKey
<1>3. CASE Starts
  <2>. DEFINE ready == SeesNewLine(WrapCompletion(ink))
  <2>1. Top.is = "line" /\ "read" \in Places  BY <1>3 DEF Starts, AtLine, Places
  <2>2. Sound(ready)  BY CompletionSound, SeesSound
  <2>3. Sound(BeforeLisp(ready)) /\ Sound(AfterLisp(ready))
    BY <2>2, BeforeLispSound, AfterLispSound DEF Sound
  <2>4. \/ Go("read") /\ ink' \in {ink, ready, AfterLisp(ready)}
        \/ PushLisp("lineStart", "read") /\ ink' = BeforeLisp(ready)
    BY <1>3 DEF Starts
  <2>. HIDE DEF ready
  <2>5. Sound(ink')  BY <2>2, <2>3, <2>4
  <2>. QED  BY <2>1, <2>4, <2>5, GoesStep, LispStartsStep DEF Callers
<1>. QED  BY <1>1, <1>2, <1>3

\* A line or Lisp that runs shell code.
LEMMA ShellPushStep ==
    ASSUME SwitchingInv, Push(Shell), Sound(ink') PROVE SwitchingInv'
<1>1. Shell \in Frame /\ Shell.is # "lisp"  BY DEF Shell, Frame
<1>. QED  BY <1>1, PushOK DEF SwitchingInv, Push, Sound, Resting

\* The steps of a line that waits for a key.
LEMMA WaitingStep ==
    ASSUME SwitchingInv, Waits \/ Trap \/ CtrlCEndsLine \/ KeyArrives \/ HookPanics
    PROVE SwitchingInv'
<1>. USE DEF SwitchingInv
<1>1. CASE Waits
  <2>1. /\ Top.is = "line"
        /\ \/ Go("waits") /\ ink' = GetcWaits(ink)
           \/ Go("theirs") /\ ink' = ink
    BY <1>1 DEF Waits, AtLine
  <2>2. Sound(ink')  BY <2>1, GetcSound
  <2>. QED  BY <2>1, <2>2, GoesStep DEF Places
<1>2. CASE Trap
  <2>1. Push(Shell) /\ Sound(ink')  BY <1>2 DEF Trap
  <2>. QED  BY <2>1, ShellPushStep
<1>3. CASE CtrlCEndsLine
  BY <1>3, DeprepSound, JumpsStep DEF CtrlCEndsLine
<1>4. CASE KeyArrives
  <2>1. Top.is = "line" /\ Go("command") /\ ink' \in {ink, GetcEnds(ink)}
    BY <1>4 DEF KeyArrives, AtLine
  <2>2. Sound(ink')  BY <2>1, GetcSound
  <2>. QED  BY <2>1, <2>2, GoesStep DEF Places
<1>5. CASE HookPanics
  <2>1. /\ ink' = Guard(ink)
        /\ \/ stack' = stack
           \/ Top.is = "line" /\ Go(After)
    BY <1>5 DEF HookPanics, AtLine
  <2>2. Sound(ink')  BY <2>1, GuardSound
  <2>3. After \in Places  BY DEF After, Places
  <2>4. CASE stack' = stack
    BY <2>2, <2>4 DEF Sound, Resting
  <2>. QED  BY <2>1, <2>2, <2>3, <2>4, GoesStep
<1>. QED  BY <1>1, <1>2, <1>3, <1>4, <1>5

\* The commands of a key.
LEMMA CommandStep ==
    ASSUME SwitchingInv,
           Edits \/ RunsShell \/ Returns \/ LispKeyFallsBack \/ LispKey
             \/ Accepts \/ ReadlineAccepts \/ LineEnds
    PROVE SwitchingInv'
<1>. USE DEF SwitchingInv
<1>1. CASE Edits \/ Returns \/ LispKeyFallsBack \/ ReadlineAccepts
  <2>1. Top.is = "line" /\ ink' = ink /\ (Go("draw") \/ Go("done"))
    BY <1>1 DEF Edits, Returns, LispKeyFallsBack, ReadlineAccepts, AtLine
  <2>2. Sound(ink')  BY <2>1
  <2>. QED  BY <2>1, <2>2, GoesStep DEF Places
<1>2. CASE RunsShell
  <2>. DEFINE g == [stack EXCEPT ![Len(stack)].at = "returns"]
  <2>1. stack[Len(stack)].is = "line" /\ stack' = Append(g, Shell) /\ ink' \in {ink, CallDeprep(ink)}
    BY <1>2 DEF RunsShell, AtLine, Top
  <2>2. StackOK(g)  BY <2>1, GoOK DEF Places
  <2>. HIDE DEF g
  <2>3. Shell \in Frame /\ Shell.is # "lisp"  BY DEF Shell, Frame
  <2>4. StackOK(stack')  BY <2>1, <2>2, <2>3, PushOK
  <2>5. Sound(ink')  BY <2>1, DeprepSound
  <2>. QED  BY <2>4, <2>5 DEF Sound, Resting
<1>3. CASE LispKey
  <2>1. /\ Top.is = "line"
        /\ \/ Go("returns") /\ ink.running /\ ink' = UseOwnKeyReader(ink)
           \/ PushLisp("key", "returns") /\ ink' = BeforeLisp(ink)
    BY <1>3 DEF LispKey, AtLine
  <2>2. Sound(ink')  BY <2>1, ReaderSound, BeforeLispSound
  <2>. QED  BY <2>1, <2>2, GoesStep, LispStartsStep DEF Places, Callers
<1>4. CASE Accepts
  <2>1. /\ Top.is = "line"
        /\ \/ Go("done") /\ ink' \in {ink, AfterLisp(ink)}
           \/ PushLisp("accept", "returns") /\ ink' = BeforeLisp(ink)
    BY <1>4 DEF Accepts, AtLine
  <2>2. Sound(ink')  BY <2>1, AfterLispSound, BeforeLispSound DEF Sound
  <2>. QED  BY <2>1, <2>2, GoesStep, LispStartsStep DEF Places, Callers
<1>5. CASE LineEnds
  <2>. DEFINE ended == CallDeprep(ink)
              seen == IF ended.running THEN ended.seen ELSE Past(ended.seen)
              kept == [ended EXCEPT !.seen = seen, !.errors = Past(ended.errors)]
              c == IF Top.main THEN kept.now.completion ELSE Top.aside
  <2>1. Top.is = "line" /\ Top \in Frame /\ Len(stack) > 1 /\ StackOK(Below)
    BY <1>5, TopOK, BelowOK DEF LineEnds, AtLine
  <2>2. Sound(ended)  BY DeprepSound
  <2>3. ended.seen \in Kept /\ ended.errors \in Kept
    BY <2>2 DEF Sound, Resting, Ink
  <2>4. ended \in Ink  BY <2>2 DEF Sound, Resting
  <2>. HIDE DEF ended
  <2>5. seen \in Kept /\ Past(ended.errors) \in Kept  BY <2>3, PastKept
  <2>6. Sound(kept) /\ kept \in Ink
    <3>1. Sound(kept)  BY <2>2, <2>5, SetsKept
    <3>. HIDE DEF kept
    <3>. QED  BY <3>1 DEF Sound, Resting
  <2>7. kept.now = ended.now  BY <2>4 DEF Ink
  <2>8. Top.aside \in Owner  BY <2>1 DEF Frame
  <2>9. c \in Owner  BY <2>6, <2>8 DEF Ink, Replaced
  <2>10. ink' = [kept EXCEPT !.now.completion = c]
    BY <1>5, <2>4, <2>7 DEF LineEnds, ended, Ink
  <2>. HIDE DEF kept, c
  <2>11. Sound(ink')  BY <2>6, <2>9, <2>10, SetsCompletion
  <2>12. stack' = Below  BY <1>5 DEF LineEnds
  <2>. QED  BY <2>1, <2>11, <2>12 DEF Sound, Resting
<1>. QED  BY <1>1, <1>2, <1>3, <1>4, <1>5

\* The steps of Lisp.
LEMMA LispStep ==
    ASSUME SwitchingInv, LispRunsShell \/ LispReadsKey \/ LispReturns \/ LispPanics
    PROVE SwitchingInv'
<1>. USE DEF SwitchingInv
<1>1. CASE LispRunsShell
  <2>1. Push(Shell) /\ ink' \in {ink, CallDeprep(ink)}  BY <1>1 DEF LispRunsShell
  <2>2. Sound(ink')  BY <2>1, DeprepSound
  <2>. QED  BY <2>1, <2>2, ShellPushStep
<1>2. CASE LispReadsKey
  <2>1. stack' = stack /\ ink' \in {ink, GetcEnds(GetcWaits(ink))}  BY <1>2 DEF LispReadsKey
  <2>2. Sound(GetcWaits(ink))  BY GetcSound
  <2>3. Sound(GetcEnds(GetcWaits(ink)))  BY <2>2, GetcSound
  <2>. QED  BY <2>1, <2>3 DEF Sound, Resting
<1>3. CASE LispReturns
  <2>1. PICK accepted \in BOOLEAN, errors \in BOOLEAN :
            Leaves(AfterLisp(BeforeReturning(errors)), accepted)
    BY <1>3 DEF LispReturns
  <2>2. Sound(BeforeReturning(errors))
    BY SetsKept DEF BeforeReturning, NotesErrors, Kept
  <2>3. Sound(AfterLisp(BeforeReturning(errors)))  BY <2>2, AfterLispSound DEF Sound
  <2>4. Top.is = "lisp"  BY <1>3 DEF LispReturns, InLisp
  <2>. QED  BY <2>1, <2>3, <2>4, LeavesStep
<1>4. CASE LispPanics
  <2>1. Top.is = "lisp" /\ Leaves(AfterLisp(LispPanic(ink)), Top.of = "accept")
    BY <1>4 DEF LispPanics, InLisp
  <2>2. Sound(AfterLisp(LispPanic(ink)))  BY LispPanicResting, AfterLispSound
  <2>3. PICK accepted \in BOOLEAN : accepted = (Top.of = "accept")
    OBVIOUS
  <2>4. Leaves(AfterLisp(LispPanic(ink)), accepted)  BY <2>1, <2>3
  <2>. QED  BY <2>1, <2>2, <2>4, LeavesStep
<1>. QED  BY <1>1, <1>2, <1>3, <1>4
----------------------------------------------------------------------------
\* What holds at first.
LEMMA SwitchingInitInv == ASSUME SwitchingInit PROVE SwitchingInv
<1>1. Sound(ink)
  BY DEF SwitchingInit, Sound, Resting, Ink, Replaced, Owner, Kept
<1>2. StackOK(stack)
  BY FirstOK DEF SwitchingInit
<1>. QED  BY <1>1, <1>2 DEF SwitchingInv

(* What inkline saved and what readline calls stay in step, whatever runs:  *)
(* the invariant that every action of the switching keeps.                 *)
THEOREM SwitchingInvariant == SwitchingSpec => []SwitchingInv
<1>1. SwitchingInit => SwitchingInv
  BY SwitchingInitInv
<1>2. SwitchingInv /\ [SwitchingNext]_switchVars => SwitchingInv'
  <2>. SUFFICES ASSUME SwitchingInv, [SwitchingNext]_switchVars PROVE SwitchingInv'
    OBVIOUS
  <2>1. CASE EnableF \/ EnableD \/ On \/ Off \/ Eval
    BY <2>1, SwitchStep
  <2>2. CASE BeginsMain \/ BeginsReadE \/ ShellEnds \/ ShellJumps
    BY <2>2, ShellStep
  <2>3. CASE Draws \/ DrawsAfterKey \/ Starts
    BY <2>3, DrawingStep
  <2>4. CASE Waits \/ Trap \/ CtrlCEndsLine \/ KeyArrives \/ HookPanics
    BY <2>4, WaitingStep
  <2>5. CASE \/ Edits \/ RunsShell \/ Returns \/ LispKeyFallsBack \/ LispKey
             \/ Accepts \/ ReadlineAccepts \/ LineEnds
    BY <2>5, CommandStep
  <2>6. CASE LispRunsShell \/ LispReadsKey \/ LispReturns \/ LispPanics
    BY <2>6, LispStep
  <2>7. CASE UNCHANGED switchVars
    BY <2>7 DEF switchVars, SwitchingInv, Sound, Resting, StackOK
  <2>. QED  BY <2>1, <2>2, <2>3, <2>4, <2>5, <2>6, <2>7 DEF SwitchingNext
<1>. QED  BY <1>1, <1>2, PTL DEF SwitchingSpec

(* inkline never saves a function of its own as the one to put back: its    *)
(* reader would call itself for a key (enable, use_own_key_reader,         *)
(* wrap_completion), however often it is switched, and by whichever code.  *)
THEOREM OriginalsNotOursAlways == SwitchingSpec => []OriginalsNotOurs
<1>1. SwitchingInv => OriginalsNotOurs
  BY DEF SwitchingInv, Sound, Resting, OriginalsNotOurs
<1>. QED  BY <1>1, SwitchingInvariant, PTL

(* Readline runs without inkline's functions whenever inkline is off and no *)
(* Lisp runs, and with them while it is on (enable, disable, after_lisp,   *)
(* guard), also after panics and after jumps out of the code that switched.*)
THEOREM OnAndOffAlways == SwitchingSpec => []OnAndOff
<1>1. SwitchingInv => OnAndOff
  BY DEF SwitchingInv, Sound, Resting, OnAndOff, InPlace
<1>. QED  BY <1>1, SwitchingInvariant, PTL
----------------------------------------------------------------------------
(* What is kept of a line.                                                 *)
(*                                                                         *)
(* Lisp runs once at a time, for a line that does not wait meanwhile.      *)
(* inkline's drawing is in place only after a key of the innermost line;   *)
(* errors are kept only until the line that is done ends.  A line compared *)
(* with is an earlier one's only where a jump left it behind: then no line *)
(* has started since, and readline still says that it is in a command, so  *)
(* that no hook runs.                                                      *)

Waiting(f) == f.is = "line" /\ f.at \in {"waits", "theirs"}
AtWork(f) == f.is = "line" /\ f.at \in {"starts", "read", "returns"}
LispIn(s) == {i \in 1 .. Len(s) : s[i].is = "lisp"}
InnermostBusy(s) ==
    \A i \in 1 .. Len(s) : Waiting(s[i]) => \E j \in i + 1 .. Len(s) : s[j].is = "line"
NoneStarted(s) ==
    \A i \in 1 .. Len(s) :
        s[i].is # "lisp" /\ (s[i].is = "line" => s[i].at \in {"prompt", "starts"})
KeysTurn(f) ==
    f.is = "shell" \/ (f.is = "line" /\ f.at \in {"prompt", "waits", "theirs", "command"})

LispOK(k, s) == /\ k.running <=> LispIn(s) # {}
                /\ \A i, j \in LispIn(s) : i = j
                /\ \A i \in LispIn(s) : AtWork(s[i - 1])
ErrorsOK(k, s) == /\ k.errors \in {"none", "current"}
                  /\ k.errors = "current" =>
                        k.enabled /\ s[Len(s)].is = "line" /\ s[Len(s)].at = "done"
SeenOK(k, s, c) ==
    /\ k.seen = "past" /\ k.enabled => NoneStarted(s)
    /\ k.enabled /\ ~k.running /\ k.seen # "none" /\ KeysTurn(s[Len(s)]) => c
LineOK(k, s, c) ==
    /\ LispOK(k, s) /\ ErrorsOK(k, s) /\ SeenOK(k, s, c)
    /\ k.now.redisplay = "ours" => InnermostBusy(s)
LineInv == LineOK(ink, stack, inCommand) /\ compared # "past"

\* What takes nothing from the line but may forget: switching does so.
Calmer(s, t) ==
    /\ t.running = s.running
    /\ t.now.redisplay = "ours" => s.now.redisplay = "ours"
    /\ t.errors = "none" \/ (t.errors = s.errors /\ (s.enabled => t.enabled))
    /\ t.seen = "none" \/ (t.seen = s.seen /\ (t.enabled => s.enabled))

\* A state with no more of a line's things in it is as good for the same stack.
LEMMA CalmerOK ==
    ASSUME NEW k, NEW l, NEW s, NEW c, LineOK(k, s, c), Calmer(k, l) PROVE LineOK(l, s, c)
<1>1. LispOK(l, s)  BY DEF LineOK, LispOK, Calmer
<1>2. ErrorsOK(l, s)  BY DEF LineOK, ErrorsOK, Calmer
<1>3. SeenOK(l, s, c)  BY DEF LineOK, SeenOK, Calmer
<1>. QED  BY <1>1, <1>2, <1>3 DEF LineOK, Calmer

\* One after another.
LEMMA CalmerTwice ==
    ASSUME NEW k, NEW l, NEW m, Calmer(k, l), Calmer(l, m) PROVE Calmer(k, m)
  BY DEF Calmer

\* The reader has no part in what is kept of a line,
LEMMA ReaderCalm == ASSUME NEW s, Sound(s) PROVE Calmer(s, UseOwnKeyReader(s))
  BY DEF Sound, Resting, Calmer, UseOwnKeyReader, Ink, Replaced, Owner

\* nor has the completion function,
LEMMA CompletionCalm ==
    ASSUME NEW s, Sound(s), NEW f \in Owner
    PROVE Calmer(s, WrapCompletion(s)) /\ Calmer(s, [s EXCEPT !.now.completion = f])
  BY DEF Sound, Resting, Calmer, WrapCompletion, Ink, Replaced, Owner

\* nor have the flags.
LEMMA FlagsCalm ==
    ASSUME NEW s, Sound(s), NEW b \in BOOLEAN
    PROVE /\ Calmer(s, [s EXCEPT !.panicked = b]) /\ Calmer(s, [s EXCEPT !.unloaded = b])
          /\ Calmer(s, AgainIfBroken(s)) /\ Calmer(s, Loads(s))
  BY DEF Sound, Resting, Calmer, AgainIfBroken, Reloads, Loads, Ink

\* enable keeps nothing of a line.
LEMMA EnableCalm == ASSUME NEW s, Sound(s) PROVE Calmer(s, Enable(s))
<1>1. CASE s.enabled
  BY <1>1 DEF Enable, Calmer
<1>2. CASE ~s.enabled
  <2>. DEFINE t == SaveOriginals(s)
              u == UseOwnKeyReader(t)
              n == [u.now EXCEPT !.deprep = "ours", !.preInput = "ours"]
  <2>1. /\ t \in Ink /\ t.now = s.now /\ t.running = s.running /\ t.errors = s.errors
    BY <1>2 DEF Sound, Resting, SaveOriginals, Ink, Replaced, Owner
  <2>2. /\ u \in Ink /\ u.now.redisplay = s.now.redisplay /\ u.running = s.running
        /\ u.errors = s.errors
    BY <2>1 DEF UseOwnKeyReader, Ink, Replaced, Owner
  <2>3. Enable(s) = [u EXCEPT !.now = n, !.seen = "none", !.enabled = TRUE]
    BY <1>2 DEF Enable
  <2>4. n.redisplay = s.now.redisplay  BY <2>2 DEF Ink, Replaced, Owner
  <2>. HIDE DEF n, u
  <2>5. /\ Enable(s).now = n /\ Enable(s).running = s.running /\ Enable(s).errors = s.errors
        /\ Enable(s).seen = "none" /\ Enable(s).enabled
    BY <2>2, <2>3 DEF Ink
  <2>. QED  BY <2>4, <2>5 DEF Calmer
<1>. QED  BY <1>1, <1>2

\* Switched off: nothing of the line is kept.
Forgot(t) == /\ t.errors = "none" /\ t.seen = "none" /\ ~t.enabled
             /\ t.now.redisplay # "ours"

\* disable forgets what is kept of a line.
LEMMA DisableForgets ==
    ASSUME NEW s, Resting(s) PROVE Forgot(Disable(s)) /\ Disable(s).running = s.running
<1>. DEFINE t == Forgetful(s)
<1>1. /\ t \in Ink /\ t.running = s.running /\ t.errors = "none" /\ t.seen = "none" /\ ~t.enabled
  BY DEF Resting, Forgetful, UnwrapCompletion, Ink, Replaced, Owner, Kept
<1>. HIDE DEF t
<1>2. /\ PutBack(t).running = t.running /\ PutBack(t).errors = t.errors
      /\ PutBack(t).seen = t.seen
  BY <1>1 DEF PutBack, Ink
<1>3. Disable(s) = PutBack(t) \/ Disable(s) = t  BY DEF Disable, t
<1>4. Resting(Disable(s))  BY DisableResting
<1>5. ~Disable(s).enabled  BY <1>1, <1>3 DEF PutBack, Ink
<1>6. Disable(s).now.redisplay # "ours"  BY <1>4, <1>5 DEF Resting
<1>. QED  BY <1>1, <1>2, <1>3, <1>5, <1>6 DEF Forgot

\* So it leaves no more of it.
LEMMA DisableCalm == ASSUME NEW s, Sound(s) PROVE Calmer(s, Disable(s)) /\ Calmer(s, Guard(s))
<1>1. Forgot(Disable(s)) /\ Disable(s).running = s.running
  BY DisableForgets DEF Sound
<1>. DEFINE t == [s EXCEPT !.panicked = TRUE]
<1>2. Sound(t)  BY SetsFlag
<1>2a. t.running = s.running  BY DEF Sound, Resting, Ink
<1>3. Guard(s) = Disable(t)  BY DEF Guard
<1>. HIDE DEF t
<1>4. Forgot(Guard(s)) /\ Guard(s).running = s.running
  BY <1>2, <1>2a, <1>3, DisableForgets DEF Sound
<1>. QED  BY <1>1, <1>4 DEF Forgot, Calmer

\* So does a panic in Lisp.
LEMMA LispPanicForgets ==
    ASSUME NEW s, Sound(s) PROVE Forgot(LispPanic(s)) /\ LispPanic(s).running = FALSE
<1>. DEFINE t == [[s EXCEPT !.running = FALSE, !.broken = TRUE] EXCEPT !.panicked = TRUE]
<1>1. Resting(t) /\ t.running = FALSE  BY DEF Sound, Resting, Ink
<1>. HIDE DEF t
<1>2. LispPanic(s) = Disable(t)  BY DEF LispPanic, Guard, t
<1>. QED  BY <1>1, <1>2, DisableForgets

\* getc, about to wait, takes inkline's drawing out.
LEMMA WaitsCalm ==
    ASSUME NEW s, Sound(s)
    PROVE Calmer(s, GetcWaits(s)) /\ GetcWaits(s).now.redisplay # "ours"
  BY DEF Sound, Resting, Calmer, GetcWaits, Ink, Replaced, Owner

\* readline's end of a line: inkline forgets it, as far as it is on.
LEMMA DeprepCalm ==
    ASSUME NEW s, Sound(s)
    PROVE /\ Calmer(s, CallDeprep(s)) /\ CallDeprep(s).now.redisplay # "ours"
          /\ CallDeprep(s).enabled = s.enabled
          /\ s.enabled => /\ CallDeprep(s).errors = "none"
                          /\ ~s.running => CallDeprep(s).seen = "none"
<1>1. CASE s.now.deprep = "ours"
  <2>1. s.enabled  BY <1>1 DEF Sound, Resting
  <2>2. CallDeprep(s) = Deprep(s)  BY <1>1 DEF CallDeprep
  <2>3. /\ Deprep(s).running = s.running /\ Deprep(s).enabled = s.enabled
        /\ Deprep(s).now.redisplay = s.saved.redisplay /\ Deprep(s).errors = "none"
        /\ Deprep(s).seen = IF s.running THEN s.seen ELSE "none"
    BY DEF Sound, Resting, Deprep, Ink, Replaced, Owner
  <2>4. s.saved.redisplay # "ours"  BY DEF Sound, Resting, Replaced
  <2>. QED  BY <2>1, <2>2, <2>3, <2>4 DEF Calmer
<1>2. CASE s.now.deprep # "ours"
  <2>1. ~s.enabled /\ s.now.redisplay # "ours"  BY <1>2 DEF Sound, Resting
  <2>. QED  BY <1>2, <2>1 DEF CallDeprep, Calmer
<1>. QED  BY <1>1, <1>2
----------------------------------------------------------------------------
(* What runs, and what is kept of its line: a lemma for each change of the *)
(* stack.                                                                  *)

\* A line that goes to a place is there.
LEMMA PlaceTaken ==
    ASSUME NEW s, StackOK(s), s[Len(s)].is = "line", NEW at \in Places
    PROVE LET g == [s EXCEPT ![Len(s)].at = at] IN g[Len(g)].at = at
<1>1. Len(s) \in 1 .. Len(s) /\ s \in Seq(Frame)  BY DEF StackOK
<1>2. s[Len(s)] \in [is : {"line"}, at : Places, main : BOOLEAN, aside : Owner]
  BY <1>1 DEF Frame
<1>. QED  BY <1>1, <1>2

\* So is the innermost, after Go.
LEMMA GoneTo ==
    ASSUME NEW at \in Places, StackOK(stack), Top.is = "line", Go(at)
    PROVE /\ Len(stack') \in Nat /\ stack'[Len(stack')].is = "line"
          /\ stack'[Len(stack')].at = at
<1>1. stack[Len(stack)].is = "line"  BY DEF Top
<1>. DEFINE g == [stack EXCEPT ![Len(stack)].at = at]
<1>2. StackOK(g) /\ g[Len(g)].is = "line"  BY <1>1, GoOK
<1>3. g[Len(g)].at = at  BY <1>1, PlaceTaken
<1>4. Len(g) \in Nat  BY <1>2 DEF StackOK
<1>5. stack' = g  BY DEF Go
<1>. HIDE DEF g
<1>. QED  BY <1>2, <1>3, <1>4, <1>5

\* A line that goes on, with what its new place allows.
LEMMA LineGoes ==
    ASSUME NEW k, NEW s, NEW c, NEW d, NEW at \in Places, StackOK(s), LineOK(k, s, c),
           s[Len(s)].is = "line", s[Len(s)].at # "done",
           at \in {"waits", "theirs"} => k.now.redisplay # "ours",
           k.seen = "past" /\ k.enabled => at \in {"prompt", "starts"},
           at \in {"prompt", "waits", "theirs", "command"} =>
              (k.enabled /\ ~k.running /\ k.seen # "none" => d)
    PROVE LineOK(k, [s EXCEPT ![Len(s)].at = at], d)
<1>. DEFINE g == [s EXCEPT ![Len(s)].at = at]
<1>1. /\ Len(s) \in Nat /\ Len(s) > 1 /\ s \in Seq(Frame)
  BY DEF StackOK
<1>2. s[Len(s)] \in [is : {"line"}, at : Places, main : BOOLEAN, aside : Owner]
  BY <1>1 DEF Frame
<1>3. /\ Len(g) = Len(s) /\ g[Len(s)].is = "line" /\ g[Len(s)].at = at
      /\ \A i \in 1 .. Len(s) : i # Len(s) => g[i] = s[i]
  BY <1>1, <1>2
<1>. HIDE DEF g
<1>4. LispIn(g) = LispIn(s)  BY <1>1, <1>3 DEF LispIn
<1>5. \A i \in LispIn(s) : i - 1 \in 1 .. Len(s) - 1
  BY <1>1 DEF LispIn, StackOK
<1>6. LispOK(k, g)  BY <1>1, <1>3, <1>4, <1>5 DEF LineOK, LispOK
<1>7. ErrorsOK(k, g)  BY DEF LineOK, ErrorsOK
<1>8. SeenOK(k, g, d)
  <2>1. k.seen = "past" /\ k.enabled => NoneStarted(g)
    BY <1>1, <1>3 DEF LineOK, SeenOK, NoneStarted
  <2>. QED  BY <1>3, <2>1 DEF SeenOK, KeysTurn
<1>9. k.now.redisplay = "ours" => InnermostBusy(g)
  BY <1>1, <1>3 DEF LineOK, InnermostBusy, Waiting
<1>. QED  BY <1>6, <1>7, <1>8, <1>9 DEF LineOK, g

\* Shell code or a line begins above the others.
LEMMA FrameIsPushed ==
    ASSUME NEW k, NEW s, NEW c, NEW f \in Frame, StackOK(s), LineOK(k, s, c),
           f.is = "shell" \/ (f.is = "line" /\ f.at = "prompt"),
           k.errors = "none",
           k.enabled /\ ~k.running /\ k.seen # "none" => c
    PROVE LineOK(k, Append(s, f), c)
<1>. DEFINE g == Append(s, f)
<1>1. /\ Len(s) \in Nat /\ Len(g) = Len(s) + 1 /\ g[Len(g)] = f
      /\ \A i \in 1 .. Len(s) : g[i] = s[i]
  BY DEF StackOK
<1>. HIDE DEF g
<1>2. LispIn(g) = LispIn(s)  BY <1>1 DEF LispIn
<1>3. \A i \in LispIn(s) : i - 1 \in 1 .. Len(s)
  BY <1>1 DEF LispIn, StackOK
<1>4. LispOK(k, g)  BY <1>1, <1>2, <1>3 DEF LineOK, LispOK
<1>5. ErrorsOK(k, g)  BY DEF ErrorsOK
<1>6. SeenOK(k, g, c)
  BY <1>1 DEF LineOK, SeenOK, NoneStarted
<1>7. k.now.redisplay = "ours" => InnermostBusy(g)
  <2>. SUFFICES ASSUME InnermostBusy(s), NEW i \in 1 .. Len(g), Waiting(g[i])
                PROVE \E j \in i + 1 .. Len(g) : g[j].is = "line"
    BY DEF LineOK, InnermostBusy
  <2>1. i \in 1 .. Len(s)  BY <1>1 DEF Waiting
  <2>2. PICK j \in i + 1 .. Len(s) : s[j].is = "line"  BY <1>1, <2>1 DEF InnermostBusy
  <2>. QED  BY <1>1, <2>1, <2>2
<1>. QED  BY <1>4, <1>5, <1>6, <1>7 DEF LineOK, g

\* Lisp begins on a line at work.
LEMMA LispIsPushed ==
    ASSUME NEW k, NEW l, NEW s, NEW c, NEW of \in Callers, StackOK(s), LineOK(k, s, c),
           AtWork(s[Len(s)]), ~k.running, l.running, ~(l.seen = "past" /\ l.enabled),
           l.errors = k.errors, l.now.redisplay = "ours" => k.now.redisplay = "ours"
    PROVE LineOK(l, Append(s, Lisp(of)), c)
<1>. DEFINE g == Append(s, Lisp(of))
<1>1. /\ Len(s) \in Nat /\ Len(g) = Len(s) + 1 /\ g[Len(g)].is = "lisp"
      /\ \A i \in 1 .. Len(s) : g[i] = s[i]
  BY DEF StackOK, Lisp
<1>. HIDE DEF g
<1>2. LispIn(s) = {}  BY DEF LineOK, LispOK
<1>3. LispIn(g) = {Len(g)}  BY <1>1, <1>2 DEF LispIn
<1>3a. AtWork(g[Len(g) - 1])  BY <1>1 DEF StackOK
<1>4. LispOK(l, g)  BY <1>3, <1>3a DEF LispOK
<1>5. ErrorsOK(l, g)  BY DEF LineOK, ErrorsOK, AtWork
<1>6. SeenOK(l, g, c)  BY DEF SeenOK
<1>7. l.now.redisplay = "ours" => InnermostBusy(g)
  <2>. SUFFICES ASSUME InnermostBusy(s), NEW i \in 1 .. Len(g), Waiting(g[i])
                PROVE \E j \in i + 1 .. Len(g) : g[j].is = "line"
    BY DEF LineOK, InnermostBusy
  <2>1. i \in 1 .. Len(s)  BY <1>1 DEF Waiting
  <2>2. PICK j \in i + 1 .. Len(s) : s[j].is = "line"  BY <1>1, <2>1 DEF InnermostBusy
  <2>. QED  BY <1>1, <2>1, <2>2
<1>. QED  BY <1>4, <1>5, <1>6, <1>7 DEF LineOK, g

Popped(s, p) == Len(p) = Len(s) - 1 /\ \A i \in 1 .. Len(s) - 1 : p[i] = s[i]

\* The innermost ends.
LEMMA BelowPopped == ASSUME StackOK(stack), Len(stack) > 1 PROVE Popped(stack, Below)
  BY PrefixOK DEF StackOK, Popped, Below

\* What runs ends: shell code, a line or Lisp; the line is readline's to draw
\* after a line, and Lisp leaves its own one at work.
LEMMA FrameEnds ==
    ASSUME NEW k, NEW l, NEW s, NEW c, NEW d, NEW p, StackOK(s), LineOK(k, s, c),
           Len(s) > 1, Popped(s, p),
           s[Len(s)].is # "lisp", l.running = k.running, l.errors = "none",
           l.now.redisplay = "ours" => k.now.redisplay = "ours" /\ s[Len(s)].is # "line",
           l.enabled => l.seen = k.seen \/ l.seen = "none",
           l.enabled => k.enabled,
           l.enabled /\ ~l.running /\ l.seen # "none" => d
    PROVE LineOK(l, p, d)
<1>1. /\ Len(s) \in Nat /\ Len(p) = Len(s) - 1
      /\ \A i \in 1 .. Len(s) - 1 : p[i] = s[i]
  BY DEF StackOK, Popped
<1>2. LispIn(p) = LispIn(s)  BY <1>1 DEF LispIn
<1>3. \A i \in LispIn(p) : i - 1 \in 1 .. Len(p)
  BY <1>1 DEF LispIn, StackOK
<1>4. LispOK(l, p)  BY <1>1, <1>2, <1>3 DEF LineOK, LispOK
<1>5. ErrorsOK(l, p)  BY DEF ErrorsOK
<1>6. SeenOK(l, p, d)
  BY <1>1 DEF LineOK, SeenOK, NoneStarted
<1>7. l.now.redisplay = "ours" => InnermostBusy(p)
  <2>. SUFFICES ASSUME InnermostBusy(s), s[Len(s)].is # "line", NEW i \in 1 .. Len(p), Waiting(p[i])
                PROVE \E j \in i + 1 .. Len(p) : p[j].is = "line"
    BY DEF LineOK, InnermostBusy
  <2>1. PICK j \in i + 1 .. Len(s) : s[j].is = "line"  BY <1>1 DEF InnermostBusy
  <2>2. j \in i + 1 .. Len(p)  BY <1>1, <2>1
  <2>. QED  BY <1>1, <2>1, <2>2
<1>. QED  BY <1>4, <1>5, <1>6, <1>7 DEF LineOK

\* Lisp is left: its line, at work, is the innermost again.
LEMMA LispRunEnds ==
    ASSUME NEW k, NEW l, NEW s, NEW c, NEW p, StackOK(s), LineOK(k, s, c),
           s[Len(s)].is = "lisp", Popped(s, p),
           ~l.running, l.errors = "none", ~(l.seen = "past" /\ l.enabled)
    PROVE LineOK(l, p, c) /\ AtWork(p[Len(p)])
<1>0. Len(s) > 1 /\ AtWork(s[Len(s) - 1])
  BY DEF StackOK, LineOK, LispOK, LispIn
<1>1. /\ Len(s) \in Nat /\ Len(p) = Len(s) - 1
      /\ \A i \in 1 .. Len(s) - 1 : p[i] = s[i]
  BY <1>0 DEF StackOK, Popped
<1>2. LispIn(s) = {Len(s)}  BY <1>0, <1>1 DEF LineOK, LispOK, LispIn
<1>3. LispIn(p) = {}
  <2>. SUFFICES ASSUME NEW i \in LispIn(p) PROVE FALSE  OBVIOUS
  <2>1. i \in LispIn(s) /\ i # Len(s)  BY <1>1 DEF LispIn
  <2>. QED  BY <1>2, <2>1
<1>4. LispOK(l, p)  BY <1>3 DEF LispOK
<1>5. ErrorsOK(l, p)  BY DEF ErrorsOK
<1>6. SeenOK(l, p, c)  BY <1>0, <1>1 DEF SeenOK, AtWork, KeysTurn
<1>7. InnermostBusy(p)
  BY <1>0, <1>1 DEF InnermostBusy, Waiting, AtWork
<1>. QED  BY <1>0, <1>1, <1>4, <1>5, <1>6, <1>7 DEF LineOK

\* The accept hook's errors are kept for the line that is done.
LEMMA ErrorsAreNoted ==
    ASSUME NEW k, NEW l, NEW s, NEW c, LineOK(k, s, c), s[Len(s)].is = "line",
           s[Len(s)].at = "done", l.running = k.running, l.enabled = k.enabled,
           l.seen = k.seen, l.now = k.now,
           l.errors = "none" \/ (l.errors = "current" /\ l.enabled)
    PROVE LineOK(l, s, c)
<1>1. LispOK(l, s)  BY DEF LineOK, LispOK
<1>2. ErrorsOK(l, s)  BY DEF ErrorsOK
<1>3. SeenOK(l, s, c)  BY DEF LineOK, SeenOK
<1>. QED  BY <1>1, <1>2, <1>3 DEF LineOK

\* A jump that Lisp stops.
LEMMA LispIsStopped ==
    ASSUME NEW k, NEW s, NEW c, NEW d, NEW i \in LispIn(s), StackOK(s), LineOK(k, s, c),
           k.errors = "none"
    PROVE LineOK(k, [SubSeq(s, 1, i) EXCEPT ![i].stops = TRUE], d)
<1>. DEFINE p == SubSeq(s, 1, i)
            f == [p[i] EXCEPT !.stops = TRUE]
            g == [p EXCEPT ![i] = f]
<1>1. i \in 1 .. Len(s) /\ s[i].is = "lisp"  BY DEF LispIn
<1>2. i > 1 /\ AtWork(s[i - 1])  BY <1>1 DEF StackOK, LineOK, LispOK
<1>3. StackOK(p) /\ Len(p) = i /\ \A j \in 1 .. i : p[j] = s[j]
  BY <1>1, PrefixOK
<1>3a. p[i] \in [is : {"lisp"}, of : Callers, stops : BOOLEAN]
  BY <1>1, <1>3 DEF StackOK, Frame
<1>4. /\ Len(g) = i /\ g[i].is = "lisp"
      /\ \A j \in 1 .. i - 1 : g[j] = s[j]
  <2>1. f.is = "lisp"  BY <1>3a
  <2>. HIDE DEF f, p
  <2>. QED  BY <1>1, <1>2, <1>3, <2>1 DEF StackOK
<1>4a. g = [SubSeq(s, 1, i) EXCEPT ![i].stops = TRUE]  OBVIOUS
<1>. HIDE DEF g
<1>5. \A j \in LispIn(s) : j = i  BY DEF LineOK, LispOK
<1>6. LispIn(g) = {i}
  <2>1. i \in LispIn(g)  BY <1>1, <1>4 DEF LispIn
  <2>2. \A j \in LispIn(g) : j = i
    <3>. SUFFICES ASSUME NEW j \in LispIn(g), j # i PROVE FALSE  OBVIOUS
    <3>1. j \in 1 .. i - 1 /\ j \in 1 .. Len(s) /\ s[j].is = "lisp"
      BY <1>1, <1>4 DEF LispIn, StackOK
    <3>. QED  BY <1>5, <3>1 DEF LispIn
  <2>. QED  BY <2>1, <2>2
<1>7. k.running  BY DEF LineOK, LispOK
<1>8. LispOK(k, g)  BY <1>1, <1>2, <1>4, <1>6, <1>7 DEF LispOK
<1>9. ~(k.seen = "past" /\ k.enabled)
  BY <1>1 DEF LineOK, SeenOK, NoneStarted
<1>10. SeenOK(k, g, d)  BY <1>7, <1>9 DEF SeenOK
<1>11. InnermostBusy(g)
  BY <1>1, <1>2, <1>4 DEF InnermostBusy, Waiting, AtWork
<1>. QED  BY <1>4a, <1>8, <1>10, <1>11 DEF LineOK, ErrorsOK

\* Only the first frame, shell code, is left.
LEMMA TopLevel ==
    ASSUME NEW k, NEW c, ~k.running, k.errors = "none",
           k.enabled /\ k.seen # "none" => c
    PROVE LineOK(k, <<Shell>>, c)
  BY DEF LineOK, LispOK, ErrorsOK, SeenOK, NoneStarted, InnermostBusy, LispIn, Waiting,
         Shell, KeysTurn

\* A hook that has run, or the line's start: the line is this one.
LEMMA SeesThisLine ==
    ASSUME NEW k, NEW l, NEW s, NEW c, LineOK(k, s, c), ~KeysTurn(s[Len(s)]),
           l.running = k.running, l.enabled = k.enabled, l.errors = k.errors,
           l.now = k.now, l.seen \in {"current", k.seen}
    PROVE LineOK(l, s, c)
<1>1. LispOK(l, s)  BY DEF LineOK, LispOK
<1>2. ErrorsOK(l, s)  BY DEF LineOK, ErrorsOK
<1>3. SeenOK(l, s, c)  BY DEF LineOK, SeenOK
<1>. QED  BY <1>1, <1>2, <1>3 DEF LineOK

\* A key has come: inkline draws.
LEMMA InklineDraws ==
    ASSUME NEW k, NEW s, NEW c, k \in Ink, LineOK(k, s, c), InnermostBusy(s)
    PROVE LineOK(GetcEnds(k), s, c)
<1>. DEFINE l == GetcEnds(k)
<1>1. l.running = k.running /\ l.enabled = k.enabled /\ l.errors = k.errors /\ l.seen = k.seen
  BY DEF GetcEnds, Ink
<1>. HIDE DEF l
<1>2. LispOK(l, s)  BY <1>1 DEF LineOK, LispOK
<1>3. ErrorsOK(l, s)  BY <1>1 DEF LineOK, ErrorsOK
<1>4. SeenOK(l, s, c)  BY <1>1 DEF LineOK, SeenOK
<1>. QED  BY <1>2, <1>3, <1>4 DEF LineOK, l

\* after_lisp, where no Lisp ran, keeps no more of a line.
LEMMA AfterNoLispCalm ==
    ASSUME NEW s, Sound(s), ~s.running PROVE Calmer(s, AfterLisp(s))
  BY DEF Sound, Resting, Calmer, AfterLisp, Ink, Replaced, Owner

\* before_lisp keeps what there is of the line.
LEMMA LispBegins ==
    ASSUME NEW s, Sound(s)
    PROVE /\ BeforeLisp(s).running /\ BeforeLisp(s).enabled = s.enabled
          /\ BeforeLisp(s).errors = s.errors /\ BeforeLisp(s).seen = s.seen
          /\ BeforeLisp(s).now.redisplay = s.now.redisplay
  BY DEF Sound, Resting, BeforeLisp, UseOwnKeyReader, Ink, Replaced, Owner

\* The line on top before it is done keeps no errors; once it has begun, what
\* was seen is its own.
LEMMA OfTheTop ==
    ASSUME SwitchingInv, LineInv
    PROVE /\ ~AtLine("done") => ink.errors = "none"
          /\ Top.is = "line" /\ Top.at \notin {"prompt", "starts"} =>
                ~(ink.seen = "past" /\ ink.enabled)
          /\ Top.is = "lisp" => ~(ink.seen = "past" /\ ink.enabled) /\ ink.running
          /\ ink.running => ~(ink.seen = "past" /\ ink.enabled)
          /\ KeysTurn(Top) /\ ink.enabled /\ ~ink.running /\ ink.seen # "none" => inCommand
<1>1. Len(stack) \in 1 .. Len(stack)  BY DEF SwitchingInv, StackOK
<1>2. ~AtLine("done") => ink.errors = "none"
  BY DEF LineInv, LineOK, ErrorsOK, AtLine, Top
<1>3. ink.seen = "past" /\ ink.enabled => NoneStarted(stack) /\ LispIn(stack) = {}
  BY DEF LineInv, LineOK, SeenOK, NoneStarted, LispIn
<1>4. ink.running <=> LispIn(stack) # {}  BY DEF LineInv, LineOK, LispOK
<1>5. Top.is = "lisp" => Len(stack) \in LispIn(stack)  BY <1>1 DEF LispIn, Top
<1>. QED  BY <1>1, <1>2, <1>3, <1>4, <1>5 DEF LineInv, LineOK, SeenOK, NoneStarted, Top

\* A jump's completion functions have no part in it.
LEMMA CompletionBackCalm ==
    ASSUME NEW s, Sound(s), StackOK(stack), NEW t \in CompletionBack(s) PROVE Calmer(s, t)
<1>1. Asides \subseteq Owner
  BY DEF Asides, StackOK, Frame
<1>2. CASE s.now.completion # "none"
  BY <1>2 DEF CompletionBack, Calmer
<1>3. CASE s.now.completion = "none"
  <2>1. PICK f \in Asides \cup {"theirs"} : t = [s EXCEPT !.now.completion = f]
    BY <1>3 DEF CompletionBack
  <2>2. f \in Owner  BY <1>1, <2>1 DEF Owner
  <2>. QED  BY <2>1, <2>2, CompletionCalm
<1>. QED  BY <1>2, <1>3

\* A jump to bash's top level leaves no line.
LEMMA TopLevelStep ==
    ASSUME NEW s, Sound(s), StackOK(stack), ~s.running, s.errors = "none",
           s.enabled /\ s.seen # "none" => inCommand,
           JumpToTopLevel(s), UNCHANGED inCommand
    PROVE LineOK(ink, stack, inCommand)'
<1>. DEFINE t == [s EXCEPT !.seen = Past(@), !.errors = Past(@)]
<1>1. s.seen \in Kept /\ s.errors \in Kept  BY DEF Sound, Resting, Ink
<1>2. Sound(t)  BY <1>1, PastKept, SetsKept
<1>3. t.running = s.running /\ t.enabled = s.enabled /\ t.errors = Past(s.errors)
      /\ t.seen = Past(s.seen)
  BY DEF Sound, Resting, Ink
<1>4. ink' \in CompletionBack(t) /\ stack' = <<Shell>>  BY DEF JumpToTopLevel
<1>. HIDE DEF t
<1>5. LineOK(t, <<Shell>>, inCommand)
  BY <1>3, TopLevel DEF Past
<1>6. Calmer(t, ink')  BY <1>2, <1>4, CompletionBackCalm
<1>7. LineOK(ink', <<Shell>>, inCommand)  BY <1>5, <1>6, CalmerOK
<1>. QED  BY <1>4, <1>7 DEF LineOK, LispOK, ErrorsOK, SeenOK

\* A jump, also one that stops at running Lisp.
LEMMA JumpingStep ==
    ASSUME NEW s, Sound(s), StackOK(stack), LineOK(s, stack, inCommand), s.errors = "none",
           s.enabled /\ ~s.running /\ s.seen # "none" => inCommand,
           Jumps(s), UNCHANGED inCommand
    PROVE LineOK(ink, stack, inCommand)'
<1>1. LispBelow = LispIn(stack)  BY DEF LispBelow, LispIn, StackOK
<1>2. CASE LispBelow = {}
  <2>1. ~s.running  BY <1>1, <1>2 DEF LineOK, LispOK
  <2>. QED  BY <1>2, <2>1, TopLevelStep DEF Jumps
<1>3. CASE LispBelow # {}
  <2>1. PICK i \in LispIn(stack) :
            /\ stack' = [SubSeq(stack, 1, i) EXCEPT ![i].stops = TRUE]
            /\ ink' \in CompletionBack(s)
    BY <1>1, <1>3 DEF Jumps
  <2>2. LineOK(s, stack', inCommand')  BY <2>1, LispIsStopped
  <2>3. Calmer(s, ink')  BY <2>1, CompletionBackCalm
  <2>. QED  BY <2>2, <2>3, CalmerOK
<1>. QED  BY <1>2, <1>3

\* The steps.

\* The steps of LineInv: the builtins,
LEMMA KeptBySwitches ==
    ASSUME SwitchingInv, LineInv, EnableF \/ EnableD \/ On \/ Off \/ Eval PROVE LineInv'
<1>. USE DEF SwitchingInv
<1>0. UNCHANGED <<stack, inCommand, compared>>
  BY DEF EnableF, EnableD, On, Off, Eval, SwitchEnds
<1>. SUFFICES Calmer(ink, ink')
  BY <1>0, CalmerOK DEF LineInv, LineOK, LispOK, ErrorsOK, SeenOK
<1>1. CASE EnableF
  <2>. DEFINE l == Loads(ink)
              f == [l EXCEPT !.unloaded = FALSE]
  <2>1. Sound(l) /\ Calmer(ink, l)  BY ReloadSound, FlagsCalm
  <2>. HIDE DEF l
  <2>2. Sound(f) /\ Calmer(l, f)  BY <2>1, SetsFlag, FlagsCalm
  <2>3. ink' = Enable(f) \/ ink' = Guard(l)
    BY <1>1 DEF EnableF, l
  <2>. HIDE DEF f
  <2>4. Calmer(f, Enable(f)) /\ Calmer(l, Guard(l))  BY <2>1, <2>2, EnableCalm, DisableCalm
  <2>5. Calmer(ink, f)  BY <2>1, <2>2, CalmerTwice
  <2>. QED  BY <2>1, <2>3, <2>4, <2>5, CalmerTwice
<1>2. CASE EnableD
  <2>. DEFINE t == Disable(ink)
  <2>1. Sound(t) /\ Calmer(ink, t)  BY DisableSound, DisableCalm
  <2>2. ink' = [t EXCEPT !.unloaded = TRUE]  BY <1>2 DEF EnableD
  <2>. HIDE DEF t
  <2>3. Calmer(t, ink')  BY <2>1, <2>2, FlagsCalm
  <2>. QED  BY <2>1, <2>3, CalmerTwice
<1>3. CASE On
  <2>. DEFINE c == [ink EXCEPT !.panicked = FALSE]
              a == AgainIfBroken(c)
  <2>1. Sound(c) /\ Calmer(ink, c)  BY SetsFlag, FlagsCalm
  <2>2. ink' = Enable(a) \/ ink' = Guard(a)  BY <1>3 DEF On
  <2>. HIDE DEF c
  <2>3. Sound(a) /\ Calmer(c, a)  BY <2>1, ReloadSound, FlagsCalm
  <2>. HIDE DEF a
  <2>4. Calmer(a, Enable(a)) /\ Calmer(a, Guard(a))  BY <2>3, EnableCalm, DisableCalm
  <2>5. Calmer(ink, a)  BY <2>1, <2>3, CalmerTwice
  <2>. QED  BY <2>2, <2>4, <2>5, CalmerTwice
<1>4. CASE Off
  BY <1>4, DisableCalm DEF Off
<1>5. CASE Eval
  <2>. DEFINE a == AgainIfBroken(ink)
  <2>1. Sound(a) /\ Calmer(ink, a)  BY ReloadSound, FlagsCalm
  <2>2. \/ ink' = a \/ ink' = Guard(a)
        \/ ~ink.running /\ ink' = LispPanic(a)
    BY <1>5 DEF Eval
  <2>. HIDE DEF a
  <2>3. Calmer(a, Guard(a))  BY <2>1, DisableCalm
  <2>4. CASE ~ink.running /\ ink' = LispPanic(a)
    <3>1. ink.running = FALSE  BY <2>4 DEF Sound, Resting, Ink
    <3>2. Forgot(ink') /\ ink'.running = FALSE  BY <2>1, <2>4, LispPanicForgets
    <3>. QED  BY <3>1, <3>2 DEF Forgot, Calmer
  <2>. QED  BY <2>1, <2>2, <2>3, <2>4, CalmerTwice
<1>. QED  BY <1>1, <1>2, <1>3, <1>4, <1>5

\* shell code and the lines it reads,
LEMMA KeptByShell ==
    ASSUME SwitchingInv, LineInv, BeginsMain \/ BeginsReadE \/ ShellEnds \/ ShellJumps
    PROVE LineInv'
<1>. USE DEF SwitchingInv
<1>1. /\ compared' = compared /\ inCommand' = inCommand /\ InShell
      /\ Top.is = "shell" /\ ink.errors = "none"
      /\ ink.enabled /\ ~ink.running /\ ink.seen # "none" => inCommand
  BY OfTheTop DEF BeginsMain, BeginsReadE, ShellEnds, ShellJumps, InShell, AtLine, KeysTurn
<1>. SUFFICES LineOK(ink', stack', inCommand')
  BY <1>1 DEF LineInv, LineOK, LispOK, ErrorsOK, SeenOK
<1>2. LineOK(ink, stack, inCommand)  BY DEF LineInv
<1>3. CASE BeginsMain \/ BeginsReadE
  <2>1. PICK f \in Frame : f.is = "line" /\ f.at = "prompt" /\ stack' = Append(stack, f)
    <3>1. ink.now.completion \in Owner /\ "none" \in Owner
      BY DEF Sound, Resting, Ink, Replaced, Owner
    <3>2. \A o \in Owner, main \in BOOLEAN :
              /\ LineFrame(main, o) \in Frame
              /\ LineFrame(main, o).is = "line" /\ LineFrame(main, o).at = "prompt"
      BY DEF LineFrame, Frame, Places
    <3>3. \/ stack' = Append(stack, LineFrame(TRUE, "none"))
          \/ stack' = Append(stack, LineFrame(FALSE, ink.now.completion))
      BY <1>3 DEF BeginsMain, BeginsReadE, Push
    <3>. QED  BY <3>1, <3>2, <3>3
  <2>2. PICK o \in Owner : ink' = [ink EXCEPT !.now.completion = o]
    <3>1. ink.now.completion \in Owner /\ "none" \in Owner /\ "theirs" \in Owner
      BY DEF Sound, Resting, Ink, Replaced, Owner
    <3>. QED  BY <1>3, <3>1 DEF BeginsMain, BeginsReadE
  <2>3. LineOK(ink, stack', inCommand)  BY <1>1, <1>2, <2>1, FrameIsPushed
  <2>4. Calmer(ink, ink')  BY <2>2, CompletionCalm
  <2>. QED  BY <1>1, <2>3, <2>4, CalmerOK
<1>4. CASE ShellEnds
  <2>1. Len(stack) > 1 /\ Popped(stack, stack') /\ ink' = ink
    BY <1>4, BelowPopped DEF ShellEnds
  <2>2. StackOK(stack) /\ stack[Len(stack)].is = "shell"  BY <1>1 DEF Top
  <2>3. LineOK(ink, stack', inCommand)  BY <1>1, <1>2, <2>1, <2>2, FrameEnds
  <2>. QED  BY <1>1, <2>1, <2>3
<1>5. CASE ShellJumps
  <2>1. Jumps(ink)  BY <1>5 DEF ShellJumps
  <2>. QED  BY <1>1, <1>2, <2>1, JumpingStep
<1>. QED  BY <1>3, <1>4, <1>5

\* A line's own step from one place to another, where inkline's state may also
\* grow calmer.
LEMMA KeptByGoing ==
    ASSUME SwitchingInv, LineInv, AtLine("done") => FALSE, Top.is = "line",
           NEW at \in Places, NEW k, Go(at), Calmer(ink, k),
           at \in {"waits", "theirs"} => k.now.redisplay # "ours",
           ink.seen = "past" /\ ink.enabled => at \in {"prompt", "starts"},
           at \in {"prompt", "waits", "theirs", "command"} =>
              (ink.enabled /\ ~ink.running /\ ink.seen # "none" => inCommand')
    PROVE LineOK(k, stack', inCommand')
<1>1. LineOK(k, stack, inCommand)  BY CalmerOK DEF LineInv
<1>2. k.seen = "past" /\ k.enabled => at \in {"prompt", "starts"}
  BY DEF Calmer
<1>3. at \in {"prompt", "waits", "theirs", "command"} =>
         (k.enabled /\ ~k.running /\ k.seen # "none" => inCommand')
  BY DEF Calmer
<1>4. stack' = [stack EXCEPT ![Len(stack)].at = at]  BY DEF Go
<1>5. /\ StackOK(stack) /\ stack[Len(stack)].is = "line"
      /\ stack[Len(stack)].at # "done"
  BY DEF SwitchingInv, Top, AtLine
<1>6. LineOK(k, [stack EXCEPT ![Len(stack)].at = at], inCommand')
  BY <1>1, <1>2, <1>3, <1>5, LineGoes
<1>. QED  BY <1>4, <1>6

\* Lisp begins, for the line that goes to a place where it does not wait.
LEMMA KeptByLisp ==
    ASSUME SwitchingInv, LineInv, AtLine("done") => FALSE, Top.is = "line", ~ink.running,
           NEW of \in Callers, NEW at \in {"starts", "read", "returns"}, PushLisp(of, at),
           NEW l, l.running, ~(l.seen = "past" /\ l.enabled), l.errors = ink.errors,
           l.now.redisplay = "ours" => ink.now.redisplay = "ours",
           ink.seen = "past" /\ ink.enabled => at = "starts"
    PROVE LineOK(l, stack', inCommand)
<1>. DEFINE g == [stack EXCEPT ![Len(stack)].at = at]
<1>1. at \in Places  BY DEF Places
<1>2. LineOK(ink, g, inCommand)
  <2>1. LineOK(ink, stack, inCommand)  BY DEF LineInv
  <2>2. /\ StackOK(stack) /\ stack[Len(stack)].is = "line"
        /\ stack[Len(stack)].at # "done"
    BY DEF SwitchingInv, Top, AtLine
  <2>3. at \notin {"waits", "theirs", "prompt", "command"}  OBVIOUS
  <2>. QED  BY <1>1, <2>1, <2>2, <2>3, LineGoes
<1>3. StackOK(g) /\ g[Len(g)].is = "line"  BY <1>1, GoOK DEF SwitchingInv, Top
<1>3a. g[Len(g)].at = at  BY <1>1, PlaceTaken DEF SwitchingInv, Top
<1>4. stack' = Append(g, Lisp(of))  BY DEF PushLisp
<1>. HIDE DEF g
<1>5. AtWork(g[Len(g)])  BY <1>3, <1>3a DEF AtWork
<1>. QED  BY <1>2, <1>3, <1>4, <1>5, LispIsPushed

\* draws,
LEMMA KeptByDrawing ==
    ASSUME SwitchingInv, LineInv, Draws \/ DrawsAfterKey \/ Starts PROVE LineInv'
<1>. USE DEF SwitchingInv
<1>1. /\ Top.is = "line" /\ ~AtLine("done") /\ inCommand' = inCommand
      /\ Top.at \in {"prompt", "draw", "starts"}
  BY DEF Draws, DrawsAfterKey, Starts, AtLine
<1>2. After \in {"starts", "read"} /\ (Top.at # "prompt" => After = "read")
  BY DEF After
<1>3. Top.at = "draw" => ~(ink.seen = "past" /\ ink.enabled)
  BY <1>1, OfTheTop
<1>4. Calmer(ink, ink)  BY DEF Calmer
<1>5. CASE Draws
  <2>1. Go(After) /\ ink' = ink /\ compared' = compared  BY <1>5 DEF Draws
  <2>2. ink.seen = "past" /\ ink.enabled => After = "starts"
    BY <1>3, <1>5 DEF Draws, AtLine, After
  <2>3. After \in Places  BY <1>2 DEF Places
  <2>4. LineOK(ink, stack', inCommand')  BY <1>1, <1>2, <1>4, <2>1, <2>2, <2>3, KeptByGoing
  <2>. QED  BY <2>1, <2>4 DEF LineInv, LineOK, LispOK, ErrorsOK, SeenOK
<1>6. CASE DrawsAfterKey
  <2>1. /\ ink.enabled /\ ~ink.running /\ ~inCommand /\ ink.seen # "none"
        /\ compared' = ink.seen
    BY <1>6 DEF DrawsAfterKey, AfterKeyHere, MayRunHooks
  <2>2. Top.at # "prompt"
    BY <1>1, <2>1, OfTheTop DEF KeysTurn
  <2>3. Top.at = "draw"  BY <1>6, <2>2 DEF DrawsAfterKey, AtLine
  <2>4. compared' # "past" /\ ink.seen # "past" /\ After = "read"
    BY <1>2, <1>3, <2>1, <2>2, <2>3
  <2>5. CASE Go("read") /\ ink' = [UseOwnKeyReader(ink) EXCEPT !.seen = "current"]
    <3>. DEFINE u == UseOwnKeyReader(ink)
    <3>1. Calmer(ink, u) /\ Sound(u)  BY <2>1, ReaderCalm, ReaderSound
    <3>2. LineOK(u, stack', inCommand')
      BY <1>1, <2>4, <2>5, <3>1, KeptByGoing DEF Places
    <3>. HIDE DEF u
    <3>3. /\ ink'.running = u.running /\ ink'.enabled = u.enabled /\ ink'.errors = u.errors
          /\ ink'.now = u.now /\ ink'.seen = "current"
      BY <2>5, <3>1 DEF u, Sound, Resting, Ink
    <3>4. stack'[Len(stack')].is = "line" /\ stack'[Len(stack')].at = "read"
      BY <1>1, <2>5, GoOK, PlaceTaken DEF Go, Top, Places
    <3>5. LineOK(ink', stack', inCommand')
      BY <3>2, <3>3, <3>4, SeesThisLine DEF KeysTurn
    <3>. QED  BY <2>4, <3>5 DEF LineInv, LineOK, LispOK, ErrorsOK, SeenOK
  <2>6. CASE PushLisp("afterChange", "read") /\ ink' = [BeforeLisp(ink) EXCEPT !.seen = "none"]
    <3>. DEFINE b == BeforeLisp(ink)
    <3>1. Sound(b)  BY BeforeLispSound
    <3>2. /\ b.running /\ b.errors = ink.errors
          /\ b.now.redisplay = ink.now.redisplay
      BY LispBegins
    <3>. HIDE DEF b
    <3>3. /\ ink'.running = b.running /\ ink'.errors = b.errors
          /\ ink'.now = b.now /\ ink'.seen = "none"
      BY <2>6, <3>1 DEF b, Sound, Resting, Ink
    <3>4. LineOK(ink', stack', inCommand)
      BY <1>1, <2>1, <2>4, <2>6, <3>2, <3>3, KeptByLisp DEF Callers
    <3>. QED  BY <1>1, <2>4, <3>4 DEF LineInv, LineOK, LispOK, ErrorsOK, SeenOK
  <2>. QED  BY <1>6, <2>4, <2>5, <2>6 DEF DrawsAfterKey
<1>7. CASE Starts
  <2>. SUFFICES LineOK(ink', stack', inCommand')
    BY <1>7 DEF Starts, LineInv, LineOK, LispOK, ErrorsOK, SeenOK
  <2>1. Top.at = "starts"  BY <1>7 DEF Starts, AtLine
  <2>2. CASE ink.now.preInput # "ours"
    <3>1. Go("read") /\ ink' = ink  BY <1>7, <2>2 DEF Starts
    <3>2. ~ink.enabled  BY <2>2 DEF Sound, Resting
    <3>. QED  BY <1>1, <1>4, <3>1, <3>2, KeptByGoing DEF Places
  <2>3. CASE ink.now.preInput = "ours"
    <3>. DEFINE w == WrapCompletion(ink)
                r == SeesNewLine(w)
    <3>1. Sound(w) /\ Calmer(ink, w)
      <4>1. "none" \in Owner  BY DEF Owner
      <4>. QED  BY <4>1, CompletionSound, CompletionCalm
    <3>2. w.running = ink.running  BY <3>1 DEF Calmer
    <3>. HIDE DEF w
    <3>3. CASE ink.running
      <4>1. r = w  BY <3>2, <3>3 DEF SeesNewLine
      <4>2. Go("read") /\ ink' = w
        BY <1>7, <2>3, <3>3, <4>1 DEF Starts, MayRunHooks, w
      <4>3. ~(ink.seen = "past" /\ ink.enabled)  BY <3>3, OfTheTop
      <4>. QED  BY <1>1, <3>1, <4>2, <4>3, KeptByGoing DEF Places
    <3>4. CASE ~ink.running
      <4>1. r = [w EXCEPT !.seen = "current"]  BY <3>2, <3>4 DEF SeesNewLine
      <4>2. /\ r.running = w.running /\ r.enabled = w.enabled /\ r.errors = w.errors
            /\ r.now = w.now /\ r.seen = "current"
        BY <3>1, <4>1 DEF Sound, Resting, Ink
      <4>3. Sound(r)  BY <3>1, SeesSound
      <4>4. \/ PushLisp("lineStart", "read") /\ ink' = BeforeLisp(r)
            \/ Go("read") /\ ink' = AfterLisp(r)
        BY <1>7, <2>3, <3>4 DEF Starts, w
      <4>. HIDE DEF r
      <4>5. LineOK(w, stack, inCommand)  BY <3>1, CalmerOK DEF LineInv
      <4>6. ~KeysTurn(stack[Len(stack)])  BY <1>1, <2>1 DEF KeysTurn, Top
      <4>7. LineOK(r, stack, inCommand)  BY <4>2, <4>5, <4>6, SeesThisLine
      <4>. DEFINE g == [stack EXCEPT ![Len(stack)].at = "read"]
      <4>8. /\ StackOK(stack) /\ stack[Len(stack)].is = "line"
            /\ stack[Len(stack)].at = "starts"
        BY <1>1, <2>1 DEF Top
      <4>9. LineOK(r, g, inCommand)
        BY <4>2, <4>7, <4>8, LineGoes DEF Places
      <4>10. StackOK(g) /\ Len(g) = Len(stack) /\ g[Len(g)].is = "line" /\ g[Len(g)].at = "read"
        BY <4>8, GoOK, PlaceTaken DEF Places
      <4>11. CASE PushLisp("lineStart", "read") /\ ink' = BeforeLisp(r)
        <5>1. stack' = Append(g, Lisp("lineStart"))  BY <4>11 DEF PushLisp
        <5>2. ~r.running  BY <3>2, <3>4, <4>2
        <5>3. /\ ink'.running /\ ink'.errors = r.errors /\ ink'.seen = "current"
              /\ ink'.now.redisplay = r.now.redisplay
          BY <4>2, <4>3, <4>11, LispBegins
        <5>. HIDE DEF g
        <5>4. AtWork(g[Len(g)]) /\ "lineStart" \in Callers  BY <4>10 DEF AtWork, Callers
        <5>5. LineOK(ink', Append(g, Lisp("lineStart")), inCommand)
          BY <4>9, <4>10, <5>2, <5>3, <5>4, LispIsPushed
        <5>. QED  BY <1>1, <5>1, <5>5
      <4>12. CASE Go("read") /\ ink' = AfterLisp(r)
        <5>1. Calmer(r, ink')
          BY <3>2, <3>4, <4>2, <4>3, <4>12, AfterNoLispCalm
        <5>2. stack' = g  BY <4>12 DEF Go
        <5>. HIDE DEF g
        <5>. QED  BY <1>1, <4>9, <5>1, <5>2, CalmerOK
      <4>. QED  BY <4>4, <4>11, <4>12
    <3>. QED  BY <3>3, <3>4
  <2>. QED  BY <2>2, <2>3
<1>. QED  BY <1>5, <1>6, <1>7

\* the wait for a key,
LEMMA KeptByWaiting ==
    ASSUME SwitchingInv, LineInv,
           Waits \/ Trap \/ CtrlCEndsLine \/ KeyArrives \/ HookPanics
    PROVE LineInv'
<1>. USE DEF SwitchingInv
<1>1. Top.is = "line" /\ ~AtLine("done") /\ compared' = compared
  BY DEF Waits, Trap, CtrlCEndsLine, KeyArrives, HookPanics, AtLine
<1>2. Top.at \notin {"prompt", "starts"} /\ ~(ink.seen = "past" /\ ink.enabled)
      /\ ink.errors = "none"
  BY <1>1, OfTheTop DEF Waits, Trap, CtrlCEndsLine, KeyArrives, HookPanics, AtLine
<1>3. AtLine("waits") \/ AtLine("theirs") =>
        (ink.enabled /\ ~ink.running /\ ink.seen # "none" => inCommand)
  BY <1>1, OfTheTop DEF AtLine, KeysTurn
<1>4. Calmer(ink, ink)  BY DEF Calmer
<1>5. LineOK(ink, stack, inCommand)  BY DEF LineInv
<1>. SUFFICES LineOK(ink', stack', inCommand')
  BY <1>1 DEF LineInv, LineOK, LispOK, ErrorsOK, SeenOK
<1>6. CASE Waits
  <2>1. inCommand'  BY <1>6 DEF Waits
  <2>2. CASE ink.now.getc = "ours"
    <3>1. Go("waits") /\ ink' = GetcWaits(ink)  BY <1>6, <2>2 DEF Waits
    <3>. QED  BY <1>1, <1>2, <2>1, <3>1, WaitsCalm, KeptByGoing DEF Places
  <2>3. CASE ink.now.getc # "ours"
    <3>1. Go("theirs") /\ ink' = ink  BY <1>6, <2>3 DEF Waits
    <3>2. ink.now.redisplay # "ours"  BY <2>3 DEF Sound, Resting
    <3>. QED  BY <1>1, <1>2, <1>4, <2>1, <3>1, <3>2, KeptByGoing DEF Places
  <2>. QED  BY <2>2, <2>3
<1>7. CASE Trap
  <2>1. stack' = Append(stack, Shell) /\ ink' = ink /\ inCommand' = inCommand
    BY <1>7 DEF Trap, Push
  <2>2. Shell \in Frame /\ Shell.is = "shell"  BY DEF Shell, Frame
  <2>3. ink.enabled /\ ~ink.running /\ ink.seen # "none" => inCommand
    BY <1>3, <1>7 DEF Trap
  <2>4. LineOK(ink, Append(stack, Shell), inCommand)
    BY <1>2, <1>5, <2>2, <2>3, FrameIsPushed
  <2>. QED  BY <2>1, <2>4
<1>8. CASE CtrlCEndsLine
  <2>. DEFINE s == CallDeprep(ink)
  <2>1. Sound(s)  BY DeprepSound
  <2>2. Calmer(ink, s)  BY DeprepCalm
  <2>2a. s.enabled /\ ~s.running => s.seen = "none"  BY <2>2, DeprepCalm DEF Calmer
  <2>3. LineOK(s, stack, inCommand) /\ s.errors = "none"
    BY <1>2, <1>5, <2>2, CalmerOK DEF Calmer
  <2>4. Jumps(s) /\ inCommand' = inCommand  BY <1>8 DEF CtrlCEndsLine
  <2>. HIDE DEF s
  <2>. QED  BY <2>1, <2>2a, <2>3, <2>4, JumpingStep
<1>9. CASE KeyArrives
  <2>1. /\ Go("command") /\ inCommand' = inCommand
        /\ ink' \in {ink, GetcEnds(ink)}
    BY <1>9 DEF KeyArrives
  <2>2. ink.enabled /\ ~ink.running /\ ink.seen # "none" => inCommand'
    BY <1>3, <1>9, <2>1 DEF KeyArrives
  <2>3. LineOK(ink, stack', inCommand')
    BY <1>1, <1>2, <1>4, <2>1, <2>2, KeptByGoing DEF Places
  <2>4. /\ Len(stack') \in Nat /\ stack'[Len(stack')].is = "line"
        /\ stack'[Len(stack')].at = "command"
    <3>1. StackOK(stack) /\ Top.is = "line"  BY <1>1, <1>9 DEF KeyArrives, AtLine
    <3>. QED  BY <2>1, <3>1, GoneTo DEF Places
  <2>5. InnermostBusy(stack')  BY <2>4 DEF InnermostBusy, Waiting
  <2>6. LineOK(GetcEnds(ink), stack', inCommand')
    BY <2>3, <2>5, InklineDraws DEF Sound, Resting
  <2>. QED  BY <2>1, <2>3, <2>6
<1>10. CASE HookPanics
  <2>1. ink' = Guard(ink) /\ inCommand' = inCommand /\ Calmer(ink, ink')
    BY <1>10, DisableCalm DEF HookPanics
  <2>2. CASE stack' = stack
    BY <1>5, <2>1, <2>2, CalmerOK
  <2>3. CASE AtLine("draw") /\ Go(After)
    <3>1. After = "read"  BY <2>3 DEF After, AtLine
    <3>. QED  BY <1>1, <1>2, <2>1, <2>3, <3>1, KeptByGoing DEF Places
  <2>. QED  BY <1>10, <2>2, <2>3 DEF HookPanics
<1>. QED  BY <1>6, <1>7, <1>8, <1>9, <1>10

\* the key's command,
LEMMA KeptByCommands ==
    ASSUME SwitchingInv, LineInv,
           Edits \/ RunsShell \/ Returns \/ LispKeyFallsBack \/ LispKey
             \/ Accepts \/ ReadlineAccepts
    PROVE LineInv'
<1>. USE DEF SwitchingInv
<1>1. /\ Top.is = "line" /\ ~AtLine("done") /\ compared' = compared
      /\ Top.at \in {"command", "returns"}
  BY DEF Edits, RunsShell, Returns, LispKeyFallsBack, LispKey, Accepts, ReadlineAccepts, AtLine
<1>2. ~(ink.seen = "past" /\ ink.enabled) /\ ink.errors = "none"
  BY <1>1, OfTheTop
<1>3. Calmer(ink, ink)  BY DEF Calmer
<1>. SUFFICES LineOK(ink', stack', inCommand')
  BY <1>1 DEF LineInv, LineOK, LispOK, ErrorsOK, SeenOK
<1>4. CASE Edits \/ Returns \/ LispKeyFallsBack \/ ReadlineAccepts
  <2>1. ink' = ink /\ (Go("draw") \/ Go("done"))
    BY <1>4 DEF Edits, Returns, LispKeyFallsBack, ReadlineAccepts
  <2>. QED  BY <1>1, <1>2, <1>3, <2>1, KeptByGoing DEF Places
<1>5. CASE RunsShell
  <2>. DEFINE g == [stack EXCEPT ![Len(stack)].at = "returns"]
  <2>1. /\ stack' = Append(g, Shell) /\ inCommand' = inCommand
        /\ ink' \in {ink, CallDeprep(ink)} /\ Top.at = "command"
    BY <1>5 DEF RunsShell, AtLine
  <2>2. LineOK(ink, stack, inCommand)  BY DEF LineInv
  <2>3. StackOK(stack) /\ stack[Len(stack)].is = "line" /\ stack[Len(stack)].at = "command"
    BY <1>1, <2>1 DEF Top
  <2>4. LineOK(ink, g, inCommand) /\ StackOK(g)
    BY <1>2, <2>2, <2>3, LineGoes, GoOK DEF Places
  <2>5. ink.enabled /\ ~ink.running /\ ink.seen # "none" => inCommand
    BY <1>1, <2>1, OfTheTop DEF KeysTurn
  <2>6. Shell \in Frame /\ Shell.is = "shell"  BY DEF Shell, Frame
  <2>. HIDE DEF g
  <2>7. LineOK(ink, stack', inCommand')
    BY <1>2, <2>1, <2>4, <2>5, <2>6, FrameIsPushed
  <2>8. Calmer(ink, ink')  BY <1>3, <2>1, DeprepCalm
  <2>. QED  BY <2>7, <2>8, CalmerOK
<1>6. CASE LispKey \/ Accepts
  <2>1. \/ /\ ~ink.running /\ ink' = BeforeLisp(ink)
           /\ \E of \in {"key", "accept"} : PushLisp(of, "returns")
        \/ Go("returns") /\ ink.running /\ ink' = UseOwnKeyReader(ink)
        \/ Go("done") /\ (ink' = ink \/ (~ink.running /\ ink' = AfterLisp(ink)))
    BY <1>6 DEF LispKey, Accepts, MayRunHooks
  <2>2. inCommand' = inCommand  BY <1>6 DEF LispKey, Accepts
  <2>3. CASE /\ ~ink.running /\ ink' = BeforeLisp(ink)
             /\ \E of \in {"key", "accept"} : PushLisp(of, "returns")
    <3>1. PICK of \in {"key", "accept"} : PushLisp(of, "returns")  BY <2>3
    <3>2. /\ ink'.running /\ ink'.enabled = ink.enabled
          /\ ink'.errors = ink.errors /\ ink'.seen = ink.seen
          /\ ink'.now.redisplay = ink.now.redisplay
      BY <2>3, LispBegins
    <3>3. LineOK(ink', stack', inCommand)
      BY <1>1, <1>2, <2>3, <3>1, <3>2, KeptByLisp DEF Callers
    <3>. QED  BY <2>2, <3>3
  <2>4. CASE Go("returns") /\ ink.running /\ ink' = UseOwnKeyReader(ink)
    BY <1>1, <1>2, <2>4, ReaderCalm, KeptByGoing DEF Places
  <2>5. CASE Go("done") /\ (ink' = ink \/ (~ink.running /\ ink' = AfterLisp(ink)))
    BY <1>1, <1>2, <1>3, <2>5, AfterNoLispCalm, KeptByGoing DEF Places
  <2>. QED  BY <2>1, <2>3, <2>4, <2>5
<1>. QED  BY <1>4, <1>5, <1>6

\* The line's end: what inkline kept of it goes, or becomes an earlier one's.
LEMMA KeptByLineEnds == ASSUME SwitchingInv, LineInv, LineEnds PROVE LineInv'
<1>. USE DEF SwitchingInv
<1>. DEFINE e == CallDeprep(ink)
            seen == IF e.running THEN e.seen ELSE Past(e.seen)
            c == IF Top.main THEN e.now.completion ELSE Top.aside
<1>1. /\ Top.is = "line" /\ Len(stack) > 1 /\ Popped(stack, stack')
      /\ inCommand' = FALSE /\ compared' = compared
  BY TopOK, BelowPopped DEF LineEnds, AtLine
<1>2. Sound(e) /\ Calmer(ink, e) /\ e.now.redisplay # "ours" /\ e.enabled = ink.enabled
  BY DeprepSound, DeprepCalm
<1>3. e.enabled => e.errors = "none" /\ (~e.running => e.seen = "none")
  BY <1>2, DeprepCalm DEF Calmer
<1>4. ink' = [e EXCEPT !.seen = seen, !.errors = Past(e.errors), !.now.completion = c]
  BY DEF LineEnds
<1>. HIDE DEF e, c
<1>5. /\ ink'.running = e.running /\ ink'.enabled = e.enabled /\ ink'.seen = seen
      /\ ink'.errors = Past(e.errors) /\ ink'.now.redisplay = e.now.redisplay
  BY <1>2, <1>4 DEF Sound, Resting, Ink, Replaced, Owner
<1>6. ink'.errors = "none"
  <2>1. ink.errors = "none" \/ ink.enabled  BY DEF LineInv, LineOK, ErrorsOK
  <2>2. e.errors = "none"  BY <1>2, <1>3, <2>1 DEF Calmer
  <2>. QED  BY <1>5, <2>2 DEF Past
<1>7. ink'.enabled =>
        ink'.seen \in {ink.seen, "none"} /\ (~ink'.running => ink'.seen = "none")
  BY <1>2, <1>3, <1>5 DEF Calmer, Past
<1>8. StackOK(stack) /\ LineOK(ink, stack, inCommand) /\ stack[Len(stack)].is # "lisp"
  BY <1>1 DEF LineInv, Top
<1>9. ink'.running = ink.running /\ ink'.now.redisplay # "ours" /\ ink'.enabled = ink.enabled
  BY <1>2, <1>5 DEF Calmer
<1>10. LineOK(ink', stack', inCommand')
  BY <1>1, <1>6, <1>7, <1>8, <1>9, FrameEnds
<1>. QED  BY <1>1, <1>10 DEF LineInv, LineOK, LispOK, ErrorsOK, SeenOK

\* Lisp returns, or a jump that it stopped goes on.
LEMMA LeavingStep ==
    ASSUME SwitchingInv, LineInv, InLisp, NEW s, Sound(s), ~s.running,
           NEW accepted \in BOOLEAN, accepted => ~Top.stops,
           s.errors = "none" \/ (s.errors = "current" /\ s.enabled /\ accepted),
           ~(s.seen = "past" /\ s.enabled),
           Leaves(s, accepted), UNCHANGED inCommand
    PROVE LineOK(ink, stack, inCommand)'
<1>. USE DEF SwitchingInv
<1>. SUFFICES LineOK(ink', stack', inCommand')
  BY DEF LineOK, LispOK, ErrorsOK, SeenOK
<1>1. CASE Top.stops
  <2>. DEFINE t == [s EXCEPT !.seen = "none"]
  <2>1. Sound(t)  BY SetsKept DEF Kept
  <2>2. t.running = s.running /\ t.errors = s.errors /\ t.seen = "none"
    BY DEF Sound, Resting, Ink
  <2>3. JumpToTopLevel(t)  BY <1>1 DEF Leaves
  <2>. HIDE DEF t
  <2>. QED  BY <1>1, <2>1, <2>2, <2>3, TopLevelStep DEF LineOK, LispOK, ErrorsOK, SeenOK
<1>2. CASE ~Top.stops
  <2>. DEFINE t == [s EXCEPT !.errors = "none"]
  <2>1. /\ t.running = s.running /\ t.errors = "none" /\ t.seen = s.seen
        /\ t.enabled = s.enabled /\ t.now = s.now
    BY DEF Sound, Resting, Ink
  <2>. HIDE DEF t
  <2>2. stack[Len(stack)].is = "lisp" /\ Len(stack) > 1 /\ LineOK(ink, stack, inCommand)
    BY TopOK DEF InLisp, Top, LineInv
  <2>3. StackOK(Below) /\ Popped(stack, Below)  BY <2>2, BelowOK, BelowPopped
  <2>4. LineOK(t, Below, inCommand) /\ AtWork(Below[Len(Below)])
    BY <2>1, <2>2, <2>3, LispRunEnds
  <2>5. CASE ~accepted
    <3>1. stack' = Below /\ ink' = s  BY <1>2, <2>5 DEF Leaves
    <3>2. s.errors = "none"  BY <2>5
    <3>3. Calmer(t, s)  BY <2>1, <3>2 DEF Calmer
    <3>. QED  BY <2>4, <3>1, <3>3, CalmerOK
  <2>6. CASE accepted
    <3>. DEFINE g == [Below EXCEPT ![Len(Below)].at = "done"]
    <3>1. Len(Below) = Len(stack) - 1  BY <2>3 DEF Popped
    <3>2. stack' = g /\ ink' = s  BY <1>2, <2>6, <3>1 DEF Leaves
    <3>3. LineOK(t, g, inCommand)
      BY <2>1, <2>3, <2>4, LineGoes DEF Places, AtWork
    <3>4. g[Len(g)].is = "line" /\ g[Len(g)].at = "done"
      BY <2>3, <2>4, GoOK, PlaceTaken DEF Places, AtWork
    <3>. HIDE DEF g
    <3>5. LineOK(s, g, inCommand)  BY <2>1, <3>3, <3>4, ErrorsAreNoted
    <3>. QED  BY <3>2, <3>5
  <2>. QED  BY <2>5, <2>6
<1>. QED  BY <1>1, <1>2

\* after_lisp ends the running, and keeps what there is of the line.
LEMMA AfterLispLeaves ==
    ASSUME NEW s, Resting(s)
    PROVE /\ ~AfterLisp(s).running /\ AfterLisp(s).enabled = s.enabled
          /\ AfterLisp(s).errors = s.errors /\ AfterLisp(s).seen = s.seen
  BY DEF Resting, AfterLisp, Ink, Replaced, Owner

\* and Lisp.
LEMMA KeptInLisp ==
    ASSUME SwitchingInv, LineInv, LispRunsShell \/ LispReadsKey \/ LispReturns \/ LispPanics
    PROVE LineInv'
<1>. USE DEF SwitchingInv
<1>1. InLisp /\ Top.is = "lisp" /\ inCommand' = inCommand /\ compared' = compared
  BY DEF LispRunsShell, LispReadsKey, LispReturns, LispPanics, InLisp
<1>2. ~(ink.seen = "past" /\ ink.enabled) /\ ink.errors = "none" /\ ink.running
  BY <1>1, OfTheTop DEF AtLine
<1>3. LineOK(ink, stack, inCommand)  BY DEF LineInv
<1>. SUFFICES LineOK(ink', stack', inCommand')
  BY <1>1 DEF LineInv, LineOK, LispOK, ErrorsOK, SeenOK
<1>4. CASE LispRunsShell
  <2>1. stack' = Append(stack, Shell) /\ ink' \in {ink, CallDeprep(ink)}
    BY <1>4 DEF LispRunsShell, Push
  <2>2. Shell \in Frame /\ Shell.is = "shell"  BY DEF Shell, Frame
  <2>3. LineOK(ink, Append(stack, Shell), inCommand)
    BY <1>2, <1>3, <2>2, FrameIsPushed
  <2>4. Calmer(ink, ink')  BY <2>1, DeprepCalm DEF Calmer
  <2>. QED  BY <1>1, <2>1, <2>3, <2>4, CalmerOK
<1>5. CASE LispReadsKey
  <2>. DEFINE w == GetcWaits(ink)
  <2>1. stack' = stack /\ ink' \in {ink, GetcEnds(w)}  BY <1>5 DEF LispReadsKey
  <2>2. Sound(w) /\ Calmer(ink, w)  BY GetcSound, WaitsCalm
  <2>. HIDE DEF w
  <2>3. LineOK(w, stack, inCommand)  BY <1>3, <2>2, CalmerOK
  <2>4. InnermostBusy(stack)
    <3>1. /\ Len(stack) \in Nat /\ Len(stack) > 1 /\ Len(stack) \in LispIn(stack)
      BY <1>1, TopOK DEF LispIn, Top, StackOK
    <3>2. AtWork(stack[Len(stack) - 1])  BY <1>3, <3>1 DEF LineOK, LispOK
    <3>. QED  BY <1>1, <3>1, <3>2 DEF InnermostBusy, Waiting, AtWork, Top
  <2>5. LineOK(GetcEnds(w), stack, inCommand)
    BY <2>2, <2>3, <2>4, InklineDraws DEF Sound, Resting
  <2>. QED  BY <1>1, <1>3, <2>1, <2>5
<1>6. CASE LispReturns
  <2>1. PICK accepted \in BOOLEAN, errors \in BOOLEAN :
            /\ accepted => Top.of = "accept" /\ ~Top.stops
            /\ errors => accepted
            /\ Leaves(AfterLisp(BeforeReturning(errors)), accepted)
    BY <1>6 DEF LispReturns
  <2>. DEFINE b == BeforeReturning(errors)
              a == AfterLisp(b)
  <2>2. Sound(b)
    BY SetsKept DEF BeforeReturning, NotesErrors, Kept
  <2>3. /\ b.enabled = ink.enabled /\ b.seen \in {ink.seen, "current"}
        /\ b.errors = "none" \/ (b.errors = "current" /\ b.enabled /\ accepted)
    BY <1>2, <2>1 DEF BeforeReturning, NotesErrors, Sound, Resting, Ink
  <2>. HIDE DEF b
  <2>4. /\ Sound(a) /\ ~a.running /\ a.enabled = b.enabled
        /\ a.errors = b.errors /\ a.seen = b.seen
    BY <2>2, AfterLispSound, AfterLispLeaves DEF Sound
  <2>5. Leaves(a, accepted)  BY <2>1 DEF b
  <2>. HIDE DEF a
  <2>6. LineOK(ink, stack, inCommand)'
    BY <1>1, <1>2, <2>1, <2>3, <2>4, <2>5, LeavingStep
  <2>. QED  BY <2>6 DEF LineOK, LispOK, ErrorsOK, SeenOK
<1>7. CASE LispPanics
  <2>. DEFINE a == AfterLisp(LispPanic(ink))
  <2>1. Resting(LispPanic(ink)) /\ Forgot(LispPanic(ink))
    BY LispPanicResting, LispPanicForgets
  <2>2. Sound(a) /\ ~a.running /\ a.errors = "none" /\ a.seen = "none"
    BY <2>1, AfterLispSound, AfterLispLeaves DEF Forgot
  <2>3. Leaves(a, Top.of = "accept")  BY <1>7 DEF LispPanics
  <2>. HIDE DEF a
  <2>4. CASE Top.stops
    <3>1. Leaves(a, FALSE)  BY <2>3, <2>4 DEF Leaves
    <3>2. LineOK(ink, stack, inCommand)'  BY <1>1, <2>2, <3>1, LeavingStep
    <3>. QED  BY <3>2 DEF LineOK, LispOK, ErrorsOK, SeenOK
  <2>5. CASE ~Top.stops
    <3>1. PICK accepted \in BOOLEAN : accepted = (Top.of = "accept")  OBVIOUS
    <3>2. Leaves(a, accepted)  BY <2>3, <3>1
    <3>3. LineOK(ink, stack, inCommand)'  BY <1>1, <2>2, <2>5, <3>2, LeavingStep
    <3>. QED  BY <3>3 DEF LineOK, LispOK, ErrorsOK, SeenOK
  <2>. QED  BY <2>4, <2>5
<1>. QED  BY <1>4, <1>5, <1>6, <1>7

\* What holds at first.
LEMMA LineInitInv == ASSUME SwitchingInit PROVE LineInv
<1>1. LineOK(ink, <<Shell>>, inCommand)
  BY TopLevel DEF SwitchingInit
<1>. QED  BY <1>1 DEF SwitchingInit, LineInv

(* What inkline keeps of a line and what runs stay in step: the second      *)
(* invariant, which needs the first.                                       *)
THEOREM LineInvariant == SwitchingSpec => []LineInv
<1>1. SwitchingInit => LineInv
  BY LineInitInv
<1>2. SwitchingInv /\ LineInv /\ [SwitchingNext]_switchVars => LineInv'
  <2>. SUFFICES ASSUME SwitchingInv, LineInv, [SwitchingNext]_switchVars PROVE LineInv'
    OBVIOUS
  <2>1. CASE EnableF \/ EnableD \/ On \/ Off \/ Eval
    BY <2>1, KeptBySwitches
  <2>2. CASE BeginsMain \/ BeginsReadE \/ ShellEnds \/ ShellJumps
    BY <2>2, KeptByShell
  <2>3. CASE Draws \/ DrawsAfterKey \/ Starts
    BY <2>3, KeptByDrawing
  <2>4. CASE Waits \/ Trap \/ CtrlCEndsLine \/ KeyArrives \/ HookPanics
    BY <2>4, KeptByWaiting
  <2>5. CASE \/ Edits \/ RunsShell \/ Returns \/ LispKeyFallsBack \/ LispKey
             \/ Accepts \/ ReadlineAccepts
    BY <2>5, KeptByCommands
  <2>6. CASE LineEnds
    BY <2>6, KeptByLineEnds
  <2>7. CASE LispRunsShell \/ LispReadsKey \/ LispReturns \/ LispPanics
    BY <2>7, KeptInLisp
  <2>8. CASE UNCHANGED switchVars
    BY <2>8 DEF switchVars, LineInv, LineOK, LispOK, ErrorsOK, SeenOK
  <2>. QED  BY <2>1, <2>2, <2>3, <2>4, <2>5, <2>6, <2>7, <2>8 DEF SwitchingNext
<1>. QED  BY <1>1, <1>2, SwitchingInvariant, PTL DEF SwitchingSpec

(* Readline's own drawing is in place while it waits for a key (getc,       *)
(* deprep_terminal), also once shell code of a trap has read lines of its  *)
(* own, switched inkline, or jumped out of one of them: a resize is then   *)
(* redrawn as readline expects.                                            *)
THEOREM ReadlineDrawsWhileWaitingAlways == SwitchingSpec => []ReadlineDrawsWhileWaiting
<1>1. SwitchingInv /\ LineInv => ReadlineDrawsWhileWaiting
  <2>. SUFFICES ASSUME SwitchingInv, LineInv, AtLine("waits") \/ AtLine("theirs")
                PROVE ink.now.redisplay # "ours"
    BY DEF ReadlineDrawsWhileWaiting
  <2>1. Len(stack) \in 1 .. Len(stack) /\ Waiting(stack[Len(stack)])
    BY DEF SwitchingInv, StackOK, Waiting, AtLine, Top
  <2>2. ~InnermostBusy(stack)  BY <2>1 DEF InnermostBusy
  <2>. QED  BY <2>2 DEF LineInv, LineOK
<1>. QED  BY <1>1, SwitchingInvariant, LineInvariant, PTL

(* Together: the functions readline calls and those it gets back (enable,   *)
(* disable, after_lisp, guard, getc, deprep_terminal).                     *)
THEOREM FunctionsInPlaceAlways == SwitchingSpec => []FunctionsInPlace
<1>1. OriginalsNotOurs /\ OnAndOff /\ ReadlineDrawsWhileWaiting => FunctionsInPlace
  BY DEF FunctionsInPlace
<1>. QED  BY <1>1, OriginalsNotOursAlways, OnAndOffAlways, ReadlineDrawsWhileWaitingAlways, PTL

(* The errors of accept functions are of the line that is about to run, and *)
(* the after-change hook compares the line with what it was earlier on the *)
(* same line (line_started, after_key, deprep_terminal, enable), whatever  *)
(* switched inkline, panicked or jumped past the line's end in between.    *)
THEOREM NothingOfEarlierLineAlways == SwitchingSpec => []NothingOfEarlierLine
<1>1. LineInv => NothingOfEarlierLine
  BY DEF LineInv, LineOK, ErrorsOK, NothingOfEarlierLine, ErrorsOfThisLine, ComparesThisLine
<1>. QED  BY <1>1, LineInvariant, PTL
=============================================================================
