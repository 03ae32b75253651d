-------------------------- MODULE BashSessionProofs --------------------------
(***************************************************************************)
(* Proofs about BashSession: that fits is right to let the answer for one  *)
(* text serve another, that every row shown is one of bash's own, that one  *)
(* copy works at a time, and that what the menu says of bash is true.       *)
(***************************************************************************)
EXTENDS BashSession, SequenceTheorems, FiniteSetTheorems, TLAPS

-----------------------------------------------------------------------------
(* fits. *)

\* The words fits compares, of texts over any characters.
WordOver(S) == [place : Places, typed : Seq(S)]

\* Going on from a text is transitive (starts_with).
LEMMA PrefixTransitive ==
    ASSUME NEW S, NEW r \in Seq(S), NEW s \in Seq(S), NEW t \in Seq(S),
           IsPrefixOf(r, s), IsPrefixOf(s, t)
    PROVE  IsPrefixOf(r, t)
  BY DEF IsPrefixOf

\* The rows of the answer for the text asked that go on from the text typed
\* are rows of bash for the typed text (fits).
LEMMA NoRowAdded ==
    ASSUME NEW S, NEW offered \in SUBSET Seq(S),
           NEW a \in Seq(S), NEW w \in Seq(S),
           IsPrefixOf(a, w), SameDirectory(a, w)
    PROVE  GoOnFrom(w, Tab(offered, a)) \subseteq Tab(offered, w)
<1> SUFFICES ASSUME NEW c \in Tab(offered, a), IsPrefixOf(w, c)
             PROVE  c \in Tab(offered, w)
  BY DEF GoOnFrom
<1>1. c \in offered /\ c \in Seq(S) /\ Len(c) \in Nat /\ Len(a) \in Nat /\ Len(w) \in Nat
  BY DEF Tab
<1>2. \A i \in Len(w) + 1 .. Len(c) - 1 : c[i] # "/"
  BY <1>1 DEF Tab, IsPrefixOf
<1>3. Len(c) \notin SlashPlaces(w)
  BY DEF Tab, SameDirectory
<1>4. IsFlag(c) => IsFlag(w)
  BY <1>1 DEF Tab, IsFlag, IsPrefixOf
<1> QED
  BY <1>1, <1>2, <1>3, <1>4 DEF Tab

\* None of bash's rows for the typed text is missing from them.
LEMMA NoRowLost ==
    ASSUME NEW S, NEW offered \in SUBSET Seq(S),
           NEW a \in Seq(S), NEW w \in Seq(S),
           IsPrefixOf(a, w), SameDirectory(a, w), ~(a = <<>> /\ IsFlag(w))
    PROVE  Tab(offered, w) \subseteq GoOnFrom(w, Tab(offered, a))
<1> SUFFICES ASSUME NEW c \in Tab(offered, w)
             PROVE  c \in Tab(offered, a)
  BY DEF GoOnFrom, Tab
<1>1. /\ c \in offered /\ c \in Seq(S) /\ Len(c) \in Nat /\ Len(a) \in Nat /\ Len(w) \in Nat
      /\ IsPrefixOf(w, c) /\ IsPrefixOf(a, c)
  BY PrefixTransitive DEF Tab
<1>2. \A i \in Len(a) + 1 .. Len(c) - 1 : c[i] # "/"
  <2> SUFFICES ASSUME NEW i \in Len(a) + 1 .. Len(c) - 1, c[i] = "/"
               PROVE  FALSE
    OBVIOUS
  <2>1. CASE i > Len(w)
    BY <1>1, <2>1 DEF Tab
  <2>2. CASE i <= Len(w)
    <3>1. w[i] = "/" /\ i \in 1 .. Len(w)
      BY <1>1, <2>2 DEF IsPrefixOf
    <3>2. i \in SlashPlaces(a)
      BY <3>1 DEF SameDirectory, SlashPlaces
    <3> QED
      BY <1>1, <3>2 DEF SlashPlaces
  <2> QED
    BY <1>1, <2>1, <2>2
<1>3. Len(c) \notin SlashPlaces(a)
  BY DEF Tab, SameDirectory
<1>4. IsFlag(c) => IsFlag(a)
  <2> SUFFICES ASSUME IsFlag(c) PROVE IsFlag(a)
    OBVIOUS
  <2>1. IsFlag(w)
    BY DEF Tab
  <2>2. Len(a) > 0
    BY <1>1, <2>1
  <2> QED
    BY <1>1, <2>1, <2>2 DEF IsFlag, IsPrefixOf
<1> QED
  BY <1>1, <1>2, <1>3, <1>4 DEF Tab

\* An answer that fits serves the word: of what bash gave for the word asked
\* about, the rows that go on from the typed text are just what bash gives
\* for the word typed (bash_complete.rs, fits), whatever is offered.
THEOREM FitsServes ==
    ASSUME NEW S, NEW offered \in SUBSET Seq(S),
           NEW asked \in WordOver(S), NEW typed \in WordOver(S),
           Fits(asked, typed)
    PROVE  GoOnFrom(typed.typed, Tab(offered, asked.typed)) = Tab(offered, typed.typed)
<1>1. asked.typed \in Seq(S) /\ typed.typed \in Seq(S)
  BY DEF WordOver
<1>2. /\ IsPrefixOf(asked.typed, typed.typed) /\ SameDirectory(asked.typed, typed.typed)
      /\ ~(asked.typed = <<>> /\ IsFlag(typed.typed))
  BY DEF Fits
<1>3. GoOnFrom(typed.typed, Tab(offered, asked.typed)) \subseteq Tab(offered, typed.typed)
  BY <1>1, <1>2, NoRowAdded
<1>4. Tab(offered, typed.typed) \subseteq GoOnFrom(typed.typed, Tab(offered, asked.typed))
  BY <1>1, <1>2, NoRowLost
<1> QED
  BY <1>3, <1>4
-----------------------------------------------------------------------------
(* What is kept of bash's answers: each is what bash gave for its own word  *)
(* on this line.                                                           *)

\* A draw that gathers a menu has a word.
Drawing == pc \in {"draw", "decide", "found", "wait"} => word # None

\* What a copy wrote it had from bash, on the line it was started for.
CopiesGiveBashs == \A c \in DOMAIN copies : copies[c].items \subseteq Given(c)

\* No copy is held over to another line.
RunningIsThisLines == running # None => copies[running].line = line

SavedIsBashs == saved # None => saved.items \subseteq Bash(saved.word)

\* The bound of the model: a line ends only while another may be read.
Bounded == pc = "between" => line < MaxLine

Typing == TypeOK /\ Drawing /\ Bounded
OfBash == CopiesGiveBashs /\ RunningIsThisLines /\ SavedIsBashs /\ ShownIsBashs
\* A step that ends copies, or none: what each was asked and gave stays.
CopiesKept ==
    /\ copies' \in Seq(Copy) /\ Len(copies') = Len(copies)
    /\ \A c \in 1 .. Len(copies) :
         /\ copies'[c].word = copies[c].word
         /\ copies'[c].line = copies[c].line
         /\ copies'[c].items = copies[c].items
         /\ copies'[c].wrote = copies[c].wrote
         /\ copies'[c].cut = copies[c].cut

\* A copy put in another's place.
LEMMA CopyReplaced ==
    ASSUME NEW cs \in Seq(Copy), NEW c \in 1 .. Len(cs), NEW e \in Copy
    PROVE  /\ [cs EXCEPT ![c] = e] \in Seq(Copy)
           /\ Len([cs EXCEPT ![c] = e]) = Len(cs)
           /\ \A i \in 1 .. Len(cs) : [cs EXCEPT ![c] = e][i] = IF i = c THEN e ELSE cs[i]
  BY ExceptSeq

\* A copy that is killed is a copy, and has what it wrote.
LEMMA KilledCopy ==
    ASSUME copies \in Seq(Copy), NEW c \in 1 .. Len(copies), NEW why \in {"dropped", "late"},
           copies' = Killed(c, why)
    PROVE  CopiesKept
<1> DEFINE e == [copies[c] EXCEPT !.proc = "ended", !.left = FALSE, !.open = FALSE,
                                  !.killed = why]
<1>1. copies[c] \in Copy
  BY ElementOfSeq
<1>2. /\ e \in Copy /\ e.word = copies[c].word /\ e.line = copies[c].line
      /\ e.items = copies[c].items /\ e.wrote = copies[c].wrote /\ e.cut = copies[c].cut
  BY <1>1 DEF Copy
<1>3. copies' = [copies EXCEPT ![c] = e]
  BY DEF Killed
<1> QED
  BY <1>2, <1>3, CopyReplaced DEF CopiesKept

\* A step that leaves the copies alone keeps what they gave.
LEMMA SameCopies ==
    ASSUME TypeOK, UNCHANGED copies PROVE CopiesKept
  BY DEF CopiesKept, TypeOK

\* Dropping the copy held keeps what the copies gave.
LEMMA DroppedKeeps ==
    ASSUME TypeOK
    PROVE  /\ Dropped \in Seq(Copy) /\ Len(Dropped) = Len(copies)
           /\ \A c \in 1 .. Len(copies) :
                /\ Dropped[c].word = copies[c].word
                /\ Dropped[c].line = copies[c].line
                /\ Dropped[c].items = copies[c].items
                /\ Dropped[c].wrote = copies[c].wrote
                /\ Dropped[c].cut = copies[c].cut
<1>1. CASE running = None
  BY <1>1 DEF Dropped, TypeOK
<1>2. CASE running # None
  <2> DEFINE e == [copies[running] EXCEPT !.proc = "ended", !.left = FALSE,
                                          !.open = FALSE, !.killed = "dropped"]
  <2>1. running \in 1 .. Len(copies) /\ copies \in Seq(Copy)
    BY <1>2 DEF TypeOK
  <2>2. copies[running] \in Copy
    BY <2>1, ElementOfSeq
  <2>3. /\ e \in Copy /\ e.word = copies[running].word
        /\ e.line = copies[running].line /\ e.items = copies[running].items
        /\ e.wrote = copies[running].wrote /\ e.cut = copies[running].cut
    BY <2>2 DEF Copy
  <2>4. Dropped = [copies EXCEPT ![running] = e]
    BY <1>2 DEF Dropped, Killed
  <2> HIDE DEF e
  <2> QED
    BY <2>1, <2>3, <2>4, CopyReplaced
<1> QED
  BY <1>1, <1>2

\* The step that drops it.
LEMMA DropKeeps ==
    ASSUME TypeOK, Drop PROVE CopiesKept /\ running' = None
  BY DroppedKeeps DEF Drop, CopiesKept

\* So does taking its answer, which becomes the saved one.
LEMMA TakeKeeps ==
    ASSUME TypeOK, TakeRunning
    PROVE  /\ CopiesKept /\ running' = None
           /\ saved' \in Saved \cup {None} /\ givenUp' \in Words \cup {None} /\ failed' \in Nat
           /\ \/ saved' = saved
              \/ /\ saved'.word = copies[running].word
                 /\ saved'.items = copies[running].items
<1>1. running \in 1 .. Len(copies) /\ copies[running] \in Copy
  BY ElementOfSeq DEF TypeOK, TakeRunning
<1>2. copies[running].word \in Words /\ copies[running].items \subseteq Texts
      /\ copies[running].cut \in BOOLEAN
  BY <1>1 DEF Copy
<1>3. CASE copies[running].wrote = "whole"
  <2>1. /\ saved' = [word |-> copies[running].word, items |-> copies[running].items,
                     cut |-> copies[running].cut]
        /\ DropOnly /\ UNCHANGED <<givenUp, failed>>
    BY <1>3 DEF TakeRunning
  <2> QED
    BY <1>2, <2>1, SameCopies DEF DropOnly, Saved, TypeOK
<1>4. CASE copies[running].wrote = "huge"
  <2>1. failed' = failed + 1 /\ givenUp' = copies[running].word /\ Drop /\ UNCHANGED saved
    BY <1>4 DEF TakeRunning
  <2> QED
    BY <1>2, <2>1, DropKeeps DEF TypeOK
<1>5. CASE copies[running].wrote \notin {"whole", "huge"}
  <2>1. failed' = failed + 1 /\ givenUp' = copies[running].word /\ DropOnly /\ UNCHANGED saved
    BY <1>5 DEF TakeRunning
  <2> QED
    BY <1>2, <2>1, SameCopies DEF DropOnly, TypeOK
<1> QED
  BY <1>3, <1>4, <1>5

\* So does giving up on it.
LEMMA TimeOutKeeps ==
    ASSUME TypeOK, running # None, TimeOut
    PROVE  /\ CopiesKept /\ running' = None
           /\ givenUp' \in Words \cup {None} /\ timedOut' \in Nat
<1>1. running \in 1 .. Len(copies) /\ copies[running] \in Copy
  BY ElementOfSeq DEF TypeOK
<1>2. copies[running].word \in Words
  BY <1>1 DEF Copy
<1> QED
  BY <1>1, <1>2, KilledCopy DEF TimeOut, TypeOK

\* And forgetting all of it.
LEMMA ForgetKeeps ==
    ASSUME TypeOK, Forget
    PROVE  CopiesKept /\ running' = None /\ saved' = None /\ givenUp' = None
  BY DropKeeps DEF Forget

\* A menu drawn is the one shown before, or a new one for the word.
LEMMA DrawMenuTyped ==
    ASSUME TypeOK, word \in Words, NEW items \in SUBSET Texts, NEW waiting \in BOOLEAN,
           NEW cutFor \in Words \cup {None}, DrawMenu(items, waiting, cutFor)
    PROVE  /\ menu' \in Menu \cup {None} /\ pc' = "key" /\ atPause' \in BOOLEAN
           /\ menu' = menu \/ (menu'.word = word /\ menu'.items \subseteq items)
  BY DEF DrawMenu, Menu, TypeOK

-----------------------------------------------------------------------------
(* Typing. *)

\* The initial state is typed.
LEMMA InitTyping == Init => Typing
<1> SUFFICES ASSUME Init PROVE Typing
  OBVIOUS
<1>1. copies \in Seq(Copy) /\ running = None /\ line \in 0 .. MaxLine
  BY BashConstantsOK DEF Init
<1>2. on \in BOOLEAN /\ atPause \in BOOLEAN /\ more \in BOOLEAN /\ plain \in BOOLEAN
      /\ wantsPause \in BOOLEAN /\ reloaded \in BOOLEAN
  BY DEF Init
<1> QED
  BY <1>1, <1>2 DEF Init, Typing, TypeOK, Drawing, Bounded
\* The draw keeps the type.
LEMMA DrawTyping == Typing /\ Draw => Typing'
<1> SUFFICES ASSUME Typing, Draw PROVE Typing'
  OBVIOUS
<1> USE DEF At
<1>0. TypeOK /\ Drawing /\ Bounded
  BY DEF Typing
<1>a. pc \in {"draw", "decide", "found", "wait"} => word \in Words
  BY <1>0 DEF TypeOK, Drawing
<1>1. CASE DrawOff
  <2>1. CopiesKept /\ running' = None /\ saved' = None /\ givenUp' = None
    BY <1>0, <1>1, ForgetKeeps DEF DrawOff
  <2>2. menu' \in Menu \cup {None} /\ pc' = "key" /\ atPause' \in BOOLEAN
    BY <1>0, <1>a, <1>1, DrawMenuTyped DEF DrawOff
  <2> QED
    BY <1>0, <1>1, <2>1, <2>2
    DEF DrawOff, Typing, TypeOK, Drawing, Bounded, CopiesKept, screen, prompt
<1>2. CASE DrawReads
  <2>1. /\ copies' \in Seq(Copy) /\ running' \in (1 .. Len(copies')) \cup {None}
        /\ saved' \in Saved \cup {None} /\ givenUp' \in Words \cup {None} /\ failed' \in Nat
    <3>1. CASE TakeRunning
      BY <1>0, <3>1, TakeKeeps DEF CopiesKept
    <3>2. CASE UNCHANGED <<saved, running, givenUp, failed, copies>>
      BY <1>0, <3>2 DEF TypeOK
    <3> QED
      BY <1>2, <3>1, <3>2 DEF DrawReads
  <2> QED
    BY <1>0, <1>a, <1>2, <2>1 DEF DrawReads, Typing, TypeOK, Drawing, Bounded, screen, prompt
<1>3. CASE AskNothing
  <2>1. CopiesKept /\ running' = None
    BY <1>0, <1>3, DropKeeps DEF AskNothing
  <2>2. menu' \in Menu \cup {None} /\ pc' = "key" /\ atPause' \in BOOLEAN
    BY <1>0, <1>a, <1>3, DrawMenuTyped DEF AskNothing
  <2> QED
    BY <1>0, <1>3, <2>1, <2>2
    DEF AskNothing, Typing, TypeOK, Drawing, Bounded, CopiesKept, screen, prompt
<1>4. CASE AskNoCopy
  <2>1. copies' \in Seq(Copy) /\ running' \in (1 .. Len(copies')) \cup {None}
    <3>1. CASE Drop
      BY <1>0, <3>1, DropKeeps DEF CopiesKept
    <3>2. CASE UNCHANGED <<running, copies>>
      BY <1>0, <3>2 DEF TypeOK
    <3> QED
      BY <1>4, <3>1, <3>2 DEF AskNoCopy
  <2>2. atPause' \in BOOLEAN /\ wantsPause' \in BOOLEAN /\ more' \in BOOLEAN /\ pc' = "found"
    BY <1>0, <1>4 DEF AskNoCopy, TypeOK
  <2> QED
    BY <1>0, <1>a, <1>4, <2>1, <2>2 DEF AskNoCopy, Typing, TypeOK, Drawing, Bounded, prompt
<1>5. CASE AskNow
  <2>1. NewCopy(word) \in Copy
    BY <1>0, <1>a, <1>5 DEF AskNow, NewCopy, Copy, TypeOK
  <2>2. Dropped \in Seq(Copy) /\ Len(Dropped) = Len(copies)
    BY <1>0, DroppedKeeps
  <2>3. copies' \in Seq(Copy) /\ Len(copies') = Len(copies) + 1
    BY <1>5, <2>1, <2>2, AppendProperties DEF AskNow, Start
  <2>4. running' \in 1 .. Len(copies')
    BY <1>0, <1>5, <2>3 DEF AskNow, TypeOK
  <2> QED
    BY <1>0, <1>a, <1>5, <2>3, <2>4 DEF AskNow, Typing, TypeOK, Drawing, Bounded, screen, prompt
<1>6. CASE AskCannotStart
  <2>1. CopiesKept /\ running' = None
    BY <1>0, <1>6, DropKeeps DEF AskCannotStart
  <2>2. /\ failed' \in Nat /\ noStart' \in Nat /\ givenUp' \in Words /\ word # None
        /\ atPause' = FALSE /\ pc' = "found"
        /\ UNCHANGED <<saved, timedOut, word, more, plain, menu, wantsPause, pausedOn, line, on,
                      reloaded>>
    BY <1>0, <1>a, <1>6 DEF AskCannotStart, TypeOK, Drawing, screen
  <2> QED
    BY <1>0, <2>1, <2>2 DEF Typing, TypeOK, Drawing, Bounded, CopiesKept
<1>7. CASE FoundTakes
  <2>1. /\ CopiesKept /\ running' = None
        /\ saved' \in Saved \cup {None} /\ givenUp' \in Words \cup {None} /\ failed' \in Nat
    BY <1>0, <1>7, TakeKeeps DEF FoundTakes
  <2> QED
    BY <1>0, <1>a, <1>7, <2>1
    DEF FoundTakes, Typing, TypeOK, Drawing, Bounded, CopiesKept, screen, prompt
<1>8. CASE FoundExpires
  <2>1. /\ CopiesKept /\ running' = None
        /\ givenUp' \in Words \cup {None} /\ timedOut' \in Nat
    BY <1>0, <1>8, TimeOutKeeps DEF FoundExpires, Unresolved
  <2> QED
    BY <1>0, <1>a, <1>8, <2>1
    DEF FoundExpires, Typing, TypeOK, Drawing, Bounded, CopiesKept, screen, prompt
<1>9. CASE FoundWaits \/ WaitReady
  BY <1>0, <1>a, <1>9
  DEF FoundWaits, WaitReady, Typing, TypeOK, Drawing, Bounded, session, screen, prompt
<1>10. CASE FoundDone
  <2>1. menu' \in Menu \cup {None} /\ pc' = "key" /\ atPause' \in BOOLEAN
    <3>1. SavedFits => saved.items \in SUBSET Texts /\ saved.word \in Words
      BY <1>0 DEF SavedFits, TypeOK, Saved
    <3>2. FoundItems \in SUBSET Texts
          /\ (IF SavedFits /\ saved.cut THEN saved.word ELSE None) \in Words \cup {None}
      BY <3>1 DEF FoundItems
    <3>3. (atPause \/ RunningFits(word)) \in BOOLEAN
      BY <1>0 DEF TypeOK, RunningFits
    <3>4. word \in Words
      BY <1>a, <1>10 DEF FoundDone
    <3>5. CASE DrawMenu({}, FALSE, None)
      BY <1>0, <3>4, <3>5, DrawMenuTyped
    <3>6. CASE DrawMenu(FoundItems, atPause \/ RunningFits(word),
                        IF SavedFits /\ saved.cut THEN saved.word ELSE None)
      BY <1>0, <3>2, <3>3, <3>4, <3>6, DrawMenuTyped
    <3> QED
      BY <1>10, <3>5, <3>6 DEF FoundDone, Found
  <2> QED
    BY <1>0, <1>10, <2>1 DEF FoundDone, Typing, TypeOK, Drawing, Bounded, session, prompt
<1> QED
  BY <1>1, <1>2, <1>3, <1>4, <1>5, <1>6, <1>7, <1>8, <1>9, <1>10 DEF Draw
\* So do getc's waits.
LEMMA WaitsTyping == Typing /\ Waits => Typing'
<1> SUFFICES ASSUME Typing, Waits PROVE Typing'
  OBVIOUS
<1> USE DEF At
<1>0. TypeOK /\ Drawing /\ Bounded
  BY DEF Typing
<1>1. CASE KeyReads
  <2>1. /\ CopiesKept /\ running' = None
        /\ saved' \in Saved \cup {None} /\ givenUp' \in Words \cup {None} /\ failed' \in Nat
    BY <1>0, <1>1, TakeKeeps DEF KeyReads
  <2> QED
    BY <1>0, <1>1, <2>1 DEF KeyReads, Redraw, Typing, TypeOK, Drawing, Bounded, CopiesKept, prompt
<1>2. CASE KeyExpires
  <2>1. /\ CopiesKept /\ running' = None /\ saved' \in Saved \cup {None}
        /\ givenUp' \in Words \cup {None} /\ failed' \in Nat /\ timedOut' \in Nat
    <3>1. CASE TakeRunning /\ UNCHANGED timedOut
      BY <1>0, <3>1, TakeKeeps DEF TypeOK
    <3>2. CASE TimeOut /\ UNCHANGED <<saved, failed>>
      BY <1>0, <1>2, <3>2, TimeOutKeeps DEF KeyExpires, TypeOK
    <3> QED
      BY <1>2, <3>1, <3>2 DEF KeyExpires
  <2>2. pc' = "key" \/ (pc' = "draw" /\ word # None)
    BY <1>2 DEF KeyExpires, Redraw
  <2> QED
    BY <1>0, <1>2, <2>1, <2>2
    DEF KeyExpires, Typing, TypeOK, Drawing, Bounded, CopiesKept, screen, prompt
<1>3. CASE Pause
  BY <1>0, <1>3 DEF Pause, Redraw, Typing, TypeOK, Drawing, Bounded, session, prompt
<1> QED
  BY <1>1, <1>2, <1>3 DEF Waits

\* And the keys, and what ends a line or the shell.
LEMMA KeysTyping == Typing /\ Keys => Typing'
<1> SUFFICES ASSUME Typing, Keys PROVE Typing'
  OBVIOUS
<1> USE DEF At
<1>0. TypeOK /\ Drawing /\ Bounded
  BY DEF Typing
<1>1. ASSUME NEW w \in Words, NEW m \in BOOLEAN, Key(w, m) PROVE Typing'
  BY <1>0, <1>1, BashConstantsOK DEF Key, Typing, TypeOK, Drawing, Bounded, session, prompt
<1>2. CASE KeyNoMenu
  BY <1>0, <1>2 DEF KeyNoMenu, Typing, TypeOK, Drawing, Bounded, session, prompt
<1>3. CASE StartSearch
  <2>1. /\ UNCHANGED <<session, copies, pc, atPause, word, more, menu, pausedOn, prompt>>
        /\ plain' \in BOOLEAN /\ wantsPause' \in BOOLEAN
    BY <1>3 DEF StartSearch
  <2>2. TypeOK'
    BY <1>0, <2>1 DEF TypeOK, session, prompt
  <2>3. Drawing' /\ Bounded'
    BY <1>0, <2>1 DEF Drawing, Bounded, prompt
  <2> QED
    BY <2>2, <2>3 DEF Typing
<1>4. ASSUME NEW w \in Words, EndSearch(w) PROVE Typing'
  BY <1>0, <1>4, BashConstantsOK DEF EndSearch, Typing, TypeOK, Drawing, Bounded, session, prompt
<1>5. ASSUME NEW done \in BOOLEAN, EndLine(done) PROVE Typing'
  <2>1. /\ copies' \in Seq(Copy) /\ running' \in (1 .. Len(copies')) \cup {None}
        /\ saved' \in Saved \cup {None} /\ givenUp' \in Words \cup {None}
    <3>1. CASE Forget
      BY <1>0, <3>1, ForgetKeeps DEF CopiesKept
    <3>2. CASE UNCHANGED <<saved, running, givenUp, copies>>
      BY <1>0, <3>2 DEF TypeOK
    <3> QED
      BY <1>5, <3>1, <3>2 DEF EndLine
  <2> QED
    BY <1>0, <1>5, <2>1 DEF EndLine, Typing, TypeOK, Drawing, Bounded, prompt
<1>6. CASE NewLine
  <2>1. CopiesKept /\ running' = None /\ saved' = None /\ givenUp' = None
    BY <1>0, <1>6, ForgetKeeps DEF NewLine
  <2>2. line' \in 0 .. MaxLine
    BY <1>0, <1>6, BashConstantsOK DEF NewLine, TypeOK, Bounded
  <2> QED
    BY <1>0, <1>6, <2>1, <2>2 DEF NewLine, Typing, TypeOK, Drawing, Bounded, CopiesKept
<1>7. CASE Reload
  <2>1. CopiesKept /\ running' = None /\ saved' = None /\ givenUp' = None
    BY <1>0, <1>7, ForgetKeeps DEF Reload
  <2> QED
    BY <1>0, <1>7, <2>1 DEF Reload, Redraw, Typing, TypeOK, Drawing, Bounded, CopiesKept
<1>8. CASE Disable
  <2>1. CopiesKept /\ running' = None /\ saved' = None /\ givenUp' = None
    BY <1>0, <1>8, ForgetKeeps DEF Disable
  <2> QED
    BY <1>0, <1>8, <2>1 DEF Disable, Typing, TypeOK, Drawing, Bounded, CopiesKept, prompt
<1>9. CASE ShellEnds
  BY <1>0, <1>9 DEF ShellEnds, Typing, TypeOK, Drawing, Bounded, prompt
<1> QED
  BY <1>1, <1>2, <1>3, <1>4, <1>5, <1>6, <1>7, <1>8, <1>9 DEF Keys

\* What a step of a copy leaves of it, for the shell.
LEMMA CopyChanges ==
    ASSUME Typing, NEW c \in DOMAIN copies, NEW e \in Copy,
           copies' = [copies EXCEPT ![c] = e], OfCopy
    PROVE  Typing'
<1>1. copies \in Seq(Copy) /\ DOMAIN copies = 1 .. Len(copies)
  BY DEF Typing, TypeOK
<1>2. copies' \in Seq(Copy) /\ Len(copies') = Len(copies)
  BY <1>1, CopyReplaced
<1> QED
  BY <1>2 DEF Typing, TypeOK, Drawing, Bounded, OfCopy, session, screen, prompt
\* What a copy does not undo.
Follows(old, e) ==
    /\ e.word = old.word /\ e.line = old.line
    /\ old.proc = "ended" => e.proc = "ended"
    /\ old.wrote = "whole" => e.wrote = "whole"
    /\ ~e.open => e.proc = "ended" \/ ~old.open

\* A copy that gives the answer it gave before, if any.
SaysAsBefore(old, e) ==
    /\ e.items = old.items /\ e.cut = old.cut
    /\ e.wrote = "whole" => old.wrote = "whole"
\* A copy that gives rows of bash: all of them, or says that some were cut.
SaysAll(c, e) ==
    /\ e.items \subseteq Given(c)
    /\ ~e.cut => e.items = Given(c)

\* What bash gives is finite, so as many rows of it as there are is all of it.
LEMMA GivenFinite ==
    ASSUME TypeOK, NEW c \in DOMAIN copies, NEW items \in SUBSET Given(c),
           Cardinality(items) = Cardinality(Given(c))
    PROVE  items = Given(c)
<1>1. copies[c] \in Copy
  BY ElementOfSeq DEF TypeOK
<1>2. copies[c].line \in 0 .. MaxLine /\ copies[c].word.place \in Places
  BY <1>1, BashConstantsOK DEF Copy
<1> DEFINE offered == Offered[copies[c].line][copies[c].word.place]
<1>3. IsFiniteSet(offered)
  BY <1>2, BashConstantsOK
<1>4. Given(c) \subseteq offered
  BY DEF Given, Tab
<1>5. IsFiniteSet(Given(c))
  BY <1>3, <1>4, FS_Subset
<1> QED
  BY <1>5, FS_Subset

\* A copy's own step replaces it by a copy for the same word, with the answer it
\* had or, when it answers, rows bash gave.
LEMMA CopyStepIs ==
    ASSUME Typing, NEW c \in DOMAIN copies, CopyStep(c)
    PROVE  \E e \in Copy :
             /\ copies' = [copies EXCEPT ![c] = e] /\ OfCopy
             /\ Follows(copies[c], e)
             /\ SaysAsBefore(copies[c], e) \/ SaysAll(c, e)
<1> DEFINE old == copies[c]
<1>0. copies \in Seq(Copy) /\ old \in Copy
  BY ElementOfSeq DEF Typing, TypeOK
<1>1. CASE CopyBecomes(c)
  <2> DEFINE e1 == [old EXCEPT !.proc = "working"]
             e2 == [old EXCEPT !.proc = "ended", !.open = FALSE]
  <2>1. e1 \in Copy /\ e2 \in Copy
    BY <1>0 DEF Copy
  <2>2. Follows(old, e1) /\ SaysAsBefore(old, e1) /\ Follows(old, e2) /\ SaysAsBefore(old, e2)
    BY <1>0, <1>1 DEF Copy, CopyBecomes, Follows, SaysAsBefore
  <2>3. /\ copies' = [copies EXCEPT ![c] = e1] \/ copies' = [copies EXCEPT ![c] = e2]
        /\ OfCopy
    BY <1>1 DEF CopyBecomes
  <2> HIDE DEF e1, e2
  <2> QED
    BY <2>1, <2>2, <2>3
<1>2. CASE CopyAnswers(c)
  <2>1. PICK items \in SUBSET Given(c) :
          /\ Cardinality(items) = (IF Cardinality(Given(c)) > Most THEN Most
                                                                  ELSE Cardinality(Given(c)))
          /\ copies' = [copies EXCEPT ![c].wrote = "whole", ![c].items = items,
                                      ![c].cut = (Cardinality(Given(c)) > Most)]
    BY <1>2 DEF CopyAnswers
  <2> DEFINE cut == Cardinality(Given(c)) > Most
             e == [old EXCEPT !.wrote = "whole", !.items = items, !.cut = cut]
  <2>2. items \subseteq Texts
    <3>1. old.line \in 0 .. MaxLine /\ old.word \in Words
      BY <1>0 DEF Copy
    <3>2. old.word.place \in Places
      BY <3>1, BashConstantsOK
    <3>3. Offered[old.line][old.word.place] \subseteq Texts
      BY <3>1, <3>2, BashConstantsOK
    <3> QED
      BY <3>3 DEF Given, Tab
  <2>3. cut \in BOOLEAN /\ (~cut => items = Given(c))
    BY <2>1, GivenFinite DEF Typing
  <2> HIDE DEF cut
  <2>4. e \in Copy /\ Follows(old, e) /\ SaysAll(c, e)
    BY <1>0, <1>2, <2>2, <2>3 DEF Copy, CopyAnswers, Follows, SaysAll
  <2>5. copies' = [copies EXCEPT ![c] = e] /\ OfCopy
    BY <1>2, <2>1 DEF CopyAnswers, cut
  <2> HIDE DEF e
  <2> QED
    BY <2>4, <2>5
<1>3. CASE CopyWritesTooMuch(c)
  <2> DEFINE e == [old EXCEPT !.wrote = "huge"]
  <2>1. e \in Copy /\ Follows(old, e) /\ SaysAsBefore(old, e)
    BY <1>0, <1>3 DEF Copy, CopyWritesTooMuch, Follows, SaysAsBefore
  <2>2. copies' = [copies EXCEPT ![c] = e] /\ OfCopy
    BY <1>3 DEF CopyWritesTooMuch
  <2> HIDE DEF e
  <2> QED
    BY <2>1, <2>2
<1>4. CASE CopyExits(c)
  <2>1. PICK left \in BOOLEAN : \E open \in {FALSE, left} :
          copies' = [copies EXCEPT ![c].proc = "ended", ![c].left = left, ![c].open = open]
    BY <1>4 DEF CopyExits
  <2>2. PICK open \in {FALSE, left} :
          copies' = [copies EXCEPT ![c].proc = "ended", ![c].left = left, ![c].open = open]
    BY <2>1
  <2> DEFINE e == [old EXCEPT !.proc = "ended", !.left = left, !.open = open]
  <2>3. e \in Copy /\ Follows(old, e) /\ SaysAsBefore(old, e)
    BY <1>0, <1>4 DEF Copy, CopyExits, Follows, SaysAsBefore
  <2>4. copies' = [copies EXCEPT ![c] = e] /\ OfCopy
    BY <1>4, <2>2 DEF CopyExits
  <2> HIDE DEF e
  <2> QED
    BY <2>3, <2>4
<1>5. CASE WatcherKills(c)
  <2> DEFINE e == [old EXCEPT !.proc = "ended", !.left = FALSE, !.open = FALSE]
  <2>1. e \in Copy /\ Follows(old, e) /\ SaysAsBefore(old, e)
    BY <1>0, <1>5 DEF Copy, WatcherKills, Follows, SaysAsBefore
  <2>2. copies' = [copies EXCEPT ![c] = e] /\ OfCopy
    BY <1>5 DEF WatcherKills
  <2> HIDE DEF e
  <2> QED
    BY <2>1, <2>2
<1>6. CASE TimeUp(c)
  <2> DEFINE e == [old EXCEPT !.up = TRUE]
  <2>1. e \in Copy /\ Follows(old, e) /\ SaysAsBefore(old, e)
    BY <1>0, <1>6 DEF Copy, TimeUp, Follows, SaysAsBefore
  <2>2. copies' = [copies EXCEPT ![c] = e] /\ OfCopy
    BY <1>6 DEF TimeUp
  <2> HIDE DEF e
  <2> QED
    BY <2>1, <2>2
<1> QED
  BY <1>1, <1>2, <1>3, <1>4, <1>5, <1>6 DEF CopyStep

\* Every step keeps the type.
LEMMA StepTyping == Typing /\ [Next]_vars => Typing'
<1> SUFFICES ASSUME Typing, [Next]_vars PROVE Typing'
  OBVIOUS
<1>1. ASSUME NEW c \in DOMAIN copies, CopyStep(c) PROVE Typing'
  BY <1>1, CopyStepIs, CopyChanges
<1>2. CASE UNCHANGED vars
  BY <1>2 DEF Typing, TypeOK, Drawing, Bounded, vars, session, screen, prompt
<1> QED
  BY <1>1, <1>2, DrawTyping, WaitsTyping, KeysTyping DEF Next

\* Every variable keeps its type, whatever is typed and whatever bash offers.
THEOREM SessionTyped == Spec => []TypeOK
<1>1. Typing => TypeOK
  BY DEF Typing
<1> QED
  BY <1>1, InitTyping, StepTyping, PTL DEF Spec
-----------------------------------------------------------------------------
(* Every row shown is bash's. *)

\* Copies that are only ended have what bash gave.
LEMMA CopiesStayBashs ==
    ASSUME Typing, CopiesGiveBashs, CopiesKept PROVE CopiesGiveBashs'
<1> SUFFICES ASSUME NEW c \in DOMAIN copies' PROVE (copies[c].items \subseteq Given(c))'
  BY DEF CopiesGiveBashs
<1>1. c \in 1 .. Len(copies) /\ c \in DOMAIN copies
  BY DEF CopiesKept, Typing, TypeOK
<1>2. copies[c].items \subseteq Given(c)
  BY <1>1 DEF CopiesGiveBashs
<1> QED
  BY <1>1, <1>2 DEF CopiesKept, Given

\* A step of the shell that starts no copy, with a menu of bash's rows.
LEMMA OfBashGoesOn ==
    ASSUME Typing, OfBash, CopiesKept, line' = line,
           running' \in {running, None}, saved' \in {saved, None}, ShownIsBashs'
    PROVE  OfBash'
<1>1. CopiesGiveBashs'
  BY CopiesStayBashs DEF OfBash
<1>2. RunningIsThisLines'
  BY DEF OfBash, RunningIsThisLines, CopiesKept, Typing, TypeOK
<1>3. SavedIsBashs'
  BY DEF OfBash, SavedIsBashs, Bash
<1> QED
  BY <1>1, <1>2, <1>3 DEF OfBash

\* What is kept stays bash's when the line goes on, nothing is added to the
\* saved items and the menu, and no copy is started or answers.
LEMMA OfBashKept ==
    ASSUME Typing, OfBash, CopiesKept, line' = line,
           running' \in {running, None}, saved' \in {saved, None}, menu' \in {menu, None}
    PROVE  OfBash'
<1>1. ShownIsBashs'
  BY DEF OfBash, ShownIsBashs, Bash
<1> QED
  BY <1>1, OfBashGoesOn

\* The answer a copy of this line gave is saved.
LEMMA OfBashTaken ==
    ASSUME Typing, OfBash, TakeRunning, line' = line, menu' = menu
    PROVE  OfBash'
<1>1. /\ CopiesKept /\ running' = None
      /\ \/ saved' = saved
         \/ saved'.word = copies[running].word /\ saved'.items = copies[running].items
  BY TakeKeeps DEF Typing
<1>2. CASE saved' = saved
  BY <1>1, <1>2, OfBashKept
<1>3. CASE saved'.word = copies[running].word /\ saved'.items = copies[running].items
  <2>1. running \in DOMAIN copies /\ copies[running].line = line
    BY DEF TakeRunning, OfBash, RunningIsThisLines, Typing, TypeOK
  <2>2. copies[running].items \subseteq Given(running)
    BY <2>1 DEF OfBash, CopiesGiveBashs
  <2>3. SavedIsBashs'
    BY <1>3, <2>1, <2>2 DEF SavedIsBashs, Given, Bash
  <2>4. CopiesGiveBashs'
    BY <1>1, CopiesStayBashs DEF OfBash
  <2>5. ShownIsBashs'
    BY DEF OfBash, ShownIsBashs, Bash
  <2> QED
    BY <1>1, <2>3, <2>4, <2>5 DEF OfBash, RunningIsThisLines
<1> QED
  BY <1>1, <1>2, <1>3

\* What bash offers is texts of characters.
LEMMA OfferedTexts ==
    ASSUME Typing, NEW w \in Words
    PROVE  w.typed \in Seq(STRING) /\ Offered[line][w.place] \in SUBSET Seq(STRING)
<1>1. w.place \in Places /\ w.typed \in Texts /\ line \in 0 .. MaxLine
  BY BashConstantsOK DEF Typing, TypeOK
<1>2. Offered[line][w.place] \subseteq Texts
  BY <1>1, BashConstantsOK
<1> QED
  BY <1>1, <1>2, BashConstantsOK

\* The saved items that go on from the typed text are bash's rows for it.
LEMMA SavedRows ==
    ASSUME Typing, OfBash, word \in Words, NEW items \in SUBSET FoundItems
    PROVE  GoOnFrom(word.typed, items) \subseteq Bash(word)
<1>1. CASE ~SavedFits
  BY <1>1 DEF FoundItems, GoOnFrom
<1>2. CASE SavedFits
  <2> DEFINE offered == Offered[line][word.place]
             asked == saved.word.typed
  <2>1. saved # None /\ saved.word \in Words /\ saved.items \subseteq Tab(offered, asked)
    BY <1>2 DEF SavedFits, Fits, SamePlace, OfBash, SavedIsBashs, Bash, Typing, TypeOK, Saved
  <2>2. /\ offered \in SUBSET Seq(STRING)
        /\ asked \in Seq(STRING) /\ word.typed \in Seq(STRING)
    BY <2>1, OfferedTexts
  <2>3. IsPrefixOf(asked, word.typed) /\ SameDirectory(asked, word.typed)
    BY <1>2 DEF SavedFits, Fits
  <2> HIDE DEF offered, asked
  <2>4. GoOnFrom(word.typed, Tab(offered, asked)) \subseteq Tab(offered, word.typed)
    BY <2>2, <2>3, NoRowAdded
  <2>5. items \subseteq Tab(offered, asked)
    BY <1>2, <2>1 DEF FoundItems
  <2> QED
    BY <2>4, <2>5 DEF GoOnFrom, Bash, offered
<1> QED
  BY <1>1, <1>2

\* A menu drawn from the saved items, or from none, shows bash's rows.
LEMMA OfBashDrawn ==
    ASSUME Typing, OfBash, word \in Words, NEW items \in SUBSET FoundItems,
           NEW waiting \in BOOLEAN, NEW cutFor \in Words \cup {None},
           DrawMenu(items, waiting, cutFor), line' = line
    PROVE  ShownIsBashs'
<1>1. FoundItems \subseteq Texts
  BY DEF FoundItems, SavedFits, Typing, TypeOK, Saved
<1>2. menu' = menu \/ (menu'.word = word /\ menu'.items \subseteq items)
  BY <1>1, DrawMenuTyped DEF Typing
<1>3. CASE menu' = menu
  BY <1>3 DEF OfBash, ShownIsBashs, Bash
<1>4. CASE menu'.word = word /\ menu'.items \subseteq items
  <2>1. GoOnFrom(word.typed, menu'.items) \subseteq Bash(word)
    BY <1>4, SavedRows
  <2> QED
    BY <1>4, <2>1 DEF ShownIsBashs, Bash
<1> QED
  BY <1>2, <1>3, <1>4
\* Every step of a draw keeps what is kept bash's.
LEMMA OfBashDraw == Typing /\ OfBash /\ Draw => OfBash'
<1> SUFFICES ASSUME Typing, OfBash, Draw PROVE OfBash'
  OBVIOUS
<1> USE DEF At
<1>0. TypeOK /\ {} \in SUBSET FoundItems /\ None \in Words \cup {None}
  BY DEF Typing
<1>a. pc \in {"draw", "decide", "found", "wait"} => word \in Words
  BY DEF Typing, TypeOK, Drawing
<1>1. CASE DrawOff
  <2>1. CopiesKept /\ running' = None /\ saved' = None /\ line' = line
    BY <1>0, <1>1, ForgetKeeps DEF DrawOff, prompt
  <2>2. ShownIsBashs'
    BY <1>0, <1>a, <1>1, <2>1, OfBashDrawn DEF DrawOff
  <2> QED
    BY <2>1, <2>2, OfBashGoesOn
<1>2. CASE DrawReads
  <2>1. line' = line /\ menu' = menu
    BY <1>2 DEF DrawReads, screen, prompt
  <2>2. CASE TakeRunning
    BY <2>1, <2>2, OfBashTaken
  <2>3. CASE UNCHANGED <<saved, running, givenUp, failed, copies>>
    BY <1>0, <2>1, <2>3, SameCopies, OfBashKept
  <2> QED
    BY <1>2, <2>2, <2>3 DEF DrawReads
<1>3. CASE AskNothing
  <2>1. CopiesKept /\ running' = None /\ saved' = saved /\ line' = line
    BY <1>0, <1>3, DropKeeps DEF AskNothing, prompt
  <2>2. ShownIsBashs'
    BY <1>0, <1>a, <1>3, <2>1, OfBashDrawn DEF AskNothing
  <2> QED
    BY <2>1, <2>2, OfBashGoesOn
<1>4. CASE AskNoCopy
  <2>1. saved' = saved /\ menu' = menu /\ line' = line
    BY <1>4 DEF AskNoCopy, prompt
  <2>2. CopiesKept /\ running' \in {running, None}
    BY <1>0, <1>4, DropKeeps, SameCopies DEF AskNoCopy
  <2> QED
    BY <2>1, <2>2, OfBashKept
<1>5. CASE AskNow
  <2>1. UNCHANGED <<saved, menu, line>> /\ running' = Len(copies) + 1
    BY <1>5 DEF AskNow, screen, prompt
  <2>2. copies' = Append(Dropped, NewCopy(word)) /\ copies \in Seq(Copy)
    BY <1>0, <1>5 DEF AskNow, Start, TypeOK
  <2>3. /\ Dropped \in Seq(Copy) /\ Len(Dropped) = Len(copies)
        /\ \A c \in 1 .. Len(copies) :
             /\ Dropped[c].word = copies[c].word /\ Dropped[c].line = copies[c].line
             /\ Dropped[c].items = copies[c].items
    BY <1>0, DroppedKeeps
  <2>4. NewCopy(word) \in Copy
    BY <1>0, <1>a, <1>5 DEF AskNow, NewCopy, Copy, TypeOK
  <2>5. /\ Len(copies') = Len(copies) + 1 /\ DOMAIN copies' = 1 .. Len(copies) + 1
        /\ copies'[Len(copies) + 1] = NewCopy(word)
        /\ \A c \in 1 .. Len(copies) : copies'[c] = Dropped[c]
    BY <2>2, <2>3, <2>4, AppendProperties
  <2>6. CopiesGiveBashs'
    <3> SUFFICES ASSUME NEW c \in DOMAIN copies' PROVE (copies[c].items \subseteq Given(c))'
      BY DEF CopiesGiveBashs
    <3>1. CASE c = Len(copies) + 1
      BY <2>5, <3>1 DEF NewCopy
    <3>2. CASE c \in 1 .. Len(copies)
      <4>1. c \in DOMAIN copies
        BY <2>2, <3>2
      <4>2. copies[c].items \subseteq Given(c)
        BY <4>1 DEF OfBash, CopiesGiveBashs
      <4> QED
        BY <2>3, <2>5, <3>2, <4>2 DEF Given
    <3> QED
      BY <2>2, <2>5, <3>1, <3>2
  <2>7. RunningIsThisLines'
    BY <2>1, <2>5 DEF RunningIsThisLines, NewCopy
  <2> QED
    BY <2>1, <2>6, <2>7 DEF OfBash, SavedIsBashs, ShownIsBashs, Bash
<1>6. CASE AskCannotStart
  <2>1. CopiesKept /\ running' = None /\ UNCHANGED <<saved, menu, line>>
    BY <1>0, <1>6, DropKeeps DEF AskCannotStart, screen
  <2> QED
    BY <2>1, OfBashKept
<1>7. CASE FoundTakes
  BY <1>7, OfBashTaken DEF FoundTakes, screen, prompt
<1>8. CASE FoundExpires
  <2>1. CopiesKept /\ running' = None /\ UNCHANGED <<saved, menu, line>>
    BY <1>0, <1>8, TimeOutKeeps DEF FoundExpires, Unresolved, screen, prompt
  <2> QED
    BY <2>1, OfBashKept
<1>9. CASE FoundWaits \/ WaitReady
  <2>1. UNCHANGED <<copies, running, saved, menu, line>>
    BY <1>9 DEF FoundWaits, WaitReady, session, screen, prompt
  <2> QED
    BY <1>0, <2>1, SameCopies, OfBashKept
<1>10. CASE FoundDone
  <2>1. CopiesKept /\ running' = running /\ saved' = saved /\ line' = line
    BY <1>0, <1>10, SameCopies DEF FoundDone, session, prompt
  <2>2. ShownIsBashs'
    <3>1. word \in Words
      BY <1>a, <1>10 DEF FoundDone
    <3>2. CASE DrawMenu({}, FALSE, None)
      BY <1>0, <2>1, <3>1, <3>2, OfBashDrawn
    <3>3. CASE DrawMenu(FoundItems, atPause \/ RunningFits(word),
                        IF SavedFits /\ saved.cut THEN saved.word ELSE None)
      <4>1. (IF SavedFits /\ saved.cut THEN saved.word ELSE None) \in Words \cup {None}
        BY <1>0 DEF SavedFits, TypeOK, Saved
      <4>2. (atPause \/ RunningFits(word)) \in BOOLEAN
        BY <1>0 DEF TypeOK, RunningFits
      <4>3. FoundItems \in SUBSET FoundItems
        OBVIOUS
      <4> QED
        BY <2>1, <3>1, <3>3, <4>1, <4>2, <4>3, OfBashDrawn
    <3> QED
      BY <1>10, <3>2, <3>3 DEF FoundDone, Found
  <2> QED
    BY <2>1, <2>2, OfBashGoesOn
<1> QED
  BY <1>1, <1>2, <1>3, <1>4, <1>5, <1>6, <1>7, <1>8, <1>9, <1>10 DEF Draw

\* So does each of getc's waits.
LEMMA OfBashWaits == Typing /\ OfBash /\ Waits => OfBash'
<1> SUFFICES ASSUME Typing, OfBash, Waits PROVE OfBash'
  OBVIOUS
<1>0. TypeOK
  BY DEF Typing
<1>1. CASE KeyReads
  BY <1>1, OfBashTaken DEF KeyReads, prompt
<1>2. CASE KeyExpires
  <2>1. UNCHANGED <<menu, line>> /\ running # None
    BY <1>2 DEF KeyExpires, screen, prompt
  <2>2. CASE TakeRunning
    BY <2>1, <2>2, OfBashTaken
  <2>3. CASE TimeOut /\ saved' = saved
    BY <1>0, <2>1, <2>3, TimeOutKeeps, OfBashKept
  <2> QED
    BY <1>2, <2>2, <2>3 DEF KeyExpires
<1>3. CASE Pause
  <2>1. UNCHANGED <<copies, running, saved, menu, line>>
    BY <1>3 DEF Pause, session, prompt
  <2> QED
    BY <1>0, <2>1, SameCopies, OfBashKept
<1> QED
  BY <1>1, <1>2, <1>3 DEF Waits

\* A line that ends takes with it all that was kept.
LEMMA OfBashKeys == Typing /\ OfBash /\ Keys => OfBash'
<1> SUFFICES ASSUME Typing, OfBash, Keys PROVE OfBash'
  OBVIOUS
<1>0. TypeOK
  BY DEF Typing
<1>1. CASE \/ \E w \in Words, m \in BOOLEAN : Key(w, m)
           \/ KeyNoMenu \/ StartSearch \/ \E w \in Words : EndSearch(w)
  <2>1. UNCHANGED <<copies, running, saved, line>> /\ menu' \in {menu, None}
    BY <1>1 DEF Key, KeyNoMenu, StartSearch, EndSearch, session, prompt
  <2> QED
    BY <1>0, <2>1, SameCopies, OfBashKept
<1>2. ASSUME NEW done \in BOOLEAN, EndLine(done) PROVE OfBash'
  <2>1. line' = line /\ menu' = menu
    BY <1>2 DEF EndLine, prompt
  <2>2. CASE Forget
    BY <1>0, <2>1, <2>2, ForgetKeeps, OfBashKept
  <2>3. CASE UNCHANGED <<saved, running, givenUp, copies>>
    BY <1>0, <2>1, <2>3, SameCopies, OfBashKept
  <2> QED
    BY <1>2, <2>2, <2>3 DEF EndLine
<1>3. CASE NewLine
  <2>1. CopiesKept /\ running' = None /\ saved' = None /\ menu' = None
    BY <1>0, <1>3, ForgetKeeps DEF NewLine
  <2>2. CopiesGiveBashs'
    BY <2>1, CopiesStayBashs DEF OfBash
  <2> QED
    BY <2>1, <2>2 DEF OfBash, RunningIsThisLines, SavedIsBashs, ShownIsBashs
<1>4. CASE Reload \/ Disable
  <2>1. CopiesKept /\ running' = None /\ saved' = None /\ line' = line /\ menu' \in {menu, None}
    BY <1>0, <1>4, ForgetKeeps DEF Reload, Disable, prompt
  <2> QED
    BY <2>1, OfBashKept
<1>5. CASE ShellEnds
  <2>1. UNCHANGED <<copies, line>> /\ running' = None /\ saved' = None /\ menu' = None
    BY <1>5 DEF ShellEnds, prompt
  <2> QED
    BY <1>0, <2>1, SameCopies, OfBashKept
<1> QED
  BY <1>1, <1>2, <1>3, <1>4, <1>5 DEF Keys

\* What a copy answers it has from bash.
LEMMA OfBashCopies ==
    ASSUME Typing, OfBash, NEW c \in DOMAIN copies, CopyStep(c)
    PROVE  OfBash'
<1>1. PICK e \in Copy :
        /\ copies' = [copies EXCEPT ![c] = e] /\ OfCopy
        /\ e.word = copies[c].word /\ e.line = copies[c].line
        /\ e.items = copies[c].items \/ e.items \subseteq Given(c)
  BY CopyStepIs DEF Follows, SaysAsBefore, SaysAll
<1>2. copies \in Seq(Copy) /\ DOMAIN copies = 1 .. Len(copies)
  BY DEF Typing, TypeOK
<1>3. /\ DOMAIN copies' = DOMAIN copies
      /\ \A i \in 1 .. Len(copies) : copies'[i] = IF i = c THEN e ELSE copies[i]
  BY <1>1, <1>2, CopyReplaced
<1>4. UNCHANGED <<saved, running, menu, line>>
  BY <1>1 DEF OfCopy, session, screen, prompt
<1>5. CopiesGiveBashs'
  <2> SUFFICES ASSUME NEW i \in DOMAIN copies' PROVE (copies[i].items \subseteq Given(i))'
    BY DEF CopiesGiveBashs
  <2>1. copies[i].items \subseteq Given(i) /\ copies[c].items \subseteq Given(c)
    BY <1>3 DEF OfBash, CopiesGiveBashs
  <2> QED
    BY <1>1, <1>2, <1>3, <2>1 DEF Given
<1>6. RunningIsThisLines'
  <2>1. running # None => running \in 1 .. Len(copies)
    BY DEF Typing, TypeOK
  <2> QED
    BY <1>1, <1>3, <1>4, <2>1 DEF OfBash, RunningIsThisLines
<1> QED
  BY <1>4, <1>5, <1>6 DEF OfBash, SavedIsBashs, ShownIsBashs, Bash

\* So every step does.
LEMMA OfBashStep == Typing /\ OfBash /\ [Next]_vars => OfBash'
<1> SUFFICES ASSUME Typing, OfBash, [Next]_vars PROVE OfBash'
  OBVIOUS
<1>1. CASE UNCHANGED vars
  <2>1. TypeOK /\ UNCHANGED <<copies, running, saved, menu, line>>
    BY <1>1 DEF Typing, vars, session, screen, prompt
  <2> QED
    BY <2>1, SameCopies, OfBashKept
<1>2. CASE \E c \in DOMAIN copies : CopyStep(c)
  BY <1>2, OfBashCopies
<1> QED
  BY <1>1, <1>2, OfBashDraw, OfBashWaits, OfBashKeys DEF Next

\* Every row of bash's that is shown and goes on from the typed text is one
\* bash's own Tab lists for it on this line, whatever was typed while copies
\* worked and whichever answer it comes from (session.rs, bash_complete.rs).
THEOREM EveryRowIsBashs == Spec => []ShownIsBashs
<1>1. Init => OfBash
  BY DEF Init, OfBash, CopiesGiveBashs, RunningIsThisLines, SavedIsBashs, ShownIsBashs
<1>2. OfBash => ShownIsBashs
  BY DEF OfBash
<1> QED
  BY <1>1, <1>2, InitTyping, StepTyping, OfBashStep, PTL DEF Spec
-----------------------------------------------------------------------------
(* One copy works at a time. *)

\* A copy's pipe is closed once it has ended.
ClosedHasEnded == \A c \in DOMAIN copies : ~copies[c].open => copies[c].proc = "ended"

OneCopy == OneCopyWorks /\ ClosedHasEnded

\* What OneCopy says of the copies `cs', when the shell holds `held'.
OneHeld(cs, held) ==
    \A c \in DOMAIN cs :
        /\ cs[c].proc # "ended" /\ cs[c].wrote # "whole" => held = c
        /\ ~cs[c].open => cs[c].proc = "ended"

\* While the shell lives, OneCopy is OneHeld of its copies.
LEMMA OneCopyIs ==
    ASSUME pc # "gone" PROVE OneCopy <=> OneHeld(copies, running)
  BY DEF OneCopy, OneCopyWorks, ClosedHasEnded, OneHeld

\* Killing the copy held leaves none at work.
LEMMA OneHeldKilled ==
    ASSUME NEW why, TypeOK, OneHeld(copies, running), running # None
    PROVE  OneHeld(Killed(running, why), None)
<1>1. running \in 1 .. Len(copies) /\ copies \in Seq(Copy) /\ DOMAIN copies = 1 .. Len(copies)
  BY DEF TypeOK
<1>2. DOMAIN Killed(running, why) = DOMAIN copies
  BY DEF Killed
<1> SUFFICES ASSUME NEW c \in DOMAIN copies
             PROVE  LET k == Killed(running, why)[c] IN
                    /\ k.proc # "ended" /\ k.wrote # "whole" => None = c
                    /\ ~k.open => k.proc = "ended"
  BY <1>2 DEF OneHeld
<1>3. copies[c] \in Copy
  BY <1>1, ElementOfSeq
<1>4. CASE c = running
  <2>1. Killed(running, why)[c].proc = "ended"
    BY <1>1, <1>3, <1>4 DEF Killed, Copy
  <2> QED
    BY <2>1
<1>5. CASE c # running
  <2>1. Killed(running, why)[c] = copies[c]
    BY <1>1, <1>5 DEF Killed
  <2> QED
    BY <1>5, <2>1 DEF OneHeld
<1> QED
  BY <1>4, <1>5

\* Dropping it does, or there is none.
LEMMA OneHeldDropped ==
    ASSUME TypeOK, OneHeld(copies, running)
    PROVE  OneHeld(Dropped, None)
<1>1. CASE running = None
  BY <1>1 DEF Dropped
<1>2. CASE running # None
  BY <1>2, OneHeldKilled DEF Dropped
<1> QED
  BY <1>1, <1>2

\* A copy whose answer is taken works no more, but for its exit.
LEMMA OneHeldTaken ==
    ASSUME TypeOK, OneHeld(copies, running), TakeRunning
    PROVE  OneHeld(copies', running')
<1>1. running \in 1 .. Len(copies) /\ running \in DOMAIN copies /\ running # None
  BY DEF TakeRunning, TypeOK
<1>2. CASE copies[running].wrote = "huge"
  <2>1. Drop
    BY <1>2 DEF TakeRunning
  <2> QED
    BY <2>1, OneHeldDropped DEF Drop
<1>3. CASE copies[running].wrote # "huge"
  <2>1. DropOnly
    BY <1>3 DEF TakeRunning
  <2>2. copies[running].wrote = "whole" \/ copies[running].proc = "ended"
    <3>1. copies[running].wrote # "nothing" \/ ~copies[running].open
      BY DEF TakeRunning, Resolved
    <3>2. copies[running] \in Copy
      BY <1>1, ElementOfSeq DEF TypeOK
    <3>3. copies[running].wrote \in {"nothing", "whole", "huge"}
      BY <3>2 DEF Copy
    <3> QED
      BY <1>1, <1>3, <3>1, <3>3 DEF OneHeld
  <2> QED
    BY <1>1, <2>1, <2>2 DEF DropOnly, OneHeld
<1> QED
  BY <1>2, <1>3

\* What a step of the shell does to the copies.
LEMMA ShellStepIs ==
    ASSUME Draw \/ Waits \/ Keys
    PROVE  \/ Drop \/ TakeRunning \/ AskNow \/ ShellEnds
           \/ UNCHANGED <<running, copies>>
           \/ running # None /\ TimeOut
<1>1. CASE Draw
  BY <1>1 DEF Draw, DrawOff, Forget, DrawReads, AskNothing, AskNoCopy, AskCannotStart,
              FoundTakes, FoundExpires, Unresolved, FoundWaits, WaitReady, FoundDone, session
<1>2. CASE Waits
  BY <1>2 DEF Waits, KeyReads, KeyExpires, Pause, session
<1>3. CASE Keys
  BY <1>3 DEF Keys, Key, KeyNoMenu, StartSearch, EndSearch, EndLine, NewLine, Reload, Disable,
              Forget, session
<1> QED
  BY <1>1, <1>2, <1>3

\* The shell ends by ShellEnds only.
LEMMA OnlyShellEndsGone ==
    ASSUME Draw \/ Waits \/ Keys, pc' = "gone" PROVE ShellEnds
<1> USE DEF At
<1>1. CASE Draw
  BY <1>1 DEF Draw, DrawOff, DrawMenu, DrawReads, AskNothing, AskNoCopy, AskNow, AskCannotStart,
              FoundTakes, FoundExpires, FoundWaits, WaitReady, FoundDone, Found
<1>2. CASE Waits
  BY <1>2 DEF Waits, KeyReads, KeyExpires, Pause, Redraw
<1>3. CASE Keys
  BY <1>3 DEF Keys, Key, KeyNoMenu, StartSearch, EndSearch, EndLine, NewLine, Reload, Disable,
              Redraw
<1> QED
  BY <1>1, <1>2, <1>3

\* A shell that has ended takes no step.
LEMMA ShellIsThere ==
    ASSUME Draw \/ Waits \/ Keys PROVE pc # "gone"
<1> USE DEF At
<1>1. CASE Draw
  BY <1>1 DEF Draw, DrawOff, DrawReads, AskNothing, AskNoCopy, AskNow, AskCannotStart,
              FoundTakes, FoundExpires, FoundWaits, WaitReady, FoundDone
<1>2. CASE Waits
  BY <1>2 DEF Waits, KeyReads, KeyExpires, Pause
<1>3. CASE Keys
  BY <1>3 DEF Keys, Key, KeyNoMenu, StartSearch, EndSearch, EndLine, NewLine, Reload, Disable,
              ShellEnds
<1> QED
  BY <1>1, <1>2, <1>3

\* What the shell does leaves one copy at work, or none.
LEMMA OneCopyShell ==
    ASSUME Typing, OneCopy, pc # "gone", Draw \/ Waits \/ Keys
    PROVE  OneCopy'
<1>0. TypeOK /\ OneHeld(copies, running)
  BY OneCopyIs DEF Typing
<1>1. SUFFICES pc' = "gone" \/ OneHeld(copies', running')
  <2>1. CASE OneHeld(copies', running')
    BY <2>1 DEF OneCopy, OneCopyWorks, ClosedHasEnded, OneHeld
  <2>2. CASE pc' = "gone"
    <3>1. copies' = copies
      BY <2>2, OnlyShellEndsGone DEF ShellEnds
    <3> QED
      BY <2>2, <3>1 DEF OneCopy, OneCopyWorks, ClosedHasEnded
  <2> QED
    BY <1>1, <2>1, <2>2
<1>2. CASE Drop
  BY <1>0, <1>2, OneHeldDropped DEF Drop
<1>3. CASE TakeRunning
  BY <1>0, <1>3, OneHeldTaken
<1>4. CASE UNCHANGED <<running, copies>>
  BY <1>0, <1>4 DEF OneHeld
<1>5. CASE running # None /\ TimeOut
  BY <1>0, <1>5, OneHeldKilled DEF TimeOut
<1>6. CASE AskNow
  <2>1. copies' = Append(Dropped, NewCopy(word)) /\ running' = Len(copies) + 1
    BY <1>6 DEF AskNow, Start
  <2>2. Dropped \in Seq(Copy) /\ Len(Dropped) = Len(copies) /\ OneHeld(Dropped, None)
    BY <1>0, DroppedKeeps, OneHeldDropped
  <2>3. NewCopy(word) \in Copy /\ NewCopy(word).open /\ Len(copies) \in Nat
    <3>1. word \in Words /\ line \in 0 .. MaxLine /\ copies \in Seq(Copy)
      BY <1>6 DEF AskNow, At, Typing, TypeOK, Drawing
    <3> QED
      BY <3>1 DEF NewCopy, Copy
  <2>4. /\ DOMAIN copies' = 1 .. Len(copies) + 1
        /\ copies'[Len(copies) + 1] = NewCopy(word)
        /\ \A c \in 1 .. Len(copies) : copies'[c] = Dropped[c]
    BY <2>1, <2>2, <2>3, AppendProperties
  <2> SUFFICES ASSUME NEW c \in DOMAIN copies'
               PROVE  /\ copies'[c].proc # "ended" /\ copies'[c].wrote # "whole" => running' = c
                      /\ ~copies'[c].open => copies'[c].proc = "ended"
    BY DEF OneHeld
  <2>5. CASE c = Len(copies) + 1
    BY <2>1, <2>3, <2>4, <2>5
  <2>6. CASE c \in 1 .. Len(copies)
    <3>1. c \in DOMAIN Dropped /\ c # None
      BY <2>2, <2>6, BashConstantsOK
    <3> QED
      BY <2>2, <2>4, <2>6, <3>1 DEF OneHeld
  <2> QED
    BY <2>3, <2>4, <2>5, <2>6
<1>7. CASE ShellEnds
  BY <1>7 DEF ShellEnds
<1> QED
  BY <1>2, <1>3, <1>4, <1>5, <1>6, <1>7, ShellStepIs

\* A copy works only before it has answered, and never again once ended.
LEMMA OneCopyCopies ==
    ASSUME Typing, OneCopy, NEW c \in DOMAIN copies, CopyStep(c)
    PROVE  OneCopy'
<1>1. PICK e \in Copy :
        copies' = [copies EXCEPT ![c] = e] /\ OfCopy /\ Follows(copies[c], e)
  BY CopyStepIs
<1>2. copies \in Seq(Copy) /\ DOMAIN copies = 1 .. Len(copies)
  BY DEF Typing, TypeOK
<1>3. /\ DOMAIN copies' = DOMAIN copies
      /\ \A i \in DOMAIN copies : copies'[i] = IF i = c THEN e ELSE copies[i]
  BY <1>1, <1>2, CopyReplaced
<1>4. running' = running /\ pc' = pc
  BY <1>1 DEF OfCopy, session
<1>5. OneCopyWorks'
  BY <1>1, <1>3, <1>4 DEF OneCopy, OneCopyWorks, Follows
<1>6. ClosedHasEnded'
  BY <1>1, <1>3 DEF OneCopy, ClosedHasEnded, Follows
<1> QED
  BY <1>5, <1>6 DEF OneCopy

\* Every step leaves one copy at work, or none.
LEMMA OneCopyStep == Typing /\ OneCopy /\ [Next]_vars => OneCopy'
<1> SUFFICES ASSUME Typing, OneCopy, [Next]_vars PROVE OneCopy'
  OBVIOUS
<1>1. CASE UNCHANGED vars
  BY <1>1 DEF OneCopy, OneCopyWorks, ClosedHasEnded, vars, session
<1>2. CASE Draw \/ Waits \/ Keys
  <2>1. pc # "gone"
    BY <1>2, ShellIsThere
  <2> QED
    BY <1>2, <2>1, OneCopyShell
<1>3. CASE \E c \in DOMAIN copies : CopyStep(c)
  BY <1>3, OneCopyCopies
<1> QED
  BY <1>1, <1>2, <1>3 DEF Next

\* At most one copy of a living shell is at work, the one the shell holds,
\* besides those that only have their exit left (prepare, Drop for Running).
THEOREM OneCopyAtATime == Spec => []OneCopyWorks
<1>1. Init => OneCopy
  BY DEF Init, OneCopy, OneCopyWorks, ClosedHasEnded
<1>2. OneCopy => OneCopyWorks
  BY DEF OneCopy
<1> QED
  BY <1>1, <1>2, InitTyping, StepTyping, OneCopyStep, PTL DEF Spec
\* What counts a copy as timed out.
LEMMA TimedOutGrows ==
    ASSUME [Next]_vars
    PROVE  \/ timedOut' = timedOut \/ timedOut' = 0
           \/ ~Resolved(running) /\ running # None
<1>1. CASE Draw
  BY <1>1 DEF Draw, DrawOff, DrawReads, AskNothing, AskNoCopy, AskNow, AskCannotStart,
              FoundTakes, FoundExpires, Unresolved, FoundWaits, WaitReady, FoundDone, session
<1>2. CASE Waits
  BY <1>2 DEF Waits, KeyReads, KeyExpires, Pause, session
<1>3. CASE Keys
  BY <1>3 DEF Keys, Key, KeyNoMenu, StartSearch, EndSearch, EndLine, NewLine, Reload, Disable,
              ShellEnds, session
<1>4. CASE \E c \in DOMAIN copies : CopyStep(c)
  BY <1>4 DEF CopyStep, CopyBecomes, CopyAnswers, CopyWritesTooMuch, CopyExits, WatcherKills,
              TimeUp, OfCopy, session
<1>5. CASE UNCHANGED vars
  BY <1>5 DEF vars, session
<1> QED
  BY <1>1, <1>2, <1>3, <1>4, <1>5 DEF Next

\* A copy whose whole answer has come is never counted as timed out, however
\* late the shell looks (expire reads before it gives up).
THEOREM AnswersInTimeCount == Spec => AnsweredIsNotTimedOut
<1>1. ASSUME Typing, [Next]_vars
      PROVE  [timedOut' > timedOut => copies[running].wrote # "whole"]_vars
  <2>1. timedOut \in Nat
    BY <1>1 DEF Typing, TypeOK
  <2>2. timedOut' > timedOut => ~Resolved(running)
    BY <1>1, <2>1, TimedOutGrows
  <2> QED
    BY <2>2 DEF Resolved
<1> QED
  BY <1>1, InitTyping, StepTyping, PTL DEF Spec, AnsweredIsNotTimedOut
-----------------------------------------------------------------------------
(* What the menu says of bash is true.  It is drawn once the copy asked for   *)
(* its word has answered or been given up on, or while one is to come; and    *)
(* what it says stays true, for a copy asked for another word of the place    *)
(* that fails makes the menu's word one that is given up on.                  *)

\* A copy says that its answer is cut when it is.
CopiesGiveAll ==
    \A c \in DOMAIN copies :
        copies[c].wrote = "whole" /\ ~copies[c].cut => copies[c].items = Given(c)
SavedIsAll == saved # None /\ ~saved.cut => saved.items = Bash(saved.word)

\* While getc waits, the menu is of the word at the cursor, ...
MenuForWord == pc = "key" /\ menu # None => menu.word = word
\* ... and the copy held, until a draw has decided, of the menu's place.
RunningForMenu ==
    pc \in {"key", "draw", "decide"} /\ menu # None /\ running # None
        => SamePlace(copies[running].word, menu.word)

\* What a draw that has decided draws from.
FoundHas ==
    pc \in {"found", "wait"} =>
        /\ running # None => RunningFits(word)
        /\ pc = "wait" => running # None
        /\ atPause => wantsPause
        /\ SavedFits \/ RunningFits(word) \/ GivenUpOn(word) \/ atPause

\* The menu has all of bash's rows, or need not.
MenuTrue ==
    \/ menu.waiting \/ menu.cutFor # None \/ GivenUpOn(menu.word)
    \/ menu.word.place \in AtCommand /\ Len(menu.word.typed) < MinChars
    \/ GoOnFrom(menu.word.typed, menu.items) = Bash(menu.word)
\* A menu that is shown, or that the draw may keep.
MenuCounts ==
    /\ menu # None /\ on /\ ~reloaded
    /\ \/ pc \in {"key", "draw", "decide"}
       \/ pc \in {"found", "wait"} /\ menu.word = word
MenuIsTrue == MenuCounts => MenuTrue

AllOfBash == CopiesGiveAll /\ SavedIsAll
OfMenu == MenuForWord /\ RunningForMenu /\ FoundHas /\ MenuIsTrue /\ ShownWaitingHasMoreComing

\* Copies that are only ended say what they said.
LEMMA CopiesStayAll ==
    ASSUME Typing, CopiesGiveAll, CopiesKept PROVE CopiesGiveAll'
<1> SUFFICES ASSUME NEW c \in DOMAIN copies'
             PROVE  (copies[c].wrote = "whole" /\ ~copies[c].cut => copies[c].items = Given(c))'
  BY DEF CopiesGiveAll
<1>1. c \in 1 .. Len(copies) /\ c \in DOMAIN copies
  BY DEF CopiesKept, Typing, TypeOK
<1> QED
  BY <1>1 DEF CopiesKept, CopiesGiveAll, Given

\* An answer that is taken is saved as it is, or its word given up on.
LEMMA TakenIs ==
    ASSUME TypeOK, TakeRunning
    PROVE  /\ running # None /\ running \in DOMAIN copies /\ copies[running].word \in Words
           /\ running' = None
           /\ \/ saved' = saved /\ givenUp' = copies[running].word
              \/ /\ givenUp' = givenUp /\ saved' # None /\ copies[running].wrote = "whole"
                 /\ saved' = [word |-> copies[running].word, items |-> copies[running].items,
                              cut |-> copies[running].cut]
<1>1. running \in 1 .. Len(copies) /\ copies[running] \in Copy /\ running # None
      /\ running \in DOMAIN copies
  BY ElementOfSeq DEF TypeOK, TakeRunning
<1>2. copies[running].word \in Words /\ copies[running].items \subseteq Texts
      /\ copies[running].cut \in BOOLEAN
  BY <1>1 DEF Copy
<1>3. running' = None
  BY TakeKeeps
<1>4. CASE copies[running].wrote = "whole"
  <2>1. /\ saved' = [word |-> copies[running].word, items |-> copies[running].items,
                     cut |-> copies[running].cut]
        /\ givenUp' = givenUp
    BY <1>4 DEF TakeRunning
  <2>2. saved' # None
    BY <1>2, <2>1, BashConstantsOK
  <2> QED
    BY <1>1, <1>2, <1>3, <1>4, <2>1, <2>2
<1>5. CASE copies[running].wrote # "whole"
  <2>1. saved' = saved /\ givenUp' = copies[running].word
    BY <1>5 DEF TakeRunning
  <2> QED
    BY <1>1, <1>2, <1>3, <2>1
<1> QED
  BY <1>4, <1>5

\* What a step of the shell does to the saved answer.
LEMMA SavedStep ==
    ASSUME Draw \/ Waits \/ Keys
    PROVE  saved' = None \/ (line' = line /\ (saved' = saved \/ TakeRunning))
<1>1. CASE Draw
  BY <1>1 DEF Draw, DrawOff, DrawReads, AskNothing, AskNoCopy, AskNow, AskCannotStart,
              FoundTakes, FoundExpires, FoundWaits, WaitReady, FoundDone, Forget, session, prompt
<1>2. CASE Waits
  BY <1>2 DEF Waits, KeyReads, KeyExpires, Pause, session, prompt
<1>3. CASE Keys
  BY <1>3 DEF Keys, Key, KeyNoMenu, StartSearch, EndSearch, EndLine, NewLine, Reload, Disable,
              ShellEnds, Forget, session, prompt
<1> QED
  BY <1>1, <1>2, <1>3

\* What a copy answers is all bash gave, or it says that it is not.
LEMMA AllOfBashCopies ==
    ASSUME Typing, AllOfBash, NEW c \in DOMAIN copies, CopyStep(c)
    PROVE  AllOfBash'
<1>1. PICK e \in Copy :
        /\ copies' = [copies EXCEPT ![c] = e] /\ OfCopy
        /\ e.word = copies[c].word /\ e.line = copies[c].line
        /\ SaysAsBefore(copies[c], e) \/ SaysAll(c, e)
  BY CopyStepIs DEF Follows
<1>2. copies \in Seq(Copy) /\ DOMAIN copies = 1 .. Len(copies)
  BY DEF Typing, TypeOK
<1>3. /\ DOMAIN copies' = DOMAIN copies
      /\ \A i \in 1 .. Len(copies) : copies'[i] = IF i = c THEN e ELSE copies[i]
  BY <1>1, <1>2, CopyReplaced
<1>4. UNCHANGED <<saved, line>>
  BY <1>1 DEF OfCopy, session, prompt
<1>5. CopiesGiveAll'
  <2> SUFFICES ASSUME NEW i \in DOMAIN copies'
               PROVE  (copies[i].wrote = "whole" /\ ~copies[i].cut => copies[i].items = Given(i))'
    BY DEF CopiesGiveAll
  <2>1. copies[i].wrote = "whole" /\ ~copies[i].cut => copies[i].items = Given(i)
    BY <1>3 DEF AllOfBash, CopiesGiveAll
  <2>2. Given(i)' = Given(i)
    BY <1>1, <1>2, <1>3 DEF Given
  <2>3. CASE i = c
    <3>1. copies'[i] = e
      BY <1>2, <1>3, <2>3
    <3> QED
      BY <1>1, <2>1, <2>2, <2>3, <3>1 DEF SaysAsBefore, SaysAll
  <2>4. CASE i # c
    <3>1. copies'[i] = copies[i]
      BY <1>2, <1>3, <2>4
    <3> QED
      BY <2>1, <2>2, <3>1
  <2> QED
    BY <2>3, <2>4
<1> QED
  BY <1>4, <1>5 DEF AllOfBash, SavedIsAll, Bash

\* And is saved as such.
LEMMA AllOfBashShell ==
    ASSUME Typing, OfBash, AllOfBash, Draw \/ Waits \/ Keys
    PROVE  AllOfBash'
<1>0. TypeOK
  BY DEF Typing
<1>1. CopiesGiveAll'
  <2>1. CASE Drop \/ TakeRunning \/ UNCHANGED <<running, copies>> \/ (running # None /\ TimeOut)
    <3>1. CopiesKept
      BY <1>0, <2>1, DropKeeps, TakeKeeps, SameCopies, TimeOutKeeps
    <3> QED
      BY <3>1, CopiesStayAll DEF AllOfBash
  <2>2. CASE ShellEnds
    <3>1. CopiesKept
      BY <1>0, <2>2, SameCopies DEF ShellEnds
    <3> QED
      BY <3>1, CopiesStayAll DEF AllOfBash
  <2>3. CASE AskNow
    <3>1. copies' = Append(Dropped, NewCopy(word)) /\ copies \in Seq(Copy)
      BY <1>0, <2>3 DEF AskNow, Start, TypeOK
    <3>2. /\ Dropped \in Seq(Copy) /\ Len(Dropped) = Len(copies)
          /\ \A c \in 1 .. Len(copies) :
               /\ Dropped[c].word = copies[c].word /\ Dropped[c].line = copies[c].line
               /\ Dropped[c].items = copies[c].items
               /\ Dropped[c].wrote = copies[c].wrote /\ Dropped[c].cut = copies[c].cut
      BY <1>0, DroppedKeeps
    <3>3. NewCopy(word) \in Copy
      BY <1>0, <2>3 DEF AskNow, NewCopy, Copy, TypeOK, Typing, Drawing, At
    <3>4. /\ DOMAIN copies' = 1 .. Len(copies) + 1
          /\ copies'[Len(copies) + 1] = NewCopy(word)
          /\ \A c \in 1 .. Len(copies) : copies'[c] = Dropped[c]
      BY <3>1, <3>2, <3>3, AppendProperties
    <3> SUFFICES ASSUME NEW c \in DOMAIN copies'
                 PROVE  (copies[c].wrote = "whole" /\ ~copies[c].cut
                            => copies[c].items = Given(c))'
      BY DEF CopiesGiveAll
    <3>5. CASE c = Len(copies) + 1
      BY <3>4, <3>5 DEF NewCopy
    <3>6. CASE c \in 1 .. Len(copies)
      <4>1. c \in DOMAIN copies
        BY <3>1, <3>6
      <4> QED
        BY <3>2, <3>4, <3>6, <4>1 DEF AllOfBash, CopiesGiveAll, Given
    <3> QED
      BY <3>1, <3>4, <3>5, <3>6
  <2> QED
    BY <2>1, <2>2, <2>3, ShellStepIs
<1>2. SavedIsAll'
  <2>1. CASE saved' = None
    BY <2>1 DEF SavedIsAll
  <2>2. CASE line' = line /\ saved' = saved
    BY <2>2 DEF AllOfBash, SavedIsAll, Bash
  <2>3. CASE line' = line /\ TakeRunning /\ saved' # saved
    <3>1. /\ running # None /\ running \in DOMAIN copies
          /\ copies[running].wrote = "whole"
          /\ saved' = [word |-> copies[running].word, items |-> copies[running].items,
                       cut |-> copies[running].cut]
      BY <1>0, <2>3, TakenIs
    <3>2. copies[running].line = line
      BY <3>1 DEF OfBash, RunningIsThisLines
    <3> QED
      BY <2>3, <3>1, <3>2 DEF AllOfBash, CopiesGiveAll, SavedIsAll, Given, Bash
  <2> QED
    BY <2>1, <2>2, <2>3, SavedStep
<1> QED
  BY <1>1, <1>2 DEF AllOfBash
\* A word fits itself.
LEMMA FitsSelf == ASSUME NEW w \in Words PROVE Fits(w, w)
<1>1. w.typed \in Seq(STRING)
  BY BashConstantsOK
<1>2. w.typed = <<>> => ~IsFlag(w.typed)
  BY DEF IsFlag
<1> QED
  BY <1>1, <1>2 DEF Fits, SamePlace, IsPrefixOf, SameDirectory

\* What goes on from the typed text has it in it, so the menu's own filter,
\* which looks for the text anywhere, keeps it (menu.rs, matches).
LEMMA GoingOnMatches ==
    ASSUME NEW t \in Seq(STRING), NEW c \in Seq(STRING), IsPrefixOf(t, c)
    PROVE  Matches(t, c)
<1>1. /\ Len(t) \in Nat /\ Len(c) \in Nat /\ 0 \in 0 .. Len(c)
      /\ 0 + Len(t) <= Len(c) /\ \A i \in 1 .. Len(t) : c[0 + i] = t[i]
  BY DEF IsPrefixOf
<1> QED
  BY <1>1 DEF Matches

\* A saved answer that is all of bash's gives all of bash's rows for the text
\* it fits.
LEMMA FitsGivesAll ==
    ASSUME Typing, AllOfBash, word \in Words, SavedFits, ~saved.cut
    PROVE  GoOnFrom(word.typed, {c \in FoundItems : Matches(word.typed, c)}) = Bash(word)
<1> DEFINE offered == Offered[line][word.place]
           asked == saved.word.typed
<1>1. saved # None /\ saved.word \in Words /\ saved.items = Tab(offered, asked)
      /\ FoundItems = saved.items
  BY DEF SavedFits, Fits, SamePlace, AllOfBash, SavedIsAll, Bash, Typing, TypeOK, Saved, FoundItems
<1>2. /\ offered \in SUBSET Seq(STRING)
      /\ asked \in Seq(STRING) /\ word.typed \in Seq(STRING)
      /\ IsPrefixOf(asked, word.typed) /\ SameDirectory(asked, word.typed)
      /\ ~(asked = <<>> /\ IsFlag(word.typed))
  BY <1>1, OfferedTexts DEF SavedFits, Fits
<1> HIDE DEF asked, offered
<1>3. GoOnFrom(word.typed, Tab(offered, asked)) = Tab(offered, word.typed)
  <2>1. GoOnFrom(word.typed, Tab(offered, asked)) \subseteq Tab(offered, word.typed)
    BY <1>2, NoRowAdded
  <2>2. Tab(offered, word.typed) \subseteq GoOnFrom(word.typed, Tab(offered, asked))
    BY <1>2, NoRowLost
  <2> QED
    BY <2>1, <2>2
<1>4. GoOnFrom(word.typed, {c \in FoundItems : Matches(word.typed, c)})
          = GoOnFrom(word.typed, FoundItems)
  <2>1. \A c \in FoundItems : c \in Seq(STRING)
    BY <1>1, <1>2 DEF Tab
  <2> QED
    BY <1>2, <2>1, GoingOnMatches DEF GoOnFrom
<1> QED
  BY <1>1, <1>3, <1>4 DEF Bash, offered

\* A menu that is drawn is of the word, and waits only if it may.
LEMMA DrawnMenu ==
    ASSUME TypeOK, word \in Words, NEW items, NEW waiting \in BOOLEAN, NEW cutFor,
           DrawMenu(items, waiting, cutFor)
    PROVE  /\ pc' = "key" /\ menu'.word = word /\ (menu'.waiting => waiting)
           /\ \/ menu' = menu /\ menu # None /\ menu.word = word
              \/ /\ menu'.word = word /\ menu'.cutFor = cutFor
                 /\ menu'.items = {c \in items : Matches(word.typed, c)}
  BY DEF DrawMenu

\* A word's place given up on stays so while the place is the menu's.
LEMMA GivenUpStays ==
    ASSUME TypeOK, menu # None, menu' = menu,
           \/ givenUp' = givenUp
           \/ /\ running # None /\ SamePlace(copies[running].word, menu.word)
              /\ givenUp' = copies[running].word
    PROVE  GivenUpOn(menu.word) => GivenUpOn(menu.word)'
<1>1. running # None => copies[running].word \in Words
  <2> SUFFICES ASSUME running # None PROVE copies[running].word \in Words
    OBVIOUS
  <2>1. copies[running] \in Copy
    BY ElementOfSeq DEF TypeOK
  <2> QED
    BY <2>1 DEF Copy
<1> QED
  BY <1>1, BashConstantsOK DEF GivenUpOn, SamePlace

\* A menu true of bash stays so while the line goes on.
LEMMA MenuStaysTrue ==
    ASSUME MenuTrue, UNCHANGED <<menu, line>>, GivenUpOn(menu.word) => GivenUpOn(menu.word)'
    PROVE  MenuTrue'
  BY DEF MenuTrue, Bash

\* A draw that decides keeps the menu true of bash.
LEMMA OfMenuAsks ==
    ASSUME Typing, OfMenu, DrawReads \/ AskNothing \/ AskNoCopy \/ AskNow \/ AskCannotStart
    PROVE  OfMenu'
<1> USE DEF At
<1>0. TypeOK /\ word \in Words
  BY DEF Typing, TypeOK, Drawing, DrawReads, AskNothing, AskNoCopy, AskNow, AskCannotStart
<1>1. /\ pc \in {"draw", "decide"} /\ UNCHANGED <<on, reloaded, line, word, plain>>
      /\ menu # None /\ running # None => SamePlace(copies[running].word, menu.word)
      /\ MenuCounts => MenuTrue
      /\ menu # None /\ on /\ ~reloaded => MenuCounts
  BY DEF OfMenu, RunningForMenu, MenuIsTrue, MenuCounts, DrawReads, AskNothing, AskNoCopy, AskNow,
         AskCannotStart, screen, prompt
<1>2. CASE DrawReads
  <2>1. pc' = "decide" /\ menu' = menu /\ (running' = None \/ UNCHANGED <<running, copies>>)
    BY <1>0, <1>2, TakenIs DEF DrawReads, screen
  <2>2. \/ givenUp' = givenUp
        \/ running # None /\ givenUp' = copies[running].word
    BY <1>0, <1>2, TakenIs DEF DrawReads
  <2>3. MenuIsTrue'
    <3> SUFFICES ASSUME MenuCounts' PROVE MenuTrue'
      BY DEF MenuIsTrue
    <3>1. menu # None /\ MenuTrue
      BY <1>1, <2>1 DEF MenuCounts
    <3> QED
      BY <1>0, <1>1, <2>1, <2>2, <3>1, GivenUpStays, MenuStaysTrue
  <2> QED
    BY <1>1, <2>1, <2>3
    DEF OfMenu, MenuForWord, RunningForMenu, FoundHas, ShownWaitingHasMoreComing
<1>3. CASE AskNothing
  <2>1. Drop /\ DrawMenu({}, FALSE, None) /\ (TooShort \/ GivenUpOn(word)) /\ givenUp' = givenUp
    BY <1>3 DEF AskNothing, Ask, Decide
  <2>2. running' = None /\ pc' = "key" /\ menu'.word = word /\ ~menu'.waiting
    BY <1>0, <2>1, DrawnMenu DEF Drop
  <2>3. MenuIsTrue'
    <3> SUFFICES ASSUME menu' # None PROVE MenuTrue'
      BY DEF MenuIsTrue, MenuCounts
    <3> QED
      BY <1>1, <2>1, <2>2 DEF MenuTrue, TooShort, GivenUpOn
  <2> QED
    BY <1>1, <2>2, <2>3
    DEF OfMenu, MenuForWord, RunningForMenu, FoundHas, ShownWaitingHasMoreComing
<1>4. ASSUME pc' = "found", menu' = menu,
             menu # None /\ menu.word = word => (GivenUpOn(menu.word) => GivenUpOn(menu.word)'),
             running' # None => RunningFits(word)', atPause' => wantsPause',
             SavedFits' \/ RunningFits(word)' \/ GivenUpOn(word)' \/ atPause'
      PROVE  OfMenu'
  <2>1. MenuIsTrue'
    <3> SUFFICES ASSUME MenuCounts' PROVE MenuTrue'
      BY DEF MenuIsTrue
    <3>1. menu # None /\ MenuTrue /\ menu.word = word
      BY <1>1, <1>4 DEF MenuCounts
    <3> QED
      BY <1>1, <1>4, <3>1, MenuStaysTrue
  <2> QED
    BY <1>4, <2>1
    DEF OfMenu, MenuForWord, RunningForMenu, FoundHas, ShownWaitingHasMoreComing
<1>5. CASE AskNoCopy
  <2>1. /\ pc' = "found" /\ menu' = menu /\ UNCHANGED <<givenUp, saved>>
        /\ atPause' = (Ask = "AtPause") /\ (atPause' => wantsPause')
        /\ \/ Ask = "InFlight" /\ UNCHANGED <<running, copies>>
           \/ Ask # "InFlight" /\ running' = None
    BY <1>5 DEF AskNoCopy, Drop
  <2>2. Ask = "InFlight" => RunningFits(word)
    BY DEF Ask, Decide
  <2>3. Ask = "Saved" => SavedFits
    BY DEF Ask, Decide, SavedServes
  <2>4. Ask \in {"Saved", "InFlight", "AtPause"}
    BY <1>5 DEF AskNoCopy
  <2>5. running' # None => RunningFits(word)'
    BY <1>1, <2>1, <2>2 DEF RunningFits
  <2>6. SavedFits' \/ RunningFits(word)' \/ GivenUpOn(word)' \/ atPause'
    BY <1>1, <2>1, <2>2, <2>3, <2>4 DEF RunningFits, SavedFits
  <2> QED
    BY <1>4, <2>1, <2>5, <2>6 DEF GivenUpOn
<1>6. CASE AskNow
  <2>1. /\ copies' = Append(Dropped, NewCopy(word)) /\ copies \in Seq(Copy)
        /\ running' = Len(copies) + 1
    BY <1>0, <1>6 DEF AskNow, Start, TypeOK
  <2>2. Dropped \in Seq(Copy) /\ Len(Dropped) = Len(copies)
    BY <1>0, DroppedKeeps
  <2>3. NewCopy(word) \in Copy
    BY <1>0 DEF NewCopy, Copy, TypeOK
  <2>4. copies'[Len(copies) + 1] = NewCopy(word) /\ Len(copies) + 1 \in Nat
    BY <2>1, <2>2, <2>3, AppendProperties
  <2>5. running' # None /\ copies'[running'].word = word
    <3>1. NewCopy(word).word = word
      BY DEF NewCopy
    <3> QED
      BY <2>1, <2>4, <3>1, BashConstantsOK
  <2>6. RunningFits(word)'
    BY <1>0, <1>1, <2>5, FitsSelf DEF RunningFits
  <2>7. pc' = "found" /\ menu' = menu /\ givenUp' = givenUp /\ atPause' = FALSE
    BY <1>6 DEF AskNow, screen
  <2> QED
    BY <1>4, <2>6, <2>7 DEF GivenUpOn
<1>7. CASE AskCannotStart
  <2>1. pc' = "found" /\ menu' = menu /\ givenUp' = word /\ atPause' = FALSE /\ running' = None
    BY <1>7 DEF AskCannotStart, screen, Drop
  <2>2. GivenUpOn(word)'
    BY <1>0, <1>1, <2>1, BashConstantsOK DEF GivenUpOn, SamePlace
  <2>3. menu # None /\ menu.word = word => (GivenUpOn(menu.word) => GivenUpOn(menu.word)')
    BY <1>1, <2>1, <2>2 DEF GivenUpOn
  <2> QED
    BY <1>4, <2>1, <2>2, <2>3
<1> QED
  BY <1>2, <1>3, <1>5, <1>6, <1>7

\* So does one that looks at the copy, or has its menu.
LEMMA OfMenuFound ==
    ASSUME Typing, AllOfBash, OfMenu,
           FoundTakes \/ FoundExpires \/ FoundWaits \/ WaitReady \/ FoundDone
    PROVE  OfMenu'
<1> USE DEF At
<1>0. TypeOK /\ word \in Words /\ pc \in {"found", "wait"}
  BY DEF Typing, TypeOK, Drawing, FoundTakes, FoundExpires, FoundWaits, WaitReady, FoundDone
<1>1. /\ UNCHANGED <<on, reloaded, line, word, plain>>
      /\ running # None => RunningFits(word)
      /\ pc = "wait" => running # None
      /\ atPause => wantsPause
      /\ SavedFits \/ RunningFits(word) \/ GivenUpOn(word) \/ atPause
      /\ MenuCounts => MenuTrue
  BY <1>0
  DEF OfMenu, FoundHas, MenuIsTrue, FoundTakes, FoundExpires, FoundWaits, WaitReady, FoundDone,
      screen, prompt
<1>2. CASE FoundTakes \/ FoundExpires
  <2>1. /\ pc' = "found" /\ UNCHANGED <<menu, atPause, wantsPause>> /\ running' = None
        /\ running # None
    BY <1>0, <1>2, TakenIs DEF FoundTakes, FoundExpires, Unresolved, TimeOut, screen
  <2>2. SamePlace(copies[running].word, word) /\ Fits(copies[running].word, word)
    BY <1>1, <2>1 DEF RunningFits, Fits
  <2>3. \/ givenUp' = copies[running].word /\ saved' = saved /\ givenUp' # None
        \/ givenUp' = givenUp /\ saved' # None /\ saved'.word = copies[running].word
    <3>1. copies[running].word # None
      <4>1. copies[running] \in Copy
        BY <1>0, <2>1, ElementOfSeq DEF TypeOK
      <4> QED
        BY <4>1, BashConstantsOK DEF Copy
    <3>2. CASE FoundTakes
      BY <1>0, <3>1, <3>2, TakenIs DEF FoundTakes
    <3>3. CASE FoundExpires
      BY <3>1, <3>3 DEF FoundExpires, TimeOut
    <3> QED
      BY <1>2, <3>2, <3>3
  <2>4. (SavedFits \/ GivenUpOn(word))'
    BY <1>1, <2>2, <2>3 DEF SavedFits, GivenUpOn
  <2>5. MenuIsTrue'
    <3> SUFFICES ASSUME MenuCounts' PROVE MenuTrue'
      BY DEF MenuIsTrue
    <3>1. menu # None /\ menu.word = word /\ MenuTrue
      BY <1>0, <1>1, <2>1 DEF MenuCounts
    <3> QED
      BY <1>0, <1>1, <2>1, <2>2, <2>3, <3>1, GivenUpStays, MenuStaysTrue
  <2> QED
    BY <1>1, <2>1, <2>4, <2>5
    DEF OfMenu, MenuForWord, RunningForMenu, FoundHas, ShownWaitingHasMoreComing
<1>3. CASE FoundWaits \/ WaitReady
  <2>1. /\ UNCHANGED <<session, copies, atPause, word, more, screen, prompt>>
        /\ pc' \in {"found", "wait"} /\ (pc' = "wait" => running # None)
    BY <1>3 DEF FoundWaits, WaitReady, Unresolved
  <2>2. /\ UNCHANGED <<saved, running, givenUp, copies, atPause, menu, wantsPause>>
    BY <2>1 DEF session, screen
  <2>3. FoundHas'
    BY <1>1, <2>1, <2>2 DEF FoundHas, RunningFits, SavedFits, GivenUpOn
  <2>4. MenuIsTrue'
    BY <1>0, <1>1, <2>1, <2>2 DEF MenuIsTrue, MenuCounts, MenuTrue, GivenUpOn, Bash
  <2> QED
    BY <2>1, <2>3, <2>4 DEF OfMenu, MenuForWord, RunningForMenu, ShownWaitingHasMoreComing
<1>4. CASE FoundDone
  <2>1. /\ UNCHANGED <<saved, running, givenUp, copies, wantsPause>> /\ Found
    BY <1>4 DEF FoundDone, session
  <2> DEFINE waiting == ~GivenUpOn(word) /\ (atPause \/ RunningFits(word))
  <2>2. /\ pc' = "key" /\ menu'.word = word /\ (menu'.waiting => waiting)
        /\ \/ menu' = menu /\ menu # None /\ menu.word = word
           \/ GivenUpOn(word)
           \/ /\ menu'.cutFor = (IF SavedFits /\ saved.cut THEN saved.word ELSE None)
              /\ menu'.items = {c \in FoundItems : Matches(word.typed, c)}
              /\ menu'.waiting = waiting
    <3>1. CASE GivenUpOn(word)
      <4>1. DrawMenu({}, FALSE, None)
        BY <2>1, <3>1 DEF Found
      <4> QED
        BY <1>0, <3>1, <4>1, DrawnMenu
    <3>2. CASE ~GivenUpOn(word)
      <4>1. /\ DrawMenu(FoundItems, atPause \/ RunningFits(word),
                        IF SavedFits /\ saved.cut THEN saved.word ELSE None)
            /\ (atPause \/ RunningFits(word)) \in BOOLEAN
        BY <1>0, <2>1, <3>2 DEF Found, TypeOK, RunningFits
      <4> QED
        BY <1>0, <3>2, <4>1, DrawnMenu DEF DrawMenu
    <3> QED
      BY <3>1, <3>2
  <2>3. ASSUME menu # None, menu' = menu, menu.word = word, MenuCounts'
        PROVE  MenuTrue'
    <3>1. MenuTrue
      BY <1>0, <1>1, <2>3 DEF MenuCounts
    <3> QED
      BY <1>1, <2>1, <2>3, <3>1, MenuStaysTrue DEF GivenUpOn
  <2>4. ASSUME ~GivenUpOn(word), ~waiting,
               menu'.cutFor = (IF SavedFits /\ saved.cut THEN saved.word ELSE None),
               menu'.items = {c \in FoundItems : Matches(word.typed, c)}
        PROVE  MenuTrue'
    <3>1. SavedFits
      BY <1>1, <2>4
    <3>2. CASE saved.cut
      <4>1. saved.word # None
        BY <1>0, <3>1, BashConstantsOK DEF SavedFits, TypeOK, Saved
      <4> QED
        BY <2>4, <3>1, <3>2, <4>1 DEF MenuTrue
    <3>3. CASE ~saved.cut
      <4>1. GoOnFrom(word.typed, menu'.items) = Bash(word)
        BY <1>0, <2>4, <3>1, <3>3, FitsGivesAll
      <4> QED
        BY <1>1, <2>2, <4>1 DEF MenuTrue, Bash
    <3> QED
      BY <3>2, <3>3
  <2>5. MenuIsTrue'
    <3> SUFFICES ASSUME MenuCounts' PROVE MenuTrue'
      BY DEF MenuIsTrue
    <3>1. CASE GivenUpOn(word)
      BY <2>1, <2>2, <3>1 DEF MenuTrue, GivenUpOn
    <3>2. CASE ~GivenUpOn(word) /\ waiting
      <4>1. menu'.waiting => MenuTrue'
        BY DEF MenuTrue
      <4>2. CASE menu' = menu /\ menu # None /\ menu.word = word
        BY <2>3, <4>2
      <4> QED
        BY <2>2, <3>2, <4>1, <4>2
    <3>3. CASE ~GivenUpOn(word) /\ ~waiting
      <4>1. CASE menu' = menu /\ menu # None /\ menu.word = word
        BY <2>3, <4>1
      <4> QED
        BY <2>2, <2>4, <3>3, <4>1
    <3> QED
      BY <3>1, <3>2, <3>3
  <2>6. ShownWaitingHasMoreComing'
    BY <1>1, <2>1, <2>2 DEF ShownWaitingHasMoreComing, Coming, RunningFits
  <2>7. RunningForMenu'
    BY <1>1, <2>1, <2>2 DEF RunningForMenu, RunningFits, Fits
  <2> QED
    BY <1>1, <2>2, <2>5, <2>6, <2>7 DEF OfMenu, MenuForWord, FoundHas
<1> QED
  BY <1>2, <1>3, <1>4

\* With no bash there is nothing to say of it.
LEMMA OfMenuOff ==
    ASSUME Typing, OfMenu, DrawOff PROVE OfMenu'
<1>1. TypeOK /\ word \in Words
  BY DEF Typing, TypeOK, Drawing, DrawOff, At
<1>2. /\ running' = None /\ DrawMenu({}, FALSE, None) /\ on' = FALSE /\ word' = word
  BY <1>1 DEF DrawOff, Forget, Drop, prompt, TypeOK
<1>3. pc' = "key" /\ menu'.word = word /\ ~menu'.waiting
  BY <1>1, <1>2, DrawnMenu
<1> QED
  BY <1>2, <1>3
  DEF OfMenu, MenuForWord, RunningForMenu, FoundHas, MenuIsTrue, MenuCounts,
      ShownWaitingHasMoreComing

\* Where there is no menu and no draw goes on, there is nothing to say.
LEMMA NoMenuNothing ==
    ASSUME menu' = None, pc' \notin {"found", "wait"} PROVE OfMenu'
  BY DEF OfMenu, MenuForWord, RunningForMenu, FoundHas, MenuIsTrue, MenuCounts,
         ShownWaitingHasMoreComing, ShowsBashItems

\* While getc waits, a menu has a word, so what is drawn again is drawn.
LEMMA RedrawDraws ==
    ASSUME Typing, MenuForWord, pc = "key", menu # None, Redraw PROVE pc' = "draw"
<1>1. menu.word \in Words /\ menu.word = word
  BY DEF Typing, TypeOK, Menu, MenuForWord
<1> QED
  BY <1>1, BashConstantsOK DEF Redraw

\* So do getc's waits: a copy that comes to nothing is of the menu's place.
LEMMA OfMenuWaits == ASSUME Typing, OfMenu, Waits PROVE OfMenu'
<1> USE DEF At
<1>0. TypeOK /\ pc = "key" /\ UNCHANGED <<on, reloaded, line, word, plain, menu>>
  BY DEF Typing, Waits, KeyReads, KeyExpires, Pause, screen, prompt
<1>1. /\ menu # None /\ running # None => SamePlace(copies[running].word, menu.word)
      /\ MenuCounts => MenuTrue
      /\ menu # None => menu.word = word
  BY <1>0 DEF OfMenu, MenuForWord, RunningForMenu, MenuIsTrue
<1>2. /\ running' = None \/ UNCHANGED <<running, copies>>
      /\ givenUp' = givenUp \/ (running # None /\ givenUp' = copies[running].word)
      /\ pc' \in {"key", "draw"}
  BY <1>0, TakenIs
  DEF Waits, KeyReads, KeyExpires, Pause, Redraw, TimeOut, session
<1>3. MenuIsTrue'
  <2> SUFFICES ASSUME MenuCounts' PROVE MenuTrue'
    BY DEF MenuIsTrue
  <2>1. menu # None /\ MenuTrue
    BY <1>0, <1>1 DEF MenuCounts
  <2> QED
    BY <1>0, <1>1, <1>2, <2>1, GivenUpStays, MenuStaysTrue
<1>4. ShownWaitingHasMoreComing'
  <2> SUFFICES ASSUME pc' = "key", plain, ShowsBashItems PROVE FALSE
    BY <1>0 DEF ShownWaitingHasMoreComing, ShowsBashItems
  <2>1. menu # None /\ Redraw
    BY DEF Waits, KeyReads, KeyExpires, Pause, ShowsBashItems
  <2>2. pc' = "draw"
    BY <1>0, <2>1, RedrawDraws DEF OfMenu
  <2> QED
    BY <2>2
<1> QED
  BY <1>0, <1>1, <1>2, <1>3, <1>4 DEF OfMenu, MenuForWord, RunningForMenu, FoundHas

\* And the keys: a menu stays the menu's word's until the draw.
LEMMA OfMenuKeys == ASSUME Typing, OfMenu, Keys PROVE OfMenu'
<1> USE DEF At
<1>1. CASE KeyNoMenu \/ NewLine \/ Disable \/ ShellEnds
  <2>1. menu' = None /\ pc' \notin {"found", "wait"}
    BY <1>1 DEF KeyNoMenu, NewLine, Disable, ShellEnds
  <2> QED
    BY <2>1, NoMenuNothing
<1>2. CASE \E w \in Words, m \in BOOLEAN : Key(w, m)
  <2>1. /\ pc = "key" /\ pc' = "draw"
        /\ UNCHANGED <<givenUp, copies, running, menu, on, reloaded, line>>
    BY <1>2 DEF Key, session, prompt
  <2> QED
    BY <2>1 DEF OfMenu, MenuForWord, RunningForMenu, FoundHas, MenuIsTrue, MenuCounts, MenuTrue,
                GivenUpOn, Bash, ShownWaitingHasMoreComing
<1>3. CASE \E w \in Words : EndSearch(w)
  <2>1. /\ pc = "key" /\ pc' = "draw"
        /\ UNCHANGED <<givenUp, copies, running, menu, on, reloaded, line>>
    BY <1>3 DEF EndSearch, session, prompt
  <2> QED
    BY <2>1 DEF OfMenu, MenuForWord, RunningForMenu, FoundHas, MenuIsTrue, MenuCounts, MenuTrue,
                GivenUpOn, Bash, ShownWaitingHasMoreComing
<1>4. CASE StartSearch
  <2>1. /\ pc' = pc /\ plain' = FALSE /\ pc = "key"
        /\ UNCHANGED <<givenUp, copies, running, menu, on, reloaded, line, word>>
    BY <1>4 DEF StartSearch, session, prompt
  <2> QED
    BY <2>1 DEF OfMenu, MenuForWord, RunningForMenu, FoundHas, MenuIsTrue, MenuCounts, MenuTrue,
                GivenUpOn, Bash, ShownWaitingHasMoreComing
<1>5. CASE \E done \in BOOLEAN : EndLine(done)
  <2>1. pc' = "between"
    BY <1>5 DEF EndLine
  <2> QED
    BY <2>1 DEF OfMenu, MenuForWord, RunningForMenu, FoundHas, MenuIsTrue, MenuCounts,
                ShownWaitingHasMoreComing
<1>6. CASE Reload
  <2>1. /\ pc = "key" /\ Redraw /\ menu' = menu /\ reloaded' = TRUE /\ running' = None
    BY <1>6 DEF Reload, Forget, Drop
  <2>2. menu # None => pc' = "draw"
    BY <2>1, RedrawDraws DEF OfMenu
  <2>3. pc' \in {"key", "draw"}
    BY <2>1 DEF Redraw
  <2> QED
    BY <2>1, <2>2, <2>3
    DEF OfMenu, MenuForWord, RunningForMenu, FoundHas, MenuIsTrue, MenuCounts,
        ShownWaitingHasMoreComing, ShowsBashItems
<1> QED
  BY <1>1, <1>2, <1>3, <1>4, <1>5, <1>6 DEF Keys

\* What a copy does changes nothing the menu says.
LEMMA OfMenuCopies ==
    ASSUME Typing, OfMenu, NEW c \in DOMAIN copies, CopyStep(c) PROVE OfMenu'
<1>1. PICK e \in Copy :
        /\ copies' = [copies EXCEPT ![c] = e] /\ OfCopy /\ e.word = copies[c].word
  BY CopyStepIs DEF Follows
<1>2. copies \in Seq(Copy) /\ DOMAIN copies = 1 .. Len(copies)
      /\ (running # None => running \in 1 .. Len(copies))
  BY DEF Typing, TypeOK
<1>3. running # None => copies'[running].word = copies[running].word
  BY <1>1, <1>2, CopyReplaced
<1>4. UNCHANGED <<saved, running, givenUp, pc, atPause, word, plain, menu, wantsPause, line, on,
                  reloaded>>
  BY <1>1 DEF OfCopy, session, screen, prompt
<1>6. FoundHas'
  BY <1>3, <1>4 DEF OfMenu, FoundHas, RunningFits, SavedFits, GivenUpOn
<1>7. MenuIsTrue'
  BY <1>4 DEF OfMenu, MenuIsTrue, MenuCounts, MenuTrue, GivenUpOn, Bash
<1>8. ShownWaitingHasMoreComing'
  BY <1>3, <1>4
  DEF OfMenu, ShownWaitingHasMoreComing, ShowsBashItems, Coming, RunningFits, At
<1> QED
  BY <1>3, <1>4, <1>6, <1>7, <1>8 DEF OfMenu, MenuForWord, RunningForMenu

\* So every step keeps the menu true of bash.
LEMMA OfMenuStep ==
    Typing /\ OfBash /\ AllOfBash /\ OfMenu /\ [Next]_vars => AllOfBash' /\ OfMenu'
<1> SUFFICES ASSUME Typing, OfBash, AllOfBash, OfMenu, [Next]_vars PROVE AllOfBash' /\ OfMenu'
  OBVIOUS
<1>1. CASE UNCHANGED vars
  <2>1. AllOfBash'
    BY <1>1 DEF AllOfBash, CopiesGiveAll, SavedIsAll, Given, Bash, vars, session, prompt
  <2>2. OfMenu'
    BY <1>1
    DEF OfMenu, MenuForWord, RunningForMenu, FoundHas, MenuIsTrue, MenuCounts, MenuTrue,
        ShownWaitingHasMoreComing, ShowsBashItems, Coming, RunningFits, SavedFits, GivenUpOn, Bash,
        At, vars, session, screen, prompt
  <2> QED
    BY <2>1, <2>2
<1>2. CASE \E c \in DOMAIN copies : CopyStep(c)
  BY <1>2, AllOfBashCopies, OfMenuCopies
<1>3. CASE Draw
  BY <1>3, AllOfBashShell, OfMenuOff, OfMenuAsks, OfMenuFound DEF Draw
<1>4. CASE Waits \/ Keys
  BY <1>4, AllOfBashShell, OfMenuWaits, OfMenuKeys
<1> QED
  BY <1>1, <1>2, <1>3, <1>4 DEF Next

\* What the menu says of bash is true: that more rows come, while it is said
\* to wait for them, and that all are there, once it does not; whichever saved
\* answer was filtered for the text, and whichever copy was dropped, came
\* late or failed in between (session.rs: decide, found; hooks.rs: menu_for,
\* keep_pause_wanted).
THEOREM MenuTellsTheTruth == Spec => []WaitsWhileMoreComes
<1>1. Init => OfBash /\ AllOfBash /\ OfMenu
  BY DEF Init, OfBash, CopiesGiveBashs, RunningIsThisLines, SavedIsBashs, ShownIsBashs,
         AllOfBash, CopiesGiveAll, SavedIsAll, OfMenu, MenuForWord, RunningForMenu, FoundHas,
         MenuIsTrue, MenuCounts, ShownWaitingHasMoreComing, ShowsBashItems
<1>2. OfMenu => WaitsWhileMoreComes
  BY DEF OfMenu, MenuIsTrue, MenuCounts, MenuTrue, WaitsWhileMoreComes, SettledIsComplete, Settled,
         At
<1> QED
  BY <1>1, <1>2, InitTyping, StepTyping, OfBashStep, OfMenuStep, PTL DEF Spec
=============================================================================
