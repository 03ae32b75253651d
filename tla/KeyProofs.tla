------------------------------ MODULE KeyProofs ------------------------------
(***************************************************************************)
(* What is proved of the wait for a key, and of the Up and Down keys.      *)
(*                                                                         *)
(* KeyWait: a C-c acts once and in its turn, whoever reads keys when it    *)
(* comes and between whichever two steps it lands.  The invariant: the C-c *)
(* that bash has yet to act on is with exactly those that may still act on *)
(* it (readline, bash, one of Lisp's flags or a jump that Lisp stopped),   *)
(* and none of them has one that nobody pressed.  The flags of Lisp are    *)
(* set only where Lisp looks at them before it goes on.  And               *)
(* KEYS_AFTER_C_C is set once a key was read after the C-c, until bash has *)
(* acted on it.                                                            *)
(*                                                                         *)
(* UpDown: a search finds the match it promises, from every state and by   *)
(* every count, and up and down again is where it was.  The invariant:     *)
(* every line, entry and undo step has its cursor in its text, and a       *)
(* search that is kept is at places of history.  The scan that looks at    *)
(* one entry after the other is shown right after each of them, and the    *)
(* line by line move right after each line it goes by.                     *)
(***************************************************************************)
EXTENDS MCKeyWait, UpDown, FiniteSetTheorems, SequenceTheorems, WellFoundedInduction, TLAPS

Modes == {"line", "lisp", "called", "nested", "returning", "ending", "handing"}

CountsOK ==
    /\ typed \in Nat /\ read \in Nat /\ pressedAt \in Nat /\ read <= typed
    /\ at \in {"reading", "checked"} => read < typed
    /\ at = "erase" /\ key = None => read < typed
    /\ at \in {"top", "look", "starting", "waiting", "signal", "noted", "paused", "reading",
              "checked", "after"} => key = None
    /\ at = "erase" /\ mode # "called" => key = None

\* Where the owed C-c is.
OwedOK ==
    /\ bashHas \/ caught = "INT" \/ lispInt \/ passedOn => owed
    /\ owed => bashHas \/ caught = "INT" \/ lispInt \/ passedOn \/ jump

ModeOK ==
    /\ mode \in Modes
    /\ mode \in {"lisp", "returning", "ending", "handing"} => at = "out"
    /\ mode = "called" => ~nested
    /\ mode = "nested" /\ at # "out" => nested

\* Lisp's flags, and who has yet to see them.
FlagsOK ==
    /\ passedOn => mode = "ending" /\ bashHas
    /\ lispInt => mode \notin {"line", "nested", "handing"}
    /\ lispInt /\ mode = "called" => at \in {"erase", "back", "key"} /\ key = "C-g"
    /\ jump => mode \notin {"line", "called", "nested"}

\* The keys that came after the owed C-c.
KeysOK ==
    /\ at = "noted" => mode # "called" /\ ~keysAfter
    /\ mixed => bashHas /\ keysAfter
    /\ mode \in {"line", "nested"} /\ owed =>
         /\ at = "checked" /\ read >= pressedAt => bashHas
         /\ at = "after" /\ read > pressedAt => bashHas
         /\ at \in {"back", "key"} /\ read > pressedAt => keysAfter

WaitInv == CountsOK /\ OwedOK /\ ModeOK /\ FlagsOK /\ KeysOK
----------------------------------------------------------------------------
(* What ends a line. *)

\* A new line: no C-c is left but one pressed again meanwhile.
LEMMA NewPromptKeeps ==
    ASSUME WaitInv, NewPrompt, UNCHANGED <<typed, read>>, ~lispInt', ~passedOn', ~jump'
    PROVE WaitInv'
<1>1. /\ mode' = "line" /\ at' = "out" /\ ~nested' /\ ~bashHas' /\ ~mixed'
      /\ owed' = (caught' = "INT")
      /\ pressedAt' \in {pressedAt, MaxKeys + 1}
  BY DEF NewPrompt, Pressed
<1>2. CountsOK'  BY <1>1, BoundsAssumption DEF WaitInv, CountsOK
<1>3. OwedOK'  BY <1>1 DEF OwedOK
<1>4. ModeOK'  BY <1>1 DEF ModeOK, Modes
<1>5. FlagsOK'  BY <1>1 DEF FlagsOK
<1>6. KeysOK'  BY <1>1 DEF KeysOK
<1>. QED  BY <1>2, <1>3, <1>4, <1>5, <1>6 DEF WaitInv

\* bash jumps: over a readline command Lisp called, to the call.
LEMMA BashJumpsKeeps ==
    ASSUME WaitInv, NEW how, at # "out", BashJumps(how),
           UNCHANGED <<typed, read, lispInt, passedOn>>,
           caught' = "INT" => caught = "INT"
    PROVE WaitInv'
<1>1. mode \in {"line", "called", "nested"} /\ ~passedOn
  BY DEF WaitInv, ModeOK, FlagsOK, Modes
<1>2. CASE mode = "line"
  <2>1. NewPrompt /\ jump' = jump  BY <1>2 DEF BashJumps
  <2>2. ~lispInt' /\ ~passedOn' /\ ~jump'
    BY <1>1, <1>2, <2>1 DEF WaitInv, FlagsOK
  <2>. QED  BY <2>1, <2>2, NewPromptKeeps
<1>3. CASE mode # "line"
  <2>1. /\ mode' = "returning" /\ at' = "out" /\ jump' /\ ~bashHas' /\ ~mixed'
        /\ UNCHANGED <<nested, owed, pressedAt>>
    BY <1>1, <1>3 DEF BashJumps
  <2>2. CountsOK'  BY <2>1 DEF WaitInv, CountsOK
  <2>3. OwedOK'  BY <1>1, <2>1 DEF WaitInv, OwedOK
  <2>4. ModeOK'  BY <2>1 DEF ModeOK, Modes
  <2>5. FlagsOK'  BY <1>1, <2>1 DEF FlagsOK
  <2>6. KeysOK'  BY <2>1 DEF KeysOK
  <2>. QED  BY <2>2, <2>3, <2>4, <2>5, <2>6 DEF WaitInv
<1>. QED  BY <1>2, <1>3
----------------------------------------------------------------------------
(* The steps. *)

\* The user, the terminal and the shell's jobs, at any step of the others.
LEMMA UsersKeep == ASSUME WaitInv, Type \/ PressCtrlC \/ Resize \/ ChildEnds \/ Tick
              \/ ServerWakes
    PROVE WaitInv'
<1>. USE BoundsAssumption DEF WaitInv, CountsOK, OwedOK, ModeOK, FlagsOK, KeysOK, Modes, None,
                             InLisp, Running, TypedAhead, waitVars, lispVars, userVars
<1>1. CASE Type
  BY <1>1 DEF Type
<1>2. CASE PressCtrlC
  BY <1>2 DEF PressCtrlC, Lands
<1>3. CASE Resize
  BY <1>3 DEF Resize, Lands, Pressed
<1>4. CASE ChildEnds
  BY <1>4 DEF ChildEnds
<1>5. CASE Tick
  BY <1>5 DEF Tick
<1>6. CASE ServerWakes
  BY <1>6 DEF ServerWakes
<1>. QED  BY <1>1, <1>2, <1>3, <1>4, <1>5, <1>6

\* getc, until it has the key.
LEMMA GetcKeeps == ASSUME WaitInv, GetcStarts \/ Top \/ Look \/ WaitStarts \/ Ready
              \/ PauseUp \/ Paused \/ SignalInLisp
              \/ SignalActs \/ Erase \/ ReaderChecks
              \/ ReaderReads \/ AfterRead \/ KeyIsBack
    PROVE WaitInv'
<1>. USE BoundsAssumption DEF WaitInv, CountsOK, OwedOK, ModeOK, FlagsOK, KeysOK, Modes, None,
                             InLisp, Running, TypedAhead, waitVars, lispVars, userVars
<1>1. CASE GetcStarts
  BY <1>1 DEF GetcStarts, NestedNow
<1>2. CASE Top
  BY <1>2 DEF Top, Taken, TakeInterrupt
<1>3. CASE Look
  BY <1>3 DEF Look, KeysAfterNow, SignalBeforeWait
<1>4. CASE WaitStarts
  BY <1>4 DEF WaitStarts
<1>5. CASE Ready
  BY <1>5 DEF Ready
<1>6. CASE PauseUp
  BY <1>6 DEF PauseUp
<1>7. CASE Paused
  BY <1>7 DEF Paused
<1>8. CASE SignalInLisp
  BY <1>8 DEF SignalInLisp
<1>9. CASE SignalActs
  BY <1>9 DEF SignalActs, Checked, HookFindsNone, OverLisp
<1>10. CASE Erase
  BY <1>10 DEF Erase, Taken, TakeInterrupt
<1>11. CASE ReaderChecks
  BY <1>11 DEF ReaderChecks, Checked
<1>12. CASE ReaderReads
  BY <1>12 DEF ReaderReads
<1>13. CASE AfterRead
  BY <1>13 DEF AfterRead, Taken, TakeInterrupt
<1>14. CASE KeyIsBack
  BY <1>14 DEF KeyIsBack, Checked
<1>. QED  BY <1>1, <1>2, <1>3, <1>4, <1>5, <1>6, <1>7, <1>8, <1>9, <1>10, <1>11, <1>12, <1>13, <1>14

\* What the key does, but for Enter.
LEMMA KeysKeep == ASSUME WaitInv, Edits \/ LispKey \/ Answers
    PROVE WaitInv'
<1>. USE BoundsAssumption DEF WaitInv, CountsOK, OwedOK, ModeOK, FlagsOK, KeysOK, Modes, None,
                             InLisp, Running, TypedAhead, waitVars, lispVars, userVars
<1>1. CASE Edits
  BY <1>1 DEF Edits
<1>2. CASE LispKey
  BY <1>2 DEF LispKey
<1>3. CASE Answers
  BY <1>3 DEF Answers
<1>. QED  BY <1>1, <1>2, <1>3

\* Lisp, and the commands it calls.
LEMMA LispKeeps == ASSUME WaitInv, CallsCommand \/ CommandChecks \/ ShellReads
              \/ CommandReturns \/ Returned \/ LispStops
              \/ LispInterrupted \/ AfterLispTakes
    PROVE WaitInv'
<1>. USE BoundsAssumption DEF WaitInv, CountsOK, OwedOK, ModeOK, FlagsOK, KeysOK, Modes, None,
                             InLisp, Running, TypedAhead, waitVars, lispVars, userVars
<1>1. CASE CallsCommand
  BY <1>1 DEF CallsCommand, MustStop
<1>2. CASE CommandChecks
  BY <1>2 DEF CommandChecks, Checked
<1>3. CASE ShellReads
  BY <1>3 DEF ShellReads
<1>4. CASE CommandReturns
  BY <1>4 DEF CommandReturns
<1>5. CASE Returned
  BY <1>5 DEF Returned, PassedOn
<1>6. CASE LispStops
  BY <1>6 DEF LispStops
<1>7. CASE LispInterrupted
  BY <1>7 DEF LispInterrupted, ShouldStop, LispStops, MustStop
<1>8. CASE AfterLispTakes
  BY <1>8 DEF AfterLispTakes, LispFlagTaken
<1>. QED  BY <1>1, <1>2, <1>3, <1>4, <1>5, <1>6, <1>7, <1>8

\* A signal, or Enter, for which bash throws the line away; and the C-c or the
\* jump that after_lisp hands on.
LEMMA ThrowsKeep == ASSUME WaitInv, SignalThrows \/ Accepts \/ AfterLispHands PROVE WaitInv'
<1>. USE DEF waitVars, lispVars, userVars
<1>1. CASE SignalThrows
  <2>1. PICK how : BashJumps(how)  BY <1>1 DEF SignalThrows
  <2>2. /\ at # "out" /\ caught' # "INT"
        /\ UNCHANGED <<typed, read, lispInt, passedOn>>
    BY <1>1 DEF SignalThrows, None
  <2>. QED  BY <2>1, <2>2, BashJumpsKeeps
<1>2. CASE Accepts
  <2>1. CASE bashHas
    <3>1. /\ at # "out" /\ caught' = caught /\ BashJumps("thrown")
          /\ UNCHANGED <<typed, read, lispInt, passedOn>>
      BY <1>2, <2>1 DEF Accepts
    <3>. QED  BY <3>1, BashJumpsKeeps
  <2>2. CASE ~bashHas
    BY <1>2, <2>2 DEF Accepts, Deprep, WaitInv, CountsOK, OwedOK, ModeOK, FlagsOK, KeysOK, Modes
  <2>. QED  BY <2>1, <2>2
<1>3. CASE AfterLispHands
  <2>1. /\ ~lispInt' /\ ~passedOn' /\ ~lispInt /\ ~passedOn /\ jump' = FALSE
        /\ UNCHANGED <<typed, read, keysAfter, key>>
    BY <1>3 DEF AfterLispHands, WaitInv, FlagsOK
  <2>2. CASE NewPrompt
    BY <2>1, <2>2, NewPromptKeeps
  <2>3. CASE ~NewPrompt
    <3>1. /\ mode' = "line" /\ at' = "out" /\ UNCHANGED <<bashHas, owed, mixed, pressedAt, nested>>
          /\ ~jump /\ (wasInt => HookFindsNone)
          /\ caught' = IF wasInt THEN None ELSE caught
      BY <1>3, <2>3 DEF AfterLispHands
    <3>2. caught' = "INT" <=> caught = "INT"
      BY <3>1 DEF HookFindsNone, None
    <3>. QED
      BY <2>1, <3>1, <3>2 DEF WaitInv, CountsOK, OwedOK, ModeOK, FlagsOK, KeysOK, Modes
  <2>. QED  BY <2>2, <2>3
<1>. QED  BY <1>1, <1>2, <1>3

\* No step breaks the invariant.
LEMMA StepsKeep == WaitInv /\ [Next]_vars => WaitInv'
<1>. SUFFICES ASSUME WaitInv, [Next]_vars PROVE WaitInv'
  OBVIOUS
<1>1. CASE UNCHANGED vars
  BY <1>1 DEF vars, waitVars, lispVars, userVars, WaitInv, CountsOK, OwedOK, ModeOK, FlagsOK,
              KeysOK
<1>2. CASE Type \/ PressCtrlC \/ Resize \/ ChildEnds \/ Tick \/ ServerWakes
  BY <1>2, UsersKeep
<1>3. CASE InGetc
  BY <1>3, GetcKeeps, ThrowsKeep DEF InGetc
<1>4. CASE KeyRuns
  BY <1>4, KeysKeep, ThrowsKeep DEF KeyRuns
<1>5. CASE LispRuns
  BY <1>5, LispKeeps, ThrowsKeep DEF LispRuns
<1>. QED  BY <1>1, <1>2, <1>3, <1>4, <1>5 DEF Next

\* hooks.rs's getc, take_interrupt, inkline_call_command and after_lisp,
\* whatever lands between two of their steps: the C-c bash has not acted on is
\* with one that will act on it, and none of Lisp's flags is left set where no
\* Lisp will see it.
THEOREM WaitInvariant == Spec => []WaitInv
<1>1. Init => WaitInv
  BY BoundsAssumption DEF Init, WaitInv, CountsOK, OwedOK, ModeOK, FlagsOK, KeysOK, Modes, None,
                          Pressed
<1>. QED  BY <1>1, StepsKeep, PTL DEF Spec
----------------------------------------------------------------------------
(* What a step may never do. *)

Untimely == {"thrown unasked", "bash ran over Lisp", "went on", "thrown before the wait"}

\* bash throws the line away only for a C-c it was given.
LEMMA ThrowsInTurn == ASSUME WaitInv, SignalThrows \/ Accepts \/ AfterLispHands
    PROVE lastly' \notin Untimely
<1>1. CASE SignalThrows
  <2>1. owed
    BY <1>1 DEF SignalThrows, HookFindsNone, WaitInv, OwedOK
  <2>2. ~OverLisp
    BY <1>1 DEF SignalThrows, OverLisp, InLisp, Running, WaitInv, ModeOK, KeysOK
  <2>3. ~(at = "noted" /\ mixed)
    BY DEF WaitInv, KeysOK
  <2>. QED  BY <1>1, <2>1, <2>2, <2>3 DEF SignalThrows, BashJumps, Untimely
<1>2. CASE Accepts
  BY <1>2 DEF Accepts, BashJumps, Untimely, WaitInv, OwedOK, None
<1>3. CASE AfterLispHands
  BY <1>3 DEF AfterLispHands, HookFindsNone, Untimely, WaitInv, OwedOK, None
<1>. QED  BY <1>1, <1>2, <1>3

\* bash's hook does not run over Lisp, and Lisp does not go on.
LEMMA LispInTurn == ASSUME WaitInv, SignalActs \/ Returned PROVE lastly' \notin Untimely
<1>1. CASE SignalActs
  <2>1. ~OverLisp
    BY <1>1 DEF SignalActs, OverLisp, InLisp, Running, WaitInv, ModeOK, KeysOK
  <2>. QED  BY <1>1, <2>1 DEF SignalActs, Untimely, None
<1>2. CASE Returned
  <2>1. ASSUME mode' = "lisp", owed, ~wasInt PROVE FALSE
    <3>1. ~lispInt' /\ ~passedOn' /\ ~jump
      BY <1>2, <2>1 DEF Returned
    <3>2. ~lispInt /\ caught # "INT" /\ ~passedOn /\ ~bashHas
      BY <1>2, <2>1, <3>1 DEF Returned, PassedOn
    <3>. QED  BY <2>1, <3>1, <3>2 DEF WaitInv, OwedOK
  <2>. QED  BY <1>2, <2>1 DEF Returned, Untimely, None
<1>. QED  BY <1>1, <1>2

\* No step acts on a C-c too early, twice, or without one.
LEMMA EachInTurn == WaitInv /\ [Next]_vars => [lastly' \notin Untimely]_vars
<1>. SUFFICES ASSUME WaitInv, Next PROVE lastly' \notin Untimely
  OBVIOUS
<1>. USE DEF Untimely, None
<1>1. CASE Type \/ PressCtrlC \/ Resize \/ ChildEnds \/ Tick \/ ServerWakes
  BY <1>1 DEF Type, PressCtrlC, Resize, ChildEnds, Tick, ServerWakes
<1>2. CASE InGetc
  <2>1. CASE SignalActs \/ SignalThrows
    BY <2>1, ThrowsInTurn, LispInTurn
  <2>2. CASE GetcStarts \/ Top \/ Look \/ WaitStarts \/ Ready \/ PauseUp \/ Paused
    BY <2>2 DEF GetcStarts, Top, Look, WaitStarts, Ready, PauseUp, Paused
  <2>3. CASE SignalInLisp \/ Erase \/ ReaderChecks \/ ReaderReads \/ AfterRead \/ KeyIsBack
    BY <2>3 DEF SignalInLisp, Erase, ReaderChecks, ReaderReads, AfterRead, KeyIsBack
  <2>. QED  BY <1>2, <2>1, <2>2, <2>3 DEF InGetc
<1>3. CASE KeyRuns
  BY <1>3, ThrowsInTurn DEF KeyRuns, Edits, LispKey, Answers
<1>4. CASE LispRuns
  BY <1>4, ThrowsInTurn, LispInTurn
    DEF LispRuns, CallsCommand, CommandChecks, ShellReads, CommandReturns, LispStops,
        LispInterrupted, AfterLispTakes
<1>. QED  BY <1>1, <1>2, <1>3, <1>4 DEF Next

\* A C-c acts once and in its turn (getc's handle_interrupted_wait, after_lisp
\* and Enter throw the line away; call_command and call_interactively go on).
THEOREM CtrlCInTurnAlways == Spec => CtrlCInTurn
<1>1. WaitInv /\ [Next]_vars
        => [lastly' \notin {"thrown unasked", "bash ran over Lisp", "went on"}]_vars
  BY EachInTurn DEF Untimely
<1>. QED  BY <1>1, WaitInvariant, PTL DEF Spec, CtrlCInTurn

\* Between two keys typed after a C-c, getc does not let bash act on it ahead of
\* the wait (KEYS_AFTER_C_C): a line with keys of before and of after it is
\* thrown away at that wait, not with keys of the next line still to come.
THEOREM KeysStayTogetherAlways == Spec => KeysStayTogether
<1>1. WaitInv /\ [Next]_vars => [lastly' # "thrown before the wait"]_vars
  BY EachInTurn DEF Untimely
<1>. QED  BY <1>1, WaitInvariant, PTL DEF Spec, KeysStayTogether
-----------------------------------------------------------------------------
(* The Up and Down keys: sets of integers, and functions defined step by step. *)

\* Places from one on are numbers.
LEMMA PlacesAreNat ==
    ASSUME NEW n \in Nat, NEW S, S \subseteq 1 .. n
    PROVE  \A j \in S : j \in Nat
OBVIOUS

Below == {p \in Nat \X Nat : p[1] < p[2]}

\* Numbers do not go down for ever.
LEMMA BelowWellFounded == IsWellFoundedOn(Below, Nat)
<1>1. IsWellFoundedOn(OpToRel(<, Nat), Nat)
  BY NatLessThanWellFounded
<1>2. OpToRel(<, Nat) = Below
  BY DEF OpToRel, Below
<1>. QED
  BY <1>1, <1>2

\* A set of naturals with something in it has a least.
LEMMA LeastOfNats ==
    ASSUME NEW S, S \subseteq Nat, S # {}
    PROVE  \E x \in S : \A y \in S : x <= y
<1>1. PICK x \in S : \A y \in S : ~ (<<y, x>> \in Below)
  BY BelowWellFounded, WFMin
<1>2. \A m, n \in Nat : m < n => <<m, n>> \in Below
  BY DEF Below
<1>3. ASSUME NEW y \in S PROVE x <= y
  <2>1. x \in Nat /\ y \in Nat  OBVIOUS
  <2>2. ~ (y < x)  BY <1>1, <1>2, <2>1
  <2>. QED  BY <2>1, <2>2
<1>. QED
  BY <1>3

\* A set of integers of a range with something in it has a least and a greatest.
LEMMA MinIs ==
    ASSUME NEW a \in Int, NEW b \in Int, NEW S, S \subseteq a .. b, S # {}
    PROVE  Min(S) \in S /\ \A y \in S : Min(S) <= y
<1>. DEFINE D == {y - a : y \in S}
<1>1. D \subseteq Nat /\ D # {}
  <2>1. \A y \in S : y \in a .. b /\ y - a \in Nat  OBVIOUS
  <2>. QED  BY <2>1
<1>2. PICK d \in D : \A e \in D : d <= e  BY <1>1, LeastOfNats
<1>3. PICK x \in S : d = x - a  BY <1>2
<1>4. \A y \in S : y - a \in D /\ y \in a .. b  OBVIOUS
<1>5. \A y \in S : x <= y
  <2>1. ASSUME NEW y \in S PROVE x <= y
    <3>1. y - a \in D /\ y \in Int /\ x \in Int  BY <1>4
    <3>2. d <= y - a  BY <1>2, <3>1
    <3>. HIDE DEF D
    <3>. QED  BY <3>1, <3>2, <1>3
  <2>. QED  BY <2>1
<1>. QED
  BY <1>5 DEF Min

\* The greatest of a set of integers is one of them, and none is greater.
LEMMA MaxIs ==
    ASSUME NEW a \in Int, NEW b \in Int, NEW S, S \subseteq a .. b, S # {}
    PROVE  Max(S) \in S /\ \A y \in S : y <= Max(S)
<1>. DEFINE D == {b - y : y \in S}
<1>1. D \subseteq Nat /\ D # {}
  <2>1. \A y \in S : y \in a .. b /\ b - y \in Nat  OBVIOUS
  <2>. QED  BY <2>1
<1>2. PICK d \in D : \A e \in D : d <= e  BY <1>1, LeastOfNats
<1>3. PICK x \in S : d = b - x  BY <1>2
<1>4. \A y \in S : b - y \in D /\ y \in a .. b  OBVIOUS
<1>5. \A y \in S : x >= y
  <2>1. ASSUME NEW y \in S PROVE x >= y
    <3>1. b - y \in D /\ y \in Int /\ x \in Int  BY <1>4
    <3>2. d <= b - y  BY <1>2, <3>1
    <3>. HIDE DEF D
    <3>. QED  BY <3>1, <3>2, <1>3
  <2>. QED  BY <2>1
<1>6. Max(S) \in S /\ \A y \in S : Max(S) >= y  BY <1>5 DEF Max
<1>7. ASSUME NEW y \in S PROVE y <= Max(S)
  <2>1. \A z \in S : z \in Int  OBVIOUS
  <2>2. Max(S) \in Int /\ y \in Int /\ Max(S) >= y  BY <1>6, <2>1
  <2>. QED  BY <2>2
<1>. QED
  BY <1>6, <1>7

\* The only greatest one is the greatest.
LEMMA MaxOnly ==
    ASSUME NEW a \in Int, NEW b \in Int, NEW S, S \subseteq a .. b,
           NEW x \in S, \A y \in S : y <= x
    PROVE  Max(S) = x
<1>1. Max(S) \in S /\ \A y \in S : y <= Max(S)  BY MaxIs
<1>2. \A z \in S : z \in Int  OBVIOUS
<1>3. Max(S) <= x /\ x <= Max(S)  BY <1>1
<1>4. Max(S) \in Int /\ x \in Int  BY <1>1, <1>2
<1>. QED  BY <1>3, <1>4

\* A function on a .. b of what it is one place before.
StepsUp(g, a, b, All, base, F) ==
    /\ g \in [a .. b -> All]
    /\ \A e \in a .. b : g[e] = IF e = a THEN base ELSE F[<<e, g[e - 1]>>]

\* There is such a function of any length.
LEMMA StepsForward ==
    ASSUME NEW a \in Int, NEW b \in Int, a <= b, NEW All, NEW base \in All,
           NEW F \in [(a .. b) \X All -> All]
    PROVE  \E g : StepsUp(g, a, b, All, base, F)
<1>. DEFINE Is(n) == \E g \in [a .. a + n -> All] : \A e \in a .. a + n :
                        g[e] = IF e = a THEN base ELSE F[<<e, g[e - 1]>>]
            Bad == {n \in 0 .. b - a : ~Is(n)}
<1>1. Is(0)
  <2>. DEFINE g == [e \in a .. a + 0 |-> base]
  <2>1. g \in [a .. a + 0 -> All] /\ \A e \in a .. a + 0 : e = a /\ g[e] = base  OBVIOUS
  <2>. QED  BY <2>1
<1>2. ASSUME NEW n \in 0 .. (b - a) - 1, Is(n) PROVE Is(n + 1)
  <2>1. PICK g \in [a .. a + n -> All] : \A e \in a .. a + n :
              g[e] = IF e = a THEN base ELSE F[<<e, g[e - 1]>>]
    BY <1>2
  <2>. DEFINE d == a + (n + 1)
              more == [e \in a .. d |-> IF e = d THEN F[<<d, g[d - 1]>>] ELSE g[e]]
  <2>2. d \in a .. b /\ d - 1 \in a .. a + n /\ d # a  OBVIOUS
  <2>3. <<d, g[d - 1]>> \in (a .. b) \X All  BY <2>1, <2>2
  <2>4. F[<<d, g[d - 1]>>] \in All  BY <2>3
  <2>5. \A e \in a .. d : e = d \/ e \in a .. a + n  OBVIOUS
  <2>6. more \in [a .. d -> All]  BY <2>1, <2>4, <2>5
  <2>7. ASSUME NEW e \in a .. d
        PROVE  more[e] = IF e = a THEN base ELSE F[<<e, more[e - 1]>>]
    <3>1. CASE e = d
      <4>1. more[e] = F[<<d, g[d - 1]>>] /\ e - 1 \in a .. d /\ e - 1 # d  BY <3>1, <2>2
      <4>2. more[e - 1] = g[d - 1]  BY <4>1, <3>1
      <4>. QED  BY <4>1, <4>2, <3>1, <2>2
    <3>2. CASE e # d
      <4>1. e \in a .. a + n /\ more[e] = g[e]  BY <3>2, <2>5
      <4>2. CASE e = a  BY <4>1, <4>2, <2>1
      <4>3. CASE e # a
        <5>1. e - 1 \in a .. d /\ e - 1 # d  BY <4>1, <4>3
        <5>2. more[e - 1] = g[e - 1]  BY <5>1
        <5>. QED  BY <4>1, <4>3, <5>2, <2>1
      <4>. QED  BY <4>2, <4>3
    <3>. QED  BY <3>1, <3>2
  <2>. HIDE DEF more
  <2>. QED  BY <2>6, <2>7
<1>. HIDE DEF Is
<1>3. SUFFICES ASSUME Bad # {} PROVE FALSE
  <2>1. b - a \in 0 .. b - a /\ a + (b - a) = b  OBVIOUS
  <2>2. Is(b - a)  BY <1>3, <2>1
  <2>. QED  BY <2>1, <2>2 DEF Is, StepsUp
<1>4. PICK n \in Bad : \A m \in Bad : n <= m
  <2>1. Bad \subseteq Nat  OBVIOUS
  <2>. QED  BY <1>3, <2>1, LeastOfNats
<1>5. n # 0 /\ n \in 0 .. b - a  BY <1>1
<1>6. n - 1 \in 0 .. (b - a) - 1 /\ n - 1 \notin Bad  BY <1>4, <1>5
<1>7. Is(n - 1) /\ (n - 1) + 1 = n  BY <1>6
<1>8. Is((n - 1) + 1)  BY <1>2, <1>6, <1>7
<1>. QED  BY <1>5, <1>7, <1>8

-----------------------------------------------------------------------------
(* The scan of a search. *)

Unlooked(s, count) == [left |-> count, found |-> 0, seen |-> 0, last |-> s.lastFound]

\* A scan that goes on looking at those places, one after the other.
Scanning(scan, s, texts, count, places) ==
    /\ scan[0] = Unlooked(s, count)
    /\ \A k \in 1 .. Len(places) :
         scan[k] = Looked(s, scan[k - 1], texts[places[k]], places[k])

\* The scan is made one place after the other.
LEMMA ScansLook ==
    ASSUME NEW s, NEW texts, NEW count \in Nat, NEW places \in Seq(Nat)
    PROVE  Scanning(Scans(s, texts, count, places), s, texts, count, places)
<1>. DEFINE n == Len(places)
            Lasts == {s.lastFound} \cup {<<texts[places[k]]>> : k \in 1 .. n}
            All == [left : Nat, found : Nat, seen : Nat, last : Lasts]
            base == Unlooked(s, count)
            Next1(k, scan) == Looked(s, scan, texts[places[k]], places[k])
            F == [p \in (0 .. n) \X All |-> IF p[1] = 0 THEN base ELSE Next1(p[1], p[2])]
<1>1. n \in Nat /\ 0 <= n /\ 0 \in Int /\ n \in Int  OBVIOUS
<1>2. base \in All  BY DEF Unlooked
<1>3. ASSUME NEW k \in 1 .. n, NEW scan \in All PROVE Next1(k, scan) \in All
  <2>. DEFINE t == <<texts[places[k]]>>
  <2>1. places[k] \in Nat /\ t \in Lasts  OBVIOUS
  <2>2. CASE scan.left = 0 \/ ~Wants(s, texts[places[k]])
    BY <2>2 DEF Looked
  <2>3. CASE ~(scan.left = 0 \/ ~Wants(s, texts[places[k]])) /\ scan.last = t
    <3>1. Next1(k, scan) = [scan EXCEPT !.seen = places[k]]  BY <2>3 DEF Looked
    <3>. HIDE DEF Next1
    <3>. QED  BY <3>1, <2>1
  <2>4. CASE ~(scan.left = 0 \/ ~Wants(s, texts[places[k]])) /\ scan.last # t
    <3>1. Next1(k, scan) = [left |-> scan.left - 1, found |-> places[k], seen |-> places[k], last |-> t]
      BY <2>4 DEF Looked
    <3>2. scan.left - 1 \in Nat  BY <2>4
    <3>. HIDE DEF Next1
    <3>. QED  BY <3>1, <3>2, <2>1
  <2>. QED  BY <2>2, <2>3, <2>4
<1>. HIDE DEF Next1, All, base
<1>4. F \in [(0 .. n) \X All -> All]
  <2>1. ASSUME NEW p \in (0 .. n) \X All
        PROVE  (IF p[1] = 0 THEN base ELSE Next1(p[1], p[2])) \in All
    <3>1. p[1] \in 0 .. n /\ p[2] \in All  OBVIOUS
    <3>2. CASE p[1] = 0  BY <3>2, <1>2
    <3>3. CASE p[1] # 0
      <4>1. p[1] \in 1 .. n  BY <3>1, <3>3
      <4>. QED  BY <4>1, <3>1, <3>3, <1>3
    <3>. QED  BY <3>2, <3>3
  <2>. QED  BY <2>1
<1>5. \A e \in 0 .. n, w \in All : F[<<e, w>>] = IF e = 0 THEN base ELSE Next1(e, w)  OBVIOUS
<1>. HIDE DEF F
<1>6. PICK g : StepsUp(g, 0, n, All, base, F)  BY <1>1, <1>2, <1>4, StepsForward
<1>7. g = [k \in 0 .. n |-> IF k = 0 THEN base ELSE Next1(k, g[k - 1])]
  <2>1. ASSUME NEW k \in 0 .. n PROVE g[k] = IF k = 0 THEN base ELSE Next1(k, g[k - 1])
    <3>1. CASE k = 0  BY <1>6, <3>1 DEF StepsUp
    <3>2. CASE k # 0
      <4>1. k - 1 \in 0 .. n  BY <3>2
      <4>2. g[k - 1] \in All  BY <1>6, <4>1 DEF StepsUp
      <4>3. g[k] = F[<<k, g[k - 1]>>]  BY <1>6, <3>2 DEF StepsUp
      <4>. QED  BY <4>2, <4>3, <1>5, <3>2
    <3>. QED  BY <3>1, <3>2
  <2>2. g \in [0 .. n -> All]  BY <1>6 DEF StepsUp
  <2>. QED  BY <2>1, <2>2
<1>. DEFINE scans == Scans(s, texts, count, places)
<1>8. scans = CHOOSE f : f = [k \in 0 .. n |-> IF k = 0 THEN base ELSE Next1(k, f[k - 1])]
  BY DEF Scans, Next1, base, Unlooked
<1>9. scans = [k \in 0 .. n |-> IF k = 0 THEN base ELSE Next1(k, scans[k - 1])]
  <2>. HIDE DEF scans
  <2>. QED  BY <1>7, <1>8
<1>. HIDE DEF scans
<1>10. \A k \in 0 .. n : scans[k] = IF k = 0 THEN base ELSE Next1(k, scans[k - 1])  BY <1>9
<1>11. scans[0] = base /\ \A k \in 1 .. n : scans[k] = Next1(k, scans[k - 1])
  <2>1. 0 \in 0 .. n /\ \A k \in 1 .. n : k \in 0 .. n /\ k # 0  OBVIOUS
  <2>. QED  BY <2>1, <1>10
<1>. QED  BY <1>11 DEF Scanning, Next1, base, scans

\* Those of a set up to a number.
UpTo(S, k) == {i \in S : i <= k}

\* Those up to a number are finitely many.
LEMMA UpToFinite ==
    ASSUME NEW n \in Nat, NEW S, S \subseteq 1 .. n, NEW k \in 0 .. n
    PROVE  /\ UpTo(S, 0) = {} /\ UpTo(S, n) = S
           /\ IsFiniteSet(UpTo(S, k)) /\ Cardinality(UpTo(S, k)) \in Nat
<1>1. \A i \in S : i \in 1 .. n /\ i \in Nat /\ i > 0 /\ i <= n  OBVIOUS
<1>2. UpTo(S, 0) = {} /\ UpTo(S, n) = S
  <2>1. \A i \in S : ~(i <= 0) /\ i <= n  BY <1>1
  <2>. QED  BY <2>1 DEF UpTo
<1>3. IsFiniteSet(1 .. n)  BY FS_Interval
<1>4. UpTo(S, k) \subseteq 1 .. n  BY <1>1 DEF UpTo
<1>5. IsFiniteSet(UpTo(S, k))  BY <1>3, <1>4, FS_Subset
<1>6. Cardinality(UpTo(S, k)) \in Nat  BY <1>5, FS_CardinalityType
<1>. QED  BY <1>2, <1>5, <1>6

\* One more of the set is one more up to it.
LEMMA UpToOneMore ==
    ASSUME NEW n \in Nat, NEW S, S \subseteq 1 .. n, NEW k \in 0 .. n, k + 1 \in S
    PROVE  Cardinality(UpTo(S, k + 1)) = Cardinality(UpTo(S, k)) + 1
<1>1. \A i \in S : i <= k + 1 <=> i <= k \/ i = k + 1  OBVIOUS
<1>2. UpTo(S, k + 1) = UpTo(S, k) \cup {k + 1}  BY <1>1 DEF UpTo
<1>3. k + 1 \notin UpTo(S, k)  BY DEF UpTo
<1>4. IsFiniteSet(UpTo(S, k))  BY UpToFinite
<1>. QED  BY <1>2, <1>3, <1>4, FS_AddElement

\* A number that is not of the set adds none.
LEMMA UpToNoMore ==
    ASSUME NEW n \in Nat, NEW S, S \subseteq 1 .. n, NEW k \in 0 .. n, k + 1 \notin S
    PROVE  UpTo(S, k + 1) = UpTo(S, k)
<1>1. \A i \in S : i <= k + 1 <=> i <= k \/ i = k + 1  OBVIOUS
<1>. QED  BY <1>1 DEF UpTo

\* More numbers have no fewer below them, and one of the set has more than those
\* before it.
LEMMA UpToOrdered ==
    ASSUME NEW n \in Nat, NEW S, S \subseteq 1 .. n, NEW i \in 0 .. n, NEW k \in 0 .. n, i <= k
    PROVE  /\ Cardinality(UpTo(S, i)) <= Cardinality(UpTo(S, k))
           /\ i < k /\ k \in S => Cardinality(UpTo(S, i)) < Cardinality(UpTo(S, k))
<1>1. \A j \in S : j \in Nat  OBVIOUS
<1>2. UpTo(S, i) \subseteq UpTo(S, k)
  <2>1. \A j \in S : j <= i => j <= k  BY <1>1
  <2>. QED  BY <2>1 DEF UpTo
<1>3. IsFiniteSet(UpTo(S, k)) /\ Cardinality(UpTo(S, k)) \in Nat /\ Cardinality(UpTo(S, i)) \in Nat
  BY UpToFinite
<1>4. Cardinality(UpTo(S, i)) <= Cardinality(UpTo(S, k))  BY <1>2, <1>3, FS_Subset
<1>5. ASSUME i < k, k \in S PROVE Cardinality(UpTo(S, i)) < Cardinality(UpTo(S, k))
  <2>1. k \in UpTo(S, k) /\ k \notin UpTo(S, i)  BY <1>5 DEF UpTo
  <2>2. Cardinality(UpTo(S, i)) # Cardinality(UpTo(S, k))  BY <2>1, <1>2, <1>3, FS_Subset
  <2>. QED  BY <2>2, <1>3, <1>4
<1>. QED  BY <1>4, <1>5

\* The one with so many up to it is the only one.
LEMMA NthOnly ==
    ASSUME NEW n \in Nat, NEW S, S \subseteq 1 .. n, NEW i \in S
    PROVE  NthOf(S, Cardinality(UpTo(S, i))) = i
<1>. DEFINE c == Cardinality(UpTo(S, i))
            m == NthOf(S, c)
<1>1. \A j \in S : j \in 0 .. n  OBVIOUS
<1>2. m \in S /\ Cardinality(UpTo(S, m)) = c
  <2>1. \E j \in S : Cardinality({l \in S : l <= j}) = c  BY DEF UpTo
  <2>. QED  BY <2>1 DEF NthOf, UpTo
<1>3. m \in 0 .. n /\ i \in 0 .. n  BY <1>1, <1>2
<1>. HIDE DEF m
<1>4. c \in Nat  BY <1>3, UpToFinite
<1>5. ~(m < i)
  <2>1. m < i => Cardinality(UpTo(S, m)) < c
    <3>. HIDE DEF c
    <3>1. SUFFICES ASSUME m < i PROVE Cardinality(UpTo(S, m)) < Cardinality(UpTo(S, i))  BY DEF c
    <3>2. m <= i  BY <3>1, <1>3
    <3>. QED  BY <3>1, <3>2, <1>3, UpToOrdered
  <2>. QED  BY <2>1, <1>2, <1>4
<1>6. ~(i < m)
  <2>1. i < m => c < Cardinality(UpTo(S, m))
    <3>. HIDE DEF c
    <3>1. SUFFICES ASSUME i < m PROVE Cardinality(UpTo(S, i)) < Cardinality(UpTo(S, m))  BY DEF c
    <3>2. i <= m  BY <3>1, <1>3
    <3>. QED  BY <3>1, <3>2, <1>2, <1>3, UpToOrdered
  <2>. QED  BY <2>1, <1>2, <1>4
<1>. QED  BY <1>3, <1>5, <1>6 DEF m

-----------------------------------------------------------------------------
\* A scan that has found what it was to find, and one that has not yet, after k
\* places of which `heads' start a run and `matching' match.
Done(scan, count, places, heads, k) ==
    /\ scan.left = 0
    /\ \E i \in heads : /\ i <= k /\ Cardinality(UpTo(heads, i)) = count
                        /\ scan.found = places[i] /\ scan.seen = places[i]
Undone(scan, s, texts, count, places, heads, matching, k) ==
    /\ Cardinality(UpTo(heads, k)) < count
    /\ scan.left = count - Cardinality(UpTo(heads, k))
    /\ scan.found = LastOf(UpTo(heads, k), places)
    /\ scan.seen = LastOf(UpTo(matching, k), places)
    /\ scan.last = IF UpTo(matching, k) = {} THEN s.lastFound
                   ELSE <<texts[places[Max(UpTo(matching, k))]]>>

\* The greatest of those up to one of them is that one.
LEMMA LastOfUpTo ==
    ASSUME NEW n \in Nat, NEW S, S \subseteq 1 .. n, NEW k \in S, NEW places
    PROVE  UpTo(S, k) # {} /\ Max(UpTo(S, k)) = k /\ LastOf(UpTo(S, k), places) = places[k]
<1>1. \A i \in S : i \in 1 .. n /\ i \in Int  OBVIOUS
<1>2. UpTo(S, k) \subseteq 1 .. n /\ k \in UpTo(S, k) /\ \A i \in UpTo(S, k) : i <= k
  <2>1. \A i \in UpTo(S, k) : i \in S /\ i <= k  BY DEF UpTo
  <2>2. k \in UpTo(S, k)  BY <1>1 DEF UpTo
  <2>. QED  BY <2>1, <2>2, <1>1
<1>3. n \in Int /\ 1 \in Int  OBVIOUS
<1>4. Max(UpTo(S, k)) = k  BY <1>2, <1>3, MaxOnly
<1>. QED  BY <1>2, <1>4 DEF LastOf

\* A place looked at takes a scan from being right after the places before it
\* to being right after it.
LEMMA LookRight ==
    ASSUME NEW s, NEW texts, NEW count \in Nat, count > 0, NEW places \in Seq(Nat),
           NEW k \in 0 .. Len(places) - 1, NEW scan,
           \/ Done(scan, count, places, Heads(s, texts, places), k)
           \/ Undone(scan, s, texts, count, places, Heads(s, texts, places),
                     Matching(s, texts, places), k),
           NEW looked, looked = Looked(s, scan, texts[places[k + 1]], places[k + 1])
    PROVE  \/ Done(looked, count, places, Heads(s, texts, places), k + 1)
           \/ Undone(looked, s, texts, count, places, Heads(s, texts, places),
                     Matching(s, texts, places), k + 1)
<1>. DEFINE n == Len(places)
            H == Heads(s, texts, places)
            M == Matching(s, texts, places)
            i == k + 1
            t == <<texts[places[i]]>>
<1>1. n \in Nat /\ i \in 1 .. n /\ k \in 0 .. n  OBVIOUS
<1>2. M \subseteq 1 .. n /\ H \subseteq M  BY DEF Matching, Heads
<1>3. i \in M <=> Wants(s, texts[places[i]])
  <2>1. i \in DOMAIN places  BY <1>1
  <2>. HIDE DEF i
  <2>. QED  BY <2>1 DEF Matching
<1>4. i \in H <=> i \in M /\ ~Repeats(s, texts, places, i)  BY DEF Heads
<1>5. {j \in M : j < i} = UpTo(M, k)
  <2>1. \A j \in M : j \in Nat  BY <1>2
  <2>2. \A j \in M : j < i <=> j <= k  BY <2>1
  <2>. QED  BY <2>2 DEF UpTo
<1>6. Repeats(s, texts, places, i) =
        (t = IF UpTo(M, k) = {} THEN s.lastFound ELSE <<texts[places[Max(UpTo(M, k))]]>>)
  BY <1>5 DEF Repeats
<1>7. H \subseteq 1 .. n  BY <1>2
<1>. HIDE DEF H, M, n, i
<1>0. i = k + 1 /\ i \in Nat /\ k \in Nat  BY <1>1 DEF i, n
<1>8. i \notin H => UpTo(H, i) = UpTo(H, k)
  <2>1. k + 1 \notin H => UpTo(H, k + 1) = UpTo(H, k)  BY <1>1, <1>7, UpToNoMore
  <2>. QED  BY <2>1, <1>0
<1>9. i \notin M => UpTo(M, i) = UpTo(M, k)
  <2>1. k + 1 \notin M => UpTo(M, k + 1) = UpTo(M, k)  BY <1>1, <1>2, UpToNoMore
  <2>. QED  BY <2>1, <1>0
<1>10. i \in H => Cardinality(UpTo(H, i)) = Cardinality(UpTo(H, k)) + 1
  <2>1. k + 1 \in H => Cardinality(UpTo(H, k + 1)) = Cardinality(UpTo(H, k)) + 1
    BY <1>1, <1>7, UpToOneMore
  <2>. QED  BY <2>1, <1>0
<1>11. Cardinality(UpTo(H, k)) \in Nat  BY <1>1, <1>7, UpToFinite
<1>12. i \in M => UpTo(M, i) # {} /\ Max(UpTo(M, i)) = i /\ LastOf(UpTo(M, i), places) = places[i]
  BY <1>1, <1>2, LastOfUpTo
<1>13. i \in H => LastOf(UpTo(H, i), places) = places[i]  BY <1>1, <1>7, LastOfUpTo
<1>14. CASE Done(scan, count, places, H, k)
  <2>1. scan.left = 0  BY <1>14 DEF Done
  <2>2. looked = scan  BY <2>1 DEF Looked, i
  <2>3. \A j \in H : j \in Nat  BY <1>1, <1>7, PlacesAreNat
  <2>4. Done(looked, count, places, H, i)  BY <1>0, <1>14, <2>2, <2>3 DEF Done
  <2>. QED  BY <2>4 DEF H, i
<1>15. CASE Undone(scan, s, texts, count, places, H, M, k)
  <2>1. scan.left # 0  BY <1>15, <1>11 DEF Undone
  <2>2. CASE ~Wants(s, texts[places[i]])
    <3>1. looked = scan /\ i \notin M /\ i \notin H  BY <2>2, <1>3, <1>4 DEF Looked, i
    <3>2. Undone(looked, s, texts, count, places, H, M, i)  BY <3>1, <1>8, <1>9, <1>15 DEF Undone
    <3>. QED  BY <3>2 DEF H, M, i
  <2>3. CASE Wants(s, texts[places[i]]) /\ scan.last = t
    <3>1. looked = [scan EXCEPT !.seen = places[i]]  BY <2>1, <2>3 DEF Looked, i
    <3>2. i \in M /\ i \notin H  BY <2>3, <1>3, <1>4, <1>6, <1>15 DEF Undone
    <3>3. looked.left = scan.left /\ looked.found = scan.found /\ looked.last = t
      BY <3>1, <2>3
    <3>4. looked.seen = places[i]  BY <3>1, <1>15 DEF Undone
    <3>5. Undone(looked, s, texts, count, places, H, M, i)
      BY <3>2, <3>3, <3>4, <1>8, <1>12, <1>15 DEF Undone
    <3>. QED  BY <3>5 DEF H, M, i
  <2>4. CASE Wants(s, texts[places[i]]) /\ scan.last # t
    <3>1. looked = [left |-> scan.left - 1, found |-> places[i], seen |-> places[i], last |-> t]
      BY <2>1, <2>4 DEF Looked, i
    <3>2. i \in M /\ i \in H  BY <2>4, <1>3, <1>4, <1>6, <1>15 DEF Undone
    <3>3. scan.left = count - Cardinality(UpTo(H, k)) /\ Cardinality(UpTo(H, k)) < count
      BY <1>15 DEF Undone
    <3>4. looked.left = count - Cardinality(UpTo(H, i)) /\ Cardinality(UpTo(H, i)) <= count
          /\ Cardinality(UpTo(H, i)) \in Nat
      <4>1. looked.left = scan.left - 1  BY <3>1
      <4>2. Cardinality(UpTo(H, i)) = Cardinality(UpTo(H, k)) + 1  BY <3>2, <1>10
      <4>. QED  BY <4>1, <4>2, <3>3, <1>11
    <3>5. CASE Cardinality(UpTo(H, i)) = count
      <4>1. looked.left = 0  BY <3>4, <3>5
      <4>3. looked.found = places[i] /\ looked.seen = places[i]  BY <3>1
      <4>2. Done(looked, count, places, H, i)  BY <4>1, <4>3, <3>2, <3>5, <1>0 DEF Done
      <4>. QED  BY <4>2 DEF H, i
    <3>6. CASE Cardinality(UpTo(H, i)) # count
      <4>1. Cardinality(UpTo(H, i)) < count  BY <3>4, <3>6
      <4>2. looked.found = places[i] /\ looked.seen = places[i] /\ looked.last = t  BY <3>1
      <4>3. Undone(looked, s, texts, count, places, H, M, i)
        BY <4>1, <4>2, <3>2, <3>4, <1>12, <1>13 DEF Undone
      <4>. QED  BY <4>3 DEF H, M, i
    <3>. QED  BY <3>5, <3>6
  <2>. QED  BY <2>2, <2>3, <2>4
<1>. QED  BY <1>14, <1>15 DEF H, M, i

\* A scan is right after every place.
LEMMA ScanRight ==
    ASSUME NEW s, NEW texts, NEW count \in Nat, count > 0, NEW places \in Seq(Nat)
    PROVE  \A k \in 0 .. Len(places) :
             LET scan == Scans(s, texts, count, places)[k] IN
             \/ Done(scan, count, places, Heads(s, texts, places), k)
             \/ Undone(scan, s, texts, count, places, Heads(s, texts, places),
                       Matching(s, texts, places), k)
<1>. DEFINE n == Len(places)
            scans == Scans(s, texts, count, places)
            H == Heads(s, texts, places)
            M == Matching(s, texts, places)
            Right(k) == \/ Done(scans[k], count, places, H, k)
                        \/ Undone(scans[k], s, texts, count, places, H, M, k)
            Bad == {k \in 0 .. n : ~Right(k)}
<1>1. n \in Nat  OBVIOUS
<1>2. M \subseteq 1 .. n /\ H \subseteq 1 .. n  BY DEF Matching, Heads
<1>3. scans[0] = Unlooked(s, count)
      /\ \A k \in 1 .. n : scans[k] = Looked(s, scans[k - 1], texts[places[k]], places[k])
  BY ScansLook DEF Scanning
<1>4. Right(0)
  <2>. HIDE DEF scans, H, M, n
  <2>1. 0 \in 0 .. n  BY <1>1
  <2>2. UpTo(H, 0) = {} /\ UpTo(M, 0) = {}  BY <1>1, <1>2, <2>1, UpToFinite
  <2>3. Cardinality(UpTo(H, 0)) = 0  BY <2>2, FS_EmptySet
  <2>4. Undone(scans[0], s, texts, count, places, H, M, 0)
    BY <1>3, <2>2, <2>3 DEF Unlooked, Undone, LastOf
  <2>. QED  BY <2>4
<1>5. ASSUME NEW k \in 0 .. n - 1, Right(k) PROVE Right(k + 1)
  <2>1. k + 1 \in 1 .. n /\ (k + 1) - 1 = k  BY <1>1
  <2>2. scans[k + 1] = Looked(s, scans[k], texts[places[k + 1]], places[k + 1])
    <3>. HIDE DEF scans, n
    <3>1. scans[k + 1] = Looked(s, scans[(k + 1) - 1], texts[places[k + 1]], places[k + 1])
      BY <1>3, <2>1
    <3>. QED  BY <3>1, <2>1
  <2>. HIDE DEF scans
  <2>. QED  BY <1>5, <2>2, LookRight
<1>. HIDE DEF Right
<1>6. SUFFICES ASSUME Bad # {} PROVE FALSE
  BY DEF Right
<1>7. Bad \subseteq Nat  OBVIOUS
<1>8. PICK k \in Bad : \A m \in Bad : k <= m  BY <1>6, <1>7, LeastOfNats
<1>9. k # 0 /\ k \in 0 .. n  BY <1>4
<1>10. k - 1 \in 0 .. n - 1 /\ k - 1 \notin Bad /\ (k - 1) + 1 = k  BY <1>8, <1>9
<1>11. Right(k - 1)  BY <1>10
<1>12. Right((k - 1) + 1)  BY <1>5, <1>10, <1>11
<1>. QED  BY <1>9, <1>10, <1>12, <1>8

\* From a search at a place, the places ahead are a list of places.
LEMMA AheadPlaces ==
    ASSUME NEW s, s.at \in Nat, s.end \in Nat, NEW up \in BOOLEAN
    PROVE  /\ Ahead(s, up) \in Seq(Nat)
           /\ \A k \in DOMAIN Ahead(s, up) : Ahead(s, up)[k] > 0 /\ Ahead(s, up)[k] < s.end
<1>. DEFINE newest == Min({s.at, s.end})
            furthest == Max({0, s.end - 1 - s.at})
<1>1. newest \in Nat /\ newest <= s.end
  <2>1. PICK b \in Nat : b = s.at + s.end  OBVIOUS
  <2>2. {s.at, s.end} \subseteq 0 .. b /\ 0 \in Int /\ b \in Int  BY <2>1
  <2>3. newest \in {s.at, s.end} /\ \A y \in {s.at, s.end} : newest <= y  BY <2>2, MinIs
  <2>. QED  BY <2>3
<1>2. furthest \in Nat /\ (furthest = 0 \/ furthest = s.end - 1 - s.at)
  <2>1. PICK a \in Int, b \in Int : a = 0 - s.at - 1 /\ b = s.end  OBVIOUS
  <2>2. {0, s.end - 1 - s.at} \subseteq a .. b  BY <2>1
  <2>3. furthest \in {0, s.end - 1 - s.at} /\ \A y \in {0, s.end - 1 - s.at} : y <= furthest
    BY <2>2, MaxIs
  <2>4. furthest \in Int /\ 0 <= furthest  BY <2>3
  <2>. QED  BY <2>3, <2>4
<1>. HIDE DEF newest, furthest
<1>3. CASE up
  <2>1. Ahead(s, up) = [i \in 1 .. newest - 1 |-> newest - i]  BY <1>3 DEF Ahead, newest
  <2>2. CASE newest = 0
    <3>1. 1 .. newest - 1 = 1 .. 0 /\ \A i \in 1 .. newest - 1 : FALSE  BY <2>2
    <3>2. Ahead(s, up) = << >>  BY <2>1, <3>1
    <3>. QED  BY <3>2
  <2>3. CASE newest # 0
    <3>1. newest - 1 \in Nat  BY <1>1, <2>3
    <3>2. \A i \in 1 .. newest - 1 : newest - i \in Nat /\ newest - i > 0 /\ newest - i < s.end
      BY <1>1
    <3>3. Ahead(s, up) \in Seq(Nat) /\ DOMAIN Ahead(s, up) = 1 .. newest - 1
      BY <2>1, <3>1, <3>2
    <3>. QED  BY <2>1, <3>2, <3>3
  <2>. QED  BY <2>2, <2>3
<1>4. CASE ~up
  <2>1. Ahead(s, up) = [i \in 1 .. furthest |-> s.at + i]  BY <1>4 DEF Ahead, furthest
  <2>2. \A i \in 1 .. furthest : s.at + i \in Nat /\ s.at + i > 0 /\ s.at + i < s.end  BY <1>2
  <2>3. Ahead(s, up) \in Seq(Nat) /\ DOMAIN Ahead(s, up) = 1 .. furthest  BY <1>2, <2>1, <2>2
  <2>. QED  BY <2>1, <2>2, <2>3
<1>. QED  BY <1>3, <1>4

\* The next match is the one promised.
LEMMA NextMatchPromised ==
    ASSUME NEW s, s.at \in Nat, s.end \in Nat, NEW texts, NEW count \in Nat, count > 0,
           NEW up \in BOOLEAN
    PROVE  NextMatch(s, texts, count, up) = PromisedMatch(s, texts, count, up)
<1>. DEFINE places == Ahead(s, up)
            n == Len(places)
            scan == Scans(s, texts, count, places)[n]
            H == Heads(s, texts, places)
            M == Matching(s, texts, places)
<1>1. places \in Seq(Nat) /\ n \in Nat /\ n \in 0 .. n  BY AheadPlaces
<1>2. M \subseteq 1 .. n /\ H \subseteq 1 .. n  BY <1>1 DEF Matching, Heads
<1>3. scan = Scan(s, texts, count, up)  BY DEF Scan
<1>4. Done(scan, count, places, H, n) \/ Undone(scan, s, texts, count, places, H, M, n)
  <2>. HIDE DEF places
  <2>. QED  BY <1>1, ScanRight
<1>5. UpTo(H, n) = H /\ UpTo(M, n) = M  BY <1>1, <1>2, UpToFinite
<1>6. PromisedMatch(s, texts, count, up) =
        IF count <= Cardinality(H) THEN places[NthOf(H, count)]
        ELSE IF ~StartedPastItsEntries(s) THEN LastOf(M, places)
        ELSE IF ~up /\ GivesBackStart(s) THEN 0
        ELSE LastOf(H, places)
  BY DEF PromisedMatch
<1>7. NextMatch(s, texts, count, up) =
        IF ~StartedPastItsEntries(s) THEN scan.seen
        ELSE IF up \/ scan.left = 0 \/ ~GivesBackStart(s) THEN scan.found
        ELSE 0
  BY <1>3 DEF NextMatch
<1>. HIDE DEF places, n, scan, H, M
<1>8. Cardinality(H) \in Nat
  <2>1. Cardinality(UpTo(H, n)) \in Nat  BY <1>1, <1>2, UpToFinite
  <2>. QED  BY <2>1, <1>5
<1>9. CASE Done(scan, count, places, H, n)
  <2>1. PICK i \in H : Cardinality(UpTo(H, i)) = count /\ scan.found = places[i] /\ scan.seen = places[i]
    BY <1>9 DEF Done
  <2>2. NthOf(H, count) = i  BY <1>1, <1>2, <2>1, NthOnly
  <2>3. count <= Cardinality(H)
    <3>1. i \in 0 .. n /\ i <= n  BY <1>2
    <3>2. Cardinality(UpTo(H, i)) <= Cardinality(UpTo(H, n))  BY <1>1, <1>2, <3>1, UpToOrdered
    <3>. QED  BY <3>2, <2>1, <1>5
  <2>4. scan.left = 0  BY <1>9 DEF Done
  <2>. QED  BY <1>6, <1>7, <2>1, <2>2, <2>3, <2>4
<1>10. CASE Undone(scan, s, texts, count, places, H, M, n)
  <2>1. Cardinality(H) < count /\ scan.left # 0 /\ scan.found = LastOf(H, places)
        /\ scan.seen = LastOf(M, places)
    BY <1>10, <1>5, <1>8 DEF Undone
  <2>2. ~(count <= Cardinality(H))  BY <2>1, <1>8
  <2>. QED  BY <1>6, <1>7, <2>1, <2>2
<1>. QED  BY <1>4, <1>9, <1>10

-----------------------------------------------------------------------------
(* The lines of a text and the columns of a line. *)

\* The lines of a text start at its start or after a newline, and end at its end
\* or before one.
LEMMA LineEdges ==
    ASSUME NEW text \in Texts
    PROVE  /\ Starts(text) \subseteq 0 .. Len(text) /\ 0 \in Starts(text)
           /\ Ends(text) \subseteq 0 .. Len(text) /\ Len(text) \in Ends(text)
           /\ \A p \in 1 .. Len(text) : p \in Starts(text) => p - 1 \in Ends(text)
           /\ \A p \in 0 .. Len(text) - 1 : p \in Ends(text) => p + 1 \in Starts(text)
<1>. DEFINE n == Len(text)
            lineFeeds == {i \in DOMAIN text : text[i] = Newline}
<1>1. n \in Nat /\ DOMAIN text = 1 .. n  BY DEF Texts
<1>2. lineFeeds \subseteq 1 .. n  BY <1>1
<1>3. Starts(text) = {0} \cup lineFeeds  BY DEF Starts
<1>4. Ends(text) = {n} \cup {i - 1 : i \in lineFeeds}  BY DEF Ends
<1>. HIDE DEF n, lineFeeds
<1>6. Starts(text) \subseteq 0 .. n /\ 0 \in Starts(text)  BY <1>1, <1>2, <1>3
<1>7. \A i \in lineFeeds : i \in 1 .. n /\ i - 1 \in 0 .. n - 1  BY <1>1, <1>2
<1>8. Ends(text) \subseteq 0 .. n /\ n \in Ends(text)
  <2>1. ASSUME NEW e \in Ends(text) PROVE e \in 0 .. n
    <3>1. e = n \/ \E i \in lineFeeds : e = i - 1  BY <1>4
    <3>. QED  BY <3>1, <1>1, <1>7
  <2>. QED  BY <2>1, <1>4
<1>9. ASSUME NEW p \in 1 .. n
      PROVE  p \in Starts(text) => p - 1 \in Ends(text)
  <2>1. p \in Starts(text) <=> p \in lineFeeds  BY <1>3
  <2>2. p \in lineFeeds => p - 1 \in Ends(text)  BY <1>4
  <2>. QED  BY <2>1, <2>2
<1>10. ASSUME NEW p \in 0 .. n - 1, p \in Ends(text) PROVE p + 1 \in Starts(text)
  <2>1. PICK i \in lineFeeds : p = i - 1  BY <1>1, <1>4, <1>10
  <2>2. p + 1 = i  BY <2>1, <1>7
  <2>. QED  BY <2>2, <1>3
<1>. QED  BY <1>6, <1>8, <1>9, <1>10 DEF n

\* The line of a point starts at the nearest start before it and ends at the
\* nearest end after it.
LEMMA LineAround ==
    ASSUME NEW text \in Texts, NEW p \in 0 .. Len(text)
    PROVE  /\ LineStart(text, p) \in Starts(text) /\ LineStart(text, p) \in 0 .. p
           /\ \A s \in Starts(text) : s <= p => s <= LineStart(text, p)
           /\ LineEnd(text, p) \in Ends(text) /\ LineEnd(text, p) \in p .. Len(text)
           /\ \A e \in Ends(text) : e >= p => LineEnd(text, p) <= e
<1>. DEFINE n == Len(text)
            before == {s \in Starts(text) : s <= p}
            after == {e \in Ends(text) : e >= p}
<1>1. n \in Nat /\ p \in 0 .. n /\ p \in Int /\ n \in Int /\ 0 \in Int  BY DEF Texts
<1>2. Starts(text) \subseteq 0 .. n /\ 0 \in Starts(text) /\ Ends(text) \subseteq 0 .. n /\ n \in Ends(text)
  BY LineEdges
<1>3. before \subseteq 0 .. p /\ 0 \in before
  <2>1. \A s \in Starts(text) : s \in 0 .. n  BY <1>2
  <2>. QED  BY <1>1, <1>2, <2>1
<1>4. after \subseteq p .. n /\ n \in after
  <2>1. \A e \in Ends(text) : e \in 0 .. n  BY <1>2
  <2>. QED  BY <1>1, <1>2, <2>1
<1>5. Max(before) \in before /\ \A s \in before : s <= Max(before)  BY <1>1, <1>3, MaxIs
<1>6. Min(after) \in after /\ \A e \in after : Min(after) <= e  BY <1>1, <1>4, MinIs
<1>7. LineStart(text, p) = Max(before) /\ LineEnd(text, p) = Min(after)  BY DEF LineStart, LineEnd
<1>. HIDE DEF n
<1>8. /\ LineStart(text, p) \in Starts(text) /\ LineStart(text, p) \in 0 .. p
      /\ \A s \in Starts(text) : s <= p => s <= LineStart(text, p)
  BY <1>3, <1>5, <1>7
<1>9. /\ LineEnd(text, p) \in Ends(text) /\ LineEnd(text, p) \in p .. n
      /\ \A e \in Ends(text) : e >= p => LineEnd(text, p) <= e
  BY <1>4, <1>6, <1>7
<1>. QED  BY <1>8, <1>9 DEF n

\* The points from a line's start to its end are on that line.
LEMMA OnLine ==
    ASSUME NEW text \in Texts, NEW start \in Starts(text), NEW p \in start .. LineEnd(text, start)
    PROVE  /\ p \in 0 .. Len(text) /\ LineStart(text, p) = start
           /\ LineEnd(text, p) = LineEnd(text, start)
<1>1. start \in 0 .. Len(text) /\ Len(text) \in Nat  BY LineEdges DEF Texts
<1>2. LineEnd(text, start) \in start .. Len(text) /\ LineEnd(text, start) \in Ends(text)
      /\ \A e \in Ends(text) : e >= start => LineEnd(text, start) <= e
  BY <1>1, LineAround
<1>3. p \in 0 .. Len(text)  BY <1>1, <1>2
<1>4. /\ LineStart(text, p) \in Starts(text) /\ LineStart(text, p) \in 0 .. p
      /\ \A s \in Starts(text) : s <= p => s <= LineStart(text, p)
      /\ LineEnd(text, p) \in Ends(text) /\ LineEnd(text, p) \in p .. Len(text)
      /\ \A e \in Ends(text) : e >= p => LineEnd(text, p) <= e
  BY <1>3, LineAround
<1>5. LineEnd(text, p) = LineEnd(text, start)
  <2>1. LineEnd(text, p) <= LineEnd(text, start)  BY <1>1, <1>2, <1>4
  <2>2. LineEnd(text, start) <= LineEnd(text, p)  BY <1>1, <1>2, <1>3, <1>4
  <2>. QED  BY <2>1, <2>2, <1>1, <1>2, <1>3, <1>4
<1>6. LineStart(text, p) = start
  <2>. DEFINE s == LineStart(text, p)
  <2>1. start <= s /\ s \in Int /\ start \in Int  BY <1>1, <1>3, <1>4
  <2>2. SUFFICES ASSUME start < s PROVE FALSE  BY <2>1
  <2>3. s \in 1 .. Len(text) /\ s \in Starts(text)  BY <1>1, <1>3, <1>4, <2>2
  <2>4. s - 1 \in Ends(text)  BY <2>3, LineEdges
  <2>5. s - 1 >= start  BY <2>1, <2>2
  <2>6. LineEnd(text, start) <= s - 1  BY <1>2, <2>4, <2>5
  <2>. QED  BY <2>6, <1>1, <1>2, <1>3, <1>4
<1>. QED  BY <1>3, <1>5, <1>6

\* A character ends no earlier than it starts.
LEMMA AdvanceGrows ==
    ASSUME NEW col \in Nat, NEW c \in Chars
    PROVE  Advance(col, c) \in Nat /\ Advance(col, c) >= col
<1>1. col % 8 \in 0 .. 7  OBVIOUS
<1>2. WidthOf[c] \in Nat  BY LinesConstantsOK
<1>3. CASE c = Tab  BY <1>1, <1>3 DEF Advance
<1>4. CASE c # Tab  BY <1>2, <1>4 DEF Advance
<1>. QED  BY <1>3, <1>4

\* The columns of a line's points do not go down.
LEMMA ColumnsGrow ==
    ASSUME NEW text \in Texts, NEW start \in 0 .. Len(text), NEW prompt \in Nat
    PROVE  /\ Columns(text, start, prompt) \in [start .. Len(text) -> Nat]
           /\ \A p \in start .. Len(text), q \in start .. Len(text) :
                p <= q => Columns(text, start, prompt)[p] <= Columns(text, start, prompt)[q]
<1>. DEFINE n == Len(text)
            base == IF start = 0 THEN prompt ELSE 0
            F == [w \in (start .. n) \X Nat |-> IF w[1] = start THEN 0 ELSE Advance(w[2], text[w[1]])]
            cols == Columns(text, start, prompt)
<1>1. n \in Nat /\ start \in Int /\ n \in Int /\ start <= n /\ start \in Nat  BY DEF Texts
<1>2. base \in Nat  OBVIOUS
<1>3. \A p \in start .. n : p # start => p \in 1 .. n /\ text[p] \in Chars
  <2>1. ASSUME NEW p \in start .. n, p # start PROVE p \in 1 .. n /\ text[p] \in Chars
    <3>1. p \in 1 .. n  BY <1>1, <2>1
    <3>. QED  BY <3>1 DEF Texts
  <2>. QED  BY <2>1
<1>4. F \in [(start .. n) \X Nat -> Nat]
  <2>1. ASSUME NEW w \in (start .. n) \X Nat
        PROVE  (IF w[1] = start THEN 0 ELSE Advance(w[2], text[w[1]])) \in Nat
    <3>1. w[1] \in start .. n /\ w[2] \in Nat  OBVIOUS
    <3>. QED  BY <3>1, <1>3, AdvanceGrows
  <2>. QED  BY <2>1
<1>5. \A p \in start .. n, w \in Nat : F[<<p, w>>] = IF p = start THEN 0 ELSE Advance(w, text[p])
  OBVIOUS
<1>. HIDE DEF F, base
<1>6. PICK g : StepsUp(g, start, n, Nat, base, F)  BY <1>1, <1>2, <1>4, StepsForward
<1>7. g = [p \in start .. n |-> IF p = start THEN base ELSE Advance(g[p - 1], text[p])]
  <2>1. ASSUME NEW p \in start .. n
        PROVE  g[p] = IF p = start THEN base ELSE Advance(g[p - 1], text[p])
    <3>1. CASE p = start  BY <1>6, <3>1 DEF StepsUp
    <3>2. CASE p # start
      <4>1. p - 1 \in start .. n  BY <3>2, <1>1
      <4>2. g[p - 1] \in Nat  BY <1>6, <4>1 DEF StepsUp
      <4>3. g[p] = F[<<p, g[p - 1]>>]  BY <1>6, <3>2 DEF StepsUp
      <4>. QED  BY <4>2, <4>3, <1>5, <3>2
    <3>. QED  BY <3>1, <3>2
  <2>2. g \in [start .. n -> Nat]  BY <1>6 DEF StepsUp
  <2>. QED  BY <2>1, <2>2
<1>8. cols = CHOOSE f : f = [p \in start .. n |-> IF p = start THEN base ELSE Advance(f[p - 1], text[p])]
  BY DEF Columns, base
<1>. HIDE DEF cols
<1>9. cols = [p \in start .. n |-> IF p = start THEN base ELSE Advance(cols[p - 1], text[p])]
  BY <1>7, <1>8
<1>10. \A p \in start .. n : cols[p] = IF p = start THEN base ELSE Advance(cols[p - 1], text[p])
  BY <1>9
<1>11. \A p \in start .. n : p # start => p - 1 \in start .. n  BY <1>1
<1>12. \A p \in start .. n : cols[p] \in Nat
  <2>. DEFINE Bad == {p \in start .. n : cols[p] \notin Nat}
  <2>1. SUFFICES ASSUME Bad # {} PROVE FALSE  OBVIOUS
  <2>2. Bad \subseteq Nat  BY <1>1
  <2>3. PICK p \in Bad : \A q \in Bad : p <= q  BY <2>1, <2>2, LeastOfNats
  <2>4. p # start  BY <1>2, <1>10
  <2>5. p - 1 \in start .. n /\ p - 1 \notin Bad  BY <1>1, <1>11, <2>3, <2>4
  <2>6. cols[p - 1] \in Nat /\ cols[p] = Advance(cols[p - 1], text[p])  BY <1>10, <2>4, <2>5
  <2>. QED  BY <2>4, <2>6, <1>3, AdvanceGrows
<1>13. \A p \in start .. n : p # start => cols[p - 1] <= cols[p]
  BY <1>3, <1>10, <1>11, <1>12, AdvanceGrows
<1>14. \A q \in start .. n : \A p \in start .. q : cols[p] <= cols[q]
  <2>. DEFINE Bad == {q \in start .. n : ~ \A p \in start .. q : cols[p] <= cols[q]}
  <2>1. SUFFICES ASSUME Bad # {} PROVE FALSE  OBVIOUS
  <2>2. Bad \subseteq Nat  BY <1>1
  <2>3. PICK q \in Bad : \A r \in Bad : q <= r  BY <2>1, <2>2, LeastOfNats
  <2>4. PICK p \in start .. q : ~(cols[p] <= cols[q])  BY <2>3
  <2>5. p # q /\ q # start /\ p \in start .. q - 1
    <3>1. cols[q] <= cols[q]  BY <1>12, <2>3
    <3>. QED  BY <2>3, <2>4, <3>1, <1>1
  <2>6. q - 1 \in start .. n /\ q - 1 \notin Bad  BY <1>1, <1>11, <2>3, <2>5
  <2>7. cols[p] <= cols[q - 1]  BY <2>5, <2>6
  <2>8. cols[q - 1] <= cols[q]  BY <1>13, <2>5
  <2>9. cols[p] \in Nat /\ cols[q - 1] \in Nat /\ cols[q] \in Nat  BY <1>1, <1>12, <2>3, <2>5, <2>6
  <2>. QED  BY <2>4, <2>7, <2>8, <2>9
<1>15. cols \in [start .. n -> Nat]  BY <1>9, <1>12
<1>16. \A p \in start .. n, q \in start .. n : p <= q => cols[p] <= cols[q]
  <2>1. \A p \in start .. n, q \in start .. n : p <= q => p \in start .. q  BY <1>1
  <2>. QED  BY <2>1, <1>14
<1>. QED  BY <1>15, <1>16 DEF cols

-----------------------------------------------------------------------------
(* Up and down by lines. *)

\* The row of a point: how many lines start before it.
Row(text, p) == Cardinality(UpTo(Starts(text), p))
Rows(text) == Cardinality(Starts(text))
RowAfter(row, n, up) == IF up THEN row - n ELSE row + n

\* One line up or down.
OneLine(text, p, up, c) == IF up THEN Up(text, p, c, Prompt) ELSE Down(text, p, c, Prompt)

\* A point is on one of the rows, and those of a row are on one line.
LEMMA RowIs ==
    ASSUME NEW text \in Texts, NEW p \in 0 .. Len(text)
    PROVE  /\ IsFiniteSet(Starts(text)) /\ IsFiniteSet(UpTo(Starts(text), p))
           /\ Row(text, p) \in 1 .. Rows(text) /\ Rows(text) \in Nat
<1>. DEFINE S == Starts(text)
            U == UpTo(S, p)
<1>1. S \subseteq 0 .. Len(text) /\ 0 \in S /\ Len(text) \in Nat  BY LineEdges DEF Texts
<1>2. IsFiniteSet(S)
  <2>1. IsFiniteSet(0 .. Len(text))  BY <1>1, FS_Interval
  <2>. QED  BY <2>1, <1>1, FS_Subset
<1>3. U \subseteq S /\ 0 \in U  BY <1>1 DEF UpTo
<1>4. IsFiniteSet(U) /\ Cardinality(U) <= Cardinality(S)  BY <1>2, <1>3, FS_Subset
<1>5. Cardinality(U) \in Nat /\ Cardinality(S) \in Nat  BY <1>2, <1>4, FS_CardinalityType
<1>6. Cardinality(U) # 0  BY <1>3, <1>4, FS_EmptySet
<1>. HIDE DEF S, U
<1>7. Cardinality(U) \in 1 .. Cardinality(S)  BY <1>4, <1>5, <1>6
<1>. QED  BY <1>2, <1>4, <1>5, <1>7 DEF S, U, Row, Rows

\* Points of the same row have the same line.
LEMMA SameRow ==
    ASSUME NEW text \in Texts, NEW p \in 0 .. Len(text), NEW q \in 0 .. Len(text),
           Row(text, p) = Row(text, q)
    PROVE  LineStart(text, p) = LineStart(text, q)
<1>1. SUFFICES ASSUME NEW a \in 0 .. Len(text), NEW b \in 0 .. Len(text), a <= b,
                      Row(text, a) = Row(text, b)
               PROVE  LineStart(text, a) = LineStart(text, b)
  BY DEF Texts
<1>2. \A s \in Starts(text) : s \in Nat  BY LineEdges
<1>3. UpTo(Starts(text), a) \subseteq UpTo(Starts(text), b)
  <2>1. \A s \in Starts(text) : s <= a => s <= b  BY <1>1, <1>2
  <2>. QED  BY <2>1 DEF UpTo
<1>4. IsFiniteSet(UpTo(Starts(text), b))  BY RowIs
<1>5. UpTo(Starts(text), a) = UpTo(Starts(text), b)  BY <1>1, <1>3, <1>4, FS_Subset DEF Row
<1>. QED  BY <1>5 DEF UpTo, LineStart

\* A column of a line is on it.
LEMMA AtColumnIn ==
    ASSUME NEW text \in Texts, NEW start \in Starts(text), NEW c
    PROVE  AtColumn(text, start, c, Prompt) \in start .. LineEnd(text, start)
<1>. DEFINE within == {p \in start .. LineEnd(text, start) : Column(text, p, Prompt) <= c}
<1>1. start \in 0 .. Len(text) /\ Len(text) \in Nat  BY LineEdges DEF Texts
<1>2. LineEnd(text, start) \in start .. Len(text)  BY <1>1, LineAround
<1>3. start \in Int /\ LineEnd(text, start) \in Int  BY <1>1, <1>2
<1>4. within \subseteq start .. LineEnd(text, start)  OBVIOUS
<1>5. AtColumn(text, start, c, Prompt) = IF within = {} THEN start ELSE Max(within)
  BY DEF AtColumn
<1>. HIDE DEF within
<1>6. within # {} => Max(within) \in within  BY <1>3, <1>4, MaxIs
<1>7. start \in start .. LineEnd(text, start)  BY <1>1, <1>2
<1>. QED  BY <1>4, <1>5, <1>6, <1>7

\* One line up or down, where there is one, is one row away, at the column.
LEMMA OneLineIs ==
    ASSUME NEW text \in Texts, NEW p \in 0 .. Len(text), NEW up \in BOOLEAN, NEW c,
           RowAfter(Row(text, p), 1, up) \in 1 .. Rows(text)
    PROVE  LET r == OneLine(text, p, up, c) IN
           /\ r \in 0 .. Len(text) /\ Row(text, r) = RowAfter(Row(text, p), 1, up)
           /\ r = AtColumn(text, LineStart(text, r), c, Prompt)
<1>. DEFINE n == Len(text)
            S == Starts(text)
            r == OneLine(text, p, up, c)
<1>1. n \in Nat /\ p \in 0 .. n /\ S \subseteq 0 .. n /\ 0 \in S  BY LineEdges DEF Texts
<1>2. Row(text, p) \in 1 .. Rows(text) /\ Rows(text) \in Nat /\ IsFiniteSet(S) /\ IsFiniteSet(UpTo(S, p))
  BY RowIs
<1>3. \A s \in S : s \in 0 .. n /\ s \in Int  BY <1>1
<1>4. CASE up
  <2>. DEFINE here == LineStart(text, p)
              above == LineStart(text, here - 1)
  <2>1. here \in S /\ here \in 0 .. p /\ \A s \in S : s <= p => s <= here  BY LineAround
  <2>2. here # 0
    <3>1. SUFFICES ASSUME here = 0 PROVE FALSE  OBVIOUS
    <3>2. \A s \in S : s <= p <=> s = 0  BY <2>1, <3>1, <1>1, <1>3
    <3>3. UpTo(S, p) = {0}  BY <3>2, <1>1 DEF UpTo
    <3>4. Row(text, p) = 1  BY <3>3, FS_Singleton DEF Row
    <3>. QED  BY <3>4, <1>4, <1>2 DEF RowAfter
  <2>3. here \in 1 .. n /\ here - 1 \in 0 .. n  BY <1>1, <2>1, <2>2
  <2>4. above \in S /\ above \in 0 .. here - 1 /\ \A s \in S : s <= here - 1 => s <= above
    BY <2>3, LineAround
  <2>5. r = AtColumn(text, above, c, Prompt)  BY <1>4 DEF OneLine, Up
  <2>. HIDE DEF r, above, here
  <2>6. r \in above .. LineEnd(text, above)  BY <2>4, <2>5, AtColumnIn
  <2>7. r \in 0 .. n /\ LineStart(text, r) = above  BY <2>4, <2>6, OnLine
  <2>8. r <= here - 1
    <3>1. here - 1 \in Ends(text)  BY <2>1, <2>3, LineEdges
    <3>2. above \in 0 .. n  BY <1>3, <2>4
    <3>3. LineEnd(text, above) <= here - 1 /\ LineEnd(text, above) \in Int
      BY <3>1, <3>2, <2>4, <2>3, LineAround
    <3>. QED  BY <3>3, <2>6, <2>7, <2>3
  <2>9. UpTo(S, p) = UpTo(S, r) \cup {here} /\ here \notin UpTo(S, r)
    <3>1. ASSUME NEW s \in S PROVE s <= p <=> s <= r \/ s = here
      <4>1. CASE s <= p /\ s # here
        <5>1. s <= here - 1  BY <4>1, <2>1, <2>3, <1>3
        <5>2. s <= above  BY <5>1, <2>4
        <5>. QED  BY <5>2, <4>1, <2>4, <2>6, <2>7, <1>3
      <4>2. CASE s <= r \/ s = here
        BY <4>2, <2>1, <2>3, <2>7, <2>8, <1>1, <1>3
      <4>. QED  BY <4>1, <4>2
    <3>2. ~(here <= r)  BY <2>3, <2>7, <2>8
    <3>. QED  BY <3>1, <3>2, <2>1 DEF UpTo
  <2>10. IsFiniteSet(UpTo(S, r))  BY <2>7, RowIs
  <2>11. Row(text, p) = Row(text, r) + 1  BY <2>9, <2>10, FS_AddElement DEF Row
  <2>12. Row(text, r) \in Nat  BY <2>7, RowIs
  <2>13. Row(text, r) = RowAfter(Row(text, p), 1, up)  BY <1>4, <2>11, <2>12 DEF RowAfter
  <2>. QED  BY <2>5, <2>7, <2>13 DEF r
<1>5. CASE ~up
  <2>. DEFINE end == LineEnd(text, p)
              below == end + 1
  <2>1. end \in Ends(text) /\ end \in p .. n /\ \A e \in Ends(text) : e >= p => end <= e
    BY LineAround
  <2>2. PICK s \in S : ~(s <= p)
    <3>1. SUFFICES ASSUME \A s \in S : s <= p PROVE FALSE  OBVIOUS
    <3>2. UpTo(S, p) = S  BY <3>1 DEF UpTo
    <3>3. Row(text, p) = Rows(text)  BY <3>2 DEF Row, Rows
    <3>. QED  BY <3>3, <1>2, <1>5 DEF RowAfter
  <2>3. end < n
    <3>1. s \in 1 .. n /\ s - 1 >= p  BY <2>2, <1>1, <1>3
    <3>2. s - 1 \in Ends(text)  BY <3>1, LineEdges
    <3>3. end <= s - 1  BY <2>1, <3>1, <3>2
    <3>. QED  BY <3>1, <3>3, <2>1, <1>1
  <2>4. below \in S /\ end \in 0 .. n - 1
    <3>1. end \in 0 .. n - 1  BY <2>1, <2>3, <1>1
    <3>. QED  BY <3>1, <2>1, LineEdges
  <2>5. r = AtColumn(text, below, c, Prompt)  BY <1>5 DEF OneLine, Down
  <2>. HIDE DEF r, end
  <2>6. r \in below .. LineEnd(text, below)  BY <2>4, <2>5, AtColumnIn
  <2>7. r \in 0 .. n /\ LineStart(text, r) = below  BY <2>4, <2>6, OnLine
  <2>8. \A t \in S : t <= r => t <= below  BY <2>7, LineAround
  <2>9. UpTo(S, r) = UpTo(S, p) \cup {below} /\ below \notin UpTo(S, p)
    <3>1. ASSUME NEW t \in S PROVE t <= r <=> t <= p \/ t = below
      <4>1. CASE t <= r /\ t # below /\ ~(t <= p)
        <5>1. t <= end  BY <4>1, <2>4, <2>8, <1>3
        <5>2. t \in 1 .. n /\ t - 1 >= p  BY <4>1, <1>1, <1>3
        <5>3. t - 1 \in Ends(text)  BY <5>2, LineEdges
        <5>4. end <= t - 1  BY <2>1, <5>2, <5>3
        <5>. QED  BY <5>1, <5>2, <5>4, <2>4
      <4>2. CASE t <= p \/ t = below
        <5>1. below <= r /\ p <= r  BY <2>1, <2>4, <2>6, <2>7, <1>1
        <5>. QED  BY <4>2, <5>1, <2>7, <1>1, <1>3
      <4>. QED  BY <4>1, <4>2
    <3>2. ~(below <= p)  BY <2>1, <2>4, <1>1
    <3>. QED  BY <3>1, <3>2, <2>4 DEF UpTo
  <2>10. Row(text, r) = Row(text, p) + 1  BY <2>9, <1>2, FS_AddElement DEF Row
  <2>11. Row(text, r) = RowAfter(Row(text, p), 1, up)  BY <1>5, <2>10 DEF RowAfter
  <2>. QED  BY <2>5, <2>7, <2>11 DEF r
<1>. QED  BY <1>4, <1>5

\* What is said of the point after i of the lines that a move from p goes by.
MovedBy(q, text, p, i, up, c) ==
    /\ q \in 0 .. Len(text) /\ Row(text, q) = RowAfter(Row(text, p), i, up)
    /\ i = 0 => q = p
    /\ i > 0 => q = AtColumn(text, LineStart(text, q), c, Prompt)

\* It is so of every function that goes by one line at a time while there is one.
LEMMA MovesAlong ==
    ASSUME NEW text \in Texts, NEW p \in 0 .. Len(text), NEW n \in Nat, NEW up \in BOOLEAN, NEW c,
           RowAfter(Row(text, p), n, up) \in 1 .. Rows(text),
           NEW g, g[0] = p,
           \A i \in 1 .. n :
             /\ g[i - 1] \in 0 .. Len(text)
             /\ RowAfter(Row(text, g[i - 1]), 1, up) \in 1 .. Rows(text)
             => g[i] = OneLine(text, g[i - 1], up, c)
    PROVE  \A i \in 0 .. n : MovedBy(g[i], text, p, i, up, c)
<1>. DEFINE Bad == {i \in 0 .. n : ~MovedBy(g[i], text, p, i, up, c)}
<1>1. Row(text, p) \in 1 .. Rows(text) /\ Rows(text) \in Nat  BY RowIs
<1>2. SUFFICES ASSUME Bad # {} PROVE FALSE  OBVIOUS
<1>3. Bad \subseteq Nat  OBVIOUS
<1>4. PICK i \in Bad : \A j \in Bad : i <= j  BY <1>2, <1>3, LeastOfNats
<1>5. i # 0
  <2>1. Row(text, p) = RowAfter(Row(text, p), 0, up)  BY <1>1 DEF RowAfter
  <2>2. MovedBy(p, text, p, 0, up, c)  BY <2>1 DEF MovedBy
  <2>. QED  BY <1>4, <2>2
<1>6. i \in 1 .. n /\ i - 1 \in 0 .. n /\ i - 1 \notin Bad  BY <1>4, <1>5
<1>7. MovedBy(g[i - 1], text, p, i - 1, up, c)  BY <1>6
<1>8. g[i - 1] \in 0 .. Len(text) /\ Row(text, g[i - 1]) = RowAfter(Row(text, p), i - 1, up)
  BY <1>7 DEF MovedBy
<1>9. RowAfter(RowAfter(Row(text, p), i - 1, up), 1, up) = RowAfter(Row(text, p), i, up)
      /\ RowAfter(Row(text, p), i, up) \in 1 .. Rows(text)
  BY <1>1, <1>6 DEF RowAfter
<1>10. g[i] = OneLine(text, g[i - 1], up, c)  BY <1>6, <1>8, <1>9
<1>11. /\ g[i] \in 0 .. Len(text) /\ Row(text, g[i]) = RowAfter(Row(text, p), i, up)
       /\ g[i] = AtColumn(text, LineStart(text, g[i]), c, Prompt)
  BY <1>8, <1>9, <1>10, OneLineIs
<1>12. MovedBy(g[i], text, p, i, up, c)  BY <1>11 DEF MovedBy
<1>. QED  BY <1>4, <1>12

\* As many lines up or down, where there are as many, are as many rows away, at
\* the column.
LEMMA MovedIs ==
    ASSUME line.text \in Texts, NEW p \in 0 .. Len(line.text), NEW n \in Nat,
           NEW up \in BOOLEAN, NEW c, RowAfter(Row(line.text, p), n, up) \in 1 .. Rows(line.text)
    PROVE  MovedBy(Moved(p, n, up, c), line.text, p, n, up, c)
<1>. DEFINE text == line.text
            All == 0 .. Len(text)
            One(q) == OneLine(text, q, up, c)
            Capped(q) == IF One(q) \in All THEN One(q) ELSE q
            F == [w \in (0 .. n) \X All |-> Capped(w[2])]
<1>1. F \in [(0 .. n) \X All -> All]
  <2>1. \A w \in (0 .. n) \X All : w[2] \in All  OBVIOUS
  <2>. HIDE DEF One, All
  <2>. QED  BY <2>1
<1>2. \A i \in 0 .. n, q \in All : F[<<i, q>>] = Capped(q)
  <2>. HIDE DEF One, All
  <2>. QED  OBVIOUS
<1>. HIDE DEF F
<1>3. PICK f : StepsUp(f, 0, n, All, p, F)
  <2>1. 0 \in Int /\ n \in Int /\ 0 <= n /\ p \in All  OBVIOUS
  <2>. HIDE DEF All
  <2>. QED  BY <1>1, <2>1, StepsForward
<1>4. f \in [0 .. n -> All] /\ f[0] = p /\ \A i \in 1 .. n : f[i] = Capped(f[i - 1])
  <2>. HIDE DEF All, Capped
  <2>0. 0 \in 0 .. n  OBVIOUS
  <2>1. f \in [0 .. n -> All] /\ f[0] = p  BY <1>3, <2>0 DEF StepsUp
  <2>2. ASSUME NEW i \in 1 .. n PROVE f[i] = Capped(f[i - 1])
    <3>1. i \in 0 .. n /\ i # 0 /\ i - 1 \in 0 .. n  OBVIOUS
    <3>2. f[i] = F[<<i, f[i - 1]>>]  BY <1>3, <3>1 DEF StepsUp
    <3>. QED  BY <3>1, <3>2, <2>1, <1>2
  <2>. QED  BY <2>1, <2>2
<1>5. \A i \in 1 .. n : /\ f[i - 1] \in 0 .. Len(text)
                        /\ RowAfter(Row(text, f[i - 1]), 1, up) \in 1 .. Rows(text)
                        => f[i] = One(f[i - 1])
  <2>1. ASSUME NEW i \in 1 .. n, f[i - 1] \in 0 .. Len(text),
               RowAfter(Row(text, f[i - 1]), 1, up) \in 1 .. Rows(text)
        PROVE  f[i] = One(f[i - 1])
    <3>1. One(f[i - 1]) \in All  BY <2>1, OneLineIs
    <3>. HIDE DEF One, All
    <3>. QED  BY <3>1, <1>4
  <2>. QED  BY <2>1
<1>6. \A i \in 0 .. n : MovedBy(f[i], text, p, i, up, c)
  <2>. HIDE DEF Capped, All
  <2>. QED  BY <1>4, <1>5, MovesAlong
<1>7. Row(text, p) \in 1 .. Rows(text) /\ Rows(text) \in Nat  BY RowIs
<1>8. \A i \in 1 .. n : f[i] = One(f[i - 1])
  <2>1. ASSUME NEW i \in 1 .. n PROVE f[i] = One(f[i - 1])
    <3>1. i - 1 \in 0 .. n  OBVIOUS
    <3>2. f[i - 1] \in 0 .. Len(text) /\ Row(text, f[i - 1]) = RowAfter(Row(text, p), i - 1, up)
      BY <1>6, <3>1 DEF MovedBy
    <3>3. RowAfter(RowAfter(Row(text, p), i - 1, up), 1, up) \in 1 .. Rows(text)
      BY <1>7 DEF RowAfter
    <3>. HIDE DEF One
    <3>. QED  BY <1>5, <3>2, <3>3
  <2>. QED  BY <2>1
<1>. HIDE DEF One
<1>9. f = [i \in 0 .. n |-> IF i = 0 THEN p ELSE One(f[i - 1])]
  <2>. HIDE DEF All, Capped
  <2>1. \A i \in 0 .. n : i = 0 \/ i \in 1 .. n  OBVIOUS
  <2>2. \A i \in 0 .. n : f[i] = IF i = 0 THEN p ELSE One(f[i - 1])  BY <1>4, <1>8, <2>1
  <2>. QED  BY <1>4, <2>2
<1>. DEFINE g == CHOOSE h : h = [i \in 0 .. n |-> IF i = 0 THEN p ELSE One(h[i - 1])]
<1>10. Moved(p, n, up, c) = g[n]
  BY DEF Moved, One, OneLine
<1>11. g = [i \in 0 .. n |-> IF i = 0 THEN p ELSE One(g[i - 1])]
  BY <1>9
<1>. HIDE DEF g
<1>12. g[0] = p /\ \A i \in 1 .. n : g[i] = One(g[i - 1])
  <2>1. 0 \in 0 .. n /\ \A i \in 1 .. n : i \in 0 .. n /\ i # 0  OBVIOUS
  <2>. QED  BY <1>11, <2>1
<1>13. \A i \in 0 .. n : MovedBy(g[i], text, p, i, up, c)
  BY <1>12, MovesAlong DEF One
<1>. QED  BY <1>10, <1>13

-----------------------------------------------------------------------------
\* Where the line is a text and the cursor is in it, Up and Down by as many lines
\* bring the cursor back to its line and column.
LEMMA ComesBack ==
    ASSUME line.text \in Texts, line.point \in 0 .. Len(line.text)
    PROVE  ColumnKept
<1>. DEFINE text == line.text
            p == line.point
            column == Column(text, p, Prompt)
<1>1. Prompt \in Nat  BY UpDownConstantsOK
<1>2. Row(text, p) \in 1 .. Rows(text) /\ Rows(text) \in Nat  BY RowIs
<1>3. LinesLeft(TRUE) = Row(text, p) - 1  BY DEF LinesLeft, Row, UpTo
<1>4. /\ LineStart(text, p) \in Starts(text) /\ LineStart(text, p) \in 0 .. p
      /\ LineEnd(text, p) \in p .. Len(text)
  BY LineAround
<1>5. LineStart(text, p) \in 0 .. Len(text) /\ Len(text) \in Nat  BY <1>4 DEF Texts
<1>. DEFINE start == LineStart(text, p)
            end == LineEnd(text, p)
            cols == Columns(text, start, Prompt)
<1>6. LineEnd(text, start) = end
  <2>1. LineEnd(text, start) \in start .. Len(text) /\ LineEnd(text, start) \in Ends(text)
        /\ \A e \in Ends(text) : e >= start => LineEnd(text, start) <= e
    BY <1>5, LineAround
  <2>2. end \in Ends(text) /\ \A e \in Ends(text) : e >= p => end <= e  BY LineAround
  <2>3. p <= LineEnd(text, start)
    <3>1. SUFFICES ASSUME LineEnd(text, start) < p PROVE FALSE  BY <2>1, <1>5
    <3>2. LineEnd(text, start) \in 0 .. Len(text) - 1  BY <3>1, <2>1, <1>5
    <3>3. LineEnd(text, start) + 1 \in Starts(text)  BY <3>2, <2>1, LineEdges
    <3>4. LineEnd(text, start) + 1 <= start  BY <3>1, <3>2, <3>3, LineAround
    <3>. QED  BY <3>4, <2>1, <1>5
  <2>4. LineEnd(text, start) >= p /\ end >= start  BY <2>1, <2>3, <1>4, <1>5
  <2>5. end <= LineEnd(text, start)  BY <2>1, <2>2, <2>4
  <2>6. LineEnd(text, start) <= end  BY <2>1, <2>2, <2>4
  <2>. QED  BY <2>1, <2>5, <2>6, <1>4, <1>5
<1>7. cols \in [start .. Len(text) -> Nat]
      /\ \A a \in start .. Len(text), b \in start .. Len(text) : a <= b => cols[a] <= cols[b]
  BY <1>1, <1>5, ColumnsGrow
<1>8. \A q \in start .. end : Column(text, q, Prompt) = cols[q]
  <2>1. ASSUME NEW q \in start .. end PROVE LineStart(text, q) = start
    BY <1>4, <1>6, OnLine
  <2>. QED  BY <2>1 DEF Column
<1>. HIDE DEF start, end, cols
<1>9. p \in start .. end /\ column = cols[p]  BY <1>4, <1>8 DEF start, end
<1>10. AtColumn(text, start, column, Prompt) \in p .. end
       /\ Column(text, AtColumn(text, start, column, Prompt), Prompt) = column
  <2>. DEFINE within == {q \in start .. end : Column(text, q, Prompt) <= column}
              r == AtColumn(text, start, column, Prompt)
  <2>0. start \in Int /\ end \in Int /\ start \in Nat /\ end <= Len(text) /\ p \in Nat
    BY <1>4, <1>5 DEF start, end
  <2>1. column \in Nat  BY <1>5, <1>7, <1>9, <2>0
  <2>2. p \in within
    <3>1. Column(text, p, Prompt) = column  OBVIOUS
    <3>. HIDE DEF column
    <3>2. column <= column  BY <2>1
    <3>. QED  BY <1>9, <3>1, <3>2
  <2>3. r = Max(within)  BY <2>2, <1>6 DEF AtColumn
  <2>4. Max(within) \in within /\ \A q \in within : q <= Max(within)
    <3>1. within \subseteq start .. end /\ within # {}  BY <2>2
    <3>. HIDE DEF within
    <3>. QED  BY <2>0, <3>1, MaxIs
  <2>. HIDE DEF r, column
  <2>5. r \in start .. end /\ Column(text, r, Prompt) <= column /\ p <= r  BY <2>2, <2>3, <2>4
  <2>. HIDE DEF within
  <2>6. r \in start .. Len(text) /\ p \in start .. Len(text)  BY <2>0, <2>5, <1>9, <1>5
  <2>7. cols[p] <= cols[r] /\ cols[r] \in Nat  BY <2>5, <2>6, <1>7
  <2>8. Column(text, r, Prompt) = cols[r]  BY <2>5, <1>8
  <2>9. r \in p .. end  BY <2>0, <2>5
  <2>10. Column(text, r, Prompt) = column  BY <2>1, <2>5, <2>7, <2>8, <1>9
  <2>. QED  BY <2>9, <2>10 DEF r
<1>. HIDE DEF column
<1>11. ASSUME NEW n \in 0 .. LinesLeft(TRUE)
       PROVE  LET back == Moved(Moved(p, n, TRUE, column), n, FALSE, column) IN
              back \in p .. end /\ Column(text, back, Prompt) = column
  <2>. DEFINE above == Moved(p, n, TRUE, column)
              back == Moved(above, n, FALSE, column)
  <2>0. n \in Nat /\ n <= Row(text, p) - 1
    <3>1. n \in 0 .. Row(text, p) - 1  BY <1>3
    <3>. QED  BY <3>1, <1>2
  <2>1. RowAfter(Row(text, p), n, TRUE) \in 1 .. Rows(text)  BY <1>2, <2>0 DEF RowAfter
  <2>2. MovedBy(above, text, p, n, TRUE, column)  BY <2>0, <2>1, MovedIs
  <2>. HIDE DEF above
  <2>3. above \in 0 .. Len(text) /\ Row(text, above) = Row(text, p) - n
    BY <2>2 DEF MovedBy, RowAfter
  <2>4. RowAfter(Row(text, above), n, FALSE) = Row(text, p)  BY <2>0, <2>3, <1>2 DEF RowAfter
  <2>5. MovedBy(back, text, above, n, FALSE, column)  BY <2>0, <2>3, <2>4, <1>2, MovedIs
  <2>. HIDE DEF back
  <2>6. back \in 0 .. Len(text) /\ Row(text, back) = Row(text, p)
        /\ (n > 0 => back = AtColumn(text, LineStart(text, back), column, Prompt))
    BY <2>4, <2>5 DEF MovedBy
  <2>7. CASE n = 0
    <3>1. back = p  BY <2>2, <2>5, <2>7 DEF MovedBy
    <3>2. p \in p .. end  BY <1>4 DEF end
    <3>3. Column(text, p, Prompt) = column  BY DEF column
    <3>. QED  BY <3>1, <3>2, <3>3 DEF back, above
  <2>8. CASE n # 0
    <3>1. LineStart(text, back) = start  BY <2>6, SameRow DEF start
    <3>2. back = AtColumn(text, start, column, Prompt)  BY <2>0, <2>6, <2>8, <3>1
    <3>. QED  BY <3>2, <1>10 DEF back, above
  <2>. QED  BY <2>7, <2>8
<1>. QED  BY <1>11 DEF ColumnKept, column, end

-----------------------------------------------------------------------------
(* The invariant: readline's line, history and saved line are of texts with  *)
(* the cursor and every undone cursor in them, and the search that is kept is *)
(* at places that history has or at its end.                                  *)

LineEdits == Seq({e \in Texts \X Nat : e[2] <= Len(e[1])})
KeptLines == [text : Texts, undo : LineEdits]
TypedLines == {l \in [text : Texts, point : Nat, undo : LineEdits] : l.point <= Len(l.text)}
Readlines == [line : TypedLines, place : 1 .. End, entries : [1 .. Len(History) -> KeptLines],
              saved : KeptLines \cup {Nothing}]
PlacedSearches == {s \in Searches : {s.start, s.end, s.at} \subseteq 1 .. End}

UpDownInv == Now \in Readlines /\ (search # Nothing => search \in PlacedSearches)

\* The end of history is the place after its last entry.
LEMMA EndIs == Len(History) \in Nat /\ End \in Nat /\ End = Len(History) + 1
BY UpDownConstantsOK DEF End

\* A typed line is a kept one with a cursor in it.
LEMMA TypedIs ==
    ASSUME NEW l, l.text \in Texts, l.undo \in LineEdits, NEW p \in 0 .. Len(l.text)
    PROVE  [text |-> l.text, undo |-> l.undo, point |-> p] \in TypedLines
<1>1. Len(l.text) \in Nat /\ p \in Nat /\ p <= Len(l.text)  BY DEF Texts
<1>. QED  BY <1>1 DEF TypedLines

\* readline's steps through history keep its types, one by one.
LEMMA AtPointOK ==
    ASSUME NEW r \in Readlines, NEW p \in 0 .. Len(r.line.text)
    PROVE  AtPoint(r, p) \in Readlines /\ AtPoint(r, p).line.text = r.line.text
<1>1. r.line \in TypedLines  BY DEF Readlines
<1>2. r.line.text \in Texts /\ Len(r.line.text) \in Nat  BY <1>1 DEF TypedLines, Texts
<1>3. [r.line EXCEPT !.point = p] \in TypedLines /\ [r.line EXCEPT !.point = p].text = r.line.text
  BY <1>1, <1>2 DEF TypedLines
<1>4. AtPoint(r, p) = [r EXCEPT !.line = [r.line EXCEPT !.point = p]]  BY DEF AtPoint
<1>. QED  BY <1>3, <1>4 DEF Readlines

\* replace_history_entry keeps the line, the place and the types.
LEMMA ReplacedOK ==
    ASSUME NEW r \in Readlines
    PROVE  /\ Replaced(r) \in Readlines /\ Replaced(r).place = r.place
           /\ Replaced(r).line = r.line /\ Replaced(r).saved = r.saved
<1>1. r.line \in TypedLines /\ r.place \in 1 .. End /\ r.entries \in [1 .. Len(History) -> KeptLines]
  BY DEF Readlines
<1>2. CASE r.place = End  BY <1>2 DEF Replaced
<1>3. CASE r.place # End
  <2>. DEFINE kept == [text |-> r.line.text, undo |-> r.line.undo]
  <2>1. kept \in KeptLines  BY <1>1 DEF TypedLines, KeptLines
  <2>2. r.place \in 1 .. Len(History)  BY <1>1, <1>3, EndIs
  <2>3. Replaced(r) = [r EXCEPT !.entries = [r.entries EXCEPT ![r.place] = kept]]
    BY <1>3 DEF Replaced
  <2>. HIDE DEF kept
  <2>4. [r.entries EXCEPT ![r.place] = kept] \in [1 .. Len(History) -> KeptLines]
    BY <1>1, <2>1
  <2>. QED  BY <2>3, <2>4 DEF Readlines
<1>. QED  BY <1>2, <1>3

\* An entry that is recalled becomes a line with the cursor in it.
LEMMA RecallOK ==
    ASSUME NEW r \in Readlines, NEW to \in 1 .. Len(History)
    PROVE  Recall(r, to) \in Readlines
<1>1. r.entries[to] \in KeptLines  BY DEF Readlines
<1>2. r.entries[to].text \in Texts /\ r.entries[to].undo \in LineEdits
      /\ Len(r.entries[to].text) \in 0 .. Len(r.entries[to].text)
  BY <1>1 DEF KeptLines, Texts
<1>. DEFINE new == [text |-> r.entries[to].text, undo |-> r.entries[to].undo,
                    point |-> Len(r.entries[to].text)]
<1>3. new \in TypedLines  BY <1>2, TypedIs
<1>4. Recall(r, to) = [r EXCEPT !.place = to, !.line = new]  BY DEF Recall
<1>5. to \in 1 .. End  BY EndIs
<1>. HIDE DEF new
<1>. QED  BY <1>3, <1>4, <1>5 DEF Readlines

\* rl_get_previous_history keeps the types.
LEMMA PreviousOK ==
    ASSUME NEW r \in Readlines, NEW n \in Nat
    PROVE  PreviousHistory(r, n) \in Readlines
<1>. DEFINE put == [text |-> r.line.text, undo |-> r.line.undo]
            held == IF r.saved = Nothing THEN [r EXCEPT !.saved = put] ELSE r
            kept == Replaced(held)
            to == Max({1, r.place - n})
<1>1. r.line \in TypedLines /\ r.place \in 1 .. End  BY DEF Readlines
<1>2. put \in KeptLines  BY <1>1 DEF TypedLines, KeptLines
<1>3. held \in Readlines
  <2>. HIDE DEF put
  <2>. QED  BY <1>2 DEF Readlines
<1>. HIDE DEF held
<1>4. kept \in Readlines  BY <1>3, ReplacedOK
<1>5. PreviousHistory(r, n) = IF n = 0 \/ History = << >> THEN r
                              ELSE IF r.place = 1 THEN kept ELSE Recall(kept, to)
  BY DEF PreviousHistory, held
<1>6. ASSUME n # 0, r.place # 1 PROVE to \in 1 .. Len(History)
  <2>1. PICK a \in Int : a = 0 - n  OBVIOUS
  <2>2. {1, r.place - n} \subseteq a .. End /\ End \in Int  BY <1>1, <2>1, EndIs
  <2>3. to \in {1, r.place - n} /\ \A y \in {1, r.place - n} : y <= to
    <3>. HIDE DEF to
    <3>. QED  BY <2>2, MaxIs DEF to
  <2>. HIDE DEF to
  <2>4. 1 <= to  BY <2>3
  <2>5. r.place - n <= Len(History) /\ 1 <= Len(History) /\ r.place - n \in Int
    BY <1>1, <1>6, EndIs
  <2>. QED  BY <2>3, <2>4, <2>5, EndIs
<1>. HIDE DEF kept, to
<1>. QED  BY <1>4, <1>5, <1>6, RecallOK

\* rl_get_next_history keeps the types.
LEMMA NextOK ==
    ASSUME NEW r \in Readlines, NEW n \in Nat
    PROVE  NextHistory(r, n) \in Readlines
<1>. DEFINE kept == Replaced(r)
            new == [text |-> kept.saved.text, undo |-> kept.saved.undo,
                    point |-> Len(kept.saved.text)]
<1>1. kept \in Readlines /\ r.place \in 1 .. End  BY ReplacedOK DEF Readlines
<1>. HIDE DEF kept
<1>2. NextHistory(r, n) = IF n = 0 THEN r
                          ELSE IF r.place + n < End THEN Recall(kept, r.place + n)
                          ELSE IF kept.saved = Nothing THEN [kept EXCEPT !.place = End]
                          ELSE [kept EXCEPT !.place = End, !.saved = Nothing, !.line = new]
  BY DEF NextHistory, kept
<1>3. r.place + n < End => r.place + n \in 1 .. Len(History)  BY <1>1, EndIs
<1>4. End \in 1 .. End  BY EndIs
<1>5. [kept EXCEPT !.place = End] \in Readlines  BY <1>1, <1>4 DEF Readlines
<1>6. kept.saved # Nothing => new \in TypedLines
  <2>1. SUFFICES ASSUME kept.saved # Nothing PROVE new \in TypedLines  OBVIOUS
  <2>2. kept.saved \in KeptLines  BY <1>1, <2>1 DEF Readlines
  <2>3. kept.saved.text \in Texts /\ kept.saved.undo \in LineEdits
        /\ Len(kept.saved.text) \in 0 .. Len(kept.saved.text)
    BY <2>2 DEF KeptLines, Texts
  <2>. QED  BY <2>3, TypedIs
<1>. HIDE DEF new
<1>7. kept.saved # Nothing =>
        [kept EXCEPT !.place = End, !.saved = Nothing, !.line = new] \in Readlines
  BY <1>1, <1>4, <1>6 DEF Readlines
<1>. QED  BY <1>1, <1>2, <1>3, <1>5, <1>7, RecallOK

\* So does a step through history either way.
LEMMA StepOK ==
    ASSUME NEW r \in Readlines, NEW n \in Nat, NEW up \in BOOLEAN
    PROVE  StepHistory(r, n, up) \in Readlines
BY PreviousOK, NextOK DEF StepHistory

\* So does the walk to a place that a search found.
LEMMA WalkOK ==
    ASSUME NEW r \in Readlines, NEW to \in 1 .. End
    PROVE  WalkTo(r, to) \in Readlines
<1>1. r.place \in 1 .. End /\ End \in Nat  BY EndIs DEF Readlines
<1>2. to > r.place => to - r.place \in Nat  BY <1>1
<1>3. to < r.place => r.place - to \in Nat  BY <1>1
<1>. QED  BY <1>2, <1>3, PreviousOK, NextOK DEF WalkTo

\* Where an entry opens puts the cursor in it.
LEMMA OpenOK ==
    ASSUME NEW r \in Readlines, NEW before, NEW up \in BOOLEAN
    PROVE  /\ OpenAtStart(r) \in Readlines /\ PlaceOnFound(r, up) \in Readlines
           /\ Opened(r, before, up) \in Readlines
<1>1. \A q \in Readlines : Len(q.line.text) \in Nat /\ 0 \in 0 .. Len(q.line.text)
                           /\ Len(q.line.text) \in 0 .. Len(q.line.text)
  BY DEF Readlines, TypedLines, Texts
<1>2. \A q \in Readlines : OpenAtStart(q) \in Readlines  BY <1>1, AtPointOK DEF OpenAtStart
<1>3. AtPoint(r, Len(r.line.text)) \in Readlines  BY <1>1, AtPointOK
<1>. QED  BY <1>2, <1>3 DEF PlaceOnFound, Opened

-----------------------------------------------------------------------------
(* The search keeps its types. *)

\* The next match is a place of history, or none.
LEMMA NextMatchIn ==
    ASSUME NEW s \in PlacedSearches, NEW texts, NEW count \in Nat, count > 0, NEW up \in BOOLEAN
    PROVE  NextMatch(s, texts, count, up) \in 0 .. Len(History)
<1>. DEFINE places == Ahead(s, up)
            n == Len(places)
            scan == Scans(s, texts, count, places)[n]
            H == Heads(s, texts, places)
            M == Matching(s, texts, places)
<1>1. s.at \in Nat /\ s.end \in 1 .. End /\ s.end \in Nat
  BY EndIs DEF PlacedSearches, Searches
<1>2. places \in Seq(Nat) /\ n \in Nat /\ n \in 0 .. n
      /\ \A k \in 1 .. n : places[k] > 0 /\ places[k] < s.end /\ places[k] \in Nat
  BY <1>1, AheadPlaces
<1>3. \A k \in 1 .. n : places[k] \in 0 .. Len(History)  BY <1>1, <1>2, EndIs
<1>4. M \subseteq 1 .. n /\ H \subseteq 1 .. n  BY <1>2 DEF Matching, Heads
<1>5. Done(scan, count, places, H, n) \/ Undone(scan, s, texts, count, places, H, M, n)
  <2>. HIDE DEF places
  <2>. QED  BY <1>2, ScanRight
<1>6. NextMatch(s, texts, count, up) \in {scan.found, scan.seen, 0}
  BY DEF NextMatch, Scan
<1>. HIDE DEF places, n, scan, H, M
<1>7. \A S : S \subseteq 1 .. n => LastOf(S, places) \in 0 .. Len(History)
  <2>1. ASSUME NEW S, S \subseteq 1 .. n, S # {} PROVE Max(S) \in 1 .. n
    <3>1. 1 \in Int /\ n \in Int  BY <1>2
    <3>. QED  BY <2>1, <3>1, MaxIs
  <2>2. ASSUME NEW S, S \subseteq 1 .. n PROVE LastOf(S, places) \in 0 .. Len(History)
    <3>1. CASE S = {}  BY <3>1, EndIs DEF LastOf
    <3>2. CASE S # {}
      <4>1. LastOf(S, places) = places[Max(S)]  BY <3>2 DEF LastOf
      <4>. QED  BY <4>1, <3>2, <2>1, <2>2, <1>3
    <3>. QED  BY <3>1, <3>2
  <2>. QED  BY <2>2
<1>8. scan.found \in 0 .. Len(History) /\ scan.seen \in 0 .. Len(History)
  <2>1. CASE Done(scan, count, places, H, n)  BY <2>1, <1>3, <1>4 DEF Done
  <2>2. CASE Undone(scan, s, texts, count, places, H, M, n)
    <3>1. UpTo(H, n) \subseteq 1 .. n /\ UpTo(M, n) \subseteq 1 .. n  BY <1>4 DEF UpTo
    <3>. QED  BY <2>2, <3>1, <1>7 DEF Undone
  <2>. QED  BY <1>5, <2>1, <2>2
<1>. QED  BY <1>6, <1>8, EndIs

\* The entries' texts are texts.
LEMMA EntryTextsAre ==
    ASSUME Now \in Readlines, NEW i \in 1 .. Len(History)
    PROVE  entries[i].text \in Texts
BY DEF Now, Readlines, KeptLines

\* A search that finds an entry, and one that is back at its start, keep their types.
LEMMA FoundOK ==
    ASSUME NEW s \in PlacedSearches, NEW m \in 1 .. End, NEW found \in Seq(Texts),
           NEW going \in BOOLEAN
    PROVE  /\ [s EXCEPT !.at = m, !.lastFound = found] \in PlacedSearches
           /\ [s EXCEPT !.at = m, !.lastFound = found, !.goingOn = going] \in PlacedSearches
           /\ [s EXCEPT !.goingOn = going] \in PlacedSearches
<1>1. s \in Searches /\ s.start \in 1 .. End /\ s.end \in 1 .. End /\ s.at \in 1 .. End
  BY DEF PlacedSearches
<1>2. m \in Nat  BY EndIs
<1>. QED  BY <1>1, <1>2 DEF PlacedSearches, Searches

\* A new search is at places of history.
LEMMA NewSearchOK ==
    ASSUME UpDownInv, NEW kind \in Kinds
    PROVE  NewSearch(kind) \in PlacedSearches
<1>. DEFINE from == IF FoundEntry # Nothing THEN FoundEntry ELSE place
            new == NewSearch(kind)
<1>1. line \in TypedLines /\ place \in 1 .. End  BY DEF UpDownInv, Now, Readlines
<1>2. from \in 1 .. End  BY <1>1 DEF FoundEntry, UpDownInv, PlacedSearches
<1>3. line.text \in Texts /\ line.point \in Nat /\ SubSeq(line.text, 1, line.point) \in Texts
  BY <1>1 DEF TypedLines, Texts
<1>4. End \in 1 .. End /\ from \in Nat /\ End \in Nat  BY <1>2, EndIs
<1>5. new = [kind |-> kind, text |-> SubSeq(line.text, 1, line.point),
             line |-> line.text, point |-> line.point,
             start |-> from, end |-> IF kind = "prefix" THEN End ELSE from,
             startFound |-> FoundEntry # Nothing /\ line.point > 0,
             at |-> from, lastFound |-> << >>, goingOn |-> TRUE]
  BY DEF NewSearch
<1>6. (FoundEntry # Nothing /\ line.point > 0) \in BOOLEAN /\ << >> \in Seq(Texts)  OBVIOUS
<1>. HIDE DEF from, new
<1>7. new \in Searches  BY <1>3, <1>4, <1>5, <1>6 DEF Searches
<1>8. {new.start, new.end, new.at} \subseteq 1 .. End  BY <1>2, <1>4, <1>5
<1>. QED  BY <1>7, <1>8 DEF PlacedSearches, new

\* The search a key is for is one, or none.
LEMMA SearchForOK ==
    ASSUME UpDownInv, NEW kind \in Kinds, NEW up, NEW continuing, continuing => search # Nothing
    PROVE  SearchFor(kind, up, continuing) \in PlacedSearches \cup {Nothing}
<1>1. search # Nothing => search \in PlacedSearches  BY DEF UpDownInv
<1>. QED  BY <1>1, NewSearchOK DEF SearchFor

\* What a line and a search keep to be kept by the invariant.
Kept(o) == o.r \in Readlines /\ (o.search # Nothing => o.search \in PlacedSearches)

\* The lesser of two numbers is no more than either.
LEMMA LesserIs ==
    ASSUME NEW m \in Nat, NEW n \in Nat
    PROVE  Min({m, n}) \in 0 .. n
<1>1. PICK b \in Int : b = m + n  OBVIOUS
<1>2. {m, n} \subseteq 0 .. b /\ 0 \in Int  BY <1>1
<1>3. Min({m, n}) \in {m, n} /\ \A y \in {m, n} : Min({m, n}) <= y  BY <1>2, MinIs
<1>4. Min({m, n}) \in Nat /\ Min({m, n}) <= n  BY <1>3
<1>. QED  BY <1>4

\* The cursor after the prefix is in the line.
LEMMA AfterPrefixOK ==
    ASSUME NEW s \in PlacedSearches, NEW r \in Readlines
    PROVE  AfterPrefix(s, r) \in Readlines
<1>1. Len(s.text) \in Nat  BY DEF PlacedSearches, Searches, Texts
<1>2. Len(r.line.text) \in Nat  BY DEF Readlines, TypedLines, Texts
<1>3. PrefixEnd(s, r.line.text) \in 0 .. Len(r.line.text)
  BY <1>1, <1>2, LesserIs DEF PrefixEnd
<1>. QED  BY <1>3, AtPointOK DEF AfterPrefix

\* A search keeps the types, found or not, with the place it is at.
LEMMA SearchedOK ==
    ASSUME UpDownInv, NEW s \in PlacedSearches, NEW n \in Nat, n > 0, NEW up \in BOOLEAN
    PROVE  Kept(Searched(s, n, up))
<1>. DEFINE match == NextMatch(s, EntryTexts, n, up)
            found == WalkTo(Now, match)
            back == WalkTo(Now, s.start)
            p == Min({s.point, Len(back.line.text)})
<1>1. Now \in Readlines /\ s.start \in 1 .. End /\ s.point \in Nat
  BY DEF UpDownInv, PlacedSearches, Searches
<1>2. match \in 0 .. Len(History)  BY NextMatchIn
<1>3. CASE match # 0
  <2>1. match \in 1 .. Len(History) /\ match \in 1 .. End  BY <1>2, <1>3, EndIs
  <2>2. entries[match].text \in Texts  BY <1>1, <2>1, EntryTextsAre
  <2>3. <<entries[match].text>> \in Seq(Texts)  BY <2>2
  <2>4. found \in Readlines  BY <1>1, <2>1, WalkOK
  <2>5. Searched(s, n, up)
        = [r |-> IF s.kind = "prefix" THEN AfterPrefix(s, found) ELSE PlaceOnFound(found, up),
           search |-> [s EXCEPT !.at = match, !.lastFound = <<entries[match].text>>]]
    BY <1>3 DEF Searched
  <2>. HIDE DEF found, match
  <2>6. [s EXCEPT !.at = match, !.lastFound = <<entries[match].text>>] \in PlacedSearches
    BY <2>1, <2>3, FoundOK
  <2>7. AfterPrefix(s, found) \in Readlines /\ PlaceOnFound(found, up) \in Readlines
    BY <2>4, AfterPrefixOK, OpenOK
  <2>. QED  BY <2>5, <2>6, <2>7 DEF Kept
<1>4. CASE match = 0 /\ (up \/ ~GivesBackStart(s))
  <2>1. Searched(s, n, up) = [r |-> AfterPrefix(s, Now), search |-> s]  BY <1>4 DEF Searched
  <2>2. AfterPrefix(s, Now) \in Readlines  BY <1>1, AfterPrefixOK
  <2>. QED  BY <2>1, <2>2 DEF Kept
<1>5. CASE match = 0 /\ ~(up \/ ~GivesBackStart(s))
  <2>1. back \in Readlines  BY <1>1, WalkOK
  <2>2. Searched(s, n, up)
        = [r |-> AtPoint(back, p),
           search |-> [s EXCEPT !.at = s.start, !.lastFound = << >>, !.goingOn = FALSE]]
    BY <1>5 DEF Searched
  <2>. HIDE DEF back
  <2>3. Len(back.line.text) \in Nat  BY <2>1 DEF Readlines, TypedLines, Texts
  <2>4. p \in 0 .. Len(back.line.text)  BY <1>1, <2>3, LesserIs
  <2>. HIDE DEF p
  <2>5. AtPoint(back, p) \in Readlines  BY <2>1, <2>4, AtPointOK
  <2>6. [s EXCEPT !.at = s.start, !.lastFound = << >>, !.goingOn = FALSE] \in PlacedSearches
    <3>1. << >> \in Seq(Texts)  OBVIOUS
    <3>. QED  BY <1>1, <3>1, FoundOK
  <2>. QED  BY <2>2, <2>5, <2>6 DEF Kept
<1>. QED  BY <1>3, <1>4, <1>5

\* So does leaving the text by its first or last line.
LEMMA LeavesOK ==
    ASSUME UpDownInv, NEW kind \in Kinds \cup {"history", "bell"}, NEW n \in Nat, n > 0,
           NEW up \in BOOLEAN
    PROVE  Kept(Leaves(kind, n, up))
<1>1. Now \in Readlines /\ (search # Nothing => search \in PlacedSearches)  BY DEF UpDownInv
<1>2. Opened(StepHistory(Now, n, up), Now, up) \in Readlines  BY <1>1, StepOK, OpenOK
<1>3. CASE kind = "history"
  <2>1. Leaves(kind, n, up) = [r |-> Opened(StepHistory(Now, n, up), Now, up), search |-> Nothing]
    BY <1>3 DEF Leaves
  <2>. QED  BY <2>1, <1>2 DEF Kept
<1>4. CASE kind = "bell"
  <2>1. Leaves(kind, n, up) = [r |-> Now, search |-> search]  BY <1>4 DEF Leaves
  <2>. QED  BY <2>1, <1>1 DEF Kept
<1>5. CASE kind \in Kinds
  <2>. DEFINE s == SearchFor(kind, up, Continues(kind))
  <2>1. Leaves(kind, n, up) = SearchKey(kind, n, up, Continues(kind))  BY <1>5 DEF Leaves, Kinds
  <2>2. Continues(kind) => search # Nothing  BY DEF Continues
  <2>3. s \in PlacedSearches \cup {Nothing}  BY <1>5, <2>2, SearchForOK
  <2>4. CASE s = Nothing \/ s.text = << >>
    <3>1. SearchKey(kind, n, up, Continues(kind))
          = [r |-> Opened(StepHistory(Now, n, up), Now, up), search |-> s]
      BY <2>4 DEF SearchKey
    <3>. HIDE DEF s
    <3>. QED  BY <2>1, <2>3, <3>1, <1>2 DEF Kept
  <2>5. CASE ~(s = Nothing \/ s.text = << >>)
    <3>1. SearchKey(kind, n, up, Continues(kind)) = Searched(s, n, up)  BY <2>5 DEF SearchKey
    <3>. HIDE DEF s
    <3>. QED  BY <2>1, <2>3, <2>5, <3>1, SearchedOK
  <2>. QED  BY <2>4, <2>5
<1>. QED  BY <1>3, <1>4, <1>5

-----------------------------------------------------------------------------
\* As many lines as are left are rows of the text.
LEMMA LinesLeftAre ==
    ASSUME line.text \in Texts, line.point \in 0 .. Len(line.text), NEW up \in BOOLEAN
    PROVE  /\ LinesLeft(up) \in Nat
           /\ \A n \in 0 .. LinesLeft(up) :
                RowAfter(Row(line.text, line.point), n, up) \in 1 .. Rows(line.text)
<1>. DEFINE text == line.text
            p == line.point
            S == Starts(text)
            E == Ends(text)
            row == Row(text, p)
            rows == Rows(text)
<1>1. row \in 1 .. rows /\ rows \in Nat /\ IsFiniteSet(S) /\ IsFiniteSet(UpTo(S, p))  BY RowIs
<1>2. CASE up
  <2>1. LinesLeft(up) = row - 1  BY <1>2 DEF LinesLeft, Row, UpTo
  <2>. HIDE DEF row, rows
  <2>2. \A n \in 0 .. row - 1 : RowAfter(row, n, up) \in 1 .. rows  BY <1>1, <1>2 DEF RowAfter
  <2>. QED  BY <1>1, <2>1, <2>2 DEF row, rows
<1>3. CASE ~up
  <2>. DEFINE after == {e \in E : e >= p}
              inner == after \ {Len(text)}
              below == S \ UpTo(S, p)
  <2>1. Len(text) \in Nat /\ E \subseteq 0 .. Len(text) /\ Len(text) \in E /\ S \subseteq 0 .. Len(text)
    BY LineEdges DEF Texts
  <2>2. LinesLeft(up) = Cardinality(after) - 1  BY <1>3 DEF LinesLeft
  <2>3. IsFiniteSet(E)
    <3>1. IsFiniteSet(0 .. Len(text))  BY <2>1, FS_Interval
    <3>. QED  BY <3>1, <2>1, FS_Subset
  <2>4. IsFiniteSet(after) /\ IsFiniteSet(inner) /\ IsFiniteSet(below)
    <3>1. after \subseteq E /\ inner \subseteq E /\ below \subseteq S  OBVIOUS
    <3>. HIDE DEF after, inner, below, S, E
    <3>. QED  BY <3>1, <2>3, <1>1, FS_Subset
  <2>5. Cardinality(after) = Cardinality(inner) + 1
    <3>1. Len(text) \in after  BY <2>1
    <3>2. after = inner \cup {Len(text)} /\ Len(text) \notin inner  BY <3>1
    <3>. HIDE DEF after, inner
    <3>. QED  BY <3>2, <2>4, FS_AddElement
  <2>6. Cardinality(below) = rows - row
    <3>1. UpTo(S, p) \subseteq S  BY DEF UpTo
    <3>. HIDE DEF S
    <3>2. Cardinality(S \ UpTo(S, p)) = Cardinality(S) - Cardinality(S \cap UpTo(S, p))
      BY <1>1, FS_Difference
    <3>3. S \cap UpTo(S, p) = UpTo(S, p)  BY <3>1
    <3>. QED  BY <3>2, <3>3 DEF Row, Rows, S
  <2>7. Cardinality(inner) <= Cardinality(below)
    <3>. DEFINE f == [e \in inner |-> e + 1]
    <3>1. ASSUME NEW e \in inner PROVE e + 1 \in below
      <4>1. e \in 0 .. Len(text) - 1 /\ e \in Ends(text) /\ e >= p  BY <2>1
      <4>2. e + 1 \in S  BY <4>1, LineEdges
      <4>3. ~(e + 1 <= p)  BY <4>1
      <4>. QED  BY <4>2, <4>3 DEF UpTo
    <3>2. \A e \in inner : e \in Nat  BY <2>1
    <3>. HIDE DEF inner, below
    <3>3. f \in Injection(inner, below)
      <4>1. f \in [inner -> below]  BY <3>1
      <4>2. \A a, b \in inner : f[a] = f[b] => a = b  BY <3>2
      <4>. QED  BY <4>1, <4>2 DEF Injection, IsInjective
    <3>. QED  BY <3>3, <2>4, FS_Injection DEF ExistsInjection
  <2>8. Cardinality(inner) \in Nat /\ Cardinality(below) \in Nat  BY <2>4, FS_CardinalityType
  <2>9. LinesLeft(up) = Cardinality(inner)  BY <2>2, <2>5, <2>8
  <2>. HIDE DEF row, rows, inner, below
  <2>10. \A n \in 0 .. Cardinality(inner) : RowAfter(row, n, up) \in 1 .. rows
    BY <1>1, <1>3, <2>6, <2>7, <2>8 DEF RowAfter
  <2>. QED  BY <2>8, <2>9, <2>10 DEF row, rows
<1>. QED  BY <1>2, <1>3

-----------------------------------------------------------------------------
(* The invariant holds at the start, and each key keeps it. *)

\* What Gives makes of the line, history and search.
LEMMA GivesOK ==
    ASSUME NEW r \in Readlines, Gives(r), search' # Nothing => search' \in PlacedSearches
    PROVE  UpDownInv'
<1>1. r = [line |-> r.line, place |-> r.place, entries |-> r.entries, saved |-> r.saved]
  BY DEF Readlines
<1>2. Now' = [line |-> line', place |-> place', entries |-> entries', saved |-> saved']
  BY DEF Now
<1>3. Now' = r  BY <1>1, <1>2 DEF Gives
<1>. QED  BY <1>3 DEF UpDownInv

\* The invariant of a step that leaves history alone.
LEMMA LineOK ==
    ASSUME UpDownInv, line' \in TypedLines, UNCHANGED <<place, entries, saved>>,
           search' # Nothing => search' \in PlacedSearches
    PROVE  UpDownInv'
<1>1. Now' = [Now EXCEPT !.line = line']  BY DEF Now
<1>2. Now \in Readlines  BY DEF UpDownInv
<1>3. Now' \in Readlines  BY <1>1, <1>2 DEF Readlines
<1>. QED  BY <1>3 DEF UpDownInv

\* The line has the types that the invariant says.
LEMMA LineTyped ==
    ASSUME UpDownInv
    PROVE  /\ line \in TypedLines /\ line.text \in Texts /\ line.undo \in LineEdits
           /\ line.point \in 0 .. Len(line.text) /\ Len(line.text) \in Nat
<1>1. line \in TypedLines  BY DEF UpDownInv, Now, Readlines
<1>. QED  BY <1>1 DEF TypedLines, Texts

\* The Up and Down keys keep the invariant.
LEMMA VerticalOK ==
    ASSUME UpDownInv, NEW ends \in {"history", "prefix", "substring"}, NEW count \in Int,
           NEW isUp \in BOOLEAN, Vertical(ends, count, isUp)
    PROVE  UpDownInv'
<1>. DEFINE up == (count >= 0) = isUp
            n == IF count < 0 THEN -count ELSE count
            kind == IF region THEN "bell" ELSE ends
            left == LinesLeft(up)
            outcome == Leaves(kind, n - left, up)
            q == Moved(line.point, n, up, goal')
<1>1. n \in Nat /\ up \in BOOLEAN /\ kind \in Kinds \cup {"history", "bell"}  BY DEF Kinds
<1>2. line.text \in Texts /\ line.point \in 0 .. Len(line.text) /\ Now \in Readlines
      /\ (search # Nothing => search \in PlacedSearches)
  BY LineTyped DEF UpDownInv
<1>3. left \in Nat
      /\ \A i \in 0 .. left : RowAfter(Row(line.text, line.point), i, up) \in 1 .. Rows(line.text)
  <2>. HIDE DEF up
  <2>. QED  BY <1>1, <1>2, LinesLeftAre
<1>4. IF n <= left
      THEN /\ Gives(AtPoint(Now, q))
           /\ search' = IF search = Nothing THEN Nothing
                        ELSE [search EXCEPT !.goingOn = RunGoesOn(search)]
      ELSE Gives(outcome.r) /\ search' = outcome.search
  BY DEF Vertical
<1>. HIDE DEF up, n, kind, left
<1>5. CASE n <= left
  <2>1. n \in 0 .. left  BY <1>1, <1>3, <1>5
  <2>2. RowAfter(Row(line.text, line.point), n, up) \in 1 .. Rows(line.text)  BY <1>3, <2>1
  <2>3. MovedBy(q, line.text, line.point, n, up, goal')  BY <1>1, <1>2, <2>2, MovedIs
  <2>4. q \in 0 .. Len(line.text)  BY <2>3 DEF MovedBy
  <2>. HIDE DEF q
  <2>5. AtPoint(Now, q) \in Readlines
    <3>1. Now.line.text = line.text  BY DEF Now
    <3>. QED  BY <1>2, <2>4, <3>1, AtPointOK
  <2>6. search # Nothing => [search EXCEPT !.goingOn = RunGoesOn(search)] \in PlacedSearches
    <3>1. SUFFICES ASSUME search # Nothing
                   PROVE  [search EXCEPT !.goingOn = RunGoesOn(search)] \in PlacedSearches
      OBVIOUS
    <3>2. search \in PlacedSearches /\ search.goingOn \in BOOLEAN
      BY <1>2, <3>1 DEF PlacedSearches, Searches
    <3>3. RunGoesOn(search) \in BOOLEAN  BY DEF RunGoesOn
    <3>4. search.at \in 1 .. End /\ search.lastFound \in Seq(Texts)
      BY <3>2 DEF PlacedSearches, Searches
    <3>. QED  BY <3>2, <3>3, <3>4, FoundOK
  <2>7. search' # Nothing => search' \in PlacedSearches  BY <1>4, <1>5, <2>6
  <2>. QED  BY <1>4, <1>5, <2>5, <2>7, GivesOK
<1>6. CASE ~(n <= left)
  <2>1. n - left \in Nat /\ n - left > 0  BY <1>1, <1>3, <1>6
  <2>2. Kept(outcome)  BY <1>1, <2>1, LeavesOK
  <2>. HIDE DEF outcome
  <2>. QED  BY <1>4, <1>6, <2>2, GivesOK DEF Kept
<1>. QED  BY <1>5, <1>6

\* A change of the text, with the cursor in it.
LEMMA ChangedOK ==
    ASSUME UpDownInv, NEW text \in Texts, NEW p \in 0 .. Len(text), Changed(text, p),
           search' # Nothing => search' \in PlacedSearches
    PROVE  UpDownInv'
<1>. DEFINE edit == <<line.text, line.point>>
<1>1. line.text \in Texts /\ line.undo \in LineEdits /\ line.point \in 0 .. Len(line.text)
      /\ Len(line.text) \in Nat
  BY LineTyped
<1>2. edit \in {e \in Texts \X Nat : e[2] <= Len(e[1])}  BY <1>1
<1>3. Append(line.undo, edit) \in LineEdits
  <2>. HIDE DEF edit
  <2>. QED  BY <1>1, <1>2 DEF LineEdits
<1>4. line' = [text |-> text, point |-> p, undo |-> Append(line.undo, edit)]
      /\ UNCHANGED <<place, entries, saved>>
  BY DEF Changed
<1>5. Len(text) \in Nat  BY DEF Texts
<1>. HIDE DEF edit
<1>6. line' \in TypedLines  BY <1>3, <1>4, <1>5 DEF TypedLines
<1>. QED  BY <1>4, <1>6, LineOK

\* So does a character typed.
LEMMA TypesOK ==
    ASSUME UpDownInv, NEW c \in Typed, Types(c), search' # Nothing => search' \in PlacedSearches
    PROVE  UpDownInv'
<1>. DEFINE text == line.text
            i == line.point + 1
            new == InsertAt(text, i, c)
<1>1. text \in Seq(Chars) /\ line.point \in 0 .. Len(text) /\ Len(text) \in Nat
  BY LineTyped DEF Texts
<1>2. c \in Chars  BY UpDownConstantsOK
<1>3. SubSeq(text, 1, i - 1) \in Seq(Chars) /\ Len(SubSeq(text, 1, i - 1)) = line.point
      /\ SubSeq(text, i, Len(text)) \in Seq(Chars)
      /\ Len(SubSeq(text, i, Len(text))) = Len(text) - line.point
  <2>1. i - 1 = line.point /\ i \in 1 .. Len(text) + 1  BY <1>1
  <2>. HIDE DEF text
  <2>. QED  BY <1>1, <2>1
<1>4. new = SubSeq(text, 1, i - 1) \o <<c>> \o SubSeq(text, i, Len(text))  BY DEF InsertAt
<1>5. new \in Seq(Chars) /\ Len(new) = Len(text) + 1
  <2>. DEFINE a == SubSeq(text, 1, i - 1)
              b == SubSeq(text, i, Len(text))
              d == a \o <<c>>
  <2>1. a \in Seq(Chars) /\ Len(a) = line.point /\ b \in Seq(Chars)
        /\ Len(b) = Len(text) - line.point
    BY <1>3
  <2>2. new = d \o b  BY <1>4
  <2>3. d \in Seq(Chars) /\ Len(d) = line.point + 1
    <3>. HIDE DEF a, b, new, text
    <3>1. <<c>> \in Seq(Chars) /\ Len(<<c>>) = 1  BY <1>2
    <3>. QED  BY <2>1, <3>1, <1>1
  <2>. HIDE DEF new, a, b, d, text
  <2>4. new \in Seq(Chars) /\ Len(new) = Len(d) + Len(b)
    <3>1. d \o b \in Seq(Chars) /\ Len(d \o b) = Len(d) + Len(b)
      BY <2>1, <2>3, ConcatProperties
    <3>. QED  BY <2>2, <3>1
  <2>. QED  BY <2>1, <2>3, <2>4, <1>1
<1>6. i \in 0 .. Len(new)  BY <1>1, <1>5
<1>7. Changed(new, i)  BY DEF Types
<1>. HIDE DEF new, i
<1>. QED  BY <1>5, <1>6, <1>7, ChangedOK DEF Texts

\* So does one deleted.
LEMMA DeletesOK ==
    ASSUME UpDownInv, Deletes, search' # Nothing => search' \in PlacedSearches
    PROVE  UpDownInv'
<1>. DEFINE text == line.text
            i == line.point
            new == RemoveAt(text, i)
<1>1. text \in Seq(Chars) /\ i \in 1 .. Len(text) /\ Len(text) \in Nat
  BY LineTyped DEF Texts, Deletes
<1>2. new = SubSeq(text, 1, i - 1) \o SubSeq(text, i + 1, Len(text))  BY DEF RemoveAt
<1>3. new \in Seq(Chars) /\ Len(new) = Len(text) - 1
  <2>. DEFINE a == SubSeq(text, 1, i - 1)
              b == SubSeq(text, i + 1, Len(text))
  <2>1. a \in Seq(Chars) /\ Len(a) = i - 1 /\ b \in Seq(Chars) /\ Len(b) = Len(text) - i
    <3>1. i - 1 \in 0 .. Len(text) /\ i + 1 \in 1 .. Len(text) + 1  BY <1>1
    <3>. HIDE DEF text, i
    <3>. QED  BY <1>1, <3>1
  <2>2. new = a \o b  BY <1>2
  <2>. HIDE DEF new, a, b, text
  <2>. QED  BY <2>1, <2>2, <1>1
<1>4. i - 1 \in 0 .. Len(new)  BY <1>1, <1>3
<1>5. Changed(new, i - 1)  BY DEF Deletes
<1>. HIDE DEF new, i
<1>. QED  BY <1>3, <1>4, <1>5, ChangedOK DEF Texts

\* So does an undo: the text it brings back had its cursor in it.
LEMMA UndoesOK ==
    ASSUME UpDownInv, Undoes, search' # Nothing => search' \in PlacedSearches
    PROVE  UpDownInv'
<1>. DEFINE Spots == {e \in Texts \X Nat : e[2] <= Len(e[1])}
            undo == line.undo
            e == Last(undo)
<1>1. undo \in Seq(Spots) /\ undo # << >>  BY LineTyped DEF LineEdits, Undoes
<1>2. e \in Spots /\ Front(undo) \in Seq(Spots)
  <2>. HIDE DEF Spots, undo
  <2>1. Len(undo) \in Nat /\ Len(undo) # 0  BY <1>1
  <2>2. undo[Len(undo)] \in Spots  BY <1>1, <2>1
  <2>3. SubSeq(undo, 1, Len(undo) - 1) \in Seq(Spots)  BY <1>1, <2>1
  <2>. QED  BY <2>2, <2>3 DEF Last, Front
<1>3. line' = [text |-> e[1], point |-> e[2], undo |-> Front(undo)]
      /\ UNCHANGED <<place, entries, saved>>
  BY DEF Undoes
<1>4. e[1] \in Texts /\ e[2] \in Nat /\ e[2] <= Len(e[1])  BY <1>2
<1>5. Front(undo) \in LineEdits  BY <1>2 DEF LineEdits
<1>. HIDE DEF e, undo, Spots
<1>6. line' \in TypedLines  BY <1>3, <1>4, <1>5 DEF TypedLines
<1>. QED  BY <1>3, <1>6, LineOK

\* So does a cursor that moves along the line.
LEMMA CursorOK ==
    ASSUME UpDownInv, CursorMoves, search' # Nothing => search' \in PlacedSearches
    PROVE  UpDownInv'
<1>1. line \in TypedLines /\ Len(line.text) \in Nat  BY LineTyped
<1>2. PICK p \in 0 .. Len(line.text) : line' = [line EXCEPT !.point = p]
  BY DEF CursorMoves, Points
<1>3. UNCHANGED <<place, entries, saved>>  BY DEF CursorMoves
<1>4. line' \in TypedLines  BY <1>1, <1>2 DEF TypedLines
<1>. QED  BY <1>3, <1>4, LineOK

\* So do the keys that walk history.
LEMMA WalksOK ==
    ASSUME UpDownInv, Walks, search' # Nothing => search' \in PlacedSearches
    PROVE  UpDownInv'
<1>1. PICK up \in BOOLEAN : Gives(StepHistory(Now, 1, up))  BY DEF Walks
<1>2. Now \in Readlines  BY DEF UpDownInv
<1>3. StepHistory(Now, 1, up) \in Readlines  BY <1>2, StepOK
<1>. QED  BY <1>1, <1>3, GivesOK

\* A new line, and the first.
LEMMA FreshOK ==
    ASSUME NEW text \in Starting
    PROVE  Fresh(text) \in TypedLines
<1>1. text \in Texts /\ Len(text) \in Nat  BY UpDownConstantsOK DEF Texts
<1>2. << >> \in LineEdits  BY DEF LineEdits
<1>3. <<<<<<>>, 0>>>> \in LineEdits
  <2>1. <<<<>>, 0>> \in {e \in Texts \X Nat : e[2] <= Len(e[1])}
    <3>1. << >> \in Texts /\ Len(<< >>) = 0  BY DEF Texts
    <3>2. <<<<>>, 0>> \in Texts \X Nat /\ <<<<>>, 0>>[2] <= Len(<<<<>>, 0>>[1])  BY <3>1
    <3>. QED  BY <3>2
  <2>. QED  BY <2>1 DEF LineEdits
<1>. QED  BY <1>1, <1>2, <1>3 DEF Fresh, TypedLines

\* The entries of a new line are those of history, without an edit.
LEMMA UneditedOK == Unedited \in [1 .. Len(History) -> KeptLines]
<1>1. History \in Seq(Texts)  BY UpDownConstantsOK
<1>2. << >> \in LineEdits  BY DEF LineEdits
<1>3. DOMAIN History = 1 .. Len(History) /\ \A i \in 1 .. Len(History) : History[i] \in Texts
  BY <1>1
<1>. QED  BY <1>2, <1>3 DEF Unedited, KeptLines

\* A new line, whatever bash put in it, satisfies the invariant.
LEMMA NewLineOK ==
    ASSUME NewLine
    PROVE  UpDownInv'
<1>1. PICK text \in Starting : line' = Fresh(text)  BY DEF NewLine
<1>2. line' \in TypedLines /\ place' \in 1 .. End /\ entries' \in [1 .. Len(History) -> KeptLines]
      /\ saved' = Nothing /\ search' = Nothing
  BY <1>1, FreshOK, UneditedOK, EndIs DEF NewLine
<1>3. Now' = [line |-> line', place |-> place', entries |-> entries', saved |-> saved']
  BY DEF Now
<1>4. Now' \in Readlines  BY <1>2, <1>3 DEF Readlines
<1>. QED  BY <1>2, <1>4 DEF UpDownInv

\* A key of the menu keeps the invariant.
LEMMA MenuKeyOK ==
    ASSUME UpDownInv, MenuKey
    PROVE  UpDownInv'
<1>1. PICK count \in MenuCounts :
        IF count = 0 THEN UNCHANGED <<readline, search, goal, region>>
        ELSE (\E c \in Typed : Types(c)) /\ EndsVerticalRun
  BY DEF MenuKey
<1>2. search # Nothing => search \in PlacedSearches  BY DEF UpDownInv
<1>3. CASE count = 0
  BY <1>1, <1>3 DEF readline, UpDownInv, Now
<1>4. CASE count # 0
  <2>1. PICK c \in Typed : Types(c)  BY <1>1, <1>4
  <2>2. search' = IF search = Nothing THEN Nothing ELSE [search EXCEPT !.goingOn = FALSE]
    BY <1>1, <1>4 DEF EndsVerticalRun
  <2>3. search # Nothing => [search EXCEPT !.goingOn = FALSE] \in PlacedSearches
    <3>1. SUFFICES ASSUME search # Nothing
                   PROVE  [search EXCEPT !.goingOn = FALSE] \in PlacedSearches
      OBVIOUS
    <3>2. search \in PlacedSearches /\ search.at \in 1 .. End /\ search.lastFound \in Seq(Texts)
      BY <1>2, <3>1 DEF PlacedSearches, Searches
    <3>. QED  BY <3>2, FoundOK
  <2>. QED  BY <2>1, <2>2, <2>3, TypesOK
<1>. QED  BY <1>3, <1>4

\* So does every other key.
LEMMA OtherKeyOK ==
    ASSUME UpDownInv, OtherKey
    PROVE  UpDownInv'
<1>1. search' # Nothing => search' \in PlacedSearches  BY DEF OtherKey, UpDownInv
<1>2. Deletes \/ Undoes \/ CursorMoves \/ Walks \/ \E c \in Typed : Types(c)  BY DEF OtherKey
<1>3. CASE Deletes  BY <1>1, <1>3, DeletesOK
<1>4. CASE Undoes  BY <1>1, <1>4, UndoesOK
<1>5. CASE CursorMoves  BY <1>1, <1>5, CursorOK
<1>6. CASE Walks  BY <1>1, <1>6, WalksOK
<1>7. CASE \E c \in Typed : Types(c)  BY <1>1, <1>7, TypesOK
<1>. QED  BY <1>2, <1>3, <1>4, <1>5, <1>6, <1>7

\* The invariant holds of every reachable state.
LEMMA UpDownInvHolds == UpDownSpec => []UpDownInv
<1>1. UpDownInit => UpDownInv
  <2>1. SUFFICES ASSUME UpDownInit PROVE UpDownInv  OBVIOUS
  <2>2. PICK text \in Starting : line = Fresh(text)  BY <2>1 DEF UpDownInit
  <2>3. line \in TypedLines /\ place \in 1 .. End /\ entries \in [1 .. Len(History) -> KeptLines]
        /\ saved = Nothing /\ search = Nothing
    BY <2>1, <2>2, FreshOK, UneditedOK, EndIs DEF UpDownInit
  <2>4. Now \in Readlines  BY <2>3 DEF Readlines, Now
  <2>. QED  BY <2>3, <2>4 DEF UpDownInv
<1>2. UpDownInv /\ [UpDownNext]_upDownVars => UpDownInv'
  <2>1. SUFFICES ASSUME UpDownInv, [UpDownNext]_upDownVars PROVE UpDownInv'  OBVIOUS
  <2>2. CASE UpDownKey
    <3>1. PICK kind \in {"history", "prefix", "substring"}, count \in Counts, up \in BOOLEAN :
            Vertical(kind, count, up)
      BY <2>2 DEF UpDownKey
    <3>2. count \in Int  BY UpDownConstantsOK
    <3>. QED  BY <2>1, <3>1, <3>2, VerticalOK
  <2>3. CASE OtherKey  BY <2>1, <2>3, OtherKeyOK
  <2>4. CASE MenuKey  BY <2>1, <2>4, MenuKeyOK
  <2>5. CASE NewLine  BY <2>5, NewLineOK
  <2>6. CASE UNCHANGED upDownVars
    BY <2>1, <2>6 DEF upDownVars, readline, UpDownInv, Now
  <2>. QED  BY <2>1, <2>2, <2>3, <2>4, <2>5, <2>6 DEF UpDownNext
<1>. QED  BY <1>1, <1>2, PTL DEF UpDownSpec

\* From every line, and whatever search is kept (a new one, one that goes on, or
\* one that a walk, an edit or a menu key has left behind), the next match with
\* any count is the one promised: the scan of next_match stops at the right one
\* of each run of equal matches, whichever way it goes.
THEOREM FindsAsPromisedAlways == UpDownSpec => []FindsAsPromised
<1>1. UpDownInv => FindsAsPromised
  <2>1. SUFFICES ASSUME UpDownInv, search # Nothing, NEW count \in {c \in Counts : c > 0},
                        NEW up \in BOOLEAN
                 PROVE  NextMatch(search, EntryTexts, count, up)
                          = PromisedMatch(search, EntryTexts, count, up)
    BY DEF FindsAsPromised
  <2>2. search.at \in Nat /\ search.end \in Nat
    BY <2>1 DEF UpDownInv, PlacedSearches, Searches
  <2>3. count \in Int /\ count > 0  BY UpDownConstantsOK
  <2>4. count \in Nat  BY <2>3
  <2>. QED  BY <2>2, <2>3, <2>4, NextMatchPromised
<1>. QED  BY <1>1, UpDownInvHolds, PTL

\* Wherever the cursor is, in whatever text, Up and Down by as many lines bring
\* it back to its line and to its column, however short the lines between are.
THEOREM ColumnKeptAlways == UpDownSpec => []ColumnKept
<1>1. UpDownInv => ColumnKept
  BY LineTyped, ComesBack
<1>. QED  BY <1>1, UpDownInvHolds, PTL

\* The key of a run that has not been taken up goes to the column where the run
\* began, which it keeps.
LEMMA KeyKeepsColumn ==
    ASSUME began # Nothing => IsRun /\ goal = began,
           NEW ends, NEW count, NEW isUp, Vertical(ends, count, isUp)
    PROVE  /\ began' # Nothing => IsRun' /\ goal' = began'
           /\ ~TakenUp => goal' = began'
<1>1. goal' = GoalColumn
      /\ began' = IF TakenUp THEN Nothing
                  ELSE IF IsRun /\ began # Nothing THEN began
                  ELSE Column(line.text, line.point, Prompt)
  BY DEF Vertical
<1>2. last' = "vertical"  BY DEF Vertical
<1>3. IsRun'  BY <1>2 DEF IsRun
<1>4. CASE TakenUp
  <2>1. began' = Nothing  BY <1>1, <1>4
  <2>. QED  BY <2>1, <1>4, <1>3
<1>5. CASE ~TakenUp
  <2>1. began' = goal'
    <3>1. CASE IsRun /\ began # Nothing  BY <1>1, <1>5, <3>1 DEF GoalColumn
    <3>2. CASE ~(IsRun /\ began # Nothing)
      <4>1. ~(IsRun /\ goal # Nothing)  BY <1>5, <3>2 DEF TakenUp, RunEnded
      <4>. QED  BY <1>1, <1>5, <3>2, <4>1 DEF GoalColumn
    <3>. QED  BY <3>1, <3>2
  <2>. QED  BY <2>1, <1>3
<1>. QED  BY <1>4, <1>5

\* The column where the run that is under way began is the one kept for it:
\* the keys of a run keep both, and what ends a run ends both, but for a menu
\* key by 0 after another key, which keeps one of a run that has ended.
RunInv == UpDownInv /\ (began # Nothing => IsRun /\ goal = began)

LEMMA RunInvHolds == UpDownSpec => []RunInv
<1>1. UpDownInit => (began # Nothing => IsRun /\ goal = began)  BY DEF UpDownInit
<1>2. (began # Nothing => IsRun /\ goal = began) /\ [UpDownNext]_upDownVars
        => (began # Nothing => IsRun /\ goal = began)'
  <2>1. SUFFICES ASSUME began # Nothing => IsRun /\ goal = began, [UpDownNext]_upDownVars
                 PROVE  (began # Nothing => IsRun /\ goal = began)'
    OBVIOUS
  <2>2. CASE UpDownKey
    <3>1. PICK kind \in {"history", "prefix", "substring"}, count \in Counts, up \in BOOLEAN :
            Vertical(kind, count, up)
      BY <2>2 DEF UpDownKey
    <3>. QED  BY <2>1, <3>1, KeyKeepsColumn
  <2>3. CASE OtherKey  BY <2>3 DEF OtherKey
  <2>4. CASE MenuKey
    <3>1. last' = "vertical" /\ (began' = Nothing \/ UNCHANGED <<goal, began>>)
      BY <2>4 DEF MenuKey
    <3>. QED  BY <2>1, <3>1 DEF IsRun
  <2>5. CASE NewLine  BY <2>5 DEF NewLine
  <2>6. CASE UNCHANGED upDownVars  BY <2>1, <2>6 DEF upDownVars, IsRun
  <2>. QED  BY <2>1, <2>2, <2>3, <2>4, <2>5, <2>6 DEF UpDownNext
<1>. QED  BY <1>1, <1>2, UpDownInvHolds, PTL DEF UpDownSpec, RunInv

\* What a run of Up and Down promises, through any lines, entries and searches
\* of any history: its keys go by as many lines, to the column it began at.
THEOREM RunKeepsColumnAlways == UpDownSpec => RunKeepsColumn
<1>1. ASSUME RunInv, NEW count \in Counts \cap (Nat \ {0}), NEW up \in BOOLEAN, ~TakenUp,
             count <= LinesLeft(up), Vertical("history", count, up)
      PROVE  /\ LineNumber(line'.point) = LineNumber(line.point) + (IF up THEN -count ELSE count)
             /\ line'.point = AtColumn(line.text, LineStart(line.text, line'.point), began', Prompt)
  <2>. DEFINE q == Moved(line.point, count, up, goal')
  <2>1. count \in Nat /\ count > 0 /\ ~(count < 0) /\ ((count >= 0) = up) = up  OBVIOUS
  <2>2. line.text \in Texts /\ line.point \in 0 .. Len(line.text) /\ Now.line = line
    BY <1>1, LineTyped DEF RunInv, Now
  <2>3. LinesLeft(up) \in Nat /\ count \in 0 .. LinesLeft(up)
        /\ RowAfter(Row(line.text, line.point), count, up) \in 1 .. Rows(line.text)
    BY <1>1, <2>1, <2>2, LinesLeftAre
  <2>4. MovedBy(q, line.text, line.point, count, up, goal')  BY <2>1, <2>2, <2>3, MovedIs
  <2>5. Gives(AtPoint(Now, q))  BY <1>1, <2>1 DEF Vertical
  <2>6. line' = [line EXCEPT !.point = q]  BY <2>2, <2>5 DEF Gives, AtPoint, Now
  <2>7. line'.point = q
    <3>1. line \in TypedLines  BY <1>1, LineTyped DEF RunInv
    <3>. HIDE DEF q
    <3>. QED  BY <2>6, <3>1 DEF TypedLines
  <2>8. goal' = began'  BY <1>1, KeyKeepsColumn DEF RunInv
  <2>. HIDE DEF q
  <2>9. Row(line.text, q) = RowAfter(Row(line.text, line.point), count, up)
        /\ q = AtColumn(line.text, LineStart(line.text, q), goal', Prompt)
    BY <2>1, <2>4 DEF MovedBy
  <2>10. \A p : LineNumber(p) = Row(line.text, p)  BY DEF LineNumber, Row, UpTo
  <2>11. Row(line.text, line.point) \in Nat  BY <2>2, RowIs
  <2>12. RowAfter(Row(line.text, line.point), count, up)
           = Row(line.text, line.point) + (IF up THEN -count ELSE count)
    BY <2>1, <2>11 DEF RowAfter
  <2>. QED  BY <2>7, <2>8, <2>9, <2>10, <2>12
<1>2. RunInv /\ [UpDownNext]_upDownVars
        => [\A count \in Counts \cap (Nat \ {0}), up \in BOOLEAN :
              ~TakenUp /\ count <= LinesLeft(up) /\ Vertical("history", count, up) =>
                /\ LineNumber(line'.point)
                     = LineNumber(line.point) + (IF up THEN -count ELSE count)
                /\ line'.point = AtColumn(line.text, LineStart(line.text, line'.point), began',
                                          Prompt)]_upDownVars
  BY <1>1
<1>. QED  BY <1>2, RunInvHolds, PTL DEF UpDownSpec, RunKeepsColumn

\* The goal column does what it is for, in every state and at every key: up and
\* down again comes back, and a run keeps to the column where it began.
THEOREM ColumnsKeptAlways == UpDownSpec => ColumnsKept
BY ColumnKeptAlways, RunKeepsColumnAlways, PTL DEF ColumnsKept
=============================================================================
