------------------------------ MODULE KeyWait ------------------------------
(***************************************************************************)
(* inkline's reader of keys, `getc` of hooks.rs, and what it hands on to   *)
(* readline and bash: a C-c, a resize or a SIGCHLD may land between any    *)
(* two of its steps, and the key may be for the main line, for a question  *)
(* of the running Lisp, or for a line of its own that shell code run from  *)
(* Lisp reads (`read -e`).                                                 *)
(*                                                                         *)
(* `mode` is who the key is for: the main "line"; "lisp" computes and      *)
(* reads none; a readline command "called" by Lisp; a "nested" line under  *)
(* such a command; "returning" from that command; "ending" and "handing"   *)
(* are the two halves of after_lisp.  `at` is the place in getc, "out"     *)
(* when it does not run.                                                   *)
(*                                                                         *)
(* readline and bash are external: readline keeps one caught signal, the   *)
(* newest, and passes a C-c it handles on to bash, whose signal hook then  *)
(* throws the line away.  The hook is set exactly while bash has a C-c.    *)
(***************************************************************************)
EXTENDS Naturals

CONSTANTS MaxKeys,      \* keys the user types
          MaxPresses,   \* times the user presses C-c
          MaxSignals,   \* resizes and SIGCHLDs
          PauseTicks    \* PAUSE_MS, in ticks of the clock

ASSUME BoundsAssumption ==
    /\ MaxKeys \in Nat
    /\ MaxPresses \in Nat
    /\ MaxSignals \in Nat
    /\ PauseTicks \in Nat \ {0}

VARIABLES
    mode, at,
    typed, read,   \* keys typed and keys read, counted
    presses, signals,
    caught,        \* readline's _rl_caught_signal
    bashHas,       \* bash's interrupt_state
    woke,          \* the signal the wait ended with
    key,           \* what the read gave
    lispInt,       \* INTERRUPTED_IN_LISP
    passedOn,      \* INTERRUPT_PASSED_ON
    lispSignal,    \* SIGNAL_IN_LISP
    jump,          \* SHELL_JUMP
    nested,        \* NESTED_LINE
    keysAfter,     \* KEYS_AFTER_C_C
    wasInt,        \* `interrupted` of call_command
    newError,      \* the line has an error not shown yet
    wants, taken,  \* wants_pause, and for_errors
    waited,        \* ticks since pause_began
    updating,      \* a synchronized update is open
    owed,          \* a C-c that bash has not acted on
    pressedAt,     \* keys typed before the first of the owed C-c
    late,          \* the C-c came between the look and the wait
    mixed,         \* the line got a key typed after the owed C-c
    lastly         \* what the last step did that a property speaks of

waitVars == <<woke, key, taken, waited, late>>
lispVars == <<lispInt, passedOn, lispSignal, jump, nested, wasInt>>
userVars == <<typed, presses, signals>>
vars == <<mode, at, read, caught, bashHas, keysAfter, newError, wants,
          updating, owed, mixed, pressedAt, lastly, waitVars, lispVars, userVars>>

None == "none"
Pressed == MaxKeys + 1   \* of pressedAt: no C-c

Running == mode # "line"          \* lisp::RUNNING; after_lisp clears it
InLisp == Running /\ ~nested
TypedAhead == read < typed       \* key_waiting
MustStop == lispInt \/ passedOn \/ jump
ShouldStop == MustStop \/ caught = "INT" \/ bashHas


Init ==
    /\ mode = "line" /\ at = "out"
    /\ typed = 0 /\ read = 0 /\ presses = 0 /\ signals = 0
    /\ caught = None /\ woke = None /\ lispSignal = None /\ key = None
    /\ bashHas = FALSE /\ lispInt = FALSE /\ passedOn = FALSE /\ jump = FALSE
    /\ nested = FALSE /\ keysAfter = FALSE /\ wasInt = FALSE
    /\ newError \in BOOLEAN /\ wants = newError /\ taken = FALSE
    /\ waited = 0 /\ updating = FALSE
    /\ owed = FALSE /\ pressedAt = Pressed /\ late = FALSE
    /\ mixed = FALSE /\ lastly = None
----------------------------------------------------------------------------
(* The user, the terminal and the shell's jobs. *)

Type ==
    /\ typed < MaxKeys
    /\ typed' = typed + 1
    /\ UNCHANGED <<mode, at, read, caught, bashHas, keysAfter, newError, wants,
                   updating, owed, mixed, pressedAt, waitVars, lispVars, presses,
                   signals>>
    /\ lastly' = None

\* A signal that lands in the wait ends it; with input there, poll may have
\* returned already.
Lands(signal) ==
    \/ /\ at = "waiting"
       /\ at' = "signal" /\ woke' = signal
    \/ /\ at # "waiting" \/ TypedAhead
       /\ UNCHANGED <<at, woke>>

\* readline's handler keeps the newest signal only.
PressCtrlC ==
    /\ presses < MaxPresses
    /\ presses' = presses + 1
    /\ caught' = "INT" /\ owed' = TRUE
    /\ Lands("INT")
    /\ late' = (late \/ at = "starting" \/ (at = "look" /\ InLisp))
    /\ pressedAt' = IF owed THEN pressedAt ELSE typed
    /\ lastly' = None
    /\ UNCHANGED <<mode, read, bashHas, keysAfter, newError, wants, updating,
                   mixed, key, taken, waited, lispVars, typed, signals>>

\* A resize: a C-c readline had caught and not handled is forgotten by it.
Resize ==
    /\ signals < MaxSignals
    /\ signals' = signals + 1
    /\ caught' = "WINCH"
    /\ Lands("WINCH")
    /\ IF caught = "INT" /\ ~(bashHas \/ lispInt \/ passedOn)
       THEN owed' = FALSE /\ pressedAt' = Pressed
       ELSE UNCHANGED <<owed, pressedAt>>
    /\ lastly' = None
    /\ UNCHANGED <<mode, read, bashHas, keysAfter, newError, wants, updating,
                   mixed, key, taken, waited, late, lispVars, typed, presses>>

\* SIGCHLD: readline does not catch it; the wait gives what it has caught.
ChildEnds ==
    /\ signals < MaxSignals /\ at = "waiting"
    /\ signals' = signals + 1
    /\ at' = "signal" /\ woke' = IF caught = None THEN "CHLD" ELSE caught
    /\ lastly' = None
    /\ UNCHANGED <<mode, read, caught, bashHas, keysAfter, newError, wants,
                   updating, owed, mixed, pressedAt, key, taken, waited, late,
                   lispVars, typed, presses>>

Tick ==
    /\ taken /\ waited < PauseTicks
    /\ waited' = waited + 1
    /\ lastly' = None
    /\ UNCHANGED <<mode, at, read, caught, bashHas, keysAfter, newError, wants,
                   updating, owed, mixed, pressedAt, woke, key, taken, late, lispVars,
                   userVars>>
----------------------------------------------------------------------------
(* What ends a line, and what readline and bash do with a signal. *)

Deprep ==   \* deprep_terminal: the pause asked for belongs to the line
    /\ wants' = FALSE
    /\ newError' = FALSE
    /\ updating' = FALSE

\* bash throws the line away and starts a new one.
NewPrompt ==
    /\ mode' = "line" /\ at' = "out" /\ nested' = FALSE
    /\ bashHas' = FALSE /\ mixed' = FALSE
    /\ owed' = (caught' = "INT")     \* one pressed again meanwhile
    /\ pressedAt' = IF owed' THEN pressedAt ELSE Pressed
    /\ Deprep

\* Where a jump of bash lands: at a new prompt from the main line, in
\* inkline_call_command under a readline command that Lisp called.
BashJumps(how) ==
    /\ lastly' = IF owed THEN how ELSE "thrown unasked"
    /\ IF mode \in {"called", "nested"}
       THEN /\ mode' = "returning" /\ at' = "out" /\ jump' = TRUE
            /\ bashHas' = FALSE /\ mixed' = FALSE
            /\ Deprep
            /\ UNCHANGED <<nested, owed, pressedAt>>
       ELSE NewPrompt /\ UNCHANGED jump

\* rl_check_signals: a C-c is passed on to bash.
Checked == /\ bashHas' = (bashHas \/ caught = "INT")
           /\ caught' = None

\* handle_interrupted_wait, where bash finds no C-c.
HookFindsNone == ~bashHas /\ caught # "INT"
----------------------------------------------------------------------------
(* getc, one action per stretch that a signal may land behind. *)

NestedNow == nested \/ mode = "nested"   \* reading_command_key

\* From the start of getc to its loop.
GetcStarts ==
    /\ at = "out" /\ mode \in {"line", "called", "nested"}
    /\ at' = "top"
    /\ updating' = FALSE
    /\ nested' = NestedNow
    /\ waited' = 0 /\ taken' = FALSE /\ key' = None /\ woke' = None
    /\ late' = FALSE
    /\ lastly' = None
    /\ UNCHANGED <<mode, read, caught, bashHas, keysAfter, newError, wants,
                   owed, mixed, pressedAt, lispInt, passedOn, lispSignal, jump, wasInt,
                   userVars>>

\* take_interrupt: a C-c while Lisp reads a key is its C-g.
Taken == InLisp /\ caught = "INT"
TakeInterrupt == /\ caught' = None /\ lispInt' = TRUE
                 /\ key' = "C-g"

\* The top of the loop: takes a C-c, or the pause asked for.
Top ==
    /\ at = "top"
    /\ lastly' = None
    /\ IF Taken
       THEN /\ TakeInterrupt /\ at' = "erase"
            /\ UNCHANGED <<wants, taken>>
       ELSE /\ at' = "look"
            /\ IF mode # "called"      \* plain_key
               THEN taken' = wants /\ wants' = FALSE
               ELSE taken' = FALSE /\ UNCHANGED wants
            /\ UNCHANGED <<caught, lispInt, key>>
    /\ UNCHANGED <<mode, read, bashHas, keysAfter, newError, updating, owed,
                   mixed, pressedAt, woke, waited, late, passedOn, lispSignal, jump,
                   nested, wasInt, userVars>>

\* The value KEYS_AFTER_C_C gets before the wait.
KeysAfterForgotten == bashHas /\ TypedAhead
KeysAfterNow == bashHas /\ (TypedAhead \/ keysAfter)

SignalLeftThere == None
SignalBeforeWait == IF caught # None THEN caught
                    ELSE IF bashHas THEN "CHLD" ELSE None

\* A signal that came before the wait is acted on first.
Look ==
    /\ at = "look"
    /\ keysAfter' = KeysAfterNow
    /\ \E signal \in {IF InLisp \/ TypedAhead \/ keysAfter'
                      THEN None ELSE SignalBeforeWait} :
         /\ at' = IF signal = None THEN "starting" ELSE "noted"
         /\ woke' = signal
         /\ lastly' = None
    /\ UNCHANGED <<mode, read, caught, bashHas, newError, wants, updating, owed,
                   mixed, pressedAt, key, taken, waited, late, lispVars, userVars>>

WaitStarts ==
    /\ at = "starting" /\ at' = "waiting" /\ lastly' = None
    /\ UNCHANGED <<mode, read, caught, bashHas, keysAfter, newError, wants,
                   updating, owed, mixed, pressedAt, waitVars, lispVars, userVars>>

Ready ==
    /\ at = "waiting" /\ TypedAhead /\ at' = "erase" /\ lastly' = None
    /\ UNCHANGED <<mode, read, caught, bashHas, keysAfter, newError, wants,
                   updating, owed, mixed, pressedAt, waitVars, lispVars, userVars>>

PauseUp ==
    /\ at = "waiting" /\ ~TypedAhead /\ taken /\ waited = PauseTicks
    /\ at' = "paused" /\ lastly' = None
    /\ UNCHANGED <<mode, read, caught, bashHas, keysAfter, newError, wants,
                   updating, owed, mixed, pressedAt, waitVars, lispVars, userVars>>

\* Typing paused: the error shows.
Paused ==
    /\ at = "paused" /\ at' = "top"
    /\ newError' = FALSE /\ waited' = 0 /\ taken' = FALSE
    /\ lastly' = None /\ late' = FALSE
    /\ UNCHANGED <<mode, read, caught, bashHas, keysAfter, wants, updating, owed,
                   mixed, pressedAt, woke, key, lispVars, userVars>>

\* keep_pause_wanted, or a redraw, which asks for the pause of a new error.
WantsKept(redraws) == IF redraws THEN wants \/ newError ELSE wants \/ taken
PauseBeganAgain == 0
PauseBegan == waited     \* not begun again

\* A mode server sent something, or a copy of the shell answered or ran out
\* of time: waited on only while no Lisp runs.
ServerWakes ==
    /\ at = "waiting" /\ ~TypedAhead /\ mode = "line"
    /\ \E redraws \in BOOLEAN : wants' = WantsKept(redraws)
    /\ at' = "top" /\ lastly' = None
    /\ waited' = PauseBegan /\ late' = FALSE
    /\ UNCHANGED <<mode, read, caught, bashHas, keysAfter, newError, updating,
                   owed, mixed, pressedAt, woke, key, taken, lispVars, userVars>>

\* A signal while Lisp reads a key: readline handles it after the key.
SignalInLisp ==
    /\ at = "signal" /\ InLisp
    /\ lispSignal' = woke /\ woke' = None
    /\ at' = "top" /\ lastly' = None /\ late' = FALSE
    /\ UNCHANGED <<mode, read, caught, bashHas, keysAfter, newError, wants,
                   updating, owed, mixed, pressedAt, key, taken, waited,
                   lispInt, passedOn, jump, nested, wasInt, userVars>>

OverLisp == mode = "called"   \* no line of its own is read

\* handle_interrupted_wait where bash has nothing to act on; inkline draws.
SignalActs ==
    /\ at \in {"noted", "signal"} /\ ~(InLisp /\ at = "signal")
    /\ HookFindsNone /\ Checked
    /\ at' = "top" /\ updating' = FALSE
    /\ waited' = 0 /\ woke' = None /\ late' = FALSE
    /\ wants' = (wants \/ newError)
    /\ lastly' = IF OverLisp THEN "bash ran over Lisp" ELSE None
    /\ UNCHANGED <<mode, read, keysAfter, newError, owed, mixed, pressedAt, key,
                   taken, lispVars, userVars>>

\* ... and where bash jumps.
SignalThrows ==
    /\ at \in {"noted", "signal"} /\ ~(InLisp /\ at = "signal")
    /\ ~HookFindsNone
    /\ caught' = None /\ woke' = None /\ late' = FALSE
    /\ BashJumps(IF OverLisp THEN "bash ran over Lisp"
                 ELSE IF at = "noted" /\ mixed THEN "thrown before the wait"
                 ELSE "thrown")
    /\ UNCHANGED <<read, keysAfter, key, taken, waited, lispInt, passedOn,
                   lispSignal, wasInt, userVars>>

\* What was drawn under the line is erased, in an update; a C-c is taken
\* again before the read.
Erase ==
    /\ at = "erase"
    /\ updating' \in BOOLEAN
    /\ lastly' = None
    /\ IF key = None /\ Taken
       THEN TakeInterrupt /\ at' = "back"
       ELSE /\ at' = IF key = None THEN "reading" ELSE "back"
            /\ UNCHANGED <<caught, lispInt, key>>
    /\ UNCHANGED <<mode, read, bashHas, keysAfter, newError, wants, owed, mixed,
                   pressedAt, woke, taken, waited, late, passedOn, lispSignal,
                   jump, nested, wasInt, userVars>>

\* readline's own reader first handles what it caught, without bash's hook.
ReaderChecks ==
    /\ at = "reading" /\ at' = "checked"
    /\ Checked
    /\ lastly' = None
    /\ UNCHANGED <<mode, read, keysAfter, newError, wants, updating, owed,
                   mixed, pressedAt, waitVars, lispVars, userVars>>

ReaderReads ==
    /\ at = "checked" /\ at' = "after"
    /\ read' = read + 1
    /\ lastly' = None
    /\ UNCHANGED <<mode, caught, bashHas, keysAfter, newError, wants, updating,
                   owed, mixed, pressedAt, waitVars, lispVars, userVars>>

\* A C-c is taken after the read too, and the key dropped.
AfterRead ==
    /\ at = "after" /\ at' = "back"
    /\ lastly' = None
    /\ IF Taken
       THEN TakeInterrupt /\ UNCHANGED keysAfter
       ELSE /\ key' = "key"
            /\ keysAfter' = (keysAfter \/ bashHas)
            /\ UNCHANGED <<caught, lispInt>>
    /\ UNCHANGED <<mode, read, bashHas, newError, wants, updating, owed, mixed,
                   pressedAt, woke, taken, waited, late, passedOn, lispSignal,
                   jump, nested, wasInt, userVars>>
----------------------------------------------------------------------------

\* rl_read_key handles what came in the meantime.
KeyIsBack ==
    /\ at = "back" /\ at' = "key"
    /\ Checked
    /\ lastly' = None
    /\ UNCHANGED <<mode, read, keysAfter, newError, wants, updating, owed,
                   mixed, pressedAt, waitVars, lispVars, userVars>>
----------------------------------------------------------------------------
(* What the key does. *)

\* A key that edits the main line or a nested one; readline draws the line.
Edits ==
    /\ at = "key" /\ mode \in {"line", "nested"}
    /\ at' = "out" /\ updating' = FALSE
    /\ IF mode = "line" THEN newError' \in BOOLEAN /\ wants' = newError'
                        ELSE UNCHANGED <<newError, wants>>
    /\ mixed' = (mixed \/ (bashHas /\ read > pressedAt))
    /\ lastly' = None
    /\ UNCHANGED <<mode, read, caught, bashHas, keysAfter, owed, pressedAt,
                   waitVars, lispVars, userVars>>

\* Enter.  bash acts on the C-c it has once the line is accepted.
Accepts ==
    /\ at = "key" /\ mode \in {"line", "nested"}
    /\ UNCHANGED caught
    /\ IF bashHas
       THEN BashJumps("thrown")
       ELSE /\ at' = "out" /\ lastly' = None /\ mixed' = FALSE
            /\ Deprep
            /\ UNCHANGED <<mode, bashHas, jump, nested, owed, pressedAt>>
    /\ UNCHANGED <<read, keysAfter, waitVars, lispInt, passedOn, lispSignal,
                   wasInt, userVars>>

\* The key of a Lisp command.  While Lisp runs, such a key runs no Lisp and
\* after_lisp does nothing.
LispKey ==
    /\ at = "key" /\ mode \in {"line", "nested"}
    /\ at' = "out" /\ updating' \in {updating, FALSE}
    /\ mode' = IF mode = "line" THEN "lisp" ELSE mode
    /\ lastly' = None
    /\ mixed' = (mixed \/ (bashHas /\ read > pressedAt))
    /\ UNCHANGED <<read, caught, bashHas, keysAfter, newError, wants, owed,
                   pressedAt, waitVars, lispVars, userVars>>

\* Lisp's question, or a readline command that reads a key, gets its key.
\* C-g makes it return.
Answers ==
    /\ at = "key" /\ mode = "called"
    /\ at' = "out"
    /\ mode' \in IF key = "C-g" THEN {"returning"} ELSE {"called", "returning"}
    /\ lastly' = None
    /\ UNCHANGED <<read, caught, bashHas, keysAfter, newError, wants, updating,
                   owed, mixed, pressedAt, waitVars, lispVars, userVars>>
----------------------------------------------------------------------------
(* Lisp, and the commands it calls. *)

\* call-interactively: no readline command runs once a C-c came.
CallsCommand ==
    /\ mode = "lisp"
    /\ caught' = IF caught = "INT" THEN None ELSE caught
    /\ lispInt' = (lispInt \/ caught = "INT")
    /\ IF MustStop \/ caught = "INT"
       THEN mode' = "ending" /\ UNCHANGED <<wasInt, nested>>
       ELSE mode' = "called" /\ wasInt' = bashHas /\ nested' = FALSE
    /\ lastly' = None
    /\ UNCHANGED <<at, read, bashHas, keysAfter, newError, wants, updating, owed,
                   mixed, pressedAt, waitVars, passedOn, lispSignal, jump,
                   userVars>>

\* The command handles a C-c itself, as completion does; bash does not jump.
CommandChecks ==
    /\ mode = "called" /\ at = "out" /\ caught = "INT"
    /\ Checked
    /\ lastly' = None
    /\ UNCHANGED <<mode, at, read, keysAfter, newError, wants, updating, owed,
                   mixed, pressedAt, waitVars, lispVars, userVars>>

\* The command runs shell code that reads a line of its own, or that fails
\* and jumps to bash's top level; or it just returns.
ShellReads ==
    /\ mode = "called" /\ at = "out" /\ mode' = "nested"
    /\ lastly' = None
    /\ UNCHANGED <<at, read, caught, bashHas, keysAfter, newError, wants,
                   updating, owed, mixed, pressedAt, waitVars, lispVars,
                   userVars>>

CommandReturns ==
    /\ mode \in {"called", "nested"} /\ at = "out" /\ mode' = "returning"
    /\ jump' \in {jump, TRUE}
    /\ lastly' = None
    /\ UNCHANGED <<at, read, caught, bashHas, keysAfter, newError, wants,
                   updating, owed, mixed, pressedAt, waitVars, lispInt,
                   passedOn, lispSignal, nested, wasInt, userVars>>

PassedOn == bashHas /\ ~wasInt
\* in_readline_command, call_command, and the end of call_interactively.
Returned ==
    /\ mode = "returning"
    /\ passedOn' = (passedOn \/ PassedOn)
    /\ caught' = IF caught = "INT" THEN None ELSE caught
    /\ lispInt' = (lispInt \/ caught = "INT")
    /\ nested' = FALSE
    /\ mode' = IF lispInt' \/ passedOn' \/ jump THEN "ending" ELSE "lisp"
    /\ lastly' = IF mode' = "lisp" /\ owed /\ ~wasInt THEN "went on" ELSE None
    /\ UNCHANGED <<at, read, bashHas, keysAfter, newError, wants, updating, owed,
                   mixed, pressedAt, waitVars, lispSignal, jump, wasInt,
                   userVars>>

LispStops ==
    /\ mode = "lisp" /\ mode' = "ending"
    /\ lastly' = None
    /\ UNCHANGED <<at, read, caught, bashHas, keysAfter, newError, wants,
                   updating, owed, mixed, pressedAt, waitVars, lispVars,
                   userVars>>

\* lisp_interrupt: tulisp's check, made every so often.
LispInterrupted == ShouldStop /\ LispStops

LispFlagKept == UNCHANGED lispInt
LispFlagTaken == lispInt' = FALSE

\* after_lisp: takes what came while Lisp ran; a C-c goes back to readline.
AfterLispTakes ==
    /\ mode = "ending" /\ mode' = "handing"
    /\ \E interrupted \in {lispInt \/ caught = "INT"} :
         /\ caught' = IF interrupted THEN "INT" ELSE caught
         /\ wasInt' = (interrupted \/ passedOn \/ lispSignal # None)
         /\ LispFlagTaken /\ passedOn' = FALSE /\ lispSignal' = None
    /\ lastly' = None
    /\ UNCHANGED <<at, read, bashHas, keysAfter, newError, wants, updating, owed,
                   mixed, pressedAt, waitVars, jump, nested, userVars>>

\* ... and has readline and bash act on it, the jump of shell code last.
AfterLispHands ==
    /\ mode = "handing"
    /\ jump' = FALSE
    /\ IF wasInt /\ ~HookFindsNone
       THEN /\ lastly' = IF owed THEN "thrown" ELSE "thrown unasked"
            /\ caught' = None /\ NewPrompt
       ELSE /\ caught' = IF wasInt THEN None ELSE caught
            /\ lastly' = None
            /\ IF jump
               THEN NewPrompt
               ELSE /\ mode' = "line" /\ at' = "out"
                    /\ newError' \in BOOLEAN /\ wants' = newError'  \* redisplay
                    /\ updating' = FALSE
                    /\ UNCHANGED <<bashHas, owed, mixed, pressedAt, nested>>
    /\ wasInt' = FALSE
    /\ UNCHANGED <<read, keysAfter, waitVars, lispInt, passedOn, lispSignal,
                   userVars>>
----------------------------------------------------------------------------
InGetc == \/ GetcStarts \/ Top \/ Look \/ WaitStarts \/ Ready \/ PauseUp
          \/ Paused \/ SignalInLisp \/ SignalActs \/ SignalThrows \/ Erase
          \/ ReaderChecks \/ ReaderReads \/ AfterRead \/ KeyIsBack
KeyRuns == Edits \/ Accepts \/ LispKey \/ Answers
LispRuns == \/ CallsCommand \/ CommandChecks \/ ShellReads \/ CommandReturns
            \/ Returned \/ LispStops \/ LispInterrupted
            \/ AfterLispTakes \/ AfterLispHands
Next == \/ Type \/ PressCtrlC \/ Resize \/ ChildEnds \/ Tick \/ ServerWakes
        \/ InGetc \/ KeyRuns \/ LispRuns

Spec == Init /\ [][Next]_vars

(* readline calls getc, runs the key's command and returns from it; tulisp  *)
(* checks for a C-c every so often, and a command Lisp called ends.  The    *)
(* clock goes on.  Nobody need type, press or send anything.  A pause that  *)
(* is over is seen unless a server is found readable every time.            *)
FairSpec ==
    /\ Spec
    /\ WF_vars(InGetc) /\ WF_vars(KeyRuns) /\ WF_vars(Tick) /\ SF_vars(PauseUp)
    /\ SF_vars(LispInterrupted) /\ SF_vars(CommandReturns)
    /\ WF_vars(Returned) /\ WF_vars(AfterLispTakes) /\ WF_vars(AfterLispHands)
----------------------------------------------------------------------------
=============================================================================
