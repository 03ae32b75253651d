----------------------------- MODULE Switching -----------------------------
(***************************************************************************)
(* Switching inkline on and off (hooks.rs, lisp.rs): which functions       *)
(* readline calls, when its own go back, and what inkline keeps of a line  *)
(* meanwhile.  `inkline on`, `off`, `enable -f` and `enable -d` are shell  *)
(* code, which runs between lines, but also from a key (bind -x), from a   *)
(* trap while readline waits for a key, and from Lisp; shell code may read *)
(* a line of its own (`read -e`), and may jump to bash's top level.        *)
(*                                                                         *)
(* `stack` holds what runs, the innermost last: shell code, a line that is *)
(* read, or Lisp.  A line is drawn with its "prompt", "starts", is "read", *)
(* waits for a key through inkline's reader ("waits") or readline's        *)
(* ("theirs"), runs the key's "command", is drawn ("draw") or "done".      *)
(* bash and readline are external: they call these functions, clear the    *)
(* completion function for `read -e`, and leave RL_STATE_READCMD and       *)
(* RL_STATE_DISPATCHING set by a jump (inCommand).                         *)
(***************************************************************************)
EXTENDS Naturals, Sequences

CONSTANTS MaxSwitches,   \* calls of the builtins
          MaxPanics,
          MaxLines,      \* lines begun, those of `read -e` included
          MaxDepth       \* of the stack

ASSUME SwitchingAssumption ==
    {MaxSwitches, MaxPanics, MaxLines, MaxDepth} \subseteq Nat

VARIABLES
    ink,        \* inkline's state, and readline's functions
    stack,
    builtin,    \* bash has the `inkline` builtin
    inCommand,  \* readline reads a key or runs one's command
    compared,   \* the last line the after-change hook compared with
    switches, panics, begun

switchVars == <<ink, stack, builtin, inCommand, compared, switches, panics, begun>>

\* The functions readline calls, "ours" or "theirs"; "none" is a null pointer.
Replaced == {"redisplay", "getc", "deprep", "preInput", "completion"}
Owner == {"ours", "theirs", "none"}
Kept == {"none", "current", "past"}   \* of this line, or of an earlier one
Ink == [now : [Replaced -> Owner],       \* what readline calls
        saved : [Replaced -> Owner],     \* ORIGINALS and COMPLETION
        enabled : BOOLEAN, unloaded : BOOLEAN, panicked : BOOLEAN,
        started : BOOLEAN, broken : BOOLEAN, \* STARTED and BROKEN
        running : BOOLEAN,                   \* RUNNING
        seen : Kept,                         \* SEEN
        errors : Kept]                       \* ACCEPT_ERRORS

\* What runs: shell code, a line that is read, or Lisp for a line's key or hook.
Places == {"prompt", "starts", "read", "waits", "theirs", "command", "returns", "draw", "done"}
Callers == {"key", "accept", "lineStart", "afterChange"}
Frame == [is : {"shell"}] \cup [is : {"lisp"}, of : Callers, stops : BOOLEAN]
         \cup [is : {"line"}, at : Places, main : BOOLEAN, aside : Owner]
----------------------------------------------------------------------------
(* What inkline does to its state. *)

UseOwnKeyReaderAnew(s) == [s EXCEPT !.saved.getc = s.now.getc, !.now.getc = "ours"]
UseOwnKeyReader(s) ==
    IF s.now.getc = "ours" THEN s
    ELSE [s EXCEPT !.saved.getc = s.now.getc, !.now.getc = "ours"]

WrapCompletion(s) ==
    IF s.now.completion # "theirs" THEN s
    ELSE [s EXCEPT !.saved.completion = s.now.completion, !.now.completion = "ours"]
UnwrapCompletion(s) ==
    IF s.now.completion # "ours" THEN s ELSE [s EXCEPT !.now.completion = s.saved.completion]

Past(kept) == IF kept = "current" THEN "past" ELSE kept
SaveOriginals(s) ==
    [s EXCEPT !.saved = [@ EXCEPT !.redisplay = s.now.redisplay, !.deprep = s.now.deprep,
                                  !.preInput = s.now.preInput]]
EnableKeepsLine(s) ==
    IF s.enabled THEN s
    ELSE [UseOwnKeyReader(SaveOriginals(s)) EXCEPT
             !.now = [@ EXCEPT !.deprep = "ours", !.preInput = "ours"],
             !.seen = Past(@), !.enabled = TRUE]
Enable(s) ==
    IF s.enabled THEN s
    ELSE [UseOwnKeyReader(SaveOriginals(s)) EXCEPT
             !.now = [@ EXCEPT !.deprep = "ours", !.preInput = "ours"],
             !.seen = "none", !.enabled = TRUE]

PutBack(s) ==
    [s EXCEPT !.now = [@ EXCEPT !.redisplay = s.saved.redisplay, !.deprep = s.saved.deprep,
                                !.preInput = s.saved.preInput,
                                !.getc = IF s.running THEN s.now.getc ELSE s.saved.getc]]
Forgetful(s) == [UnwrapCompletion(s) EXCEPT !.errors = "none", !.seen = "none", !.enabled = FALSE]
Disable(s) == IF s.enabled THEN PutBack(Forgetful(s)) ELSE Forgetful(s)

\* guard: what a panic in inkline's code does.
Guard(s) == Disable([s EXCEPT !.panicked = TRUE])
\* A panic in Lisp: RUNNING is put back first, and Lisp is marked broken.
LispPanic(s) == Guard([s EXCEPT !.running = FALSE, !.broken = TRUE])

BeforeLisp(s) == [UseOwnKeyReader(s) EXCEPT !.running = TRUE]
AfterLispOnly(s) == [s EXCEPT !.running = FALSE]
AfterLisp(s) ==
    IF s.enabled THEN [s EXCEPT !.running = FALSE]
    ELSE [s EXCEPT !.running = FALSE, !.now.getc = s.saved.getc]

\* getc, as it begins to wait and once it has the key.
GetcWaits(s) == [s EXCEPT !.now.redisplay = s.saved.redisplay]
GetcEnds(s) == IF s.enabled THEN [s EXCEPT !.now.redisplay = "ours"] ELSE s

\* deprep_terminal, and the part of it that a line's end needs.
DeprepKeepsDrawing(s) ==
    [s EXCEPT !.errors = "none", !.seen = IF s.running THEN @ ELSE "none"]
Deprep(s) ==
    [s EXCEPT !.errors = "none", !.seen = IF s.running THEN @ ELSE "none",
              !.now.redisplay = s.saved.redisplay]
CallDeprep(s) == IF s.now.deprep = "ours" THEN Deprep(s) ELSE s

\* line_started
SeesNewLine(s) == IF s.running THEN s ELSE [s EXCEPT !.seen = "current"]
----------------------------------------------------------------------------
(* What runs. *)

Shell == [is |-> "shell"]
LineFrame(main, aside) == [is |-> "line", at |-> "prompt", main |-> main, aside |-> aside]
Lisp(of) == [is |-> "lisp", of |-> of, stops |-> FALSE]

Top == stack[Len(stack)]
Below == SubSeq(stack, 1, Len(stack) - 1)
AtLine(at) == Top.is = "line" /\ Top.at = at
Go(at) == stack' = [stack EXCEPT ![Len(stack)].at = at]
MayPush == Len(stack) < MaxDepth
Push(frame) == MayPush /\ stack' = Append(stack, frame)
\* Starts Lisp on the line, which goes to `at` once it ends.
PushLisp(of, at) ==
    MayPush /\ stack' = Append([stack EXCEPT ![Len(stack)].at = at], Lisp(of))

\* hooks_allowed, at the line on top.
MayRunHooks ==
    /\ Top.main /\ ink.now.completion # "none"
    /\ ~ink.running /\ ~ink.panicked /\ ink.enabled /\ ~ink.unloaded

Still == UNCHANGED <<builtin, switches, panics, begun>>
OnePanic == panics < MaxPanics /\ panics' = panics + 1

\* A jump leaves lines of `read -e`: the completion function bash had put
\* aside comes back, or bash's own does.
Asides == {stack[i].aside : i \in {j \in DOMAIN stack : stack[j].is = "line"}} \ {"none"}
CompletionBack(s) ==
    IF s.now.completion # "none" THEN {s}
    ELSE {[s EXCEPT !.now.completion = f] : f \in Asides \cup {"theirs"}}

\* A jump of shell code, or of bash for a C-c: Lisp that called the code stops
\* it, and makes it later; else only the first frame of the stack is left.
LispBelow == {i \in DOMAIN stack : stack[i].is = "lisp"}
JumpToTopLevel(s) ==
    /\ stack' = <<Shell>>
    /\ ink' \in CompletionBack([s EXCEPT !.seen = Past(@), !.errors = Past(@)])
Jumps(s) ==
    IF LispBelow = {} THEN JumpToTopLevel(s)
    ELSE \E i \in LispBelow :
            /\ stack' = [SubSeq(stack, 1, i) EXCEPT ![i].stops = TRUE]
            /\ ink' \in CompletionBack(s)
----------------------------------------------------------------------------
(* Shell code, on top of the stack: the builtins. *)

InShell == Top.is = "shell"
Switch == InShell /\ switches < MaxSwitches /\ switches' = switches + 1
SwitchEnds == UNCHANGED <<stack, inCommand, compared, begun>>

\* reload, and start_again_if_broken: nothing while Lisp runs.  A panic in
\* init.el does not mark Lisp broken.
Reloads(s) == IF s.running THEN s ELSE [s EXCEPT !.broken = FALSE]
AgainIfBroken(s) == IF s.broken THEN Reloads(s) ELSE s
ReadsInit(s) == s.broken /\ ~s.running

\* `enable -f`: load.  The first one starts Lisp, and reads init.el.
Loads(s) == [s EXCEPT !.panicked = FALSE, !.started = TRUE]
EnableF ==
    /\ Switch
    /\ builtin' = TRUE
    /\ \/ ink' = Enable([Loads(ink) EXCEPT !.unloaded = FALSE]) /\ UNCHANGED panics
       \/ ~ink.started /\ OnePanic /\ ink' = Guard(Loads(ink))
    /\ SwitchEnds

\* `enable -d`: unload
EnableD ==
    /\ Switch /\ builtin
    /\ builtin' = FALSE
    /\ ink' = [Disable(ink) EXCEPT !.unloaded = TRUE]
    /\ UNCHANGED panics /\ SwitchEnds

On ==
    /\ Switch /\ builtin /\ UNCHANGED builtin
    /\ LET cleared == [ink EXCEPT !.panicked = FALSE]
       IN \/ ink' = Enable(AgainIfBroken(cleared)) /\ UNCHANGED panics
          \/ ReadsInit(ink) /\ OnePanic /\ ink' = Guard(AgainIfBroken(cleared))
    /\ SwitchEnds

Off ==
    /\ Switch /\ builtin /\ UNCHANGED builtin
    /\ ink' = Disable(ink)
    /\ UNCHANGED panics /\ SwitchEnds

\* `inkline eval` and `load`: Lisp that runs no shell code.  Busy in Lisp.
Eval ==
    /\ Switch /\ builtin /\ UNCHANGED builtin
    /\ \/ ink' = AgainIfBroken(ink) /\ UNCHANGED panics
       \/ ReadsInit(ink) /\ OnePanic /\ ink' = Guard(AgainIfBroken(ink))
       \/ ~ink.running /\ OnePanic /\ ink' = LispPanic(AgainIfBroken(ink))
    /\ SwitchEnds

\* Reads a line: the main prompt's where no other code runs, else or also
\* one of `read -e`, for which bash takes its completion function away.
BeginsMain ==
    /\ InShell /\ begun < MaxLines /\ Len(stack) = 1
    /\ Push(LineFrame(TRUE, "none"))
    /\ ink' = [ink EXCEPT !.now.completion = IF @ = "none" THEN "theirs" ELSE @]
    /\ begun' = begun + 1
    /\ UNCHANGED <<builtin, inCommand, compared, switches, panics>>
BeginsReadE ==
    /\ InShell /\ begun < MaxLines
    /\ Push(LineFrame(FALSE, ink.now.completion))
    /\ ink' = [ink EXCEPT !.now.completion = "none"]
    /\ begun' = begun + 1
    /\ UNCHANGED <<builtin, inCommand, compared, switches, panics>>

ShellEnds ==
    /\ InShell /\ Len(stack) > 1
    /\ stack' = Below
    /\ UNCHANGED <<ink, inCommand, compared>> /\ Still

ShellJumps ==
    /\ InShell /\ Len(stack) > 1
    /\ Jumps(ink)
    /\ UNCHANGED <<inCommand, compared>> /\ Still
----------------------------------------------------------------------------
(* A line, on top of the stack. *)

\* redisplay or readline's own drawing, at the prompt and after a command.
AfterKeyHere == MayRunHooks /\ ~inCommand
After == IF Top.at = "prompt" THEN "starts" ELSE "read"
Draws ==
    /\ AtLine("prompt") \/ AtLine("draw")
    /\ \/ ink.now.redisplay # "ours" \/ ~AfterKeyHere \/ ink.seen = "none"
    /\ Go(After)
    /\ UNCHANGED <<ink, inCommand, compared>> /\ Still
\* after_key, with and without a change that runs the hook.
DrawsAfterKey ==
    /\ AtLine("prompt") \/ AtLine("draw")
    /\ ink.now.redisplay = "ours" /\ AfterKeyHere /\ ink.seen # "none"
    /\ compared' = ink.seen
    /\ \/ Go(After) /\ ink' = [UseOwnKeyReader(ink) EXCEPT !.seen = "current"]
       \/ PushLisp("afterChange", After) /\ ink' = [BeforeLisp(ink) EXCEPT !.seen = "none"]
    /\ UNCHANGED inCommand /\ Still

\* pre_input, and the hook at a line's start.
Starts ==
    /\ AtLine("starts")
    /\ IF ink.now.preInput # "ours" THEN Go("read") /\ UNCHANGED ink
       ELSE LET ready == SeesNewLine(WrapCompletion(ink))
            IN IF MayRunHooks THEN PushLisp("lineStart", "read") /\ ink' = BeforeLisp(ready)
               ELSE /\ Go("read")
                    /\ ink' = IF ink.running THEN ready ELSE AfterLisp(ready)
    /\ UNCHANGED <<inCommand, compared>> /\ Still

\* The key reader is called; a null one is the end of the shell.
Waits ==
    /\ AtLine("read") /\ ink.now.getc # "none"
    /\ inCommand' = TRUE
    /\ IF ink.now.getc = "ours" THEN Go("waits") /\ ink' = GetcWaits(ink)
       ELSE Go("theirs") /\ UNCHANGED ink
    /\ UNCHANGED compared /\ Still

\* A trap runs while readline waits.
Trap ==
    /\ AtLine("waits") \/ AtLine("theirs")
    /\ Push(Shell)
    /\ UNCHANGED <<ink, inCommand, compared>> /\ Still

\* A C-c ends the line: readline calls its deprep function before bash jumps.
CtrlCEndsLine ==
    /\ AtLine("waits") \/ AtLine("theirs")
    /\ Jumps(CallDeprep(ink))
    /\ UNCHANGED <<inCommand, compared>> /\ Still

KeyArrives ==
    /\ AtLine("waits") \/ AtLine("theirs")
    /\ Go("command")
    /\ ink' = IF Top.at = "waits" THEN GetcEnds(ink) ELSE ink
    /\ UNCHANGED <<inCommand, compared>> /\ Still

\* A panic while inkline waits or draws.
HookPanics ==
    /\ OnePanic
    /\ \/ AtLine("waits") /\ UNCHANGED stack
       \/ AtLine("draw") /\ ink.now.redisplay = "ours" /\ Go(After)
    /\ ink' = Guard(ink)
    /\ UNCHANGED <<builtin, inCommand, compared, switches, begun>>

\* A command of readline's, or of inkline's that edits the line.
Edits ==
    /\ AtLine("command") /\ Go("draw")
    /\ inCommand' = FALSE
    /\ UNCHANGED <<ink, compared>> /\ Still

\* bind -x, and edit-and-execute-command, which restores the terminal first.
\* The command returns when the shell code ends.
RunsShell ==
    /\ AtLine("command") /\ MayPush
    /\ stack' = Append([stack EXCEPT ![Len(stack)].at = "returns"], Shell)
    /\ ink' \in {ink, CallDeprep(ink)}
    /\ UNCHANGED <<inCommand, compared>> /\ Still
Returns ==
    /\ AtLine("returns") /\ Go("draw")
    /\ inCommand' = FALSE
    /\ UNCHANGED <<ink, compared>> /\ Still

\* inkline's commands are there once it was loaded, and stay.
\* run_lisp_key: what the key had before, busy, or Lisp.
LispKeyFallsBack ==
    /\ AtLine("command") /\ ink.started /\ (ink.unloaded \/ ink.panicked) /\ Go("draw")
    /\ inCommand' = FALSE
    /\ UNCHANGED <<ink, compared>> /\ Still
LispKey ==
    /\ AtLine("command") /\ ink.started /\ ~ink.unloaded /\ ~ink.panicked
    /\ IF ink.running THEN Go("returns") /\ ink' = UseOwnKeyReader(ink)
       ELSE PushLisp("key", "returns") /\ ink' = BeforeLisp(ink)
    /\ UNCHANGED <<inCommand, compared>> /\ Still

\* accept_line, and readline's own accept-line.  The hook does not run while
\* a C-c waits for bash either.
Accepts ==
    /\ AtLine("command") /\ ink.started
    /\ \/ MayRunHooks /\ PushLisp("accept", "returns") /\ ink' = BeforeLisp(ink)
       \/ Go("done") /\ ink' = IF ink.running THEN ink ELSE AfterLisp(ink)
    /\ UNCHANGED <<inCommand, compared>> /\ Still
ReadlineAccepts ==
    /\ AtLine("command") /\ Go("done")
    /\ UNCHANGED <<ink, inCommand, compared>> /\ Still

\* The line is returned: readline restores the terminal.
LineEnds ==
    /\ AtLine("done")
    /\ stack' = Below
    /\ inCommand' = FALSE
    /\ LET ended == CallDeprep(ink)
       IN ink' = [ended EXCEPT !.seen = IF ended.running THEN @ ELSE Past(@),
                               !.errors = Past(@),
                               !.now.completion = IF Top.main THEN @ ELSE Top.aside]
    /\ UNCHANGED compared /\ Still
----------------------------------------------------------------------------
(* Lisp, on top of the stack, for a key or a hook. *)

InLisp == Top.is = "lisp"

\* A readline command it calls runs shell code; none runs once it must stop.
LispRunsShell ==
    /\ InLisp /\ ~Top.stops /\ Push(Shell)
    /\ ink' \in {ink, CallDeprep(ink)}
    /\ UNCHANGED <<inCommand, compared>> /\ Still

\* It reads a key, through the reader in place.
LispReadsKey ==
    /\ InLisp /\ ~Top.stops
    /\ ink' = IF ink.now.getc = "ours" THEN GetcEnds(GetcWaits(ink)) ELSE ink
    /\ UNCHANGED <<stack, inCommand, compared>> /\ Still

\* What its caller notes before after_lisp: the line the hook leaves, the
\* errors of functions that let the line run.
NotesErrorsAnyway(s, errors) == IF errors THEN [s EXCEPT !.errors = "current"] ELSE s
NotesErrors(s, errors) == IF errors /\ s.enabled THEN [s EXCEPT !.errors = "current"] ELSE s
BeforeReturning(errors) ==
    CASE Top.of \in {"lineStart", "afterChange"} -> [ink EXCEPT !.seen = "current"]
      [] Top.of = "accept" -> NotesErrors(ink, errors)
      [] OTHER -> ink

\* after_lisp, with the jump last, if one waits.
Leaves(s, accepted) ==
    IF Top.stops THEN JumpToTopLevel([s EXCEPT !.seen = "none"])
    ELSE /\ stack' = IF accepted THEN [Below EXCEPT ![Len(stack) - 1].at = "done"] ELSE Below
         /\ ink' = s

LispReturns ==
    /\ InLisp
    /\ \E accepted, errors \in BOOLEAN :
          /\ accepted => Top.of = "accept" /\ ~Top.stops
          /\ errors => accepted
          /\ Leaves(AfterLisp(BeforeReturning(errors)), accepted)
    /\ UNCHANGED <<inCommand, compared>> /\ Still

\* A panic: the accept hook lets the line run as typed.
LispPanics ==
    /\ InLisp /\ OnePanic
    /\ Leaves(AfterLisp(LispPanic(ink)), Top.of = "accept")
    /\ UNCHANGED <<builtin, inCommand, compared, switches, begun>>
----------------------------------------------------------------------------
SwitchingInit ==
    /\ ink = [now |-> [f \in Replaced |-> IF f = "completion" THEN "none" ELSE "theirs"],
              saved |-> [f \in Replaced |-> "none"],
              enabled |-> FALSE, unloaded |-> FALSE, panicked |-> FALSE,
              started |-> FALSE, broken |-> FALSE, running |-> FALSE,
              seen |-> "none", errors |-> "none"]
    /\ stack = <<Shell>>
    /\ builtin = FALSE /\ inCommand = FALSE /\ compared = "none"
    /\ switches = 0 /\ panics = 0 /\ begun = 0

SwitchingNext ==
    \/ EnableF \/ EnableD \/ On \/ Off \/ Eval
    \/ BeginsMain \/ BeginsReadE \/ ShellEnds \/ ShellJumps
    \/ Draws \/ DrawsAfterKey \/ Starts \/ Waits \/ Trap \/ CtrlCEndsLine \/ KeyArrives \/ HookPanics
    \/ Edits \/ RunsShell \/ Returns \/ LispKeyFallsBack \/ LispKey
    \/ Accepts \/ ReadlineAccepts \/ LineEnds
    \/ LispRunsShell \/ LispReadsKey \/ LispReturns \/ LispPanics

SwitchingSpec == SwitchingInit /\ [][SwitchingNext]_switchVars
----------------------------------------------------------------------------
(* inkline never keeps a function of its own as the one to put back or to  *)
(* call: its reader would call itself for a key, for ever.                 *)
OriginalsNotOurs == \A f \in Replaced : ink.saved[f] # "ours"

(* While inkline is off and no Lisp runs, readline reads keys, draws, and  *)
(* ends and starts lines without inkline, however the switch came about;   *)
(* while it is on, its reader and its hooks are in place.                  *)
InPlace == \A f \in {"getc", "deprep", "preInput"} : ink.now[f] = "ours"
OnAndOff ==
    IF ink.enabled THEN InPlace
    ELSE /\ \A f \in {"redisplay", "deprep", "preInput"} : ink.now[f] # "ours"
         /\ ~ink.running => ink.now.getc # "ours"

(* Readline's own drawing function is in place while it waits for a key,   *)
(* also after shell code of a trap has read a line of its own: a resize is *)
(* then redrawn as readline expects.                                       *)
ReadlineDrawsWhileWaiting ==
    AtLine("waits") \/ AtLine("theirs") => ink.now.redisplay # "ours"

(* The functions inkline put in readline's place, and those it put aside.   *)
FunctionsInPlace == OriginalsNotOurs /\ OnAndOff /\ ReadlineDrawsWhileWaiting

(* The errors of accept functions show above the output of the line that   *)
(* they were about, or never.                                              *)
ErrorsOfThisLine == ink.errors # "past"

(* The after-change hook compares the line with what it was earlier in the *)
(* same line, while inkline has been on.                                   *)
ComparesThisLine == compared # "past"

(* Nothing of an earlier line is shown or compared with, also where inkline *)
(* was off or a jump skipped the line's end in between.                    *)
NothingOfEarlierLine == ErrorsOfThisLine /\ ComparesThisLine

(* A panic in inkline never kills the shell (guard): readline always has a *)
(* function to read the next key with.                                     *)
AlwaysAReader == AtLine("read") => ink.now.getc # "none"
=============================================================================
