------------------------------ MODULE LispSteps ------------------------------
(***************************************************************************)
(* Lisp run from keys and hooks as undo steps (lisp/commands.rs one_step,  *)
(* lisp/hooks.rs run_hook) over readline's undo lists: one per history     *)
(* line, and one count of open groups for all of them.                     *)
(*                                                                         *)
(* A step ends with "ok", "error" (also a user-error) or "quit".           *)
(***************************************************************************)
EXTENDS Naturals, Sequences, SequencesExt, FiniteSets

CONSTANTS Chars,         \* characters
          Histories,     \* history lines
          MaxText,       \* the longest line
          MaxFunctions,  \* functions on a hook
          MaxCalls       \* what Lisp and the user do

ASSUME StepsAssumption ==
    MaxText \in Nat /\ MaxFunctions \in Nat /\ MaxCalls \in Nat /\ Histories # {}

VARIABLES
    lines,     \* each history line's text and undo list, oldest entry first
    here,      \* history_position
    point,
    level,     \* _rl_undo_group_level
    group,     \* UNDO_GROUP
    running,   \* Running of each step, the innermost last
    toRun,      \* functions of the hook still to run; none outside a hook
    mustStop,  \* lisp_must_stop
    calls

stepsVars == <<lines, here, point, level, group, running, toRun, mustStop, calls>>

Closed == [is |-> "closed"]
Lost == [is |-> "lost"]
Outside == [is |-> "none"]     \* no step runs
InHook == toRun # <<>>
RunFailed == Len(toRun) = 2

----------------------------------------------------------------------------
(* readline's undo lists. *)

Begin == [what |-> "begin"]
End == [what |-> "end"]
Put(text, start, c) == SubSeq(text, 1, start) \o <<c>> \o SubSeq(text, start + 1, Len(text))
Cut(text, start) == SubSeq(text, 1, start) \o SubSeq(text, start + 2, Len(text))

\* One entry undone, of a text and a point.
Reversed(entry, on) ==
    CASE entry.what = "insert" -> [text |-> Cut(on.text, entry.start), point |-> entry.start]
      [] entry.what = "delete" -> [text |-> Put(on.text, entry.start, entry.char),
                                   point |-> entry.start + 1]
      [] OTHER -> on
Undone(from, on) == FoldRight(Reversed, from, on)

Count(undo, i, what) == Cardinality({j \in i .. Len(undo) : undo[j].what = what})
\* Where the newest group starts, or the newest entry outside groups.
Balanced(undo) == {i \in DOMAIN undo : Count(undo, i, "end") = Count(undo, i, "begin")}
Latest(set) == CHOOSE i \in set : \A j \in set : j <= i
NewestStart(undo) ==
    IF Last(undo).what # "end" THEN Len(undo)
    ELSE IF Balanced(undo) = {} THEN 1 ELSE Latest(Balanced(undo))

\* rl_do_undo and rl_revert_line, on the line and point of a state.
UndoneFrom(at, first) ==
    LET line == at.lines[at.here]
        back == Undone(SubSeq(line.undo, first, Len(line.undo)),
                       [text |-> line.text, point |-> at.point])
    IN [at EXCEPT !.lines[at.here] = [text |-> back.text,
                                      undo |-> SubSeq(line.undo, 1, first - 1)],
                  !.point = back.point]
UndoOf(at) == at.lines[at.here].undo
DoUndo(at) == IF UndoOf(at) = <<>> THEN at ELSE UndoneFrom(at, NewestStart(UndoOf(at)))
Revert(at) == UndoneFrom(at, 1)

Noted(at, entry) == [at EXCEPT !.lines[at.here].undo = Append(@, entry)]
BeginGroup(at) == [Noted(at, Begin) EXCEPT !.level = @ + 1]
EndGroup(at) == [Noted(at, End) EXCEPT !.level = @ - 1]
ForgetGroup(at) == [at EXCEPT !.level = IF @ > 0 THEN @ - 1 ELSE @]

\* drop_empty_undo_group, with `before` the length of the list it opened on.
DropEmpty(at, before) ==
    LET undo == UndoOf(at)
    IN IF Len(undo) = before + 2 /\ undo[before + 1] = Begin /\ undo[before + 2] = End
       THEN DoUndo(at) ELSE at

\* undo_list_has_open_group
HasOpenGroup(undo) ==
    \E i \in DOMAIN undo : Count(undo, i, "begin") > Count(undo, i, "end")

Inserted(at, c) ==
    Noted([at EXCEPT !.lines[at.here].text = Put(@, at.point, c), !.point = @ + 1],
          [what |-> "insert", start |-> at.point])
Deleted(at) ==
    Noted([at EXCEPT !.lines[at.here].text = Cut(@, at.point - 1), !.point = @ - 1],
          [what |-> "delete", start |-> at.point - 1, char |-> at.lines[at.here].text[at.point]])
Moved(at, h) == [at EXCEPT !.here = h, !.point = Len(at.lines[h].text)]
ListFreed(at) == [at EXCEPT !.lines[at.here].undo = <<>>]
----------------------------------------------------------------------------
(* The running step's group. *)

OpenHere(at) == at.group.is = "open" /\ at.group.history = at.here
Forgets(at) == at.group.is = "lost" \/ (at.group.is = "open" /\ at.group.history # at.here)

CloseGroupCounted(at) ==
    IF OpenHere(at) THEN [DropEmpty(EndGroup(at), at.group.before) EXCEPT !.group = Closed]
    ELSE IF Forgets(at) THEN [at EXCEPT !.group = Closed]
    ELSE at
CloseGroup(at) ==
    IF OpenHere(at) THEN [DropEmpty(EndGroup(at), at.group.before) EXCEPT !.group = Closed]
    ELSE IF Forgets(at) THEN [ForgetGroup(at) EXCEPT !.group = Closed]
    ELSE at

BeforeChange(at) ==
    LET closed == IF at.group.is = "open" /\ ~OpenHere(at) THEN CloseGroup(at) ELSE at
    IN IF closed.group.is # "closed" THEN closed
       ELSE [BeginGroup(closed) EXCEPT
                !.group = [is |-> "open", before |-> Len(UndoOf(closed)), history |-> closed.here]]

NeverLost(at) == at
LoseIfFreed(at) ==
    IF OpenHere(at) /\ ~HasOpenGroup(UndoOf(at)) THEN [at EXCEPT !.group = Lost] ELSE at

\* Running::start
Start(at) == [outer |-> at.group, point |-> at.point, history |-> at.here,
              line |-> at.lines[at.here], did |-> {}]

\* The rest of one_step, once its function returned.
AfterFinish(at, step) ==
    LET outer == [at EXCEPT !.group = step.outer]
    IN IF at.group.is = "lost" THEN LoseIfFreed(outer) ELSE outer
TakesBackErrors(at, step, result) ==
    result = "error" /\ at.here = step.history /\ at.group.is # "lost"
TakesBack(at, step, result) ==
    result # "ok" /\ at.here = step.history /\ at.group.is # "lost"
WithGroupEnded(at, step, result) ==
    IF OpenHere(at)
    THEN LET ended == [EndGroup(at) EXCEPT !.group = step.outer]
         IN IF TakesBack(at, step, result) THEN DoUndo(ended)
            ELSE DropEmpty(ended, at.group.before)
    ELSE IF Forgets(at) THEN ForgetGroup(AfterFinish(at, step))
    ELSE AfterFinish(at, step)
WithinLine(at) ==
    [at EXCEPT !.point = IF @ > Len(at.lines[at.here].text)
                         THEN Len(at.lines[at.here].text) ELSE @]
Finished(at, step, result) ==
    LET ended == WithGroupEnded(at, step, result)
    IN WithinLine(IF TakesBack(at, step, result)
                  THEN [ended EXCEPT !.point = step.point] ELSE ended)

\* Running's drop, as a panic unwinds: readline's groups stay balanced and the
\* change on the line the step began on is taken back.
Dropped(at, step) ==
    LET same == at.here = step.history
        ended == IF OpenHere(at)
                 THEN IF same THEN DoUndo(EndGroup(at)) ELSE EndGroup(at)
                 ELSE IF Forgets(at) THEN ForgetGroup(at) ELSE at
        outer == [ended EXCEPT !.group = step.outer]
    IN IF same THEN WithinLine([outer EXCEPT !.point = step.point]) ELSE outer
----------------------------------------------------------------------------
LineNow == [lines |-> lines, here |-> here, point |-> point, level |-> level, group |-> group]
LineBecomes(at) ==
    /\ lines' = at.lines /\ here' = at.here /\ point' = at.point
    /\ level' = at.level /\ group' = at.group

Call == calls < MaxCalls /\ calls' = calls + 1
InStep == running # <<>> /\ (InHook => Len(running) = 2)
Text == lines[here].text

\* What the steps that run did, for the properties.
Note(what) == running' = [i \in DOMAIN running |->
                             [running[i] EXCEPT !.did = @ \cup {what}]]
HookSame == UNCHANGED <<toRun, mustStop>>

\* run: a Lisp command's key.
CommandStarts ==
    /\ Call /\ running = <<>>
    /\ running' = <<Start(LineNow)>> /\ group' = Closed
    /\ UNCHANGED <<lines, here, point, level>> /\ HookSame

\* run_hook, with `n` functions: the group opens at once.
HookStartsClosed(n) ==
    /\ Call /\ running = <<>>
    /\ running' = <<Start(LineNow)>>
    /\ LineBecomes([LineNow EXCEPT !.group = Closed])
    /\ toRun' = <<n>> /\ UNCHANGED mustStop
HookStarts(n) ==
    /\ Call /\ running = <<>>
    /\ running' = <<Start(LineNow)>>
    /\ LineBecomes(BeforeChange([LineNow EXCEPT !.group = Closed]))
    /\ toRun' = <<n>> /\ UNCHANGED mustStop

FunctionStarts ==
    /\ InHook /\ Len(running) = 1 /\ toRun[1] > 0
    /\ running' = Append(running, Start(LineNow)) /\ group' = Closed
    /\ toRun' = <<toRun[1] - 1>>
    /\ UNCHANGED <<lines, here, point, level, mustStop, calls>>

\* Buffer functions.
LispInserts(c) ==
    /\ Call /\ InStep /\ Len(Text) < MaxText
    /\ LineBecomes(Inserted(BeforeChange(LineNow), c))
    /\ Note("changed") /\ HookSame
LispDeletes ==
    /\ Call /\ InStep /\ point > 0
    /\ LineBecomes(Deleted(BeforeChange(LineNow)))
    /\ Note("changed") /\ HookSame
LispMovesPoint(to) ==
    /\ Call /\ InStep /\ to # point
    /\ point' = to
    /\ UNCHANGED <<lines, here, level, group, running>> /\ HookSame

\* call-interactively of a readline command, none after a C-c.
MayCall == Call /\ InStep /\ ~mustStop
Called(at) == LineBecomes(LoseIfFreed(at))

CallEdits(c) ==
    /\ MayCall /\ Len(Text) < MaxText
    /\ Called(Inserted(BeforeChange(LineNow), c))
    /\ Note("changed") /\ HookSame
CallMoves(h) ==
    /\ MayCall /\ h # here
    /\ Called(Moved(BeforeChange(LineNow), h))
    /\ Note("moved") /\ HookSame
\* undo and revert-line; a hook's are refused.
CallUndoes(all) ==
    /\ MayCall /\ ~InHook
    /\ Called(IF all THEN Revert(CloseGroup(LineNow)) ELSE DoUndo(CloseGroup(LineNow)))
    /\ Note("undid") /\ HookSame
\* readline handles a C-c itself, or vi's first ESC: the undo list is gone.
CallFrees(interrupt) ==
    /\ MayCall
    /\ Called(ListFreed(BeforeChange(LineNow)))
    /\ Note("freed")
    /\ mustStop' = interrupt /\ UNCHANGED toRun

CommandEnds(result) ==
    /\ running # <<>> /\ ~InHook
    /\ LineBecomes(Finished(LineNow, running[1], result))
    /\ running' = <<>> /\ UNCHANGED <<toRun, mustStop, calls>>

\* A hook's function ends; one that fails does not end the run, unless
\* on_failure says so (`ends`), and a C-c always does.
FunctionEnds(result, ends) ==
    /\ InHook /\ Len(running) = 2
    /\ result = "ok" => ~ends
    /\ LineBecomes(Finished(LineNow, running[2], result))
    /\ running' = Front(running)
    /\ toRun' = IF ends \/ mustStop THEN <<0, "failed">> ELSE toRun
    /\ UNCHANGED <<mustStop, calls>>

HookEnds ==
    /\ InHook /\ Len(running) = 1 /\ toRun[1] = 0
    /\ LineBecomes(Finished(LineNow, running[1], IF RunFailed THEN "quit" ELSE "ok"))
    /\ running' = <<>> /\ toRun' = <<>>
    /\ UNCHANGED <<mustStop, calls>>

\* A panic goes through every step, the innermost first.
AllDropped(at) ==
    LET inner == Dropped(at, Last(running))
    IN IF Len(running) = 1 THEN inner ELSE Dropped(inner, running[1])
Panics ==
    /\ InStep
    /\ LineBecomes(AllDropped(LineNow))
    /\ running' = <<>> /\ toRun' = <<>> /\ UNCHANGED <<mustStop, calls>>

(* The user's own keys, and the new line after a C-c. *)
UserTypes(c) ==
    /\ Call /\ running = <<>> /\ ~mustStop /\ Len(Text) < MaxText
    /\ LineBecomes(Inserted(LineNow, c))
    /\ UNCHANGED <<running, toRun, mustStop>>
UserMoves(h) ==
    /\ Call /\ running = <<>> /\ ~mustStop /\ h # here
    /\ LineBecomes(Moved(LineNow, h))
    /\ UNCHANGED <<running, toRun, mustStop>>
UserUndoes ==
    /\ Call /\ running = <<>> /\ ~mustStop /\ lines[here].undo # <<>>
    /\ LineBecomes(DoUndo(LineNow))
    /\ UNCHANGED <<running, toRun, mustStop>>
NextLine ==
    /\ running = <<>> /\ mustStop
    /\ lines' = [h \in Histories |-> [text |-> <<>>, undo |-> <<>>]]
    /\ point' = 0 /\ mustStop' = FALSE
    /\ UNCHANGED <<here, level, group, running, toRun, calls>>

StepsInit ==
    /\ lines = [h \in Histories |-> [text |-> <<>>, undo |-> <<>>]]
    /\ here = (CHOOSE h \in Histories : TRUE)
    /\ point = 0 /\ level = 0 /\ group = Outside /\ running = <<>> /\ toRun = <<>>
    /\ mustStop = FALSE /\ calls = 0

StepsNext ==
    \/ CommandStarts \/ FunctionStarts \/ HookEnds \/ Panics \/ LispDeletes
    \/ \E n \in 1 .. MaxFunctions : HookStarts(n)
    \/ \E c \in Chars : LispInserts(c) \/ CallEdits(c) \/ UserTypes(c)
    \/ \E to \in 0 .. Len(Text) : LispMovesPoint(to)
    \/ \E h \in Histories : CallMoves(h) \/ UserMoves(h)
    \/ \E yes \in BOOLEAN : CallUndoes(yes) \/ CallFrees(yes)
    \/ \E result \in {"ok", "error", "quit"} :
         \/ CommandEnds(result)
         \/ \E ends \in BOOLEAN : FunctionEnds(result, ends)
    \/ UserUndoes \/ NextLine

StepsSpec == StepsInit /\ [][StepsNext]_stepsVars
----------------------------------------------------------------------------
\* readline's count of open groups is that of the steps that run: none stays
\* counted (vi mode reads the count), whatever they moved to or freed.
OpenGroups == Cardinality({i \in DOMAIN running :
                  (IF i < Len(running) THEN running[i + 1].outer ELSE group).is
                      \in {"open", "lost"}})
GroupsBalanced == level = OpenGroups

\* An ordinary step stays on its history line, runs no undo command, and has
\* no list freed under it.
Ordinary(step) == step.did \subseteq {"changed"}
LastEnded == running[Len(running') + 1]

\* A step that failed, by an error, a quit or a panic, leaves the line, its undo
\* list and point as they were before it; one step of a hook, those of itself.
FailedStepTakenBack ==
    [][ /\ \/ \E result \in {"error", "quit"}, ends \in BOOLEAN :
                  CommandEnds(result) \/ FunctionEnds(result, ends)
           \/ Panics \/ (HookEnds /\ RunFailed)
        /\ Ordinary(LastEnded)
        => lines'[here] = LastEnded.line /\ point' = LastEnded.point ]_stepsVars

\* A step that went well is one undo, whatever it and its functions did, and
\* none when nothing is changed.
OneUndoTakesAll ==
    [][ /\ CommandEnds("ok") \/ FunctionEnds("ok", FALSE) \/ (HookEnds /\ ~RunFailed)
        /\ Ordinary(LastEnded)
        => LET back == DoUndo([lines |-> lines', here |-> here, point |-> point'])
           IN LastEnded.line \in {lines'[here], back.lines[here]}
      ]_stepsVars

\* No history line's undo list comes to end a group that did not begin on it:
\* one undo of the user's would take back more than that group.  Not so for a
\* hook that has a list freed, leaves its line and comes back.
Sound(undo) == \A i \in DOMAIN undo :
                   LET start == SubSeq(undo, 1, i)
                   IN Count(start, 1, "end") <= Count(start, 1, "begin")
Tangled == running # <<>> /\ {"moved", "freed"} \subseteq running[1].did
EndsHaveBegins ==
    [][ \A h \in Histories :
          Sound(lines[h].undo) => Sound(lines'[h].undo) \/ (InHook /\ Tangled) ]_stepsVars

\* Undo groups end where they began: readline's count of the open ones and the
\* lists of the history lines agree with the steps that run.
GroupsEndWell == []GroupsBalanced /\ EndsHaveBegins

\* A Lisp step is one undo, or none: taken back where it failed, and as one where
\* it went well.
StepsAreOneUndo == FailedStepTakenBack /\ OneUndoTakesAll
=============================================================================
