------------------------------ MODULE LispHooks ------------------------------
(***************************************************************************)
(* The suggestion and completion hooks and the answers kept of them        *)
(* (lisp/hooks.rs): asked as the line is drawn, at most once for each text *)
(* of the line, or text and cursor.  Another line may be read under        *)
(* Lisp, by `read -e` in shell code that it runs.                          *)
(***************************************************************************)
EXTENDS Naturals, Sequences, SequencesExt, FiniteSets

CONSTANTS Letters,     \* of a line
          LongestLine,
          Functions,   \* what the hooks hold
          Items,       \* what completion functions give
          MaxEvents

ASSUME HooksAssumption == LongestLine \in Nat /\ MaxEvents \in Nat

VARIABLES
    line, cursor,   \* the command line
    suggesters, completers,  \* the two hooks' functions
    lastAnswer, byLine,      \* ANSWERS
    completions,    \* COMPLETIONS: none or one of what was asked and the items
    lispRuns,       \* RUNNING: Lisp further up the stack
    nested,         \* a line under Lisp, or a command's later one: not reading_command
    interrupted,    \* lisp_should_stop
    shown,          \* what suggestion and completions gave last
    given,          \* what the functions gave on this line, and for what
    events

hooksVars == <<line, cursor, suggesters, completers, lastAnswer, byLine, completions,
               lispRuns, nested, interrupted, shown, given, events>>

Line == UNION {[1 .. n -> Letters] : n \in 0 .. LongestLine}
Longer(answer, text) == Len(answer) > Len(text) /\ IsPrefix(text, answer)
FunctionLists == {s \in SeqOf(Functions, Cardinality(Functions)) : IsInjective(s)}
Event == events < MaxEvents /\ events' = events + 1
NothingShown == [suggestion |-> <<>>, items |-> {}]
----------------------------------------------------------------------------
(* Asking the functions in order: what each does, until one ends it.       *)

\* hooks_allowed, at the command line.
HooksAllowed == ~lispRuns /\ ~nested
Ending == [is : {"fails", "quits", "interrupted"}]
SuggesterDoes == [is : {"answers"}, text : Line] \cup [is : {"nothing"}] \cup Ending
CompleterDoes == [is : {"answers"}, items : SUBSET Items] \cup Ending

\* The last function asked, the asking ended by those at ends; those before it
\* that failed are removed.
AskedUpTo(functions, ends) ==
    IF ends = {} THEN Len(functions) ELSE CHOOSE i \in ends : \A j \in ends : i <= j
Removed(functions, does, asked) ==
    SelectSeq(functions, LAMBDA f :
        \A i \in 1 .. asked : functions[i] = f => does[i].is # "fails")

\* lisp_should_stop stays true until bash takes the C-c: no function is asked.
Stops(does) == interrupted \/ does.is = "interrupted"
Wins(does) == does.is = "answers" /\ Longer(does.text, line)

EndsSuggestion(does) == Stops(does) \/ does.is = "quits" \/ Wins(does)
\* ask
Suggested(does) ==
    LET n == AskedUpTo(suggesters, {i \in DOMAIN suggesters : EndsSuggestion(does[i])})
    IN [answer |-> IF Wins(does[n]) THEN <<does[n].text>> ELSE <<>>,
        stopped |-> Stops(does[n]),
        kept |-> IF interrupted THEN suggesters ELSE Removed(suggesters, does, n)]

EndsCompletion(does) == Stops(does) \/ does.is = "quits"
\* ask_completions, after a quit without the items found before.
Completed(does) ==
    LET n == AskedUpTo(completers, {i \in DOMAIN completers : EndsCompletion(does[i])})
    IN [items |-> IF does[n].is = "quits" THEN {}
                  ELSE UNION {does[i].items : i \in {j \in 1 .. n : does[j].is = "answers"}},
        stopped |-> Stops(does[n]),
        kept |-> IF interrupted THEN completers ELSE Removed(completers, does, n)]
----------------------------------------------------------------------------
\* What is kept for the line: none or one answer, itself none or one text.
KeptAnswer ==
    IF nested THEN <<>>
    ELSE IF lastAnswer # <<>> /\ Longer(lastAnswer[1], line) THEN <<lastAnswer>>
    ELSE IF line \in DOMAIN byLine THEN <<byLine[line]>> ELSE <<>>
KeptItemsOfLine ==
    IF ~nested /\ completions # <<>> /\ completions[1].line = line
    THEN <<completions[1].items>> ELSE <<>>
KeptItems ==
    IF ~nested /\ completions # <<>> /\ completions[1].line = line /\ completions[1].cursor = cursor
    THEN <<completions[1].items>> ELSE <<>>

Gives(answer) ==
    /\ shown' = [shown EXCEPT !.suggestion = answer]
    /\ lastAnswer' = IF answer = <<>> THEN lastAnswer ELSE answer
GivesItems(items) == shown' = [shown EXCEPT !.items = items]

\* suggestion
SuggestionKept ==
    /\ Event /\ KeptAnswer # <<>>
    /\ Gives(KeptAnswer[1])
    /\ UNCHANGED <<line, cursor, suggesters, completers, byLine, completions, lispRuns,
                   nested, interrupted, given>>
SuggestionAskedAgain(does) ==
    /\ Event /\ KeptAnswer = <<>> /\ HooksAllowed /\ suggesters # <<>>
    /\ \E result \in {Suggested(does)} :
         /\ suggesters' = result.kept
         /\ interrupted' = result.stopped
         /\ IF result.stopped
            THEN shown' = [shown EXCEPT !.suggestion = <<>>] /\ UNCHANGED <<lastAnswer, byLine, given>>
            ELSE /\ Gives(result.answer)
                 /\ UNCHANGED byLine
                 /\ given' = Append(given, [is |-> "suggestion", line |-> line, gave |-> result.answer])
    /\ UNCHANGED <<line, cursor, completers, completions, lispRuns, nested>>
SuggestionAsked(does) ==
    /\ Event /\ KeptAnswer = <<>> /\ HooksAllowed /\ suggesters # <<>>
    /\ \E result \in {Suggested(does)} :
         /\ suggesters' = result.kept
         /\ interrupted' = result.stopped
         /\ IF result.stopped
            THEN shown' = [shown EXCEPT !.suggestion = <<>>] /\ UNCHANGED <<lastAnswer, byLine, given>>
            ELSE /\ Gives(result.answer)
                 /\ byLine' = [text \in DOMAIN byLine \cup {line} |->
                                 IF text = line THEN result.answer ELSE byLine[text]]
                 /\ given' = Append(given, [is |-> "suggestion", line |-> line, gave |-> result.answer])
    /\ UNCHANGED <<line, cursor, completers, completions, lispRuns, nested>>

\* completions
CompletionsKept ==
    /\ Event /\ KeptItems # <<>>
    /\ GivesItems(KeptItems[1])
    /\ UNCHANGED <<line, cursor, suggesters, completers, lastAnswer, byLine, completions,
                   lispRuns, nested, interrupted, given>>
CompletionsAsked(does) ==
    /\ Event /\ KeptItems = <<>> /\ HooksAllowed /\ completers # <<>>
    /\ \E result \in {Completed(does)} :
         /\ completers' = result.kept
         /\ interrupted' = result.stopped
         /\ IF result.stopped
            THEN GivesItems({}) /\ UNCHANGED <<completions, given>>
            ELSE /\ GivesItems(result.items)
                 /\ completions' = <<[line |-> line, cursor |-> cursor, items |-> result.items]>>
                 /\ given' = Append(given, [is |-> "items", line |-> line, cursor |-> cursor,
                                            gave |-> result.items])
    /\ UNCHANGED <<line, cursor, suggesters, lastAnswer, byLine, lispRuns, nested>>
----------------------------------------------------------------------------
\* A key: another text or cursor; what was shown is drawn anew.
Typed(text, at) ==
    /\ Event /\ at <= Len(text)
    /\ line' = text /\ cursor' = at /\ shown' = NothingShown
    /\ UNCHANGED <<suggesters, completers, lastAnswer, byLine, completions, lispRuns,
                   nested, interrupted, given>>

\* A C-c that Lisp has not seen: bash takes it and starts a new line.
CtrlC ==
    /\ Event /\ ~interrupted /\ interrupted' = TRUE
    /\ UNCHANGED <<line, cursor, suggesters, completers, lastAnswer, byLine, completions,
                   lispRuns, nested, shown, given>>

\* line_started, at a command's first line or at a later one of it (nested); a
\* line read while Lisp runs changes nothing of the command line.
LineStarted ==
    /\ Event /\ ~lispRuns /\ nested' \in BOOLEAN
    /\ line' = <<>> /\ cursor' = 0 /\ shown' = NothingShown /\ given' = <<>>
    /\ lastAnswer' = <<>> /\ byLine' = [text \in {} |-> <<>>] /\ completions' = <<>>
    /\ interrupted' = FALSE
    /\ UNCHANGED <<suggesters, completers, lispRuns>>

\* Lisp run from a key: it may have shell code read a line, and set the hooks.
LispStarts ==
    /\ Event /\ ~lispRuns /\ ~nested
    /\ lispRuns' = TRUE /\ nested' \in BOOLEAN /\ shown' = NothingShown
    /\ UNCHANGED <<line, cursor, suggesters, completers, lastAnswer, byLine, completions,
                   interrupted, given>>
LispEnds(some, others) ==
    /\ Event /\ lispRuns
    /\ lispRuns' = FALSE /\ nested' = FALSE /\ shown' = NothingShown
    /\ suggesters' = some /\ completers' = others
    /\ UNCHANGED <<line, cursor, lastAnswer, byLine, completions, interrupted, given>>

HooksInit ==
    /\ line = <<>> /\ cursor = 0 /\ lastAnswer = <<>> /\ byLine = [text \in {} |-> <<>>]
    /\ suggesters \in FunctionLists /\ completers \in FunctionLists
    /\ completions = <<>> /\ lispRuns = FALSE /\ nested = FALSE /\ interrupted = FALSE
    /\ shown = NothingShown /\ given = <<>> /\ events = 0

HooksNext ==
    \/ SuggestionKept \/ CompletionsKept \/ LineStarted \/ LispStarts \/ CtrlC
    \/ \E does \in [DOMAIN suggesters -> SuggesterDoes] : SuggestionAsked(does)
    \/ \E does \in [DOMAIN completers -> CompleterDoes] : CompletionsAsked(does)
    \/ \E text \in Line, at \in 0 .. LongestLine : Typed(text, at)
    \/ \E some, others \in FunctionLists : LispEnds(some, others)

HooksSpec == HooksInit /\ [][HooksNext]_hooksVars
----------------------------------------------------------------------------
\* What shows is for this text of the line, and was given by a function on this
\* command line: never an answer of the line before, and never items for another
\* cursor, whatever was asked, stopped or read under Lisp in between.
GivenOnThisLine ==
    /\ shown.suggestion # <<>> =>
         /\ Longer(shown.suggestion[1], line)
         /\ \E g \in Range(given) : g.is = "suggestion" /\ g.gave = shown.suggestion
    /\ shown.items # {} =>
         \E g \in Range(given) :
            g.is = "items" /\ g.line = line /\ g.cursor = cursor /\ g.gave = shown.items

\* The suggestion functions are asked once for each text of the line, also when
\* they had no answer, however the line goes back and forth.
AskedOnce ==
    \A i, j \in DOMAIN given :
        given[i].is = "suggestion" /\ given[j].is = "suggestion" /\ given[i].line = given[j].line
        => i = j

\* What the functions answer is asked for once and shows where it was asked for.
AnswersAreOfThisLine == GivenOnThisLine /\ AskedOnce
=============================================================================
