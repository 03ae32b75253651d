----------------------------- MODULE BashSession -----------------------------
(***************************************************************************)
(* bash's own completion for the menu: the Session of one shell            *)
(* (bash_complete/session.rs), the copies of the shell it asks             *)
(* (request.rs, copy.rs), and as much of a draw and of the wait for a key  *)
(* (hooks.rs) as asks them.                                                *)
(*                                                                         *)
(* The shell has one thread; `pc' is where it is:                          *)
(*   "key"      getc waits for a key;                                      *)
(*   "draw"     a draw is about to read the copy (session::prepare);       *)
(*   "decide"   prepare has read it and decides what to do;                *)
(*   "found"    session::found looks at the copy;                          *)
(*   "wait"     found waits on its pipe;                                   *)
(*   "between"  a line has ended, or inkline is off;                       *)
(*   "gone"     the shell has ended.                                       *)
(* The copies run between any two of its steps.  A clock is abstracted to  *)
(* `up', set when a copy's deadline has passed; the 15 ms a draw may wait  *)
(* can be over at any step.  An answer is written in pieces, but nothing   *)
(* comes of the pieces before the last.                                    *)
(***************************************************************************)
EXTENDS BashWords, FiniteSets

CONSTANTS
    Places,      \* the rest of a line, around the word
    AtCommand,   \* the places where a command name is completed
    Texts,       \* texts typed, and texts bash offers
    Words,       \* the words typed: texts at places
    Offered,     \* Offered[line][place]: what bash offers while that line is read
    None,        \* Rust's None
    MinChars,    \* inkline-command-min-chars
    Most,        \* MOST
    MaxCopies,   \* bound: copies started
    MaxNoStart,  \* bound: copies that could not start
    MaxLine      \* bound: lines read after the first

ASSUME BashConstantsOK ==
    /\ AtCommand \subseteq Places
    /\ Texts \subseteq Seq(STRING)
    /\ Words \subseteq [place : Places, typed : Texts]
    /\ MinChars \in Nat /\ Most \in Nat \ {0}
    /\ MaxCopies \in Nat /\ MaxNoStart \in Nat /\ MaxLine \in Nat
    /\ Offered \in [0 .. MaxLine -> [Places -> SUBSET Texts]]
    /\ \A l \in 0 .. MaxLine, p \in Places : IsFiniteSet(Offered[l][p])
    /\ None \notin Words \cup Nat
    /\ None \notin [word : Words, items : SUBSET Texts, cut : BOOLEAN]   \* an answer

VARIABLES
    \* struct Session
    saved, running, givenUp, timedOut, failed,
    \* the copies of the shell started so far
    copies,
    \* the shell: where it is, and the ticket's at_pause
    pc, atPause,
    \* the line: the word at the cursor, and whether more keys are coming
    word, more,
    \* State of hooks.rs: plain editing, the menu, the pause
    plain, menu, wantsPause, pausedOn,
    \* the lines read, whether inkline-bash-completion is on for this one,
    \* and the starts that failed
    line, on, noStart,
    \* whether inkline was reloaded while this line was read
    reloaded

session == <<saved, running, givenUp, timedOut, failed>>
screen  == <<plain, menu, wantsPause, pausedOn>>
prompt  == <<line, on, noStart, reloaded>>
vars    == <<session, copies, pc, atPause, word, more, screen, prompt>>

\* A copy: `line' is the one it was started for, `wrote' what is in its pipe,
\* `open' whether a process holds the pipe's writing end, `left' whether its
\* rule left a process in its group, and `killed' whether the shell signalled
\* the group, at the copy's limit or before it had answered.
Copy == [word : Words, line : 0 .. MaxLine, proc : {"new", "working", "ended"},
         wrote : {"nothing", "whole", "huge"}, items : SUBSET Texts, cut : BOOLEAN,
         up : BOOLEAN, open : BOOLEAN, left : BOOLEAN,
         killed : {"no", "dropped", "late"}]
Saved == [word : Words, items : SUBSET Texts, cut : BOOLEAN]
\* `cutFor' is history: the word of the answer, when it was cut.
Menu  == [word : Words, items : SUBSET Texts, waiting : BOOLEAN, cutFor : Words \cup {None}]

At(place) == pc = place
Bash(w) == Tab(Offered[line][w.place], w.typed)

-----------------------------------------------------------------------------
(* Reading a copy, and ending it. *)

\* Running::read has an answer or a failure to give.
Resolved(c) == copies[c].wrote # "nothing" \/ ~copies[c].open
Unresolved == running # None /\ ~Resolved(running)

\* Drop for Running: the group is killed, whatever is left in it.
Killed(c, why) ==
    [copies EXCEPT ![c].proc = "ended", ![c].left = FALSE, ![c].open = FALSE,
                   ![c].killed = why]
Dropped == IF running = None THEN copies ELSE Killed(running, "dropped")
Drop == running' = None /\ copies' = Dropped
DropOnly == running' = None /\ UNCHANGED copies

\* read_running, when the copy is Resolved.  A copy that wrote too much may
\* still run: it is killed.  One whose pipe closed has ended.
TakeRunning ==
    LET c == copies[running] IN
    /\ running # None /\ Resolved(running)
    /\ CASE c.wrote = "whole" ->
              /\ saved' = [word |-> c.word, items |-> c.items, cut |-> c.cut]
              /\ DropOnly /\ UNCHANGED <<givenUp, failed>>
         [] c.wrote = "huge" ->
              /\ failed' = failed + 1 /\ givenUp' = c.word
              /\ Drop /\ UNCHANGED saved
         [] OTHER ->
              /\ failed' = failed + 1 /\ givenUp' = c.word
              /\ DropOnly /\ UNCHANGED saved

\* The end of expire, when the copy has not answered in time.
TimeOut ==
    /\ timedOut' = timedOut + 1 /\ givenUp' = copies[running].word
    /\ running' = None /\ copies' = Killed(running, "late")

\* forget
ForgetCopyOnly == Drop /\ UNCHANGED <<saved, givenUp>>
Forget == Drop /\ saved' = None /\ givenUp' = None

-----------------------------------------------------------------------------
(* prepare *)

\* The word has no copy asked and no items: too short for a command name, or
\* given up on.
TooShort == word.place \in AtCommand /\ Len(word.typed) < MinChars
GivenUpOn(w) == givenUp # None /\ SamePlace(givenUp, w)

SavedFits == saved # None /\ Fits(saved.word, word)
SavedServes ==
    /\ SavedFits
    /\ \/ saved.word.typed = word.typed
       \/ ~saved.cut /\ \E m \in saved.items : Matches(word.typed, m)
RunningFits(w) == running # None /\ Fits(copies[running].word, w)

Decide ==
    CASE TooShort \/ GivenUpOn(word) -> "Nothing"
      [] SavedServes -> "Saved"
      [] RunningFits(word) -> "InFlight"
      [] SavedFits /\ pausedOn # word -> "AtPause"
      [] OTHER -> "Now"
\* Now, while more keys are coming, is put off to the pause.
Ask == IF Decide = "Now" /\ more THEN "AtPause" ELSE Decide

\* The menu the draw shows: menu_for keeps one for the same line and cursor
\* that waits for nothing which has come.
DrawMenu(items, waiting, cutFor) ==
    /\ pc' = "key" /\ atPause' = FALSE
    /\ menu' = IF menu # None /\ menu.word = word /\ (menu.waiting => waiting)
                 THEN menu
                 ELSE [word |-> word, items |-> {c \in items : Matches(word.typed, c)},
                       waiting |-> waiting, cutFor |-> cutFor]

\* ask_bash, with inkline-bash-completion off.
DrawOff ==
    /\ At("draw") /\ ~on
    /\ Forget /\ DrawMenu({}, FALSE, None) /\ more' = FALSE
    /\ UNCHANGED <<timedOut, failed, word, plain, wantsPause, pausedOn, prompt>>

\* prepare's read_running.
DrawReads ==
    /\ At("draw") /\ on
    /\ pc' = "decide"
    /\ IF running # None /\ Resolved(running)
         THEN TakeRunning
         ELSE UNCHANGED <<saved, running, givenUp, failed, copies>>
    /\ UNCHANGED <<timedOut, atPause, word, more, screen, prompt>>

AskNothing ==
    /\ At("decide") /\ Ask = "Nothing"
    /\ Drop /\ DrawMenu({}, FALSE, None) /\ more' = FALSE
    /\ UNCHANGED <<saved, givenUp, timedOut, failed, word, plain, wantsPause, pausedOn, prompt>>

\* What no copy is asked for now: the saved answer, or the one a copy works
\* on, or one at the next pause, which getc is asked for.
AskNoCopy ==
    /\ At("decide") /\ Ask \in {"Saved", "InFlight", "AtPause"}
    /\ IF Ask = "InFlight" THEN UNCHANGED <<running, copies>> ELSE Drop
    /\ atPause' = (Ask = "AtPause")
    /\ wantsPause' = (wantsPause \/ Ask = "AtPause")
    /\ pc' = "found" /\ more' = FALSE
    /\ UNCHANGED <<saved, givenUp, timedOut, failed, word, plain, menu, pausedOn, prompt>>

NewCopy(w) ==
    [word |-> w, line |-> line, proc |-> "new", wrote |-> "nothing", items |-> {},
     cut |-> FALSE, up |-> FALSE, open |-> TRUE, left |-> FALSE,
     killed |-> "no"]

\* A copy is started once the one before is dropped.
Start == Append(Dropped, NewCopy(word))
AskNow ==
    /\ At("decide") /\ Ask = "Now" /\ Len(copies) < MaxCopies
    /\ copies' = Start
    /\ running' = Len(copies) + 1
    /\ atPause' = FALSE /\ pc' = "found"
    /\ UNCHANGED <<saved, givenUp, timedOut, failed, word, more, screen, prompt>>

AskCannotStart ==
    /\ At("decide") /\ Ask = "Now"
    /\ noStart < MaxNoStart
    /\ noStart' = noStart + 1
    /\ Drop /\ failed' = failed + 1 /\ givenUp' = word
    /\ atPause' = FALSE /\ pc' = "found"
    /\ UNCHANGED <<saved, timedOut, word, more, screen, line, on, reloaded>>

-----------------------------------------------------------------------------
(* found *)

FoundTakes ==
    /\ At("found") /\ TakeRunning
    /\ UNCHANGED <<timedOut, pc, atPause, word, more, screen, prompt>>

FoundExpires ==
    /\ At("found") /\ Unresolved /\ copies[running].up
    /\ TimeOut
    /\ UNCHANGED <<saved, failed, pc, atPause, word, more, screen, prompt>>

FoundWaits ==
    /\ At("found") /\ Unresolved /\ ~copies[running].up /\ RunningFits(word)
    /\ pc' = "wait"
    /\ UNCHANGED <<session, copies, atPause, word, more, screen, prompt>>

WaitReady ==
    /\ At("wait") /\ Resolved(running)
    /\ pc' = "found"
    /\ UNCHANGED <<session, copies, atPause, word, more, screen, prompt>>

FoundItems == IF SavedFits THEN saved.items ELSE {}
Found ==
    IF GivenUpOn(word)
      THEN DrawMenu({}, FALSE, None)
      ELSE DrawMenu(FoundItems, atPause \/ RunningFits(word),
                    IF SavedFits /\ saved.cut THEN saved.word ELSE None)

\* Nothing to wait for, or no more time to: the draw's, or a signal's.
FoundDone ==
    /\ At("wait") \/ (At("found") /\ ~RunningFits(word))
    /\ Found
    /\ UNCHANGED <<session, copies, word, more, plain, wantsPause, pausedOn, prompt>>

Draw == DrawOff \/ DrawReads \/ AskNothing \/ AskNoCopy \/ AskNow \/ AskCannotStart
        \/ FoundTakes \/ FoundExpires \/ FoundWaits \/ WaitReady \/ FoundDone

-----------------------------------------------------------------------------
(* getc, and the keys.                                                     *)

\* A line no menu is gathered for has None for its word, and is drawn at once.
Redraw == pc' = IF word = None THEN "key" ELSE "draw"

\* A key's command leaves the word `w', or the same one, and the draw gathers
\* a menu; `m' says more keys are already there.  A resize draws so too.
Key(w, m) ==
    /\ At("key") /\ plain /\ Len(copies) < MaxCopies
    /\ word' = w /\ more' = m
    /\ wantsPause' = FALSE
    /\ pc' = "draw"
    /\ UNCHANGED <<session, copies, atPause, plain, menu, pausedOn, prompt>>

\* A key after which no menu is gathered: an empty line, a hidden menu, the
\* region, a row moved to.  A copy goes on with the word it was asked for.
KeyNoMenu ==
    /\ At("key") /\ plain
    /\ word' = None /\ menu' = None /\ wantsPause' = FALSE /\ more' = FALSE
    /\ UNCHANGED <<session, copies, pc, atPause, plain, pausedOn, prompt>>

\* An incremental search: its keys draw no menu, and the menu drawn before it
\* stays in State.  The line is drawn again when it ends, with another word
\* or the same.
StartSearch ==
    /\ At("key") /\ plain /\ Len(copies) < MaxCopies
    /\ plain' = FALSE /\ wantsPause' = FALSE
    /\ UNCHANGED <<session, copies, pc, atPause, word, more, menu, pausedOn, prompt>>
EndSearch(w) ==
    /\ At("key") /\ ~plain
    /\ plain' = TRUE /\ word' = w /\ more' = FALSE
    /\ pc' = "draw"
    /\ UNCHANGED <<session, copies, atPause, menu, wantsPause, pausedOn, prompt>>

\* Wait::Other: the copy's pipe is readable.
KeyReadsUndrawn ==
    /\ At("key") /\ plain /\ TakeRunning
    /\ wantsPause' = FALSE /\ more' = FALSE
    /\ UNCHANGED <<timedOut, pc, atPause, word, plain, menu, pausedOn, prompt>>
KeyReads ==
    /\ At("key") /\ plain /\ TakeRunning
    /\ wantsPause' = FALSE /\ more' = FALSE
    /\ Redraw
    /\ UNCHANGED <<timedOut, atPause, word, plain, menu, pausedOn, prompt>>

ShowsBashItems == menu # None /\ menu.items # {}
KeyExpiresUnread ==
    /\ At("key") /\ running # None /\ copies[running].up
    /\ TimeOut /\ UNCHANGED <<saved, failed>>
    /\ IF plain /\ ShowsBashItems THEN Redraw ELSE UNCHANGED pc
    /\ more' = FALSE
    /\ UNCHANGED <<atPause, word, screen, prompt>>

KeyExpiresPlain ==
    /\ At("key") /\ plain /\ running # None /\ copies[running].up
    /\ \/ TakeRunning /\ UNCHANGED timedOut
          /\ IF plain THEN Redraw ELSE UNCHANGED pc
       \/ ~Resolved(running) /\ TimeOut /\ UNCHANGED <<saved, failed>>
          /\ IF plain /\ ShowsBashItems THEN Redraw ELSE UNCHANGED pc
    /\ more' = FALSE
    /\ UNCHANGED <<atPause, word, screen, prompt>>

\* Wait::Paused, because the copy's time is up: expire.  The pause stays asked
\* for.  What came is drawn; so is the loss of a copy, while the menu shows
\* items of bash.  In a search nothing is.
KeyExpires ==
    /\ At("key") /\ running # None /\ copies[running].up
    /\ \/ TakeRunning /\ UNCHANGED timedOut
          /\ IF plain THEN Redraw ELSE UNCHANGED pc
       \/ ~Resolved(running) /\ TimeOut /\ UNCHANGED <<saved, failed>>
          /\ IF plain /\ ShowsBashItems THEN Redraw ELSE UNCHANGED pc
    /\ more' = FALSE
    /\ UNCHANGED <<atPause, word, screen, prompt>>

\* Wait::Paused, because typing has.
Pause ==
    /\ At("key") /\ plain /\ wantsPause
    /\ running # None => ~copies[running].up
    /\ pausedOn' = word /\ wantsPause' = FALSE /\ more' = FALSE
    /\ Redraw
    /\ UNCHANGED <<session, copies, atPause, word, plain, menu, prompt>>

\* The line ends: with Enter deprep_terminal forgets, after a C-c bash jumps to
\* a new prompt and only the next line does.
EndLine(done) ==
    /\ At("key") /\ line < MaxLine
    /\ pc' = "between" /\ wantsPause' = FALSE
    /\ IF done THEN Forget ELSE UNCHANGED <<saved, running, givenUp, copies>>
    /\ UNCHANGED <<timedOut, failed, atPause, word, more, plain, menu, pausedOn, prompt>>

\* pre_input, for an empty line.
NewLine ==
    /\ At("between")
    /\ pc' = "key" /\ line' = line + 1
    /\ \E setting \in BOOLEAN : on' = setting
    /\ reloaded' = FALSE
    /\ word' = None /\ more' = FALSE
    /\ plain' = TRUE /\ menu' = None /\ wantsPause' = FALSE /\ pausedOn' = None
    /\ Forget
    /\ UNCHANGED <<timedOut, failed, atPause, noStart>>

\* `inkline reload' while a line is read, and the draw after it.
Reload ==
    /\ At("key") /\ plain /\ Len(copies) < MaxCopies
    /\ Forget
    /\ wantsPause' = FALSE /\ more' = FALSE /\ reloaded' = TRUE
    /\ Redraw
    /\ UNCHANGED <<timedOut, failed, atPause, word, plain, menu, pausedOn, line, on, noStart>>

\* disable: nothing is drawn until inkline is on again, at a later line.
Disable ==
    /\ At("key") /\ plain /\ line < MaxLine
    /\ Forget
    /\ pc' = "between" /\ menu' = None /\ wantsPause' = FALSE
    /\ UNCHANGED <<timedOut, failed, atPause, word, more, plain, pausedOn, prompt>>

\* The shell ends, and no Drop runs.
ShellEnds ==
    /\ At("key")
    /\ pc' = "gone"
    /\ saved' = None /\ running' = None /\ givenUp' = None /\ timedOut' = 0 /\ failed' = 0
    /\ word' = None /\ more' = FALSE
    /\ plain' = TRUE /\ menu' = None /\ wantsPause' = FALSE /\ pausedOn' = None
    /\ UNCHANGED <<copies, atPause, prompt>>

-----------------------------------------------------------------------------
(* The copies. *)

OfCopy == UNCHANGED <<session, pc, atPause, word, more, screen, prompt>>
Runs(c) == c \in DOMAIN copies /\ copies[c].proc = "working"

\* become_copy and start_watcher; without a watcher it exits.
CopyBecomes(c) ==
    /\ copies[c].proc = "new"
    /\ \/ copies' = [copies EXCEPT ![c].proc = "working"]
       \/ copies' = [copies EXCEPT ![c].proc = "ended", ![c].open = FALSE]
    /\ OfCopy

\* gather, at most Most of what bash gives, and the write.
Given(c) == Tab(Offered[copies[c].line][copies[c].word.place], copies[c].word.typed)
CopyAnswers(c) ==
    /\ copies[c].proc = "working" /\ copies[c].wrote = "nothing"
    /\ \E items \in SUBSET Given(c) :
         /\ Cardinality(items) = (IF Cardinality(Given(c)) > Most THEN Most
                                                                 ELSE Cardinality(Given(c)))
         /\ copies' = [copies EXCEPT ![c].wrote = "whole", ![c].items = items,
                                     ![c].cut = (Cardinality(Given(c)) > Most)]
    /\ OfCopy

\* More than MOST_BYTES.
CopyWritesTooMuch(c) ==
    /\ copies[c].proc = "working" /\ copies[c].wrote = "nothing"
    /\ copies' = [copies EXCEPT ![c].wrote = "huge"]
    /\ OfCopy

\* The copy exits once it has answered, or when an error in a rule jumps out.
\* A process of its rule may go on, and hold the pipe open.
CopyExits(c) ==
    /\ copies[c].proc = "working"
    /\ \E left \in BOOLEAN : \E open \in {FALSE, left} :
         copies' = [copies EXCEPT ![c].proc = "ended", ![c].left = left, ![c].open = open]
    /\ OfCopy

\* The watcher lives as long as the copy.
WatcherForShellOnly(c) ==
    /\ copies[c].proc = "working" /\ pc = "gone"
    /\ copies' = [copies EXCEPT ![c].proc = "ended", ![c].left = FALSE, ![c].open = FALSE]
    /\ OfCopy
WatcherKills(c) ==
    /\ copies[c].proc = "working"
    /\ copies[c].up \/ pc = "gone"
    /\ copies' = [copies EXCEPT ![c].proc = "ended", ![c].left = FALSE, ![c].open = FALSE]
    /\ OfCopy

TimeUp(c) ==
    /\ ~copies[c].up
    /\ copies[c].proc # "ended" \/ running = c
    /\ copies' = [copies EXCEPT ![c].up = TRUE]
    /\ OfCopy

-----------------------------------------------------------------------------
Init ==
    /\ saved = None /\ running = None /\ givenUp = None /\ timedOut = 0 /\ failed = 0
    /\ copies = <<>>
    /\ pc = "key" /\ atPause = FALSE /\ word = None /\ more = FALSE
    /\ plain = TRUE /\ menu = None /\ wantsPause = FALSE /\ pausedOn = None
    /\ line = 0 /\ on \in BOOLEAN /\ noStart = 0 /\ reloaded = FALSE

Keys ==
    \/ \E w \in Words, m \in BOOLEAN : Key(w, m)
    \/ KeyNoMenu \/ StartSearch
    \/ \E w \in Words : EndSearch(w)
    \/ \E done \in BOOLEAN : EndLine(done)
    \/ NewLine \/ Reload \/ Disable \/ ShellEnds

Waits == KeyReads \/ KeyExpires \/ Pause

CopyStep(c) ==
    \/ CopyBecomes(c) \/ CopyAnswers(c) \/ CopyWritesTooMuch(c) \/ CopyExits(c)
    \/ WatcherKills(c) \/ TimeUp(c)

Next == Draw \/ Waits \/ Keys \/ \E c \in DOMAIN copies : CopyStep(c)

Spec == Init /\ [][Next]_vars

\* Time passes; the watcher is given the processor; the shell draws on by
\* itself, and waits for a key with the copy's deadline as a limit.  After a
\* C-c it prompts again.
TimeFairness == \A c \in 1 .. MaxCopies : WF_vars(c \in DOMAIN copies /\ TimeUp(c))
WatcherFairness ==
    \A c \in 1 .. MaxCopies :
        /\ WF_vars(c \in DOMAIN copies /\ CopyBecomes(c))
        /\ WF_vars(c \in DOMAIN copies /\ WatcherKills(c))
ShellFairness ==
    /\ WF_vars(Draw) /\ WF_vars(KeyExpires)
    /\ WF_vars(running # None /\ NewLine)
LiveSpec == Spec /\ TimeFairness /\ WatcherFairness

-----------------------------------------------------------------------------
(* Properties. *)

\* Every variable of the session, the copies and the screen has its type.
TypeOK ==
    /\ saved \in Saved \cup {None} /\ givenUp \in Words \cup {None}
    /\ timedOut \in Nat /\ failed \in Nat
    /\ copies \in Seq(Copy) /\ running \in (1 .. Len(copies)) \cup {None}
    /\ pc \in {"key", "draw", "decide", "found", "wait", "between", "gone"}
    /\ atPause \in BOOLEAN /\ more \in BOOLEAN /\ word \in Words \cup {None}
    /\ plain \in BOOLEAN /\ wantsPause \in BOOLEAN
    /\ menu \in Menu \cup {None} /\ pausedOn \in Words \cup {None}
    /\ line \in 0 .. MaxLine /\ on \in BOOLEAN /\ noStart \in Nat
    /\ reloaded \in BOOLEAN

\* The rows of bash that go on from the typed text are rows bash's own Tab
\* lists for the word on this line ("as bash's own Tab would", README.md):
\* also when they come from the answer for another text at the place (fits),
\* from a copy started before the last keys, or after a C-c ended a line
\* while a copy worked.
ShownIsBashs ==
    menu # None => GoOnFrom(menu.word.typed, menu.items) \subseteq Bash(menu.word)

\* A menu drawn for a word bash is asked about, that waits for nothing.
Settled ==
    /\ At("key") /\ plain /\ menu # None /\ on /\ ~reloaded /\ ~menu.waiting
    /\ ~GivenUpOn(menu.word)
    /\ ~(menu.word.place \in AtCommand /\ Len(menu.word.typed) < MinChars)

\* A menu that waits for nothing has every row bash's own Tab lists, but for
\* a word given up on, a command name too short, an answer that was cut, and
\* a menu kept over a reload.
SettledIsComplete ==
    Settled /\ menu.cutFor = None
        => GoOnFrom(menu.word.typed, menu.items) = Bash(menu.word)

\* "bash is asked again once typing pauses, when nothing in the saved answer
\* matches or when the answer was cut" (README.md; decide: and the typed text
\* is longer than the one it was asked for).
CutIsAskedAgain ==
    Settled /\ menu.cutFor # None => menu.cutFor.typed = menu.word.typed

\* One copy works at a time: the one the shell holds, but for a copy whose
\* answer is written and that only has its exit left (prepare, Drop), while
\* the shell lives.
OneCopyWorks ==
    \A c \in DOMAIN copies :
        copies[c].proc # "ended" /\ copies[c].wrote # "whole" => running = c \/ pc = "gone"

Coming == wantsPause \/ RunningFits(menu.word)

\* A menu that shows items of bash and waits for more has them coming: a copy
\* works on them, or a pause is waited for (getc, keep_pause_wanted).
ShownWaitingHasMoreComing ==
    At("key") /\ plain /\ ShowsBashItems /\ menu.waiting => Coming

\* What the menu says of bash is true: it waits while more may come, and has
\* all of bash's rows once it does not, whatever answer was filtered for the
\* text, and whichever copy was stopped or came late in between.
WaitsWhileMoreComes == SettledIsComplete /\ ShownWaitingHasMoreComing

\* README.md: Tab "with only one row, and no more items still coming, writes
\* it"; it goes by the menu's mark that it waits (moving.rs, tab).
WaitingHasMoreComing ==
    At("key") /\ plain /\ menu # None /\ menu.waiting => Coming

\* "An answer that came in time while the key read was not for plain editing
\* is taken at the copy's limit, not counted as timed out"
\* (tests/bash_items.rs): whatever the shell was busy with.
AnsweredIsNotTimedOut ==
    [][timedOut' > timedOut => copies[running].wrote # "whole"]_vars

Late == {c \in DOMAIN copies : copies[c].killed = "late" /\ copies[c].line = line}

\* README.md: a copy still running at the limit "is stopped, and that word
\* gets no `c' items"; decide: "a word whose copy timed out or failed" gets
\* "no copy".  For every such word of the line.
LateWordNotAskedAgain ==
    [][Len(copies') > Len(copies) /\ ~reloaded
         => \A c \in Late : copies[c].word # word]_vars

\* Dropping a copy kills it "unless its answer has come": "the copy's group may
\* then be gone, and its id soon belong to another group" (request.rs).  A
\* group is signalled only while it has a process.
OnlyLiveGroupKilled ==
    [][\A c \in DOMAIN copies :
         copies[c].killed = "no" /\ copies'[c].killed # "no"
           => copies[c].proc # "ended" \/ copies[c].left]_vars

\* The copy the shell holds is taken, counted or dropped though no key comes,
\* if the shell is not stopped.
CopyLetGo ==
    ShellFairness => \A c \in 1 .. MaxCopies : running = c ~> running # c

\* A copy ends, also while the shell is stopped or once it has ended.
CopiesEnd ==
    \A c \in 1 .. MaxCopies :
        c \in DOMAIN copies ~> (c \in DOMAIN copies /\ copies[c].proc = "ended")

\* No copy stays: not as a process (CopiesEnd), and not in the shell's hands
\* (CopyLetGo).
NoCopyStays == CopiesEnd /\ CopyLetGo
=============================================================================
