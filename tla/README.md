# inkline in TLA+

inkline is a bash builtin that replaces how readline shows and edits a line:
it colours the command, suggests the rest of it, lists completions in a menu,
and lets Lisp change the keys. It runs inside bash's one thread, between
readline's callbacks, and talks to processes that run beside it: the *mode
servers*, which colour and complete other programs' arguments, and *copies of
the shell*, which work out bash's own completions.

This directory models the parts of inkline where that matters: what is read
from a process, when, what it is taken for, how long it is kept, and what a
draw or a key does meanwhile. The models are written from the source
(`../src/src`); `PROJECT.json` maps each definition to its lines.

## The system

| Part | State | Operations | Talks to |
|---|---|---|---|
| mode server client: `mode_server.rs`, `mode_server/process.rs`, `mode_server/protocol.rs` | per mode a `Server` (not started, starting, running, off, with the reason); when running the features it named, the request in flight, the replies kept, the ID up to which replies are forgotten; its socket and the bytes not yet taken | `define`, `stop_all`, `prepare`, `replies`, `indent`, `read_waiting`, `forget_replies`, `take_notices` | the program over a socket; the draw, Enter and the wait for a key call it |
| bash's completion: `bash_complete.rs`, `bash_complete/*` | a `Session`: the saved answer, the copy asked, the word given up on, two counters; per copy a process group and a pipe | `decide`, `prepare`, `found`, `read_waiting`, `expire`, `forget`; in the copy `run`, `gather`, `watch` | forked copies over pipes; the draw and the wait for a key |
| hooks and the wait for a key: `hooks.rs` | `State`: menu, pauses asked for, what is drawn and where | `getc`, `redisplay`, `pre_input`, `deprep_terminal`, `enable`, `disable`, `accept_line` | readline's callbacks; everything else |
| moving through the menu: `menu.rs`, `menu/mode.rs`, `hooks/moving.rs`, and the draw in `hooks.rs` | the menu's rows and the picked one; the undo list, cursor and line as the last move left them | Tab, arrows, cancel, stop | readline's undo list |
| multiline editing: `hooks/multiline.rs`, `lines.rs`, `indent.rs` | a goal column, a history search under way | Up, Down, new line with its indent | history, mode servers (`indent`) |
| history search: `history_search.rs` | a search: text, start, last match | `next_match` | history |
| region: `hooks/region.rs` | the active region's text, the mark before a search | `update`, `end_if_changed` | readline's mark |
| Lisp lockout: `lisp/lockout.rs`, `lisp/init.rs` | marker files shared by all the user's shells | `read_at_start`, `read_again`, `hooks_marker` | the file system, other shells |
| Lisp hooks: `lisp/hooks.rs` | the functions, the answers kept for a line | line start, after change, accept, suggestions, completions | the interpreter, undo |
| keys: `lisp/keys.rs`, `lisp/keydesc.rs`, `lisp/layout.rs` | keys inkline owns and what they did before | bind, restore at reload and off | readline keymaps |
| Lisp: `lisp.rs`, `lisp/settings.rs`, `values`, `buffer`, `commands`, `emacs`, `errors`, `modes` | one interpreter, settings | `eval`, `load`, `reload` | keys, servers |
| text: `lexer.rs`, `syntax.rs`, `args.rs`, `highlight.rs`, `render.rs`, `suggest.rs`, `pairs.rs`, `commands.rs`, `colors.rs` | none, but for a cache of command names | functions of a line | the draw |
| binding: `ffi.rs`, `rlcall.c`, `lib.rs` | none of their own | calls into readline and bash | readline, bash |

What is hard, and hard to test, is the first rows: one thread that must never
wait long, against processes that answer late, in pieces, never, or for a line
that is gone. `PROJECT.json` lists each such hazard at its line, with the
properties that watch it.

What makes each part correct, in a sentence:

- *mode servers*: a reply is kept as the answer to the request it was made
  for, on the line it was sent for; a server is blamed only for what it did;
  every call returns.
- *bash's completion*: what the menu shows as bash's is what bash's own Tab
  would list for the word now under the cursor; a menu that says nothing more
  is coming is complete; one copy works at a time, and none outlives its time.
- *lockout*: an `init.el` that hung a shell does not hang the next.
- *moving, region, history search, keys*: what an operation undoes or puts
  back is its own work, whatever else edited the line between.

## Modules

| Module | What it is |
|---|---|
| `ModeServer` | one mode's server: client, socket and program |
| `MCModeServer` | its instances for TLC |
| `ModeServerProofs` | theorems about it |
| `BashWords` | words, `fits`, and bash's Tab as far as `fits` counts on it |
| `BashSession` | the session, the copies, and as much of a draw and of `getc` as asks them |
| `MCBashSession` | its instances for TLC |
| `BashSessionProofs` | theorems about both |
| `KeyWait`, `MCKeyWait` | the reader of keys, `getc`, with signals between its steps, and what it hands on |
| `Lockout` | the shells of one user, `init.el` and the marker directory |
| `MCLockout` | its instance for TLC |
| `LockoutProofs` | theorems about it |
| `MenuWindow` | which rows of a menu its lines show |
| `Browsing` | what moving through the menu promises, as the user sees it |
| `Moving` | the menu and moving through it, over readline's line, undo list and history |
| `MCMoving` | its instance for TLC |
| `MovingProofs` | theorems about it, and that it implements `Browsing` |
| `Lines` | the lines of a text, the columns of its characters, the kills |
| `HistorySearch` | the next match of a search of the Up and Down keys |
| `Stepping` | what a search promises: texts stepped through, and back to the line typed |
| `UpDown`, `MCUpDown` | the Up and Down keys, over the two above and readline's history |
| `KeyProofs` | theorems about `KeyWait` and `UpDown` |
| `Indent` | how the lines of a command are indented |
| `Editor`, `MCEditor` | Enter, new lines, pairs, kills, the region, over `Indent` |
| `EditorProofs` | theorems about it |
| `Keymap` | readline's keymap as inkline reads and writes it |
| `Keys` | the keys inkline binds and gives back, and the slots of Lisp commands |
| `LispSteps` | Lisp commands and hook functions as undo steps |
| `LispHooks` | the suggestion and completion functions and the answers kept |
| `Switching` | on, off, loading and unloading: the functions readline calls |
| `LispProofs` | theorems about `Keys`, `LispHooks` and `Switching` |
| `MCLisp` | the instance of `Keys`, `LispSteps`, `LispHooks` and `Switching` for TLC |
| `Ranking` | which items the menu lists, in which order, and the grey text |
| `Render` | what is written to draw a line, and the terminal that acts on it |
| `Screen` | a draw around readline's own, from prompt to Enter |
| `Buffer` | the line as Lisp edits it: positions, edits, excursions |
| `TextProofs` | theorems about `Buffer`, `LispSteps` and `Ranking` |
| `MCText` | the instance of `Ranking`, `Screen` and `Buffer` for TLC |

### ModeServer

The variables are those of `Server` (`state`, `reason`, `notice`), `Running`
(`features`, `lastId`, `inFlight`, `kept`, `keptItems`, `forgotten`,
`indentAnswer`) and `Process` (`slot`, what its descriptor holds, and `buf`);
the program (`alive`, `offers`, `greeted`, `serving`, `said`); and the two
directions of the socket. A function that may wait is a *call*: `call.op` is
the function, and `call.pc` where it is:

- `take`: it reads what is in the buffer (`read_version`, `take_reply`);
- `next`: `advance` or `ask_indent` looks for what to ask next;
- `fill`: it reads the socket (`Process::fill`);
- `wait`: `replies` waits for the sockets to be readable.

The program's steps come between any two of a call's. Functions that do not
wait (`define`, `forget_replies`, `take_notices`) are one action. An output
byte stream is a sequence of tokens: the lines that settle a reply (`hello`,
`stray`, `end`) and output that does not (`data`, `malformed`). A request's
text is a member of `Requests`; one in `Large` is longer than the socket holds,
so writing it needs the program to read. `r1` is one in all the runs. A deadline
or a C-c is a choice at each step whose code looks at it.

The program keeps `docs/mode-protocol.md` or breaks it: `ProgramStrays` and
`ProgramStopsReading` record in `faults` which rule it broke. Properties about
an honest program start with `faults = {}`; those that must hold against any
program do not. `line` (how many lines the prompt read) is history
too; no guard of inkline's reads it.

One server is modelled. Several servers share nothing but the deadline of one
`replies` call, and a deadline here may pass at any time.

### BashSession

`saved`, `running`, `givenUp`, `timedOut`, `failed` are `Session`'s fields.
`copies[i]` is the i-th copy of the shell: its process, what is in its pipe,
whether its time is `up`, whether something still holds the pipe `open`, and
whether its rule `left` a process in its group. `pc` is where the shell's
thread is: at a key, in `prepare` (`draw`, `decide`), in `found` (`found`,
`wait`), between two lines, or gone. Copies step between any two of its steps.
`plain`, `menu`, `wantsPause` and `pausedOn` are fields of `hooks.rs`'s
`State`; `word` and `more` are the line's word at the cursor and whether more
keys are coming.

`BashWords` has `Fits` (`fits`, `directory`), and `Tab`, bash's side, which is
external: of all the texts a place offers, those that go on from what is typed,
no further than one directory, and flags only for a word that starts with `-`.
`Offered[line][place]` may differ from line to line: a command may have changed
the files.

### Lockout

`markers` is the directory: `<kind>.<pid>` to when it was made and, as history,
by which shell. `pc[s]` is where shell `s` is between two system calls of
`read`, or in Lisp; `text`, `changed` and `seen` are `read`'s locals, gone when
it returns; `why` tells a start from the two parts of `inkline reload`. A shell
may end anywhere; its pid is then free for another. `endedIn` remembers in
which Lisp. A shell that hangs is one that takes no step.

`known[s]` are the shells that had hung when `s` read the text of `init.el`:
those it is to learn of.

Three things are known to defeat the markers, and `races` records that they
have happened, so that `HungIsNotRunAgain` can leave them out by name: a pid
given out again while its marker is there, or was seen by a shell that has yet
to judge it (`pid`); a save in the middle of a read (`save`, see below); and a
marker removed in the place of the one seen, one of that name having been made
since (`clear`). Asking which pids are
alive is one step for all the markers read, where the code asks for each as it
reads it: that widens the window in which a shell that finished counts as
stuck, whose cost is a skip that says so.

### Moving and Browsing

`menu`, `moving`, `hidden`, `drawnAt`, `asked` and `cursorMoved` are fields of
`hooks.rs`'s `State` (`hidden_on`, `drawn_at`, `asked_on`); `line`, `undo`,
`entry` and `last` are readline's, which is external. A *place* is a text of
the line with the cursor in it. A row of a menu is the place that taking it
leads to; `Offers` says which lists of rows a draw may gather at a place, and
the draw picks one, so that answers that come change the rows.

`pc` is where readline is with a key. At `key`, inkline waits: a command may
run, or `Redraw` (an answer has come). A command that changed the text leads to
`hook`, where the functions of `inkline-after-change-functions` may change the
line, and then to `draw`, where `Redisplay` draws it. `Draws` is
`repaint_line`, with `menu_for` and the moving state's part; it either repaints
or leaves the line to readline, has room for a menu or not, and has all items
or waits for some.

An undo entry has an *address*, because `Moving::live` compares addresses: a
freed entry's may be given to the next. A write of a row is one entry, as
`replace_text` groups it.

`onScreen`, `hid` and `wandered` are history: the rows of the last draw, the
text that `C-g` hid the menu on, and whether the cursor has moved on this text.

`Browsing` has four variables: the place on screen, what is moved through (what
was typed, the rows, the row picked), the text that one undo gives back, and
the last key. Moving starts, moves over the same rows, is given up (the line
and cursor are as typed), is kept, or is ended by anything else. `Moving` is
shown to implement it with `browse` taken from the moving state while it is
`Live`.

### KeyWait

`getc` step by step: `at` is where it is between two of them (about to wait,
waiting, after a signal, erasing, reading), `mode` whose key it waits for: the
main line's, a question's that Lisp asks, or that of a line read by shell code
under Lisp (`read -e`). `after_lisp` is two steps, since a signal may land
between what it takes and what it hands on. A C-c, a resize or the end of a
child lands between any two steps. What carries a C-c from one to the next is
`caught` (readline's one slot, which holds the newest signal), `bashHas`
(bash's `interrupt_state`), `lispInt` and `passedOn` (the two marks of
`lisp.rs`), and `wasInt`. `wants`, `taken` and `waited` are the pause after
typing, which an error in the line waits for; `updating` is the synchronized
update a draw leaves open. `owed`, `pressedAt`, `late`, `mixed` and `lastly` are
history: whether the user still waits for a C-c to do something, and whether
the line has got a key typed after it. A resize that arrives before readline
has looked at a C-c takes its place in `caught`: the C-c is lost, by readline,
and the model says so by ending what is owed.

### UpDown, HistorySearch, Stepping, Lines

`line` is readline's text, cursor and undo list; `place`, `entries`, `saved`
its history: an entry keeps what was changed in it while it was in the line,
and the line typed is saved with its undo list. `search` and `goal` are the
fields of `State`. Each key is one action: Up, Down with a count, the two
searches, the same keys in a menu, editing keys and readline's own history
keys. A menu key has a menu to move through, so there is no region, and the
line is not just an entry called up (`Recalled`) unless a run of menu keys goes
on. `began` is history: the column that the run of Up and Down began at, while
there is one. A run that another key ended and a menu key by 0 takes up again
(`TakenUp`, see what the models found) is left out of `SearchSteps` and of
`RunKeepsColumn`, by name. `HistorySearch` has the scan of `next_match` as the
code makes it, entry by entry (`Looked`, `Scans`), and `PromisedMatch`, what it
is to find: the head of the count-th run of equal matches. A search is never by 0: `vertical` searches
for the lines that are left over, and `search` returns where there are none. `Stepping` is the abstract
specification, in which a search is a list and a place in it; `UpDown` is
shown to implement it for searches that started past their entries, and
`SearchSteps` is that.

### Editor and Indent

Keys of a line of several lines: Enter, `C-j`, typed characters with the
closing ones of pairs, DEL on a pair, the kills, the region's keys and an
incremental search. A word, an operator and a blank are one character each, so
`do`, `case`, `;;`, brackets and quotes keep what `indent.rs` does with them at
the length of a few characters. `line.undo` is readline's list entry by entry,
with its groups and its joining of typed characters, since what one undo takes
back is the question. `region` holds `region.rs`'s two cells and readline's
mark. What the checker says of a text (complete or not) and what a mode's
server answers (none, or depths) are choices.

### Keys and Keymap

`map` is readline's keymap, in which a sequence that starts longer ones keeps
what it ran as the prefix's "any other key". `table`, `slots` and `left` are
`TABLE`, `SLOT_USE` and `LEFT_ALONE`. The operations are binding and unbinding
from Lisp, `inkline-unbind-defaults`, the layout at loading and reload, and a
Lisp command that is done with. `UserBinds` is the user's own `bind` between
any two. `without` is history: the keymap as it would be had inkline never
bound anything, which is what must be given back. A user who binds a key to
just what inkline has there is left out: the table cannot tell, and the code
does not claim to.

### LispSteps

`lines` are the history lines with their undo lists, `level` readline's one
count of open groups, `group` inkline's `UNDO_GROUP`. `running` is the stack of
steps that run: a command, and under it the functions of a hook or commands
that Lisp calls. A step ends well, by an error, a quit or a panic. Lisp changes
the line, calls readline's commands, which may move to another history line,
undo, or have a list freed. A step's `did` is history.

### LispHooks

The suggestion and completion functions, which a draw asks one after another.
What each does is a choice: an answer, nothing, an error (it is removed), a
quit, a C-c. `lastAnswer`, `byLine` and `completions` are what is kept. Between
draws the line changes, the hooks change, a line is run, or another line is
read under Lisp. `given` is history.

### Switching and its stack

`ink` holds what readline calls now and what inkline saved of it
(`ORIGINALS`), and the flags; `stack` is what runs, the innermost last: shell
code, a line that is read, Lisp. That is the composition of the parts above as
far as switching goes: shell code is run by a key, by a trap while readline
waits, by Lisp; it may switch inkline off under its own draw, load it again,
read a line, or jump to bash's top level past everything above it. `EnableF`,
`EnableD`, `On` and `Off` are the builtins; `Enable`, `Disable`, `Guard`,
`BeforeLisp`, `AfterLisp`, `GetcWaits` and `Deprep` the functions they and the
callbacks are made of. A panic may happen in any of inkline's
code, and in Lisp.

### Ranking

A line, a style of matching, history in any order, and what the other sources
offer. `Offer` is `HistoryGather::offer`, one entry a step; `Gathers`
makes the menu: it orders, filters and picks the grey text. Texts are of one-byte characters.
Filters (`Listed`, `Matched`, `Drawn`, `Distinct`) pick the elements at a set of
places (`Picked`), and the sort puts each item after as many as are ahead of it
(`PlaceOf`), so that both can be reasoned about without recursion.

### Render and Screen

`Render` gives what is written, as a sequence of the terminal's operations, and
what the terminal does with each: it has the pending wrap after a filled
row, scrolls, and counts rows by the first of the prompt. `Screen` puts a draw
together as `hooks.rs` does: erase what was shown, let readline draw, paint
the line, the suggestion, message and menu, go back. Readline writes its own
cells and blanks only those its old line covered, so that anything of inkline's
left elsewhere stays, which is what the properties look for. The
*picture* of a draw is given from the line alone, by place, and not from the
operations.

### Buffer

`buffer` is the line of `CURRENT`, which is readline's: its text, and the bytes
where point and mark are; `lending` says what Lisp has it for (`WRITABLE`), and
`markers` are the places `save-excursion` keeps. A text is a sequence of
bytes, and a byte says of which character it is and which byte of it, so that
the middle of a character is a place, as in `text()`. Every character is
another one, so that those on each side of a place can be told apart; what is
inserted is new. Each function of `register` that moves or edits is an action,
with the conversion between positions, which count characters, and bytes
(`ToByte`, `ToPos`) and the two that move places over an edit
(`AdjustAfterInsert`, `AdjustAfterDelete`). The functions that only read have no
action. `RestorePoint` is called as the macro calls it, so excursions end
innermost first. `CallReadline` is any of readline's commands, which leaves
any line. `sides` is history: the characters on either side of point when each
excursion began, forgotten once such a command has changed the line.

## Runs

| Run | Shows |
|---|---|
| `mode_server` | `KeptFromThisLine`: nothing is kept from an earlier line; `AnswersAreOwn`: answers are kept for their requests, depths for their call's; `ProtocolKept`: one request at a time, none of a kind not named, no wait on a reply that is there; `TurnedOffJustly`: for what a server that keeps the protocol is turned off; `TakenIsGivenUp`: a descriptor the shell took is neither read, written nor closed, and the server is turned off for that |
| `mode_server_live` | `CallsReturn`; `EveryRequestResolved`: the reply in flight is taken though no call waits for it, or the loss of the server seen |
| `bash_session` | `ShownIsBashs`: every row is bash's; `WaitsWhileMoreComes`: a settled menu is complete, one that shows bash's items and waits has more coming; `AnsweredIsNotTimedOut` |
| `bash_session_live` | `NoCopyStays`: every copy ends, also after the shell, and the shell lets go of each with no key pressed |
| `key_wait` | `CtrlCInTurn`: a C-c throws one line away, once, and not before Lisp has stopped; `KeysStayTogether`: between two keys typed after it bash does not act on it, so that a line with keys of before and after it is thrown away at the wait or not at all; `CtrlCActs` and `ErrorShows`: each C-c does something, each new error shows once typing pauses |
| `lisp` | the four modules of Lisp and `Switching`, one at a time: `UsersKeysKept`, `RunsItsCommand`; `GroupsEndWell`, `StepsAreOneUndo`; `AnswersAreOfThisLine`; `FunctionsInPlace`, `NothingOfEarlierLine` |
| `lockout` | `MarkerMeansUnfinished`; `HungIsNotRunAgain`: no shell runs what another was ended in |
| `moving` | `PickedRowShows`: the row picked is inside the window shown; `MenuStaysAway`: a menu hidden, or strayed from, is not shown; `RowsWereOnScreen`; `Browses`: `Moving` implements `Browsing`, and no row is written into a text its menu is not for |
| `up_down` | `FindsAsPromised`: from every state the next match is the promised one; `ColumnsKept`: up and down again is in the line and column it left, and not before where it was (`ColumnKept`), and every key of a run goes to the column where the run began (`RunKeepsColumn`); `SearchSteps`: a search implements `Stepping` |
| `editor` | `BlocksLineUp`: closing words are as far in as what they close; `SearchLeavesNoTrace`: a search leaves the region and DEL as they were; `EnterIsOneStep`: one undo, and words stay |
| `text` | `ScreenIsRight`: after each draw every cell is what the line says; `NothingLeftBehind` at Enter and off; `PromptEndsWhereDrawn`; `GatheredAtTheirBest`: the shortest stretch is found, no kind of match crowds another out; `BestIsShown`: what is listed is not hidden by what is not and comes best first, the grey text is the best item's; `PlacesFollowText`: point, mark and excursions follow Lisp's edits, and functions that only read leave the line |
| `switching_reader` | a finding, see below |

A property with parts is one run's question stated of two situations; each part
is a definition of its own, with its own comment.

### Bounds, and why they are enough

`mode_server`: two requests at one place, asked alone, together, or not at
all; three request IDs (a colour request of the last line, one of this and an
indent or completion request: the mix-ups the properties are about need at most
three), two lines, a socket of two requests, one token of unread output allowed
(so that a second is too much), one broken rule. Redefinition starts all over,
so a second process is within the bounds. One of the two requests is longer than
the socket holds, so that its writing meets the deadline, a C-c and the end of
the program. The liveness run has that request alone and two IDs. The safety run
has 4.4 million states.

`bash_session`: the words are the empty text, `d`, `d/` and `-` at one place:
the empty text goes on to all, `d/` is another directory than `d`, and `-` is
the first dash. The texts offered change between two lines, so that an answer
of line 0 is wrong on line 1 (`d` has become a directory). Two copies: one that
is dropped, given up on or left over, and the next. `Most` is 1, so an answer
of two texts is cut. `MaxNoStart` is 0 in the safety run and 1 in the liveness
run, where a copy may fail to start once. Liveness has a second place, where
a command name is completed, for words too short to be asked about.

`key_wait`: three keys, so that keys are typed before, between and after two
C-c; one other signal, which may take the place of a C-c in readline's slot; a
pause of two ticks. Every place in `getc` and every mode is reached.

`lisp`: a behaviour is of one part, `part`, and the others idle, so that one
run holds the five without their product; they share no variable. Keys: two
bytes, sequences of up to two (so that one starts another), two Lisp commands
without a name and one with, one slot (so that a second command goes past the
slots), four operations. Steps: two history lines, texts of two characters, two
functions on a hook, six calls. Hooks: lines of two letters, two functions,
four events. Switching: four switches, two panics, three lines, a stack of
five: a line, Lisp on it, shell code under that, a line of its own, and what
runs on that.

`lockout`: three shells, so that one leaves a marker, one judges it, and one
starts or reloads between the two; two pids, so that one is given out again;
three markers in all; a clock of 0 to 2 with `STUCK_AFTER` 1, so that a marker
can be of the tick of the last save, after it, and too old; one save. Shells
and pids are symmetric.

`moving`: at one place three rows, one of them with the cursor inside the
text (so that moving over it and back tells the cursor's place from the
text's end), at another none or one, and one for the first row's own text, so
that a menu may come up for what a move wrote. Two lines for the menu, so that
three rows scroll. Counts of 0, 1 and 2, up and down. An undo list of two, and
two addresses for its entries, which are symmetric: a row undone and another
change made in its place has the same address in some behaviours.
`inkline-menu-on-move` is off; the proofs have both. A move from the third
entry has no address left to use and does not happen; from an empty list and
from a list of one it does.

`up_down`: four entries: two equal ones next to each other, one that holds what
it does not start with, one of several lines with a tab and a wide character;
counts of -1, 1 and 2, for a menu key 0 and 1; five keys; a screen of two rows.
`FindsAsPromised` looks at every count above 0 from every state, `ColumnKept` at
every number of lines above the cursor.

`editor`: eight texts (blocks in blocks, a split word, brackets, a case
pattern, a string of two lines, a mode's script), from every place of the
cursor, without a region and with one from each end of each line, two keys
deep, so that a key acts on what another left; and a new line of `do`, `done`
and `|` with Enter and moves to the end of any of its lines, eight keys deep: a
block in a block, both ended, takes seven; and so does the inner block ended,
Enter, and a move back to its end, where the eighth is the second Enter.

`text`: a screen of three rows and five columns, from its top and at its last
row, so that lines wrap, fill a row to its edge, and scroll; lines of up to
three characters, wide ones, tabs and newlines among them; two keys. The menu:
up to three history entries of up to five characters in every order with
`HISTORY_LIMIT` 1, so that the second of a kind is one too many, and items of
three other sources, listed or not. 3,000 prompts of up to 13 characters are
measured, longer than two rows. Lisp's line: three characters, of one byte,
of three, and a newline; lines, and what is inserted, of up to two of them;
three edits and two excursions, so that one inside another's body is edited
around, and an edit of one side of a place is followed by one of the other.

Deadlock is checked in the runs of `ModeServer` and `Moving`, whose prompt can
always do something. In the others the bounds, the end of a line or the end of a
shell stop the run, so it is not.

### Fairness

- `CallFairness`: a call runs on by itself: inkline's thread is scheduled.
- `ProgramFairness`: a program that keeps the protocol says hello, reads and
  replies. It may still exit, and one that breaks the protocol owes nothing.
- `KeyLoopFairness` is *strong* fairness of `read_waiting` while a socket is
  readable: `getc` polls the sockets each time it waits for a key, but a key
  that is already there goes first. That the user pauses again and again is
  the assumption. A file that the shell opened on the descriptor may never be
  ready, so nothing is assumed of it, and `EveryRequestResolved` leaves it out.
- `TimeFairness`: a copy's time runs out. `WatcherFairness`: the copy and its
  watcher are scheduled. These hold of processes the shell does not schedule,
  so `CopiesEnd` needs nothing of the shell.
- `ShellFairness` (draws go on by themselves; the wait for a key ends at the
  copy's deadline) is the premise inside `CopyLetGo`: a stopped shell lets go
  of nothing.
- `KeyWait`: weak fairness of `getc`'s steps, of the key's command, of the
  clock, of the return from a command Lisp called and of the two halves of
  `after_lisp`: one thread goes on. Strong fairness of three: a pause that is
  over is seen (a readable server goes first each time, but not for ever),
  tulisp's check for a C-c (it is made every so often, between other
  steps), and the end of a command that Lisp called. Nobody has to type,
  press, or send anything.

`Lockout` has no liveness property: Lisp may run for ever, and that is what it
is about. Nothing in the others waits.

## Proofs

TLAPS proves, for every value of the constants that the named assumptions
allow (any requests, places, lines, texts, any number of shells, pids and
keys, any depth of the stack, and any bounds):

| `ModeServerProofs` | states |
|---|---|
| `TypeCorrect` | `[]TypeOK` |
| `NothingKeptFromEarlierLine` | `[]KeptFromThisLine` |
| `OnlyNamedRequestsSent` | `[]OnlyNamedRequests`, a part of the next |
| `KeepsTheProtocol` | `[]ProtocolKept` |
| `AnswersAreTheirRequests` | `[]AnswersAreOwn` |
| `HonestServerStaysOn` | `TurnedOffJustly` |
| `TakenIsGivenUpAlways` | `TakenIsGivenUp` |

| `BashSessionProofs` | states |
|---|---|
| `SessionTyped` | `[]TypeOK` |
| `EveryRowIsBashs` | `[]ShownIsBashs` |
| `MenuTellsTheTruth` | `[]WaitsWhileMoreComes` |
| `OneCopyAtATime` | `[]OneCopyWorks` |
| `AnswersInTimeCount` | `AnsweredIsNotTimedOut` |
| `FitsServes` | when `Fits(asked, word)`, what Tab gives for `asked` and goes on from `word` is what Tab gives for `word`, whatever is offered |

| `KeyProofs` | states |
|---|---|
| `CtrlCInTurnAlways` | `CtrlCInTurn` |
| `KeysStayTogetherAlways` | `KeysStayTogether` |
| `UpDownInvHolds` | `[]UpDownInv`: line, entries, saved line and undo lists have their cursors in their texts, and a kept search is at places of history |
| `FindsAsPromisedAlways` | `[]FindsAsPromised`, of `UpDown` |
| `ColumnKeptAlways` | `[]ColumnKept`, of `UpDown` |
| `RunInvHolds` | `[]RunInv`: in a run of Up and Down the goal is the column it began at |
| `RunKeepsColumnAlways` | `RunKeepsColumn`, of `UpDown` |
| `ColumnsKeptAlways` | `ColumnsKept`: both |

| `LockoutProofs` | states |
|---|---|
| `TypeCorrect` | `[]TypeOK` |
| `MarkersAreOfUnfinished` | `[]MarkerMeansUnfinished` |
| `HungIsNotRunAgainAlways` | `HungIsNotRunAgain` |

| `MovingProofs` | states |
|---|---|
| `TypeCorrect` | `[]TypeOK` |
| `PickIsShown` | `[]PickedRowShows` |
| `HiddenStays` | `[]HiddenStaysHidden` |
| `StrayedShows` | `[]StrayedShowsNone` |
| `RowsAreShown` | `RowsWereOnScreen` |
| `StaysAway` | `[]MenuStaysAway`: the two before it |
| `Implements` | `Browses`: every behaviour of `Moving` is one of `Browsing` |
| `StepLeadsToARow` | `Step` leads to a row, for every total, pick and count but 0 |
| `WindowHoldsThePick` | `Window` holds the row picked and fits in the lines |

| `LispProofs` | states |
|---|---|
| `UsersKeysKeptAlways` | `[]UsersKeysKept`, of `Keys` |
| `RunsItsCommandAlways` | `[]RunsItsCommand`, of `Keys` |
| `AnswersAreOfThisLineAlways` | `[]AnswersAreOfThisLine`, of `LispHooks` |
| `SwitchingInvariant` | `[](Sound(ink) /\ StackOK(stack))` |
| `OriginalsNotOursAlways` | `[]OriginalsNotOurs` |
| `OnAndOffAlways` | `[]OnAndOff` |
| `LineInvariant` | `[]LineInv`: what is kept of a line ends with it |
| `ReadlineDrawsWhileWaitingAlways` | `[]ReadlineDrawsWhileWaiting` |
| `FunctionsInPlaceAlways` | `[]FunctionsInPlace`: the two before `LineInvariant` and the one before this |
| `NothingOfEarlierLineAlways` | `[]NothingOfEarlierLine` |

| `EditorProofs` | states |
|---|---|
| `EditorInvariant` | `[]EditorInv`: the line fits its undo list, the region the line, DEL the search |
| `SearchLeavesNoTraceAlways` | `[]SearchLeavesNoTrace` |

| `TextProofs` | states |
|---|---|
| `PlacesFollowTextAlways` | `PlacesFollowText` |
| `GroupsEndWellAlways` | `GroupsEndWell` |
| `GatheredAtTheirBestAlways` | `[]GatheredAtTheirBest`, of `Ranking` |
| `BestIsShownAlways` | `[]BestIsShown`, of `Ranking` |

What they assume of the constants is named in each module and evaluated by
every run: bounds are numbers, what is offered is finite, and the value `None`
is none of the records that an `Option` may hold instead (`NoneIsNoRecord`,
`BashConstantsOK`). TLA+ does not say by itself that a model value is not a
record; Rust's types do.

How they go:

- `NothingKeptFromEarlierLine` is not inductive alone: a reply in flight is
  kept under the line of its request. `LineInv` adds that a request in flight
  with an ID above `forgotten` was sent on this line, and that its ID is at
  most `lastId`, so that `forget_replies`, which sets `forgotten` to `lastId`,
  forgets it. Nothing is assumed of the program.
- `OnlyNamedRequestsSent` adds that a call of `indent` goes on past the first
  line only with `indent` among the features.
- `KeepsTheProtocol` rests on `Conversation`. What the program has said that is
  not taken yet, in the buffer and in the socket together, is one `Stream`, so
  that reading the socket (`fill`) changes nothing of it. While the program keeps
  the protocol, the place of the conversation is known from inkline's side:
  before the first line the stream is at most the greeting; with nothing in
  flight it is empty; with a request in flight the request is in the socket, or
  being answered, or the stream ends in its answer (`Greets`, `Quiet`, `Asking`).
  That a second request is never sent into a conversation follows, since
  sending needs `Quiet`. `LooksFirst` adds that a call which is about to wait
  has looked at the buffer since it last read, so that no whole reply is there.
- `AnswersAreTheirRequests` is about *any* program, so it cannot use
  `Conversation`. `OnlySent` says that each request on its way, being served or
  answered by a token that is not taken yet has an ID up to `lastId`, is the one
  in flight if it has that one's ID, and that the token has its request's
  ID. A reply taken has the ID of the request in flight, so it is its answer.
  `OwnInFlight` ties a call of `indent` to the request with its own ID, and
  `DepthsTrue` follows for what it returns. The proof needs that IDs only grow.
- `HonestServerStaysOn`: each step that turns off a server that keeps the
  protocol has a cause (`EachForACause`): it could not be started, its socket is
  no longer inkline's, it has exited, or a C-c stopped the writing of a request
  longer than the socket holds. The last is the code's, not the server's (see
  what the models found), so the property names it, with its step and the
  request, and allows it nowhere else. The proof is from `Conversation`: when a request is
  about to be sent, the stream is empty and the program listens, so there is
  room, as a program that keeps the protocol reads (`HonestRoom`): the deadline of
  the write passes only for one that does not.
- `TakenIsGivenUpAlways`: reading the socket is the one step at which the buffer
  grows, sending the one at which `lastId` does, and closing the one at which the
  descriptor is free; each asks first whether the descriptor is still inkline's
  (`TakenUntouched`, step by step), through every call that may be in the middle
  when it is taken. The reason is `EachForACause` again.
- `EveryRowIsBashs` rests on four facts together (`OfBash`): what a copy gave
  is part of bash's Tab for its word *on its line*; the running copy is of
  this line; so is the saved answer; and the menu's rows are. `FitsServes` is
  what carries a saved answer over to a longer word.
- `MenuTellsTheTruth` needs the converse of `OfBash`: an answer that is not cut
  has *all* of bash's Tab for its word (`AllOfBash`, for what is in a pipe, and
  what is saved), which `FitsServes` again carries over to a longer word; and
  `OfMenu`, which follows the menu through the draw: at each place the word of
  the menu, the copy asked and the word under the cursor are of one place, a
  menu that is shown while it waits has its copy or a pause to come, and one
  that does not wait has all rows or is of one of the four cases the property
  leaves out (a word given up on, a command too short, a cut answer, a reload).
- `OneCopyAtATime` adds that a copy whose pipe is closed has ended, so that
  letting go of it without a signal leaves nothing working.
- `MarkersAreOfUnfinished` adds that only a shell that has ended was ended in
  anything. Then no marker is of a shell that is outside of Lisp, so that
  making, dropping and clearing markers, and giving a pid out again, disturb
  none of them.
- `HungIsNotRunAgainAlways` rests on `NotAgain`: while no race has been, a
  shell that was ended in the `init.el` there is has its own marker in the
  directory, at least as new as the file, unless a reload has forgiven it; what is
  about to be removed is older than the file or forgiven; and a shell on its
  way through `read` either has yet to list the directory, or has seen a marker
  that makes it skip. Each of the three races breaks one of these. The first
  attempt at this proof failed for a good reason: with three pids a shell could
  have the pid of a dead one whose marker had just been *read* by a third, that
  had not judged it yet, and was then alive for it. The model counted the race of
  a pid only while the marker was in the directory; it now counts it until
  nobody is judging it, as `process_alive` asks about the pid and nothing else.
- `CtrlCInTurnAlways` and `KeysStayTogetherAlways` rest on `WaitInv`: a C-c that
  bash has yet to act on is with at least one of those who may act on it
  (readline's slot, bash's `interrupt_state`, one of Lisp's two marks, or a
  jump that Lisp has stopped), and none of them has one that nobody pressed
  (`OwedOK`); the marks are set only where Lisp looks at them before it goes on
  (`FlagsOK`); and `keys_after` says whether a key was read after it (`KeysOK`).
- `FindsAsPromisedAlways` needs of `UpDownInv` only that a kept search has its
  places in history. The scan is a recursive function, so what it is after each
  place is shown by the first place where it would not be (`ScanRight`): after
  k places it has either found the count-th head (`Done`), or it has passed
  over fewer, has the last head and the last match, and repeats the text of
  the last match (`Undone`). At the end that is `PromisedMatch`. That the
  function exists at all is by the least length without one
  (`StepsForward`, `MovesAlong`).
- `ColumnKeptAlways` counts rows: a point's row is how many lines start before
  it. One step up or down changes the row by one (`OneLineIs`) and is at the
  column wanted, or before it where the line is shorter, so n steps up and n
  down are in the row they left (`MovedIs`), at the last place that takes the
  column (`ComesBack`). That is the place it left, or one after characters
  without width. An earlier form of the property, the very place, is false for
  them, and TLC shows no such line among the texts of its instance.
- `RunKeepsColumnAlways` rests on `RunInv`: while `began` is a column, the last key
  was one of a run and `goal` is that column. A key that goes on in a run
  therefore moves by the column it began at (`KeyKeepsColumn`), whatever
  searches, entries and menu keys by 0 were between.
- `UpDownInv` itself says that the cursor of every undo step lies in its text,
  so that an undo, an entry walked to and the line brought back have their
  cursors in theirs, and that what `saved` has is a line or `None`.
- `IInv` of `MovingProofs` carries all of its theorems. The addresses in the
  undo list differ (`Ids`), so an address that is the head's is that of one
  entry. `MovingHolds`: while the last key was a move and the menu is shown,
  the entry of the moving state's address is *in* the list, and gives back the
  text its menu is for. A live state (the address is the head's) therefore
  undoes to that text, and the next row is written into it. The hook of
  `after_key` puts a fresh address on top, so it ends the moving. A key that
  frees the entry is not a move, and `live` looks at the last command: that is
  why the address alone, which may be given out again, is enough.
  `WanderedHolds` says that a cursor that has moved is known to `cursor_moved`
  or to the last draw's place.
- `Implements` maps each action to one of `Browsing`'s or a stutter
  (`StepImplements`), from `IInv` before and after the step.
- `SwitchingInvariant` is about any nesting of shell code, lines and Lisp, with
  a panic at any place and a jump past any part of the stack. `Resting` is what
  holds whenever one of inkline's functions has returned: what is saved is never
  inkline's own; while it is on, the reader and the hooks are inkline's; while
  it is off, the drawing and the hooks are not. `Sound` adds that the reader is
  not either, once no Lisp runs: `disable` leaves the reader in place under
  running Lisp, and `after_lisp` puts it back. A panic in Lisp clears the mark
  that it runs before `guard` switches inkline off, which is the step where
  `Resting` alone is not enough. `StackOK` says that Lisp is always on a line.
  Each function of the state is proved to keep `Sound` (a lemma each), and each
  action is a composition of them.
- `LineInvariant` adds to it what is kept of a line. Lisp runs once at a time,
  for a line that does not wait meanwhile, and inkline's drawing is in place
  only while the line that waits has another line above it on the stack or the
  innermost line is at a key. Errors are kept only until the line that is done
  ends. The text the after-change hook compares with may be an earlier line's
  only where a jump to the top level left it behind: then no line has started
  since, and readline still says that it is in a command, so no hook runs.
- `AnswersAreOfThisLineAlways`: all that is kept of the hooks' answers (`lastAnswer`,
  `byLine`, `completions`), and what is shown, was given on this command line
  for its text and cursor, and each text that was asked about is kept.
- `PlacesFollowTextAlways` rests on `BufferInv`: the text is `WellFormed`, point
  is at a boundary of it, while functions only read every place kept *is* point,
  and each place kept has the characters of `sides` on its two sides. The
  invariant says nothing of the mark: that it stays between its characters is
  proved of each edit, wherever it was, also inside a character, where readline
  may have left it. The lemmas are about texts. A text is made of *blocks*, the
  bytes of one character (`CharAround`, `OneBlock`); a block is on one side of
  each boundary (`OnOneSide`); `StartWithin` says that going back to the start
  of a character passes none that ends before; `SplicedWell` and `WithoutWell`
  that the text after an edit is made of blocks again, and that the places
  moved by `AdjustAfterInsert` and `AdjustAfterDelete` have on each side what
  they had. `ToByteInOrder`, that positions in order are bytes in order, needs
  the n-th element of a set of numbers (`NthIs`, `NthInOrder`), and that there
  is one: by the least number without it, which exists as `<` is well-founded on
  the naturals (`LowestIs`).
- `UsersKeysKeptAlways` and `RunsItsCommandAlways` rest on `KeysInv`, which says
  of keymap, table, `without` and slots together (`Held`): a sequence is in the
  table once, is still reached through the keymap's prefixes, and is not one that
  the terminal's keys are bound over; where the keymap runs an entry's function
  the entry saved what `without` has, and everywhere else the keymap is
  `without`; an entry's function is the slot of its command, or the shared one. The
  strengthening that was needed: what `without` has of Lisp's own functions are
  slots of *named* commands, which are never freed. A freed lambda's slot could
  otherwise be one that an older binding, given back, still runs. The folds
  (`global_set` over the sequences of a key, `bind_defaults` over the layout,
  `unset_groups` over the menu's keys, `UnsetWhere`) are defined by choosing a
  function that computes them; `FoldIs` shows that there is one, by the least
  length without one, and `FoldReaches` and `FoldStays` carry `Held` along it.
  `KeysAssumption`, `DefaultsAssumption` and `NamesAssumption` are what is
  assumed: the slots' functions differ, readline's keymap has bindings only
  where keys lead to, and no other command is one of Lisp's functions.
- `SearchLeavesNoTraceAlways` rests on `EditorInv`. `LinesInv`: the line there is,
  and the one an incremental search left for the history's, are each `Whole`:
  the cursor is in the text, each change of the undo list was made at a place
  that the text has when the change is undone (`Fit`, over the lengths that the
  text goes through), and the groups are balanced, but for the one that a key
  has open. It is what readline's undo needs to end inside the text, so that
  the region's two ends may be compared after it. `RegionInv`: an active region
  is within the text it was set on, and the mark a search puts back is too. And
  DEL runs inkline's command exactly while no search is on.
- `GroupsEndWellAlways` rests on `StepsInv`, about each history line's own undo
  list. It says how many groups are open there (`OpenBy`): the one of the running
  step, and the one of the hook's step outside of it, each on the line it began on
  (`HeldOpen`). The code looks for a freed list on the line it is on
  (`LoseIfFreed`), so only a hook that has a list freed and also moves to another
  line can end a group there that is gone: the exception that the property names
  (`Tangled`). Any other step holds its group or knows that it is lost (`Lost`),
  and the end it writes has its beginning in the list. The
  lemmas are about lists and their balance: a change at the end of a list keeps
  what is open (`OpenGrows`, `SoundGrows`); an undo takes back whole groups, so that
  it cuts neither a group it did not begin nor one that is closed (`OpenCut`,
  `SoundCut`). `EndsIs`, `BeforeChangeIs`, `FinishedIs` and `DroppedIs` say what each
  part of a step does to them. readline's count is the number of steps with a
  group, as a cardinality (`CountIsOfSteps`), also through a panic, which drops
  all of them at once.
- `GatheredAtTheirBestAlways` rests on `GatherInv`: for each kind of match what
  `taken` counts is the number of entries of that kind, up to the limit, and the
  items are those that had fewer than that many of their kind before them
  (`KeptIn`). The step (`OfferedKeeps`) needs that the kind that `offer` can tell without
  ranking an entry is that of its rank (`OfferedKindIs`), so that for the fuzzy
  style `in_order` says whether `tightest` finds anything
  (`TightestOfInOrder`), and that an entry which was seen before, but not taken, came when
  its kind was full, as it still is (`SeenBefore`). Of `tightest`: a stretch
  *fits* when some of its places hold what is typed, in order (`Fits`). The scan
  forward finds an end no later than that of any stretch that fits (`FitsForward`) and
  the scan back the latest start (`FitsBackward`), so a round's stretch is the
  tightest that starts no later than it (`FirstFoundIs`), and the rounds,
  taken from the last to the first, have the tightest of all (`RoundFinds`,
  `RoundsAre`). That the functions of the scans exist at all is by the least length
  without one (`StepsForward`, `StepsBackward`).
- `BestIsShownAlways` adds `MenuInv`, that the menu is made of what was gathered,
  and follows an item through `assemble`. A filter keeps the order
  (`PicksFrom`); the stable sort is a permutation in the order of the ranks, since
  the number of those ahead of an item is another one for each and less than
  how many there are (`SortedSorts`); of the items that give one line the first is
  kept, which in that order is as good a match as any (`DistinctIs`). And where
  there is no quote mark, to be of the best rank and to have grey text is one and
  the same (`GreyIs`).
- The step of each invariant is proved action by action; the types come first
  and are used in the others.

Only model-checked:

- liveness and everything that needs fairness, which is beyond the prover:
  `CallsReturn`, `EveryRequestResolved`, `NoCopyStays`, `CtrlCActs`, `ErrorShows`;
- what a function of a text, a keymap or a history computes, step by step.
  The library's induction theorems take a predicate, which none of the provers
  can be given; where a definition *chooses* its result (`Highest`, `Nth`), or where an
  invariant is carried along a fold or a recursive function, the least
  counterexample does instead, as in `TextProofs`, `LispProofs` and `KeyProofs`.
  These compute their result by recursive operators or by many functions one
  over the other: `BlocksLineUp` (the indentation), `ScreenIsRight`,
  `NothingLeftBehind` and `PromptEndsWhereDrawn` (the terminal's operations, one
  after another);
- `SearchSteps`, `EnterIsOneStep` and `StepsAreOneUndo`, which rest on such
  functions in part: what an undo list gives back is a fold over it.

## What the models found

`switching_reader` shows a null pointer where readline's reader of keys should
be. The first `enable -f` binds the layout and reads `init.el` before `enable`
saves readline's functions. A panic there is caught by `guard`, and the shell
goes on with inkline off, but its keys are bound; the next Enter runs
`accept-or-newline`, and `after_lisp`, as inkline is off, puts back what was
saved of the reader, which is nothing (`hooks.rs:597`). The comment of `guard`
(`hooks.rs:810`) says that a bug never kills the shell.

Other places where the code does not do what is written of it. Each is stated
as a property in its module (the line numbers of `README.md` and `docs` are of
the repository's), and a `.cfg` that checks it alone, with the constants
named, violates it:

| Property | What happens |
|---|---|
| `WaitingHasMoreComing`: `MCBashSession` with `Words <- MCFewWords`, `Texts <- MCFewTexts`, `Offered <- MCPlaceOffered` | a copy killed at its deadline leaves the menu marked as waiting when none of bash's items show, so Tab on its one row starts moving (`hooks.rs:973`; `README.md:403`) |
| `CutIsAskedAgain`: the same with `Offered <- MCTwoOffered` | a cut answer for a shorter text, come while the draw waits, is used for the longer one with no second asking (`session.rs:145`; `README.md:944`) |
| `LateWordNotAskedAgain`: `MCBashSession` with two places, `Words <- MCPlaceWords`, `MaxCopies = 3` | only one word is remembered as given up on (`session.rs:59`; `README.md:369`) |
| `OnlyLiveGroupKilled`: `MCBashSession` as for the first, with `MaxLine = 1` | the group of a copy that has answered and exited is signalled when the copy is dropped unread (`request.rs:167`, its comment at 11-13) |
| `HonestServerNotAccused`: `MCModeServer` as it is | a C-c while a request longer than the socket holds is being written gives the write up as the deadline does (`process.rs:309`), and turns off, as one that does not read, a server that reads (`docs/mode-protocol.md:545`: it stopped reading, and a second had passed); `TurnedOffJustly` allows just this |
| `OtherKeysEndRun`: `MCUpDown` as it is | a menu key with a count of 0 returns before it has ended the run of Up and Down (`moving.rs:88`), and counts as a key of one: Up, an edit that shows the menu, that key, and Up goes on with the search and the column of before the edit (`multiline.rs:521`, `:429-432`: any other key ends it) |
| `MovesOutOnce`: `MCEditor` with `Starting <- MCNewLine`, `TypedOn = {do, done}`, `MaxTyped = 9` | below an empty line, in a block within a block, a closing word that has moved out moves out again on a second Enter, to the outer block's column: `move_out` compares with what the line above gives, and an empty one gives nothing (`multiline.rs:345`; `tests/multiline.rs:678`: it stays where it is) |
| `HungIsNotRunAgainAtASave`: `MCLockout` as it is | `read` has the text of `init.el` (`init.rs:240`) before it asks when the file was changed (`init.rs:250`): a save between the two makes the marker of a shell that hung on that text look older than the file, and the text is run again (`README.md:144-146`) |

Three more, with no property of their own. `Buffer` is of text that is UTF-8 and
of a point that readline leaves at a character. Where the locale is not UTF-8,
readline moves point by bytes, and on a line whose bytes happen to be UTF-8
point may be inside a character: `line_start`, `line_end` and `skip_forward` cut
the text there and panic (`lisp/buffer.rs:304`, `:310`, `:402`); only drawing
asks for the locale (`hooks.rs:1395`). And: the comment that a whole reply is
never left in the buffer (`mode_server.rs:615`) holds for programs that keep the
protocol (`NoWholeReplyWaits` says so), and a program that writes two replies
to one request can leave one there until the next call; and a menu kept over
`inkline reload` in the middle of a line shows rows of before the reload
(`ShownIsBashs` holds of it, `SettledIsComplete` does not, and says so).

## Not modelled

- Lexing, syntax, highlighting, arguments (`lexer.rs`, `syntax.rs`, `args.rs`,
  `highlight.rs`), colours and command lookup: functions of a line, tested
  against a corpus of cases. Where their result matters it is a choice
  (complete or not, coloured or not).
- The bytes of the mode protocol and of a copy's answer: a line that settles
  a reply, and one that is well formed or not, is all that control depends on.
- `KeyWait`: SIGHUP and SIGTERM, `read -t`, panics (they are in `Switching`).
- `Moving`: draws outside plain editing (a search, a count being typed), an
  active region, inkline switched off or a setting changed while moving.
- `Editor`: `comment-lines`, the keys to the start and end of a line,
  backquotes, here-documents, comments.
- `Keys`: the reading of key descriptions. A user's `bind` of a key to just
  what inkline has there.
- `LispSteps`: `EndsHaveBegins` leaves out a hook that has its list freed
  (vi's first ESC), moves to another line and comes back. The interpreter,
  settings are values passed between the steps.
- `Buffer`: a line that is not UTF-8 (an error), the kill ring, what the
  functions return, columns, calls with no line being edited, save points
  restored in another order than the macro's. A character inserted that is in
  the line already counts as another one.
- `Switching`: which C-c or jump happens is a choice. Shell code that a trap
  runs within `after_lisp` is left to `KeyWait`; Lisp of `inkline eval` and
  `inkline load` runs no shell code here. `off` inside `read -e` leaves
  inkline's completion function in place, which passes everything on.
- `Screen`: a line taller than the screen, control characters in the line, a
  resize, accents and text that is not UTF-8; readline draws those and inkline
  leaves them to it.
- `Ranking`: characters of several bytes; folding but of one letter.
- The calls into readline and bash of `ffi.rs` that have no state of their
  own, and the check of their versions.

## Plan

Done: `ModeServer`, `BashSession`, `Lockout`, `Moving` with `Browsing`,
`Switching`, `KeyWait`, `LispHooks`, `Buffer` and their proofs; `UpDown` with
`Stepping` and the proofs of its searches and columns,
`Editor` with the proofs of its lines, undo and region, `Keys` with its proofs,
`LispSteps` with the proof of its groups; `Ranking` with its proofs; `Screen`.

Next, in this order:

1. Proofs: that a failed step of `LispSteps` is taken back whole, from
   `StepsInv`.
2. An abstract memo (*ask, answer for this line, forget*) that `ModeServer` and
   `LispHooks` implement.
3. `KeyWait` over `ModeServer` and `BashSession`: that a wait which reads sockets
   and a copy's pipe forgets no pause.
4. `Lexer`: which words of a line are commands, over short lines.
