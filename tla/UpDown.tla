-------------------------------- MODULE UpDown --------------------------------
(***************************************************************************)
(* The Up and Down keys of a command of several lines: between its lines,   *)
(* and past its first or last line through history or by a search           *)
(* (hooks/multiline.rs from `vertical' on, history_search.rs, lines.rs),    *)
(* over readline's line and history, which are external: readline keeps the *)
(* edits of an entry that is walked away from, and saves the line typed,    *)
(* with its undo list, when the walk leaves it.                             *)
(***************************************************************************)
EXTENDS HistorySearch

CONSTANTS
    History,      \* the texts of history, oldest first
    Starting,     \* texts of a new line: the line-start hook may fill it
    Prompt,       \* the columns of the prompt's last line
    ScreenRows,   \* how many lines fit on the screen, each in one row
    CursorAtEnd,  \* inkline-history-cursor is `end'
    Nothing,      \* Rust's None
    Typed,        \* bound: characters that are typed
    Counts,       \* bound: counts given with a key
    MenuCounts,   \* bound: those given with a menu key that moves through rows
    LineKeys      \* bound: keys of a line

ASSUME UpDownConstantsOK ==
    /\ History \in Seq(Texts) /\ Starting \subseteq Texts /\ Prompt \in Nat /\ ScreenRows \in Nat
    /\ CursorAtEnd \in BOOLEAN
    /\ Nothing \notin Nat /\ Nothing \notin [text : Texts, undo : Seq(Texts \X Nat)]
    /\ Typed \subseteq Chars /\ Counts \subseteq Int /\ MenuCounts \subseteq Int
    /\ LineKeys \in Nat

VARIABLES
    line,     \* readline's: text, point, undo list
    place,    \* history's place
    entries,  \* its entries: text and undo list
    saved,    \* the line typed, while the place is on an entry
    last,     \* the last command: "vertical" for Up, Down and the menu keys
    search, goal,  \* State of hooks.rs
    region,   \* whether the region is active
    keys,     \* how many keys the line has had
    began     \* history: the column where the run of Up and Down keys that is
              \* under way began, Nothing when other keys ended the last one

readline == <<line, place, entries, saved>>
upDownVars == <<readline, last, search, goal, region, keys, began>>

End == Len(History) + 1
Now == [line |-> line, place |-> place, entries |-> entries, saved |-> saved]

-----------------------------------------------------------------------------
(* readline's history, from r, which Now is. *)

\* rl_maybe_replace_line: an entry keeps what was changed in it.
Replaced(r) ==
    IF r.place = End THEN r
    ELSE [r EXCEPT !.entries[r.place] = [text |-> r.line.text, undo |-> r.line.undo]]

\* rl_replace_from_history: the cursor is at the end.
Recall(r, to) ==
    [r EXCEPT !.place = to,
              !.line = [text |-> r.entries[to].text, undo |-> r.entries[to].undo,
                        point |-> Len(r.entries[to].text)]]

\* rl_get_previous_history
PreviousHistory(r, n) ==
    LET kept == Replaced(IF r.saved = Nothing
                         THEN [r EXCEPT !.saved = [text |-> r.line.text, undo |-> r.line.undo]]
                         ELSE r) IN
    IF n = 0 \/ History = <<>> THEN r
    ELSE IF r.place = 1 THEN kept
    ELSE Recall(kept, Max({1, r.place - n}))

\* rl_get_next_history
NextHistory(r, n) ==
    LET kept == Replaced(r) IN
    IF n = 0 THEN r
    ELSE IF r.place + n < End THEN Recall(kept, r.place + n)
    ELSE IF kept.saved = Nothing THEN [kept EXCEPT !.place = End]
    ELSE [kept EXCEPT !.place = End, !.saved = Nothing,
                      !.line = [text |-> kept.saved.text, undo |-> kept.saved.undo,
                                point |-> Len(kept.saved.text)]]

-----------------------------------------------------------------------------
(* Walking (step_history, walk_to, open_at_start). *)

StepHistory(r, n, up) == IF up THEN PreviousHistory(r, n) ELSE NextHistory(r, n)

WalkTo(r, to) ==
    IF to > r.place THEN NextHistory(r, to - r.place)
    ELSE IF to < r.place THEN PreviousHistory(r, r.place - to)
    ELSE r

AtPoint(r, point) == [r EXCEPT !.line.point = point]

OpenAtStart(r) ==
    IF /\ IsMultiLine(r.line.text) /\ ~CursorAtEnd
       /\ Cardinality(Starts(r.line.text)) <= ScreenRows
    THEN AtPoint(r, 0) ELSE r

\* place_on_found
PlaceOnFound(r, up) ==
    LET atEnd == AtPoint(r, Len(r.line.text)) IN IF up THEN OpenAtStart(atEnd) ELSE atEnd

\* An entry that a walk up brought opens at its start.
Opened(r, before, up) ==
    IF up /\ r.line.text # before.line.text THEN OpenAtStart(r) ELSE r

-----------------------------------------------------------------------------
(* The search (search, new_search, found_entry). *)

FoundEntry ==
    IF search # Nothing /\ IsFound(search) /\ search.at = place THEN search.at ELSE Nothing

NewSearch(kind) ==
    LET from == IF FoundEntry # Nothing THEN FoundEntry ELSE place IN
    [kind |-> kind, text |-> SubSeq(line.text, 1, line.point),
     line |-> line.text, point |-> line.point,
     start |-> from, end |-> IF kind = "prefix" THEN End ELSE from,
     startFound |-> FoundEntry # Nothing /\ line.point > 0,
     at |-> from, lastFound |-> <<>>, goingOn |-> TRUE]

\* The search a key is for: the one that goes on, or a new one, or Nothing.
SearchFor(kind, up, continuing) ==
    IF continuing THEN search
    ELSE IF kind = "substring" /\ ~(up /\ (FoundEntry # Nothing \/ place = End)) THEN Nothing
    ELSE IF line.point = 0 /\ kind = "substring" THEN Nothing
    ELSE NewSearch(kind)

EntryTexts == [i \in DOMAIN entries |-> entries[i].text]
AfterPrefix(s, r) == IF s.kind = "prefix" THEN AtPoint(r, PrefixEnd(s, r.line.text)) ELSE r

\* What a key of a search by n does: the line and the search it leaves.
SearchedStaysOn(s, n, up) ==
    LET match == NextMatch(s, EntryTexts, n, up)
        at == WalkTo(Now, match)
        back == WalkTo(Now, s.start) IN
    IF match # 0 THEN
      [r |-> IF s.kind = "prefix" THEN AfterPrefix(s, at) ELSE PlaceOnFound(at, up),
       search |-> [s EXCEPT !.at = match, !.lastFound = <<entries[match].text>>]]
    ELSE IF up \/ ~GivesBackStart(s) THEN [r |-> AfterPrefix(s, Now), search |-> s]
    ELSE
      [r |-> AtPoint(back, Min({s.point, Len(back.line.text)})),
       search |-> [s EXCEPT !.at = s.start, !.lastFound = <<>>]]
Searched(s, n, up) ==
    LET match == NextMatch(s, EntryTexts, n, up)
        at == WalkTo(Now, match)
        back == WalkTo(Now, s.start) IN
    IF match # 0 THEN
      [r |-> IF s.kind = "prefix" THEN AfterPrefix(s, at) ELSE PlaceOnFound(at, up),
       search |-> [s EXCEPT !.at = match, !.lastFound = <<entries[match].text>>]]
    ELSE IF up \/ ~GivesBackStart(s) THEN [r |-> AfterPrefix(s, Now), search |-> s]
    ELSE
      [r |-> AtPoint(back, Min({s.point, Len(back.line.text)})),
       search |-> [s EXCEPT !.at = s.start, !.lastFound = <<>>, !.goingOn = FALSE]]

\* search
SearchKey(kind, n, up, continuing) ==
    LET s == SearchFor(kind, up, continuing) IN
    IF n = 0 THEN [r |-> Now, search |-> search]
    ELSE IF s = Nothing \/ s.text = <<>>
    THEN [r |-> Opened(StepHistory(Now, n, up), Now, up), search |-> s]
    ELSE Searched(s, n, up)

-----------------------------------------------------------------------------
(* vertical. *)

\* How many lines there are to go.
LinesLeft(up) ==
    IF up THEN Cardinality({s \in Starts(line.text) : s <= line.point}) - 1
          ELSE Cardinality({e \in Ends(line.text) : e >= line.point}) - 1

\* Where n lines up or down from a point is, at the column c.
Moved(point, n, up, c) ==
    LET moved[i \in 0 .. n] ==
          IF i = 0 THEN point
          ELSE IF up THEN Up(line.text, moved[i - 1], c, Prompt)
          ELSE Down(line.text, moved[i - 1], c, Prompt)
    IN moved[n]

IsRun == last = "vertical"
Continues(kind) == IsRun /\ search # Nothing /\ search.goingOn /\ kind = search.kind
GoalColumnKept ==
    IF goal # Nothing THEN goal ELSE Column(line.text, line.point, Prompt)
GoalColumn ==
    IF IsRun /\ goal # Nothing THEN goal ELSE Column(line.text, line.point, Prompt)

\* What end_vertical_run leaves.  Without it, a key that counts as one of the
\* run takes up one that other keys ended.
RunEnded == goal = Nothing /\ (search = Nothing \/ ~search.goingOn)
TakenUp == IsRun /\ began = Nothing /\ ~RunEnded

\* Past the first or last line, for the n lines left over.
Leaves(kind, n, up) ==
    CASE kind = "history" -> [r |-> Opened(StepHistory(Now, n, up), Now, up), search |-> Nothing]
      [] kind = "bell" -> [r |-> Now, search |-> search]
      [] OTHER -> SearchKey(kind, n, up, Continues(kind))

KeyRead == keys < LineKeys /\ keys' = keys + 1

Gives(r) ==
    /\ line' = r.line /\ place' = r.place /\ entries' = r.entries /\ saved' = r.saved

\* Whether a move between the lines keeps the run's search going.
RunGoesOn(s) == s.goingOn /\ IsRun /\ (s.lastFound # <<>> \/ s.text = <<>>)

\* Up (isUp) or Down, with what it does past the ends; while the region is
\* active, the bell rings there.
Vertical(ends, count, isUp) ==
    LET up == (count >= 0) = isUp
        n == IF count < 0 THEN -count ELSE count
        kind == IF region THEN "bell" ELSE ends
        outcome == Leaves(kind, n - LinesLeft(up), up) IN
    /\ goal' = GoalColumn
    /\ IF n <= LinesLeft(up)
       THEN /\ Gives(AtPoint(Now, Moved(line.point, n, up, goal')))
            /\ search' = IF search = Nothing THEN Nothing
                         ELSE [search EXCEPT !.goingOn = RunGoesOn(search)]
       ELSE Gives(outcome.r) /\ search' = outcome.search
    /\ last' = "vertical"
    /\ region' = (region /\ line'.text = line.text)
    /\ began' = IF TakenUp THEN Nothing
               ELSE IF IsRun /\ began # Nothing THEN began
               ELSE Column(line.text, line.point, Prompt)
    /\ KeyRead

UpDownKey ==
    \E kind \in {"history", "prefix", "substring"}, count \in Counts, up \in BOOLEAN :
      Vertical(kind, count, up)

-----------------------------------------------------------------------------
(* Other keys. *)

\* A change of the text that undoing takes back.
Changed(text, point) ==
    /\ line' = [text |-> text, point |-> point,
                undo |-> Append(line.undo, <<line.text, line.point>>)]
    /\ region' = FALSE
    /\ UNCHANGED <<place, entries, saved>>
Types(c) == Changed(InsertAt(line.text, line.point + 1, c), line.point + 1)
Deletes == line.point > 0 /\ Changed(RemoveAt(line.text, line.point), line.point - 1)

Undoes ==
    /\ line.undo # <<>>
    /\ line' = [text |-> Last(line.undo)[1], point |-> Last(line.undo)[2],
                undo |-> Front(line.undo)]
    /\ region' = FALSE
    /\ UNCHANGED <<place, entries, saved>>

CursorMoves ==
    /\ \E point \in Points(line.text) : line' = [line EXCEPT !.point = point]
    /\ region' \in BOOLEAN
    /\ UNCHANGED <<place, entries, saved>>

\* readline's previous-history and next-history.
Walks ==
    /\ \E up \in BOOLEAN : Gives(StepHistory(Now, 1, up))
    /\ region' = FALSE

OtherKey ==
    /\ Deletes \/ Undoes \/ CursorMoves \/ Walks \/ \E c \in Typed : Types(c)
    /\ last' = "other" /\ began' = Nothing /\ KeyRead
    /\ UNCHANGED <<search, goal>>

\* A line that history brought back has no menu, unless a move wrote it.
Recalled == place # End /\ line.text = entries[place].text
MovesOn == IsRun /\ goal = Nothing

\* A menu key that moves through rows: it writes one into the line, and ends the
\* run; with a count of 0 it does nothing.
EndsVerticalRun ==
    /\ goal' = Nothing
    /\ search' = IF search = Nothing THEN Nothing ELSE [search EXCEPT !.goingOn = FALSE]
MenuKey ==
    /\ line.text # <<>> /\ ~region /\ (~Recalled \/ MovesOn)
    /\ \E count \in MenuCounts :
         IF count = 0 THEN UNCHANGED <<readline, search, goal, region, began>>
         ELSE (\E c \in Typed : Types(c)) /\ EndsVerticalRun /\ began' = Nothing
    /\ last' = "vertical" /\ KeyRead

\* pre_input: another line starts, as a C-c threw this one away.
Fresh(text) ==
    [text |-> text, point |-> Len(text), undo |-> IF text = <<>> THEN <<>> ELSE <<<<<<>>, 0>>>>]
Unedited == [i \in DOMAIN History |-> [text |-> History[i], undo |-> <<>>]]
NewLine ==
    /\ line' \in {Fresh(text) : text \in Starting} /\ place' = End /\ entries' = Unedited
    /\ saved' = Nothing /\ last' = "other" /\ search' = Nothing /\ goal' = Nothing
    /\ region' = FALSE /\ keys' = 0 /\ began' = Nothing

-----------------------------------------------------------------------------
UpDownInit ==
    /\ line \in {Fresh(text) : text \in Starting} /\ place = End /\ entries = Unedited
    /\ saved = Nothing /\ last = "other" /\ search = Nothing /\ goal = Nothing
    /\ region = FALSE /\ keys = 0 /\ began = Nothing

UpDownNext == UpDownKey \/ OtherKey \/ MenuKey \/ NewLine

UpDownSpec == UpDownInit /\ [][UpDownNext]_upDownVars

-----------------------------------------------------------------------------
(* Properties. *)

\* From every line, and whatever search is kept, the next match with any count
\* is the one promised.
FindsAsPromised ==
    search # Nothing =>
        \A count \in {c \in Counts : c > 0}, up \in BOOLEAN :
          NextMatch(search, EntryTexts, count, up)
            = PromisedMatch(search, EntryTexts, count, up)

\* Up and Down by as many lines bring the cursor back to its line and column,
\* and never before where it was: characters there may take no columns.
ColumnKept ==
    LET column == Column(line.text, line.point, Prompt) IN
    \A n \in 0 .. LinesLeft(TRUE) :
      LET back == Moved(Moved(line.point, n, TRUE, column), n, FALSE, column) IN
      /\ back \in line.point .. LineEnd(line.text, line.point)
      /\ Column(line.text, back, Prompt) = column

\* Which of the command's lines a point is on.
LineNumber(point) == Cardinality({s \in Starts(line.text) : s <= point})

\* Every key of a run of Up and Down that stays in the command goes by as many
\* lines, to the column where the run began or, on a line with no such column,
\* before it, whatever lines, entries and searches the run has been through
\* since; another key between two runs ends the column of the first.
RunKeepsColumn ==
    [][\A count \in Counts \cap (Nat \ {0}), up \in BOOLEAN :
         ~TakenUp /\ count <= LinesLeft(up) /\ Vertical("history", count, up) =>
           /\ LineNumber(line'.point) = LineNumber(line.point) + (IF up THEN -count ELSE count)
           /\ line'.point = AtColumn(line.text, LineStart(line.text, line'.point), began',
                                     Prompt)]_upDownVars

\* Both together: what the goal column of lines.rs and hooks.rs is for.
ColumnsKept == []ColumnKept /\ RunKeepsColumn

\* What multiline.rs says of a run: any other key ends it.
OtherKeysEndRun == ~TakenUp

-----------------------------------------------------------------------------
(* What the user sees of a search started past its entries. *)

GoesOn == /\ IsRun /\ ~region /\ search # Nothing /\ search.goingOn
          /\ search.text # <<>> /\ StartedPastItsEntries(search)

\* The undo list of the line the search started from: history keeps it.
StartUndo ==
    IF place = search.start THEN line.undo
    ELSE IF search.start = End THEN saved.undo ELSE entries[search.start].undo

SteppedThrough ==
    LET s == [search EXCEPT !.at = search.start, !.lastFound = <<>>]
        places == Ahead(s, TRUE)
        heads == Heads(s, EntryTexts, places) IN
    [kind |-> search.kind,
     texts |-> [k \in 1 .. Cardinality(heads) |-> EntryTexts[places[NthOf(heads, k)]]],
     at |-> IF search.lastFound = <<>> THEN 0
            ELSE Cardinality({i \in heads : places[i] >= search.at}),
     typed |-> [text |-> search.line, point |-> search.point, undo |-> StartUndo]]

Seen == INSTANCE Stepping WITH stepping <- IF GoesOn THEN SteppedThrough ELSE Nothing,
                                  None <- Nothing

\* Every key of a search that was started past its entries steps through the
\* texts that match, each shown once where equal ones are next to each other,
\* and Down past the newest gives back the line typed, its cursor and its undo
\* list.
IsSearchKey(kind, count, up) ==
    /\ last' = "vertical" /\ ~region /\ count > LinesLeft(up)
    /\ search' # Nothing /\ search'.kind = kind
    /\ search'.text # <<>> /\ StartedPastItsEntries(search')
    /\ ~TakenUp /\ Vertical(kind, count, up)
SearchSteps ==
    [][\A kind \in Kinds, count \in Counts \cap Nat, up \in BOOLEAN :
         IsSearchKey(kind, count, up) => Seen!Steps(kind, count - LinesLeft(up), up)]_upDownVars
=============================================================================
