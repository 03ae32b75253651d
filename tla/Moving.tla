-------------------------------- MODULE Moving --------------------------------
(***************************************************************************)
(* The completion menu and moving through it (hooks/moving.rs, menu.rs, and *)
(* the part of hooks.rs that draws the menu and runs its keys), over        *)
(* readline's line, undo list and history, which are external: readline     *)
(* runs a key's command, then the hook of after_key may change the line,    *)
(* and then the line is drawn.  While it waits for the next key, inkline    *)
(* draws again when an answer has come.                                     *)
(*                                                                         *)
(* A place is a text of the line with the cursor in it.  A row is the place *)
(* that taking it leads to, with the cursor's place if that is undone: the  *)
(* end of what it replaced.                                                 *)
(***************************************************************************)
EXTENDS Integers, Sequences, MenuWindow

CONSTANTS
    Texts,       \* texts of the line
    Empty,       \* the empty one
    Garbled,     \* a text that a row's change to another line would give
    Spots,       \* places of the cursor in a text
    End,         \* after its last character
    Recallable,  \* texts that history holds
    Addresses,   \* where readline may put an undo entry
    None,        \* Rust's None
    Offers,      \* for each place, the lists of rows a draw may gather
    MenuOnMove,  \* inkline-menu-on-move
    MenuLines,   \* inkline-menu-lines
    Counts,      \* bound: counts given with a key
    MaxUndo      \* bound: the undo list

Places == [text : Texts \cup {Garbled}, at : Spots]
Row == [text : Texts, at : Spots, end : Spots]
Menus == UNION {Offers[p] : p \in Places}

ASSUME MovingConstantsOK ==
    /\ Empty \in Texts /\ Garbled \notin Texts /\ End \in Spots
    /\ Recallable \subseteq Texts \ {Empty}
    /\ None \notin Texts \cup {Garbled} \cup Addresses \cup Places
    /\ None \notin [base : Places, rows : Seq(Places), pick : Nat]
    /\ Offers \in [Places -> SUBSET Seq(Row)]
    \* assemble leaves out an item that would leave the line as it is, or that
    \* gives the same line as one before it
    /\ \A p \in Places : \A rows \in Offers[p] : \A i \in DOMAIN rows :
         /\ rows[i].text # p.text
         /\ \A j \in DOMAIN rows : rows[i].text = rows[j].text => i = j
    /\ MenuOnMove \in BOOLEAN /\ MenuLines \in Nat
    /\ Counts \subseteq Int /\ MaxUndo \in Nat

VARIABLES
    \* readline: the line, its undo list, the history entry it is on, the
    \* command of the last key, and whether that key's line is still to be drawn
    line, undo, entry, last, pc,
    \* State of hooks.rs
    menu, moving, hidden, drawnAt, asked, cursorMoved,
    \* history: the rows the last draw put on screen, the text C-g hid the menu
    \* on until it changes, and whether the cursor has moved on this text
    onScreen, hid, wandered

readline == <<line, undo, entry, last>>
state    == <<menu, moving, hidden, drawnAt, asked, cursorMoved>>
watched  == <<onScreen, hid, wandered>>
vars     == <<readline, pc, state, watched>>

-----------------------------------------------------------------------------
(* Menus (menu.rs). *)

\* Menu::step, with rows and picks counted from 1, and no pick 0.
Step(total, picked, delta) ==
    LET from == IF picked # 0 THEN picked ELSE IF delta > 0 THEN 0 ELSE total + 1 IN
    IF total = 0 \/ delta = 0 THEN picked ELSE ((from - 1 + delta) % total) + 1

\* menu, as shown_menu has it: on screen, and for the line as it is.
ShowingMenu == menu # None /\ menu.shown /\ menu.on = line

-----------------------------------------------------------------------------
(* readline's undo list, as far as inkline uses it. *)

UndoHead(list) == IF list = <<>> THEN None ELSE list[Len(list)].id
InList(list) == {list[i].id : i \in DOMAIN list}

\* `from' is changed, which undoing gives back with the cursor at `at'.  A freed
\* entry's address may be given out again.
Changes(list, from, at) ==
    \E a \in Addresses \ InList(list) :
      undo' = Append(list, [id |-> a, text |-> from.text, at |-> at])

\* rl_do_undo: what is left of the list, and where the line is.
Undone(list) == SubSeq(list, 1, Len(list) - 1)
UndonePlace(list, from) ==
    IF list = <<>> THEN from ELSE [text |-> list[Len(list)].text, at |-> list[Len(list)].at]

-----------------------------------------------------------------------------
(* Moving (hooks/moving.rs). *)

\* Moving::live
Live ==
    /\ moving # None
    /\ last = "move" /\ moving.shown
    /\ UndoHead(undo) = moving.undoHead /\ line = moving.written

\* advance: from `list' and `from', as resume leaves them, writes the row that
\* is `delta' away into the line.  A row's change is to the text the menu is for.
Written(m, from, row) ==
    [text |-> IF from.text = m.on.text THEN row.text ELSE Garbled, at |-> row.at]
Advance(m, list, from, delta) ==
    LET n == Step(Len(m.rows), m.picked, delta) IN
    /\ line' = Written(m, from, m.rows[n])
    /\ Changes(list, from, m.rows[n].end)
    /\ moving' = [m EXCEPT !.picked = n, !.written = line', !.undoHead = UndoHead(undo')]

\* The menu on screen, before the first move.
Started == [on |-> menu.on, rows |-> menu.rows, picked |-> 0, shown |-> TRUE,
            written |-> line, undoHead |-> None]

-----------------------------------------------------------------------------
(* What is known of the line since, for the properties. *)

TextChanges == line'.text # line.text
Watch(tab) ==
    /\ hid' = IF tab \/ TextChanges THEN None ELSE hid
    /\ wandered' = (~tab /\ ~TextChanges /\ (wandered \/ line'.at # line.at))
    /\ UNCHANGED onScreen

\* A key's command has run: after_key may run its hook, and the line is drawn.
Ran(command) ==
    /\ pc' = IF TextChanges THEN "hook" ELSE "draw"
    /\ last' = command

\* readline starts another line, as this one has run or is thrown away:
\* pre_input.  The line-start hook may fill it.
NewLine(command) ==
    /\ entry' = None /\ last' = command /\ pc' = "draw"
    /\ \/ line' = [text |-> Empty, at |-> End] /\ undo' = <<>>
       \/ line' \in [text : Texts, at : Spots] /\ Changes(<<>>, [text |-> Empty, at |-> End], End)
    /\ menu' = None /\ moving' = None /\ hidden' = None /\ drawnAt' = None
    /\ asked' = None /\ cursorMoved' = FALSE
    /\ onScreen' = <<>> /\ hid' = None /\ wandered' = FALSE

-----------------------------------------------------------------------------
(* Drawing: repaint_line, in plain editing. *)

\* The menu kept for the line as it is: not on screen until it is drawn.
KeptAsShown == IF menu # None /\ menu.on = line THEN menu ELSE None
Kept == IF menu # None /\ menu.on = line THEN [menu EXCEPT !.shown = FALSE] ELSE None

\* menu_for: the kept menu, unless what it waited for has come.
MenuFor(rows, waiting) ==
    IF Kept # None /\ (~Kept.waiting \/ waiting) THEN Kept
    ELSE [on |-> line, rows |-> rows, shown |-> FALSE, waiting |-> waiting]

Recalled == entry = line.text

\* cursor_moved, from what it was: the cursor has moved on this text.
StraysSinceDrawn(c) == drawnAt # None /\ drawnAt.text = line.text /\ drawnAt.at # line.at
Strays(c) == drawnAt # None /\ drawnAt.text = line.text /\ (c \/ drawnAt.at # line.at)

\* A draw that starts from m (the moving state, if it is live), C-g's text h,
\* Tab's place a, and c (the cursor has moved): what it leaves.  Where inkline
\* cannot tell what readline drew, it leaves the line to it.
Draws(m, h, a, c, byReadline) ==
    \E room, waiting \in BOOLEAN, rows \in Offers[line] :
      LET stillHidden == h # None /\ h = line.text
          stillAsked == a # None /\ a = line
          showMenu == MenuOnMove \/ ~Strays(c)
          gather == /\ m = None /\ ~stillHidden /\ (showMenu \/ line.at = End)
                    /\ ~Recalled \/ stillAsked
          gathered == IF gather THEN MenuFor(rows, waiting) ELSE None
          drawn == IF m # None THEN m.rows ELSE IF gathered # None THEN gathered.rows ELSE <<>>
          fits == showMenu /\ room /\ MenuLines > 0 /\ drawn # <<>>
          repainted == ~byReadline /\ line.text # Empty IN
      /\ hidden' = IF stillHidden THEN h ELSE None
      /\ asked' = IF stillAsked THEN a ELSE None
      /\ cursorMoved' = Strays(c)
      /\ drawnAt' = line
      /\ moving' = IF m # None THEN [m EXCEPT !.shown = repainted /\ fits] ELSE None
      /\ menu' = IF ~repainted \/ m # None THEN Kept
                 ELSE IF gathered # None THEN [gathered EXCEPT !.shown = fits] ELSE None
      /\ onScreen' = IF repainted /\ fits THEN drawn ELSE <<>>

\* Readline draws the line once a key's command has returned.
Redisplay ==
    /\ pc = "draw"
    /\ \E byReadline \in BOOLEAN :
         Draws(IF Live THEN moving ELSE None, hidden, asked, cursorMoved, byReadline)
    /\ pc' = "key"
    /\ UNCHANGED <<readline, hid, wandered>>

\* redraw, from getc: an answer has come, or a pause.
Redraw ==
    /\ pc = "key"
    /\ \E byReadline \in BOOLEAN :
         Draws(IF Live THEN moving ELSE None, hidden, asked, cursorMoved, byReadline)
    /\ UNCHANGED <<readline, pc, hid, wandered>>

\* after_key: the hook changes nothing, or what it changes is one undo step.
Hook ==
    /\ pc = "hook" /\ pc' = "draw"
    /\ \/ UNCHANGED <<line, undo>>
       \/ /\ Len(undo) < MaxUndo
          /\ line' \in [text : Texts, at : Spots]
          /\ Changes(undo, line, line.at)
    /\ hid' = IF TextChanges THEN None ELSE hid
    /\ UNCHANGED <<entry, last, state, onScreen, wandered>>

-----------------------------------------------------------------------------
(* Commands. *)

\* A history line takes the line's place, with an undo list of its own; past
\* the newest entry is the line as it was typed.
ToHistory ==
    /\ undo' = <<>>
    /\ \/ \E h \in Recallable : entry' = h /\ \E at \in Spots : line' = [text |-> h, at |-> at]
       \/ /\ entry # None /\ entry' = None
          /\ line' \in [text : Texts, at : Spots]

ToSpot == \E at \in Spots : line' = [line EXCEPT !.at = at] /\ UNCHANGED <<undo, entry>>

\* menu-next and menu-previous, with a count.  With a count from readline's own
\* universal-argument, that is the last command.
MenuStep ==
    /\ pc = "key"
    /\ \E count \in Counts, down \in BOOLEAN, command \in {"move", "other"} :
         LET delta == IF down THEN count ELSE -count IN
         /\ count = 1 => command = "move"
         /\ \/ /\ delta = 0 /\ (Live \/ ShowingMenu)
               /\ UNCHANGED <<line, undo, entry, moving>>
            \/ /\ delta # 0 /\ Live
               /\ Advance(moving, Undone(undo), UndonePlace(undo, line), delta)
               /\ UNCHANGED entry
            \/ /\ delta # 0 /\ ~Live /\ ShowingMenu
               /\ Advance(Started, undo, line, delta)
               /\ UNCHANGED entry
            \* menu_fallback
            \/ /\ ~Live /\ ~ShowingMenu
               /\ moving' = IF delta = 0 THEN moving ELSE None
               /\ ToHistory \/ ToSpot
         /\ Ran(command)
    /\ Watch(FALSE)
    /\ UNCHANGED <<menu, hidden, drawnAt, asked, cursorMoved>>

\* Tab and Shift-Tab, with a row to write.
TabWrites ==
    /\ pc = "key"
    /\ \E delta \in {1, -1} :
         \/ /\ Live
            /\ Advance(moving, Undone(undo), UndonePlace(undo, line), delta)
         \/ /\ ~Live /\ ShowingMenu /\ (Len(menu.rows) # 1 \/ menu.waiting)
            /\ Advance(Started, undo, line, delta)
         \/ /\ ~Live /\ ShowingMenu /\ Len(menu.rows) = 1 /\ ~menu.waiting
            /\ line' = Written(menu, line, menu.rows[1])
            /\ Changes(undo, line, menu.rows[1].end)
            /\ moving' = None
    /\ Ran("move") /\ Watch(TRUE)
    /\ UNCHANGED <<entry, menu, hidden, drawnAt, asked, cursorMoved>>

\* Tab with no menu: show_menu_now.  Where readline draws the line, its
\* `complete' runs.
TabShows ==
    /\ pc = "key" /\ ~Live /\ ~ShowingMenu
    /\ \E byReadline \in BOOLEAN :
         /\ Draws(None, None, line, FALSE, byReadline)
         /\ \/ UNCHANGED <<line, undo>>
            \/ /\ byReadline /\ Len(undo) < MaxUndo
               /\ line' \in [text : Texts, at : Spots]
               /\ Changes(undo, line, line.at)
    /\ Ran("move")
    /\ hid' = None /\ wandered' = FALSE
    /\ UNCHANGED entry

\* cancel: the row written is taken back, and the menu hidden on what was typed.
CancelAtUndone ==
    /\ line' = UndonePlace(undo, line) /\ undo' = Undone(undo)
    /\ hidden' = moving.on.text /\ menu' = None
CancelHidesRow ==
    /\ line' = [UndonePlace(undo, line) EXCEPT !.at = moving.on.at] /\ undo' = Undone(undo)
    /\ hidden' = line.text /\ menu' = None
Cancel ==
    /\ line' = [UndonePlace(undo, line) EXCEPT !.at = moving.on.at] /\ undo' = Undone(undo)
    /\ hidden' = moving.on.text /\ menu' = None

\* menu_hide: cancel, or hiding the menu, or readline's abort.
Hide ==
    \/ Live /\ Cancel /\ Ran("hide")
    \/ /\ ~Live /\ ShowingMenu
       /\ hidden' = line.text /\ menu' = None
       /\ UNCHANGED <<line, undo>>
       /\ Ran("hide")
    \/ /\ ~Live /\ ~ShowingMenu
       /\ UNCHANGED <<line, undo, hidden, menu>>
       /\ Ran("none")
MenuHide ==
    /\ pc = "key"
    /\ Hide
    /\ moving' = None
    /\ hid' = IF Live \/ ShowingMenu THEN hidden' ELSE hid
    /\ wandered' = (~TextChanges /\ wandered)
    /\ UNCHANGED <<entry, drawnAt, asked, cursorMoved, onScreen>>

\* The line's text changes: typing, killing, a Lisp command.
Edits(command) ==
    /\ Len(undo) < MaxUndo
    /\ line' \in [text : Texts \ {line.text}, at : Spots]
    /\ Changes(undo, line, line.at)
    /\ Ran(command)
    /\ UNCHANGED entry

\* Shift-Tab with no menu: what the key had before.
ShiftTabFalls ==
    /\ pc = "key" /\ ~Live /\ ~ShowingMenu
    /\ \/ Edits("move")
       \/ (ToSpot \/ ToHistory) /\ Ran("move")
    /\ moving' = None
    /\ Watch(FALSE)
    /\ UNCHANGED <<menu, hidden, drawnAt, asked, cursorMoved>>

\* accept-or-newline: stop; else a line is added, or the line runs.
Enter ==
    /\ pc = "key"
    /\ \/ ~Live /\ NewLine("enter")
       \/ /\ \/ Live /\ UNCHANGED <<line, undo, entry>> /\ Ran("enter")
             \/ ~Live /\ Edits("enter")
          /\ moving' = None
          /\ Watch(FALSE)
          /\ UNCHANGED <<menu, hidden, drawnAt, asked, cursorMoved>>

\* Any other key: it changes the line, moves the cursor, undoes, goes through
\* history, or does nothing to the line.
OtherKey ==
    /\ pc = "key"
    /\ \/ Edits("other")
       \/ /\ ToSpot \/ ToHistory
          /\ Ran("other")
       \/ /\ undo # <<>> /\ line' = UndonePlace(undo, line) /\ undo' = Undone(undo)
          /\ Ran("other")
          /\ UNCHANGED entry
    /\ Watch(FALSE)
    /\ UNCHANGED state

\* A C-c throws the line away.
Interrupt == pc = "key" /\ NewLine("none")

-----------------------------------------------------------------------------
Init ==
    /\ line = [text |-> Empty, at |-> End] /\ undo = <<>> /\ entry = None
    /\ last = "none" /\ pc = "draw"
    /\ menu = None /\ moving = None /\ hidden = None /\ drawnAt = None
    /\ asked = None /\ cursorMoved = FALSE
    /\ onScreen = <<>> /\ hid = None /\ wandered = FALSE

Next ==
    \/ Redisplay \/ Redraw \/ Hook
    \/ MenuStep \/ TabWrites \/ TabShows \/ ShiftTabFalls \/ MenuHide
    \/ Enter \/ OtherKey \/ Interrupt

Spec == Init /\ [][Next]_vars

-----------------------------------------------------------------------------
(* Properties. *)

Entry == [id : Addresses, text : Texts, at : Spots]
Menu == [on : Places, rows : Menus, shown : BOOLEAN, waiting : BOOLEAN]
Move == [on : Places, rows : Menus, picked : Nat, shown : BOOLEAN, written : Places,
         undoHead : Addresses \cup {None}]

\* The line, the menu and the moving state have their types, and no row is ever
\* written into another text than the one its menu is for.
TypeOK ==
    /\ line \in [text : Texts, at : Spots]
    /\ undo \in Seq(Entry) /\ entry \in Recallable \cup {None}
    /\ last \in {"none", "move", "hide", "enter", "other"} /\ pc \in {"key", "hook", "draw"}
    /\ menu \in Menu \cup {None} /\ moving \in Move \cup {None}
    /\ hidden \in Texts \cup {None} /\ drawnAt \in Places \cup {None}
    /\ asked \in Places \cup {None} /\ cursorMoved \in BOOLEAN
    /\ onScreen \in Menus \cup {<<>>} /\ hid \in Texts \cup {None} /\ wandered \in BOOLEAN

\* The row picked is one of those on screen: the menu scrolls with the moves,
\* and takes no more lines than inkline-menu-lines.
PickedRowShows ==
    Live /\ moving.picked # 0 =>
        LET w == Window(Len(moving.rows), moving.picked, MenuLines) IN
        /\ w.first <= moving.picked /\ moving.picked < w.first + w.count
        /\ w.count + (IF w.more > 0 /\ MenuLines > 1 THEN 1 ELSE 0) <= MenuLines

\* "`C-g' [...] hides the menu until the line's text changes [...], and Tab shows
\* it again" (README.md).
HiddenStaysHidden == hid # None => ~ShowingMenu /\ ~Live

\* "Moving the cursor without changing the text hides the menu until you type
\* again or press Tab" (README.md).
StrayedShowsNone == wandered /\ ~MenuOnMove => ~ShowingMenu

\* A menu that was hidden, with C-g or by moving off, stays away.
MenuStaysAway == HiddenStaysHidden /\ StrayedShowsNone

PlaceOf(row) == [text |-> row.text, at |-> row.at]
\* What a move writes is a row of the menu that the last draw in plain editing
\* put on screen: not one kept for this line that has since had no room.
RowsWereOnScreen ==
    [][pc = "key" /\ Live' /\ line' # line =>
         \E i \in DOMAIN onScreen : line' = PlaceOf(onScreen[i])]_vars

\* Moving implements what README.md promises of it.
PlacesOf(rows) == [i \in DOMAIN rows |-> PlaceOf(rows[i])]
B == INSTANCE Browsing WITH
       Places <- Places,
       Menus <- {PlacesOf(rows) : rows \in Menus},
       browse <- IF Live THEN [base |-> moving.on, rows |-> PlacesOf(moving.rows),
                               pick |-> moving.picked]
                 ELSE None,
       back <- IF undo = <<>> THEN None ELSE undo[Len(undo)].text,
       key <- last
Browses == B!Spec
=============================================================================
