----------------------------- MODULE MovingProofs -----------------------------
(***************************************************************************)
(* Theorems about Moving, for every menu, line, history and undo list: its  *)
(* invariants, and that it implements Browsing.                             *)
(***************************************************************************)
EXTENDS Moving, SequenceTheorems, TLAPS

EditPlaces == [text : Texts, at : Spots]
Ids(list) == \A i, j \in DOMAIN list : list[i].id = list[j].id => i = j

-----------------------------------------------------------------------------
(* The inductive invariant. *)

\* The moving state holds a row of a menu.  While it is on screen and no other
\* key has come, its undo entry is in the list, and undoing it gives back the
\* text that the menu is for.
MovingHolds ==
    moving # None =>
      /\ moving.on \in EditPlaces /\ moving.rows \in Offers[moving.on]
      /\ moving.picked \in DOMAIN moving.rows
      /\ moving.written = PlaceOf(moving.rows[moving.picked])
      /\ moving.shown => MenuLines > 0 /\ onScreen = moving.rows
      /\ moving.shown /\ last = "move" =>
           \E i \in DOMAIN undo : undo[i].id = moving.undoHead /\ undo[i].text = moving.on.text
      /\ moving.shown /\ pc = "key" => Live

\* The menu is for the line drawn, and one shown is on screen.
MenuHolds ==
    menu # None =>
      /\ menu.on \in EditPlaces /\ menu.rows \in Offers[menu.on]
      /\ pc = "key" => menu.on = line
      /\ menu.shown => menu.rows # <<>> /\ MenuLines > 0 /\ onScreen = menu.rows

\* What C-g hid the menu on, and that the cursor has moved, is known to inkline.
HidHolds == hid # None => hid = line.text /\ hidden = hid /\ ~Live /\ (menu # None => ~menu.shown)
WanderedHolds ==
    wandered => pc # "hook" /\ Strays(cursorMoved) /\ (~MenuOnMove => ~ShowingMenu)
DrawnHolds == pc = "key" => drawnAt = line

IInv == /\ TypeOK /\ Ids(undo) /\ MovingHolds /\ MenuHolds
        /\ HidHolds /\ WanderedHolds /\ DrawnHolds

-----------------------------------------------------------------------------
(* Rows, steps and windows. *)

\* What a draw gathers is a menu.
LEMMA OffersTyped ==
  ASSUME NEW p \in Places, NEW rows \in Offers[p]
  PROVE  rows \in Seq(Row) /\ rows \in Menus
  BY MovingConstantsOK DEF Menus

\* An edit leads to a place.
LEMMA EditPlacesArePlaces == EditPlaces \subseteq Places
  BY DEF EditPlaces, Places

\* A step from any row, by any count but 0, leads to a row of the menu.
THEOREM StepLeadsToARow ==
  ASSUME NEW total \in Nat \ {0}, NEW picked \in 0 .. total, NEW delta \in Int \ {0}
  PROVE  Step(total, picked, delta) \in 1 .. total
  <1> DEFINE from == IF picked # 0 THEN picked ELSE IF delta > 0 THEN 0 ELSE total + 1
  <1>1. from - 1 + delta \in Int
    OBVIOUS
  <1>2. (from - 1 + delta) % total \in 0 .. (total - 1)
    <2> HIDE DEF from
    <2> QED BY <1>1
  <1>3. Step(total, picked, delta) = ((from - 1 + delta) % total) + 1
    BY DEF Step
  <1> QED
    <2> HIDE DEF from
    <2> QED BY <1>2, <1>3

\* The window of a menu with a row picked holds that row, and fits in the lines
\* given, with the line that counts the rows left out.
THEOREM WindowHoldsThePick ==
  ASSUME NEW total \in Nat, NEW picked \in 1 .. total, NEW rows \in Nat \ {0}
  PROVE  LET w == Window(total, picked, rows) IN
         /\ w.first <= picked /\ picked < w.first + w.count
         /\ w.count + (IF w.more > 0 /\ rows > 1 THEN 1 ELSE 0) <= rows
  <1>1. CASE total <= rows
    BY <1>1 DEF Window
  <1>2. CASE total > rows /\ rows = 1
    BY <1>2 DEF Window
  <1>3. CASE total > rows /\ rows > 1
    BY <1>3 DEF Window
  <1> QED BY <1>1, <1>2, <1>3

-----------------------------------------------------------------------------
(* The undo list. *)

\* A new entry has an address of its own and is the head.
LEMMA AppendKeeps ==
  ASSUME NEW list \in Seq(Entry), Ids(list), NEW e \in Entry, e.id \notin InList(list)
  PROVE  /\ Append(list, e) \in Seq(Entry) /\ Ids(Append(list, e))
         /\ UndoHead(Append(list, e)) = e.id
         /\ Append(list, e)[Len(Append(list, e))] = e
         /\ Append(list, e) # <<>>
         /\ \A i \in DOMAIN list : i \in DOMAIN Append(list, e) /\ Append(list, e)[i] = list[i]
  <1> DEFINE new == Append(list, e)
  <1>1. new \in Seq(Entry) /\ Len(new) = Len(list) + 1
    OBVIOUS
  <1>5. new # <<>>
    <2> HIDE DEF new
    <2> QED BY <1>1
  <1>2. new[Len(new)] = e /\ \A i \in 1 .. Len(list) : new[i] = list[i]
    OBVIOUS
  <1>3. UndoHead(new) = e.id
    BY <1>2, <1>5 DEF UndoHead
  <1>4. Ids(new)
    <2> SUFFICES ASSUME NEW i \in DOMAIN new, NEW j \in DOMAIN new, new[i].id = new[j].id
                 PROVE  i = j
      BY DEF Ids
    <2>1. \A k \in 1 .. Len(list) : list[k].id # e.id
      BY DEF InList
    <2>2. i \in 1 .. Len(list) + 1 /\ j \in 1 .. Len(list) + 1
      BY <1>1
    <2>3. CASE i \in 1 .. Len(list) /\ j \in 1 .. Len(list)
      <3>1. list[i].id = list[j].id /\ DOMAIN list = 1 .. Len(list)
        BY <2>3, <1>2
      <3> QED BY <2>3, <3>1 DEF Ids
    <2>4. CASE i = Len(list) + 1 \/ j = Len(list) + 1
      <3> HIDE DEF new
      <3> QED BY <2>1, <2>2, <2>4, <1>1, <1>2
    <2> QED BY <2>2, <2>3, <2>4
  <1>6. \A i \in DOMAIN list : i \in DOMAIN new /\ new[i] = list[i]
    BY <1>1, <1>2
  <1> HIDE DEF new
  <1> QED BY <1>1, <1>2, <1>3, <1>4, <1>5, <1>6 DEF new

\* An undo leaves the other entries' addresses as they are.
LEMMA UndoneKeeps ==
  ASSUME NEW list \in Seq(Entry), Ids(list)
  PROVE  Undone(list) \in Seq(Entry) /\ Ids(Undone(list))
  <1>1. CASE list = <<>>
    BY <1>1 DEF Undone, Ids
  <1>2. CASE list # <<>>
    <2>1. /\ Undone(list) \in Seq(Entry) /\ Len(Undone(list)) = Len(list) - 1
          /\ \A i \in 1 .. Len(list) - 1 : Undone(list)[i] = list[i]
      <3>1. Len(list) \in Nat \ {0}
        BY <1>2
      <3>2. \A i \in 1 .. Len(list) - 1 : list[i] \in Entry
        BY <3>1
      <3> DEFINE k == Len(list) - 1
      <3>3. /\ SubSeq(list, 1, k) \in Seq(Entry)
            /\ Len(SubSeq(list, 1, k)) = IF 1 <= k THEN k - 1 + 1 ELSE 0
            /\ \A i \in 1 .. k - 1 + 1 : SubSeq(list, 1, k)[i] = list[1 + i - 1]
        <4> k \in Int
          BY <3>1
        <4> HIDE DEF k
        <4>1. \A i \in 1 .. k : list[i] \in Entry
          BY <3>2 DEF k
        <4> QED BY <4>1, SubSeqProperties
      <3>4. k \in Nat /\ Undone(list) = SubSeq(list, 1, k)
        BY <3>1 DEF Undone
      <3> HIDE DEF k
      <3>5. Undone(list) \in Seq(Entry) /\ Len(Undone(list)) = k
        BY <3>3, <3>4
      <3>6. \A i \in 1 .. k : Undone(list)[i] = list[i]
        BY <3>3, <3>4
      <3> QED BY <3>5, <3>6 DEF k
    <2>2. DOMAIN Undone(list) = 1 .. Len(list) - 1 /\ DOMAIN list = 1 .. Len(list)
      BY <2>1
    <2>3. SUFFICES ASSUME NEW i \in 1 .. Len(list) - 1, NEW j \in 1 .. Len(list) - 1,
                          Undone(list)[i].id = Undone(list)[j].id
                   PROVE  i = j
      BY <2>1, <2>2 DEF Ids
    <2>4. list[i].id = list[j].id
      BY <2>1, <2>3
    <2> QED BY <2>2, <2>4 DEF Ids
  <1> QED BY <1>1, <1>2

\* A change adds one entry, which undoing gives back.
LEMMA ChangesKeep ==
  ASSUME NEW list \in Seq(Entry), Ids(list), NEW from \in EditPlaces, NEW at \in Spots,
         Changes(list, from, at)
  PROVE  /\ undo' \in Seq(Entry) /\ Ids(undo') /\ undo' # <<>>
         /\ undo'[Len(undo')].text = from.text
         /\ UndoHead(undo') = undo'[Len(undo')].id
         /\ UndoHead(undo') \notin InList(list)
         /\ \A i \in DOMAIN list : i \in DOMAIN undo' /\ undo'[i] = list[i]
  <1>1. PICK a \in Addresses \ InList(list) :
          undo' = Append(list, [id |-> a, text |-> from.text, at |-> at])
    BY DEF Changes
  <1> DEFINE e == [id |-> a, text |-> from.text, at |-> at]
  <1>2. e \in Entry /\ e.id = a /\ e.text = from.text
    BY DEF Entry, EditPlaces
  <1> HIDE DEF e
  <1>3. undo' = Append(list, e)
    BY <1>1 DEF e
  <1> QED BY <1>2, <1>3, AppendKeeps

\* The line that undoing leads to is one of those edited, with the text that its
\* entry gives back.
LEMMA UndonePlaceTyped ==
  ASSUME NEW list \in Seq(Entry), NEW from \in EditPlaces
  PROVE  /\ UndonePlace(list, from) \in EditPlaces
         /\ list # <<>> => UndonePlace(list, from).text = list[Len(list)].text
  <1>1. CASE list = <<>>
    BY <1>1 DEF UndonePlace
  <1>2. CASE list # <<>>
    <2>1. list[Len(list)] \in Entry
      BY <1>2
    <2> QED BY <1>2, <2>1 DEF UndonePlace, Entry, EditPlaces
  <1> QED BY <1>1, <1>2

-----------------------------------------------------------------------------
(* Moves. *)

\* A move from a menu, when the text is the one it is for, writes one of its rows
\* as one entry of the undo list, and notes both.
LEMMA AdvanceWrites ==
  ASSUME NEW m \in Move, NEW list \in Seq(Entry), Ids(list), NEW from \in EditPlaces,
         NEW delta \in Int \ {0},
         m.on \in EditPlaces, m.rows \in Offers[m.on], m.rows # <<>>,
         m.picked <= Len(m.rows), from.text = m.on.text,
         Advance(m, list, from, delta)
  PROVE  \E n \in DOMAIN m.rows :
           /\ line' = PlaceOf(m.rows[n]) /\ line' \in EditPlaces
           /\ undo' \in Seq(Entry) /\ Ids(undo') /\ undo' # <<>>
           /\ undo'[Len(undo')].text = m.on.text
           /\ undo'[Len(undo')].id = UndoHead(undo')
           /\ moving' \in Move
           /\ moving'.on = m.on /\ moving'.rows = m.rows /\ moving'.picked = n
           /\ moving'.shown = m.shown /\ moving'.written = line'
           /\ moving'.undoHead = UndoHead(undo')
  <1> DEFINE n == Step(Len(m.rows), m.picked, delta)
  <1>1. m.rows \in Seq(Row) /\ m.on \in Places /\ m.picked \in Nat
    BY EditPlacesArePlaces, OffersTyped DEF Move
  <1>2. Len(m.rows) \in Nat \ {0} /\ DOMAIN m.rows = 1 .. Len(m.rows)
    BY <1>1
  <1>3. n \in DOMAIN m.rows
    <2>1. m.picked \in 0 .. Len(m.rows)
      BY <1>1, <1>2
    <2>2. n \in 1 .. Len(m.rows)
      BY <1>2, <2>1, StepLeadsToARow
    <2> HIDE DEF n
    <2> QED BY <1>2, <2>2
  <1> HIDE DEF n
  <1>4. m.rows[n] \in Row
    BY <1>1, <1>3
  <1>5. /\ line' = Written(m, from, m.rows[n]) /\ Changes(list, from, m.rows[n].end)
        /\ moving' = [m EXCEPT !.picked = n, !.written = line', !.undoHead = UndoHead(undo')]
    BY DEF Advance, n
  <1>6. line' = PlaceOf(m.rows[n]) /\ line' \in EditPlaces
    BY <1>4, <1>5 DEF Written, PlaceOf, Row, EditPlaces
  <1>7. m.rows[n].end \in Spots
    BY <1>4 DEF Row
  <1>8. /\ undo' \in Seq(Entry) /\ Ids(undo') /\ undo' # <<>>
        /\ undo'[Len(undo')].text = m.on.text
        /\ undo'[Len(undo')].id = UndoHead(undo')
    BY <1>5, <1>7, ChangesKeep
  <1>9. undo'[Len(undo')] \in Entry
    BY <1>8
  <1>10. UndoHead(undo') \in Addresses /\ line' \in Places /\ n \in Nat
    BY <1>2, <1>3, <1>6, <1>8, <1>9, EditPlacesArePlaces DEF Entry
  <1>11. /\ moving' \in Move
         /\ moving'.on = m.on /\ moving'.rows = m.rows /\ moving'.picked = n
         /\ moving'.shown = m.shown /\ moving'.written = line'
         /\ moving'.undoHead = UndoHead(undo')
    BY <1>5, <1>10 DEF Move
  <1> QED BY <1>3, <1>6, <1>8, <1>11

\* While moving, what undoing the row written gives back is what the menu is for.
LEMMA LiveUndoes ==
  ASSUME IInv, Live
  PROVE  /\ moving \in Move /\ moving.on \in EditPlaces /\ moving.rows \in Offers[moving.on]
         /\ moving.rows # <<>> /\ moving.picked \in DOMAIN moving.rows /\ moving.shown
         /\ moving.picked <= Len(moving.rows)
         /\ MenuLines > 0 /\ onScreen = moving.rows
         /\ undo # <<>> /\ undo[Len(undo)].text = moving.on.text
         /\ line = PlaceOf(moving.rows[moving.picked])
         /\ last = "move"
  <1>1. moving # None /\ moving \in Move /\ undo \in Seq(Entry)
    BY DEF IInv, TypeOK, Live
  <1>2. /\ moving.on \in EditPlaces /\ moving.rows \in Offers[moving.on]
        /\ moving.picked \in DOMAIN moving.rows /\ moving.shown /\ last = "move"
        /\ MenuLines > 0 /\ onScreen = moving.rows
        /\ line = PlaceOf(moving.rows[moving.picked])
    BY <1>1 DEF IInv, MovingHolds, Live
  <1>3. PICK i \in DOMAIN undo : undo[i].id = moving.undoHead /\ undo[i].text = moving.on.text
    BY <1>1, <1>2 DEF IInv, MovingHolds
  <1>4. undo # <<>> /\ undo[Len(undo)].id = moving.undoHead
    BY <1>1, <1>3 DEF Live, UndoHead
  <1>5. i = Len(undo)
    BY <1>1, <1>3, <1>4 DEF IInv, Ids
  <1>6. moving.rows \in Seq(Row)
    BY <1>2, EditPlacesArePlaces, OffersTyped
  <1>7. moving.rows # <<>> /\ moving.picked <= Len(moving.rows)
    BY <1>2, <1>6
  <1> QED BY <1>1, <1>2, <1>3, <1>4, <1>5, <1>7

\* Before the first move.
LEMMA StartedFromMenu ==
  ASSUME IInv, ShowingMenu
  PROVE  /\ Started \in Move /\ Started.on = line /\ line \in EditPlaces
         /\ Started.rows = menu.rows /\ Started.rows \in Offers[line] /\ Started.rows # <<>>
         /\ Started.picked <= Len(Started.rows) /\ Started.shown
         /\ MenuLines > 0 /\ onScreen = menu.rows /\ menu # None
  <1>1. /\ menu # None /\ menu \in Menu /\ menu.on = line /\ line \in EditPlaces
        /\ menu.rows \in Offers[line] /\ menu.rows # <<>> /\ MenuLines > 0
        /\ onScreen = menu.rows
    BY DEF IInv, TypeOK, MenuHolds, ShowingMenu, EditPlaces
  <1>2. menu.rows \in Seq(Row) /\ menu.rows \in Menus /\ line \in Places
    BY <1>1, EditPlacesArePlaces, OffersTyped
  <1>3. Started \in Move
    BY <1>1, <1>2 DEF Started, Move
  <1> QED BY <1>1, <1>2, <1>3 DEF Started

\* What a move leaves, with the menu on screen that it was from.
LEMMA AdvanceHolds ==
  ASSUME NEW m \in Move, NEW n \in DOMAIN m.rows,
         m.on \in EditPlaces, m.rows \in Offers[m.on], m.shown, MenuLines > 0,
         onScreen = m.rows, onScreen' = onScreen, pc' # "key",
         line' = PlaceOf(m.rows[n]), undo' \in Seq(Entry), undo' # <<>>,
         undo'[Len(undo')].text = m.on.text, undo'[Len(undo')].id = UndoHead(undo'),
         moving'.on = m.on, moving'.rows = m.rows, moving'.picked = n,
         moving'.shown = m.shown, moving'.written = line', moving'.undoHead = UndoHead(undo')
  PROVE  MovingHolds'
  <1>1. Len(undo') \in DOMAIN undo'
    OBVIOUS
  <1>2. PlaceOf(m.rows[n])' = PlaceOf(m.rows[n])
    BY DEF PlaceOf
  <1> QED BY <1>1 DEF MovingHolds, PlaceOf

\* Moving on, as menu-next, menu-previous, Tab and Shift-Tab do.
LEMMA AdvanceKeeps ==
  ASSUME IInv, NEW delta \in Int \ {0}, onScreen' = onScreen, pc' # "key",
         \/ Live /\ Advance(moving, Undone(undo), UndonePlace(undo, line), delta)
         \/ ShowingMenu /\ Advance(Started, undo, line, delta)
  PROVE  /\ line' \in EditPlaces /\ undo' \in Seq(Entry) /\ Ids(undo')
         /\ moving' \in Move /\ MovingHolds' /\ hid = None
  <1>0. undo \in Seq(Entry) /\ Ids(undo) /\ line \in EditPlaces
    BY DEF IInv, TypeOK, EditPlaces
  <1>1. CASE Live /\ Advance(moving, Undone(undo), UndonePlace(undo, line), delta)
    <2>1. UndonePlace(undo, line) \in EditPlaces /\ UndonePlace(undo, line).text = moving.on.text
      BY <1>0, <1>1, LiveUndoes, UndonePlaceTyped
    <2>2. Undone(undo) \in Seq(Entry) /\ Ids(Undone(undo))
      BY <1>0, UndoneKeeps
    <2>3. PICK n \in DOMAIN moving.rows :
            /\ line' = PlaceOf(moving.rows[n]) /\ line' \in EditPlaces
            /\ undo' \in Seq(Entry) /\ Ids(undo') /\ undo' # <<>>
            /\ undo'[Len(undo')].text = moving.on.text
            /\ undo'[Len(undo')].id = UndoHead(undo')
            /\ moving' \in Move
            /\ moving'.on = moving.on /\ moving'.rows = moving.rows /\ moving'.picked = n
            /\ moving'.shown = moving.shown /\ moving'.written = line'
            /\ moving'.undoHead = UndoHead(undo')
      BY <1>1, <2>1, <2>2, LiveUndoes, AdvanceWrites
    <2>4. MovingHolds'
      BY <1>1, <2>3, LiveUndoes, AdvanceHolds
    <2> QED BY <1>1, <2>3, <2>4 DEF IInv, HidHolds
  <1>2. CASE ShowingMenu /\ Advance(Started, undo, line, delta)
    <2>1. PICK n \in DOMAIN Started.rows :
            /\ line' = PlaceOf(Started.rows[n]) /\ line' \in EditPlaces
            /\ undo' \in Seq(Entry) /\ Ids(undo') /\ undo' # <<>>
            /\ undo'[Len(undo')].text = Started.on.text
            /\ undo'[Len(undo')].id = UndoHead(undo')
            /\ moving' \in Move
            /\ moving'.on = Started.on /\ moving'.rows = Started.rows /\ moving'.picked = n
            /\ moving'.shown = Started.shown /\ moving'.written = line'
            /\ moving'.undoHead = UndoHead(undo')
      BY <1>0, <1>2, StartedFromMenu, AdvanceWrites
    <2>2. MovingHolds'
      BY <1>2, <2>1, StartedFromMenu, AdvanceHolds
    <2>3. hid = None
      BY <1>2 DEF IInv, HidHolds, ShowingMenu
    <2> QED BY <2>1, <2>2, <2>3
  <1> QED BY <1>1, <1>2

\* A key that leaves the moving state as it is.
LEMMA MovingStays ==
  ASSUME IInv, pc = "key", pc' # "key", UNCHANGED <<moving, onScreen>>,
         last' # "move" \/ undo' = undo \/ ~Live
  PROVE  MovingHolds' /\ moving' \in Move \cup {None}
  <1>1. moving \in Move \cup {None}
    BY DEF IInv, TypeOK
  <1>2. MovingHolds'
    BY DEF IInv, MovingHolds, PlaceOf, Live
  <1> QED BY <1>1, <1>2

\* A key's command leaves the invariant, when it does so for the moving state.
LEMMA KeyKeeps ==
  ASSUME IInv, pc = "key", pc' \in {"hook", "draw"}, pc' = "hook" => TextChanges, NEW tab \in BOOLEAN, Watch(tab),
         line' \in EditPlaces, undo' \in Seq(Entry), Ids(undo'),
         entry' \in Recallable \cup {None},
         last' \in {"none", "move", "hide", "enter", "other"},
         moving' \in Move \cup {None}, MovingHolds', hid # None => ~Live',
         UNCHANGED <<menu, hidden, drawnAt, asked, cursorMoved>>
  PROVE  IInv'
  <1>1. TypeOK'
    <2>1. hid' \in Texts \cup {None} /\ wandered' \in BOOLEAN
      BY DEF IInv, TypeOK, Watch, TextChanges
    <2> QED BY <2>1 DEF IInv, TypeOK, EditPlaces, Watch
  <1>2. MenuHolds'
    BY DEF IInv, MenuHolds, Watch
  <1>3. HidHolds'
    BY DEF IInv, HidHolds, Watch, TextChanges
  <1>4. WanderedHolds'
    <2> SUFFICES ASSUME wandered'
                 PROVE  /\ pc' # "hook" /\ Strays(cursorMoved)'
                        /\ ~MenuOnMove => ~ShowingMenu'
      BY DEF WanderedHolds
    <2>1. line'.text = line.text /\ (wandered \/ line'.at # line.at)
      BY DEF Watch, TextChanges
    <2>2. drawnAt = line /\ drawnAt # None
      BY EditPlacesArePlaces, MovingConstantsOK DEF IInv, DrawnHolds, TypeOK, EditPlaces
    <2>3. Strays(cursorMoved)'
      BY <2>1, <2>2 DEF IInv, WanderedHolds, Strays
    <2>4. ~MenuOnMove => ~ShowingMenu'
      BY <2>1 DEF IInv, WanderedHolds, MenuHolds, ShowingMenu
    <2> QED BY <2>1, <2>3, <2>4 DEF TextChanges
  <1>5. DrawnHolds'
    BY DEF DrawnHolds
  <1> QED BY <1>1, <1>2, <1>3, <1>4, <1>5 DEF IInv

-----------------------------------------------------------------------------
(* The commands. *)

\* A recalled history line or a moved cursor is a place.
LEMMA GoesTyped ==
  ASSUME IInv, ToHistory \/ ToSpot
  PROVE  /\ line' \in EditPlaces /\ undo' \in Seq(Entry) /\ Ids(undo')
         /\ entry' \in Recallable \cup {None}
  <1>1. CASE ToHistory
    <2>1. undo' = <<>>
      BY <1>1 DEF ToHistory
    <2>2. line' \in EditPlaces /\ entry' \in Recallable \cup {None}
      BY <1>1, MovingConstantsOK DEF ToHistory, EditPlaces
    <2> QED BY <2>1, <2>2 DEF Ids
  <1>2. CASE ToSpot
    BY <1>2 DEF ToSpot, IInv, TypeOK, EditPlaces
  <1> QED BY <1>1, <1>2

\* What the invariant says of the types of the line and its undo list.
LEMMA LineTyped ==
  IInv => /\ line \in EditPlaces /\ line \in Places /\ line.at \in Spots
          /\ undo \in Seq(Entry) /\ Ids(undo) /\ entry \in Recallable \cup {None}
          /\ moving \in Move \cup {None}
  BY EditPlacesArePlaces DEF IInv, TypeOK, EditPlaces

\* An edit leaves a place and a list of entries.
LEMMA EditsTyped ==
  ASSUME IInv, NEW command, Edits(command)
  PROVE  /\ line' \in EditPlaces /\ undo' \in Seq(Entry) /\ Ids(undo')
         /\ entry' \in Recallable \cup {None}
  <1>1. undo' \in Seq(Entry) /\ Ids(undo')
    BY LineTyped, ChangesKeep DEF Edits
  <1>2. line' \in EditPlaces /\ entry' \in Recallable \cup {None}
    BY LineTyped DEF Edits, EditPlaces
  <1> QED BY <1>1, <1>2

\* Up and Down in the menu (Moving::step).
LEMMA MenuStepKeeps == IInv /\ MenuStep => IInv'
  <1> SUFFICES ASSUME IInv, MenuStep PROVE IInv'
    OBVIOUS
  <1>1. PICK count \in Counts, down \in BOOLEAN, command \in {"move", "other"} :
          LET delta == IF down THEN count ELSE -count IN
          /\ \/ /\ delta = 0 /\ (Live \/ ShowingMenu)
                /\ UNCHANGED <<line, undo, entry, moving>>
             \/ /\ delta # 0 /\ Live
                /\ Advance(moving, Undone(undo), UndonePlace(undo, line), delta)
                /\ UNCHANGED entry
             \/ /\ delta # 0 /\ ~Live /\ ShowingMenu
                /\ Advance(Started, undo, line, delta)
                /\ UNCHANGED entry
             \/ /\ ~Live /\ ~ShowingMenu
                /\ moving' = IF delta = 0 THEN moving ELSE None
                /\ ToHistory \/ ToSpot
          /\ Ran(command)
    BY DEF MenuStep
  <1> DEFINE delta == IF down THEN count ELSE -count
  <1>2. delta \in Int
    BY MovingConstantsOK
  <1>3. /\ pc = "key" /\ pc' \in {"hook", "draw"} /\ (pc' = "hook" => TextChanges)
        /\ last' \in {"move", "other"} /\ Watch(FALSE)
        /\ UNCHANGED <<menu, hidden, drawnAt, asked, cursorMoved, onScreen>>
    BY <1>1 DEF MenuStep, Ran, Watch
  <1> HIDE DEF delta
  <1>4. CASE (Live \/ ShowingMenu) /\ UNCHANGED <<line, undo, entry, moving>>
    <2>1. hid = None
      BY <1>4 DEF IInv, HidHolds, ShowingMenu
    <2>2. MovingHolds'
      BY <1>3, <1>4, MovingStays
    <2> QED BY <1>3, <1>4, <2>1, <2>2, LineTyped, KeyKeeps
  <1>5. CASE /\ \/ Live /\ Advance(moving, Undone(undo), UndonePlace(undo, line), delta)
                \/ ShowingMenu /\ Advance(Started, undo, line, delta)
             /\ delta # 0 /\ UNCHANGED entry
    <2>1. /\ line' \in EditPlaces /\ undo' \in Seq(Entry) /\ Ids(undo')
          /\ moving' \in Move /\ MovingHolds' /\ hid = None
      BY <1>2, <1>3, <1>5, AdvanceKeeps
    <2> QED BY <1>3, <1>5, <2>1, LineTyped, KeyKeeps
  <1>6. CASE ~Live /\ moving' \in {moving, None} /\ (ToHistory \/ ToSpot)
    <2>1. MovingHolds' /\ moving' \in Move \cup {None}
      <3>1. CASE moving' = moving
        BY <1>3, <1>6, <3>1, MovingStays
      <3>2. CASE moving' = None
        BY <3>2 DEF MovingHolds
      <3> QED BY <1>6, <3>1, <3>2
    <2>2. ~Live'
      BY <1>3, <1>6 DEF Live, IInv, MovingHolds
    <2> QED BY <1>3, <1>6, <2>1, <2>2, GoesTyped, KeyKeeps
  <1> QED BY <1>1, <1>4, <1>5, <1>6 DEF delta

\* Tab that writes a row.
LEMMA TabWritesKeeps == IInv /\ TabWrites => IInv'
  <1> SUFFICES ASSUME IInv, TabWrites PROVE IInv'
    OBVIOUS
  <1>1. /\ pc = "key" /\ pc' \in {"hook", "draw"} /\ (pc' = "hook" => TextChanges)
        /\ last' = "move" /\ Watch(TRUE)
        /\ UNCHANGED <<entry, menu, hidden, drawnAt, asked, cursorMoved, onScreen>>
    BY DEF TabWrites, Ran, Watch
  <1>2. CASE \E delta \in {1, -1} :
               \/ Live /\ Advance(moving, Undone(undo), UndonePlace(undo, line), delta)
               \/ ShowingMenu /\ Advance(Started, undo, line, delta)
    <2>1. PICK delta \in {1, -1} :
               \/ Live /\ Advance(moving, Undone(undo), UndonePlace(undo, line), delta)
               \/ ShowingMenu /\ Advance(Started, undo, line, delta)
      BY <1>2
    <2>2. /\ line' \in EditPlaces /\ undo' \in Seq(Entry) /\ Ids(undo')
          /\ moving' \in Move /\ MovingHolds' /\ hid = None
      BY <1>1, <2>1, AdvanceKeeps
    <2> QED BY <1>1, <2>2, LineTyped, KeyKeeps
  <1>3. CASE /\ ShowingMenu /\ Len(menu.rows) = 1
             /\ line' = Written(menu, line, menu.rows[1])
             /\ Changes(undo, line, menu.rows[1].end)
             /\ moving' = None
    <2>1. menu.rows \in Seq(Row) /\ menu.on = line
      BY <1>3, LineTyped, OffersTyped, StartedFromMenu DEF Started, ShowingMenu
    <2>2. menu.rows[1] \in Row
      BY <1>3, <2>1
    <2>3. line' \in EditPlaces /\ menu.rows[1].end \in Spots
      BY <1>3, <2>1, <2>2 DEF Written, Row, EditPlaces
    <2>4. undo' \in Seq(Entry) /\ Ids(undo')
      BY <1>3, <2>3, LineTyped, ChangesKeep
    <2>5. MovingHolds' /\ ~Live'
      BY <1>3 DEF MovingHolds, Live
    <2> QED BY <1>1, <1>3, <2>3, <2>4, <2>5, LineTyped, KeyKeeps
  <1> QED BY <1>2, <1>3 DEF TabWrites

\* C-g: what was typed is back, and the menu hidden.
LEMMA MenuHideKeeps == IInv /\ MenuHide => IInv'
  <1> SUFFICES ASSUME IInv, MenuHide PROVE IInv'
    OBVIOUS
  <1>1. /\ pc = "key" /\ pc' \in {"hook", "draw"} /\ (pc' = "hook" => TextChanges)
        /\ last' \in {"none", "hide"} /\ moving' = None
        /\ UNCHANGED <<entry, drawnAt, asked, cursorMoved, onScreen>>
        /\ wandered' = (~TextChanges /\ wandered)
        /\ hid' = IF Live \/ ShowingMenu THEN hidden' ELSE hid
    BY DEF MenuHide, Hide, Ran
  <1>2. MovingHolds' /\ ~Live'
    BY <1>1 DEF MovingHolds, Live
  <1>3. line' \in EditPlaces /\ undo' \in Seq(Entry) /\ Ids(undo')
    <2>1. CASE Live /\ Cancel
      <3>1. undo' \in Seq(Entry) /\ Ids(undo')
        BY <2>1, LineTyped, UndoneKeeps DEF Cancel
      <3>2. UndonePlace(undo, line) \in EditPlaces /\ UndonePlace(undo, line).text = moving.on.text
        BY <2>1, LineTyped, LiveUndoes, UndonePlaceTyped
      <3>3. line' \in EditPlaces
        BY <2>1, <3>2, LiveUndoes DEF Cancel, EditPlaces
      <3> QED BY <3>1, <3>3
    <2>2. CASE UNCHANGED <<line, undo>>
      BY <2>2, LineTyped
    <2> QED BY <2>1, <2>2 DEF MenuHide, Hide
  <1>4. /\ menu' \in {menu, None} /\ hidden' \in Texts \cup {None}
        /\ (Live \/ ShowingMenu) => menu' = None /\ hidden' = line'.text /\ hidden' \in Texts
        /\ ~(Live \/ ShowingMenu) => UNCHANGED <<line, undo, hidden, menu>>
    <2>1. CASE Live /\ Cancel
      <3>1. UndonePlace(undo, line) \in EditPlaces /\ UndonePlace(undo, line).text = moving.on.text
        BY <2>1, LineTyped, LiveUndoes, UndonePlaceTyped
      <3> QED BY <2>1, <3>1, LiveUndoes DEF Cancel, EditPlaces
    <2>2. CASE ~Live
      BY <2>2, LineTyped DEF MenuHide, Hide, IInv, TypeOK, EditPlaces
    <2> QED BY <2>1, <2>2 DEF MenuHide, Hide
  <1>5. TypeOK'
    <2>1. hid' \in Texts \cup {None} /\ wandered' \in BOOLEAN
      BY <1>1, <1>4 DEF IInv, TypeOK, TextChanges
    <2> QED BY <1>1, <1>3, <1>4, <2>1 DEF IInv, TypeOK, EditPlaces
  <1>6. MenuHolds'
    BY <1>1, <1>4 DEF IInv, MenuHolds
  <1>7. HidHolds'
    BY <1>1, <1>2, <1>4 DEF IInv, HidHolds
  <1>8. WanderedHolds'
    <2> SUFFICES ASSUME wandered'
                 PROVE  /\ pc' # "hook" /\ Strays(cursorMoved)'
                        /\ ~MenuOnMove => ~ShowingMenu'
      BY DEF WanderedHolds
    <2>1. line'.text = line.text /\ wandered
      BY <1>1 DEF TextChanges
    <2>2. drawnAt = line
      BY <1>1 DEF IInv, DrawnHolds
    <2>3. Strays(cursorMoved)'
      BY <1>1, <2>1, <2>2 DEF IInv, WanderedHolds, Strays
    <2>4. ~MenuOnMove => ~ShowingMenu'
      BY <1>4, <2>1 DEF IInv, WanderedHolds, ShowingMenu
    <2> QED BY <1>1, <2>1, <2>3, <2>4 DEF TextChanges
  <1>9. DrawnHolds'
    BY <1>1 DEF DrawnHolds
  <1> QED BY <1>2, <1>3, <1>5, <1>6, <1>7, <1>8, <1>9 DEF IInv

\* A new line: nothing of the last is moved through.
LEMMA NewLineKeeps == 
  ASSUME NEW command \in {"none", "enter"}, NewLine(command)
  PROVE  IInv'
  <1>1. [text |-> Empty, at |-> End] \in EditPlaces
    BY MovingConstantsOK DEF EditPlaces
  <1>2. line' \in EditPlaces /\ undo' \in Seq(Entry) /\ Ids(undo')
    <2>1. CASE line' = [text |-> Empty, at |-> End] /\ undo' = <<>>
      BY <1>1, <2>1 DEF Ids
    <2>2. CASE /\ line' \in [text : Texts, at : Spots]
               /\ Changes(<<>>, [text |-> Empty, at |-> End], End)
      <3>1. <<>> \in Seq(Entry) /\ Ids(<<>>)
        BY DEF Ids
      <3>2. line' \in EditPlaces /\ End \in Spots
        BY <2>2, MovingConstantsOK DEF EditPlaces
      <3> DEFINE blank == [text |-> Empty, at |-> End]
      <3>3. blank \in EditPlaces /\ Changes(<<>>, blank, End)
        BY <1>1, <2>2
      <3> HIDE DEF blank
      <3> QED BY <3>1, <3>2, <3>3, ChangesKeep
    <2> QED BY <2>1, <2>2 DEF NewLine
  <1>3. TypeOK'
    BY <1>2 DEF NewLine, TypeOK, EditPlaces
  <1> QED
    BY <1>2, <1>3 DEF NewLine, IInv, MovingHolds, MenuHolds, HidHolds, WanderedHolds, DrawnHolds

\* Enter keeps the row, or ends the line.
LEMMA EnterKeeps == IInv /\ Enter => IInv'
  <1> SUFFICES ASSUME IInv, Enter PROVE IInv'
    OBVIOUS
  <1>1. CASE NewLine("enter")
    BY <1>1, NewLineKeeps
  <1>2. CASE /\ \/ UNCHANGED <<line, undo, entry>> /\ Ran("enter")
                \/ Edits("enter")
             /\ moving' = None /\ Watch(FALSE)
             /\ UNCHANGED <<menu, hidden, drawnAt, asked, cursorMoved>>
    <2>1. /\ line' \in EditPlaces /\ undo' \in Seq(Entry) /\ Ids(undo')
          /\ entry' \in Recallable \cup {None}
      BY <1>2, LineTyped, EditsTyped
    <2>2. /\ pc = "key" /\ pc' \in {"hook", "draw"} /\ (pc' = "hook" => TextChanges)
          /\ last' = "enter"
      BY <1>2 DEF Enter, Edits, Ran
    <2>3. MovingHolds' /\ ~Live'
      BY <1>2 DEF MovingHolds, Live
    <2> QED BY <1>2, <2>1, <2>2, <2>3, KeyKeeps
  <1> QED BY <1>1, <1>2 DEF Enter

\* Shift-Tab with no menu: the key's own command.
LEMMA ShiftTabFallsKeeps == IInv /\ ShiftTabFalls => IInv'
  <1> SUFFICES ASSUME IInv, ShiftTabFalls PROVE IInv'
    OBVIOUS
  <1>1. /\ pc = "key" /\ pc' \in {"hook", "draw"} /\ (pc' = "hook" => TextChanges)
        /\ last' = "move" /\ Watch(FALSE) /\ moving' = None
        /\ UNCHANGED <<menu, hidden, drawnAt, asked, cursorMoved>>
    BY DEF ShiftTabFalls, Edits, Ran
  <1>2. /\ line' \in EditPlaces /\ undo' \in Seq(Entry) /\ Ids(undo')
        /\ entry' \in Recallable \cup {None}
    BY EditsTyped, GoesTyped DEF ShiftTabFalls
  <1>3. MovingHolds' /\ ~Live'
    BY <1>1 DEF MovingHolds, Live
  <1> QED BY <1>1, <1>2, <1>3, KeyKeeps

\* Any other command.
LEMMA OtherKeyKeeps == IInv /\ OtherKey => IInv'
  <1> SUFFICES ASSUME IInv, OtherKey PROVE IInv'
    OBVIOUS
  <1>1. /\ pc = "key" /\ pc' \in {"hook", "draw"} /\ (pc' = "hook" => TextChanges)
        /\ last' = "other" /\ Watch(FALSE)
        /\ UNCHANGED <<menu, moving, hidden, drawnAt, asked, cursorMoved, onScreen>>
    BY DEF OtherKey, Edits, Ran, Watch, state
  <1>2. /\ line' \in EditPlaces /\ undo' \in Seq(Entry) /\ Ids(undo')
        /\ entry' \in Recallable \cup {None}
    <2>1. CASE undo # <<>> /\ line' = UndonePlace(undo, line) /\ undo' = Undone(undo) /\ UNCHANGED entry
      BY <2>1, LineTyped, UndoneKeeps, UndonePlaceTyped
    <2> QED BY <2>1, EditsTyped, GoesTyped DEF OtherKey
  <1>3. MovingHolds' /\ moving' \in Move \cup {None} /\ ~Live'
    BY <1>1, MovingStays DEF Live
  <1> QED BY <1>1, <1>2, <1>3, KeyKeeps

-----------------------------------------------------------------------------
(* Drawing. *)

\* What a draw notes of the line.
LEMMA DrawNotes ==
  ASSUME IInv, NEW m, NEW h \in Texts \cup {None},
         NEW a \in Places \cup {None}, NEW c \in BOOLEAN, NEW byReadline \in BOOLEAN,
         Draws(m, h, a, c, byReadline)
  PROVE  /\ hidden' = (IF h # None /\ h = line.text THEN h ELSE None)
         /\ asked' \in Places \cup {None}
         /\ cursorMoved' = Strays(c) /\ drawnAt' = line
  BY DEF Draws

\* What a draw leaves of the menu.
LEMMA DrawLeavesMenu ==
  ASSUME IInv, NEW m, m = None \/ (m = moving /\ Live), NEW h \in Texts \cup {None},
         NEW a \in Places \cup {None}, NEW c \in BOOLEAN, NEW byReadline \in BOOLEAN,
         Draws(m, h, a, c, byReadline)
  PROVE  /\ \/ menu' = None
            \/ /\ menu' \in Menu /\ menu'.on = line /\ menu'.rows \in Offers[line]
               /\ menu'.shown => /\ menu'.rows # <<>> /\ MenuLines > 0 /\ onScreen' = menu'.rows
                                 /\ MenuOnMove \/ ~Strays(c)
                                 /\ h # None => h # line.text
         /\ onScreen' \in Menus \cup {<<>>}
  <1>1. PICK room \in BOOLEAN, waiting \in BOOLEAN, rows \in Offers[line] :
          LET stillHidden == h # None /\ h = line.text
              stillAsked == a # None /\ a = line
              showMenu == MenuOnMove \/ ~Strays(c)
              gather == /\ m = None /\ ~stillHidden /\ (showMenu \/ line.at = End)
                        /\ ~Recalled \/ stillAsked
              gathered == IF gather THEN MenuFor(rows, waiting) ELSE None
              drawn == IF m # None THEN m.rows
                       ELSE IF gathered # None THEN gathered.rows ELSE <<>>
              fits == showMenu /\ room /\ MenuLines > 0 /\ drawn # <<>>
              repainted == ~byReadline /\ line.text # Empty IN
          /\ hidden' = (IF stillHidden THEN h ELSE None)
          /\ asked' = (IF stillAsked THEN a ELSE None)
          /\ cursorMoved' = Strays(c)
          /\ drawnAt' = line
          /\ moving' = (IF m # None THEN [m EXCEPT !.shown = repainted /\ fits] ELSE None)
          /\ menu' = (IF ~repainted \/ m # None THEN Kept
                     ELSE IF gathered # None THEN [gathered EXCEPT !.shown = fits] ELSE None)
          /\ onScreen' = (IF repainted /\ fits THEN drawn ELSE <<>>)
    BY DEF Draws
  <1> DEFINE stillHidden == h # None /\ h = line.text
             stillAsked == a # None /\ a = line
             showMenu == MenuOnMove \/ ~Strays(c)
             gather == /\ m = None /\ ~stillHidden /\ (showMenu \/ line.at = End)
                       /\ ~Recalled \/ stillAsked
             gathered == IF gather THEN MenuFor(rows, waiting) ELSE None
             drawn == IF m # None THEN m.rows
                      ELSE IF gathered # None THEN gathered.rows ELSE <<>>
             fits == showMenu /\ room /\ MenuLines > 0 /\ drawn # <<>>
             repainted == ~byReadline /\ line.text # Empty
  <1>2. Kept = None \/ (/\ Kept \in Menu /\ Kept.on = line /\ Kept.rows \in Offers[line]
                        /\ Kept.shown = FALSE)
    BY DEF IInv, TypeOK, MenuHolds, Kept, Menu
  <1>3. gather /\ gathered # None =>
          gathered \in Menu /\ gathered.on = line /\ gathered.rows \in Offers[line]
    <2>1. [on |-> line, rows |-> rows, shown |-> FALSE, waiting |-> waiting] \in Menu
      BY LineTyped, OffersTyped DEF Menu
    <2>2. MenuFor(rows, waiting) \in
            {Kept, [on |-> line, rows |-> rows, shown |-> FALSE, waiting |-> waiting]}
      BY DEF MenuFor
    <2>3. gather => gathered = MenuFor(rows, waiting)
      OBVIOUS
    <2> HIDE DEF gather, gathered
    <2>4. SUFFICES ASSUME gather, gathered # None
                   PROVE  gathered \in Menu /\ gathered.on = line /\ gathered.rows \in Offers[line]
      OBVIOUS
    <2>5. CASE gathered = Kept
      BY <1>2, <2>4, <2>5
    <2>6. CASE gathered = [on |-> line, rows |-> rows, shown |-> FALSE, waiting |-> waiting]
      BY <2>1, <2>6
    <2> QED BY <2>2, <2>3, <2>4, <2>5, <2>6
  <1>4. repainted \in BOOLEAN /\ fits \in BOOLEAN /\ (~gather => gathered = None)
    BY MovingConstantsOK DEF Strays
  <1>5. onScreen' \in Menus \cup {<<>>}
    <2>1. drawn \in Menus \cup {<<>>}
      BY <1>3, <1>4, LineTyped, LiveUndoes DEF Menu, Move
    <2> HIDE DEF drawn, fits, repainted
    <2>2. onScreen' = (IF repainted /\ fits THEN drawn ELSE <<>>)
      BY <1>1 DEF drawn, fits, repainted
    <2> QED BY <2>1, <2>2
  <1>6. \/ menu' = None
        \/ /\ menu' \in Menu /\ menu'.on = line /\ menu'.rows \in Offers[line]
           /\ menu'.shown => /\ menu'.rows # <<>> /\ MenuLines > 0 /\ onScreen' = menu'.rows
                             /\ MenuOnMove \/ ~Strays(c)
                             /\ h # None => h # line.text
    <2>1. CASE ~repainted \/ m # None
      BY <1>1, <1>2, <2>1
    <2>2. CASE repainted /\ m = None /\ gathered = None
      BY <1>1, <2>2
    <2>3. CASE repainted /\ m = None /\ gathered # None
      <3>1. menu' = [gathered EXCEPT !.shown = fits] /\ onScreen' = (IF fits THEN drawn ELSE <<>>)
        BY <1>1, <2>3
      <3>2. gather /\ drawn = gathered.rows
        BY <1>4, <2>3
      <3>3. menu' \in Menu /\ menu'.on = line /\ menu'.rows = gathered.rows /\ menu'.shown = fits
            /\ gathered.rows \in Offers[line]
        <4> HIDE DEF gathered, fits, gather
        <4> QED BY <1>3, <1>4, <2>3, <3>1, <3>2 DEF Menu
      <3>4. fits => showMenu /\ MenuLines > 0 /\ drawn # <<>>
        OBVIOUS
      <3>5. ~stillHidden
        BY <3>2
      <3> HIDE DEF gathered, fits, gather, drawn
      <3> QED BY <3>1, <3>2, <3>3, <3>4, <3>5
    <2> QED BY <2>1, <2>2, <2>3
  <1> QED BY <1>5, <1>6

\* What a draw leaves of the moving state.
LEMMA DrawLeavesMove ==
  ASSUME IInv, NEW m, m = None \/ (m = moving /\ Live), NEW h \in Texts \cup {None},
         NEW a \in Places \cup {None}, NEW c \in BOOLEAN, NEW byReadline \in BOOLEAN,
         Draws(m, h, a, c, byReadline)
  PROVE  \/ moving' = None
         \/ /\ m # None /\ moving' = [moving EXCEPT !.shown = moving'.shown] /\ moving' \in Move
            /\ moving'.shown => MenuLines > 0 /\ onScreen' = moving.rows
  <1>1. CASE m = None
    BY <1>1 DEF Draws
  <1>2. CASE m # None
    <2>1. m = moving /\ moving \in Move
      BY <1>2, LiveUndoes
    <2>2. PICK shown \in BOOLEAN :
            /\ moving' = [moving EXCEPT !.shown = shown]
            /\ shown = TRUE => MenuLines > 0 /\ onScreen' = moving.rows
      <3>1. PICK room \in BOOLEAN :
              LET fits == /\ MenuOnMove \/ ~Strays(c)
                          /\ room /\ MenuLines > 0 /\ moving.rows # <<>>
                  repainted == ~byReadline /\ line.text # Empty IN
              /\ moving' = [moving EXCEPT !.shown = repainted /\ fits]
              /\ onScreen' = (IF repainted /\ fits THEN moving.rows ELSE <<>>)
        BY <1>2, <2>1 DEF Draws
      <3> QED BY <3>1
    <2>3. moving'.shown = shown /\ moving' \in Move
      BY <2>1, <2>2 DEF Move
    <2>4. moving' = [moving EXCEPT !.shown = moving'.shown]
      BY <2>2, <2>3
    <2>5. moving'.shown => MenuLines > 0 /\ onScreen' = moving.rows
      BY <2>2, <2>3
    <2> QED BY <1>2, <2>3, <2>4, <2>5
  <1> QED BY <1>1, <1>2

\* Redisplay and Redraw: a draw of the line as it is, which keeps a live moving
\* state, and readline goes on waiting for a key.
DrawsTheLine ==
    /\ \E byReadline \in BOOLEAN :
         Draws(IF Live THEN moving ELSE None, hidden, asked, cursorMoved, byReadline)
    /\ pc' = "key"
    /\ UNCHANGED <<readline, hid, wandered>>

\* A draw that keeps the moving state keeps what it holds.
LEMMA DrawKeepsMove ==
  ASSUME IInv, DrawsTheLine
  PROVE  \/ moving' = None
         \/ /\ Live /\ moving' = [moving EXCEPT !.shown = moving'.shown] /\ moving' \in Move
            /\ moving'.shown => MenuLines > 0 /\ onScreen' = moving.rows
  <1>1. PICK byReadline \in BOOLEAN :
          Draws(IF Live THEN moving ELSE None, hidden, asked, cursorMoved, byReadline)
    BY DEF DrawsTheLine
  <1>2. hidden \in Texts \cup {None} /\ cursorMoved \in BOOLEAN /\ asked \in Places \cup {None}
    BY DEF IInv, TypeOK
  <1>3. CASE Live
    BY <1>1, <1>2, <1>3, DrawLeavesMove
  <1>4. CASE ~Live
    BY <1>1, <1>2, <1>4, DrawLeavesMove
  <1> QED BY <1>3, <1>4

\* A draw: a menu of the line, that of the moving state, or none.
LEMMA DrawKeeps == IInv /\ DrawsTheLine => IInv'
  <1> SUFFICES ASSUME IInv, DrawsTheLine PROVE IInv'
    OBVIOUS
  <1> DEFINE m == IF Live THEN moving ELSE None
  <1>1. PICK byReadline \in BOOLEAN : Draws(m, hidden, asked, cursorMoved, byReadline)
    BY DEF DrawsTheLine
  <1>2. /\ hidden \in Texts \cup {None} /\ cursorMoved \in BOOLEAN /\ asked \in Places \cup {None}
        /\ UNCHANGED <<line, undo, entry, last, hid, wandered>> /\ pc' = "key"
    BY DEF IInv, TypeOK, DrawsTheLine, readline
  <1>13. /\ hidden \in Texts \cup {None} /\ cursorMoved \in BOOLEAN /\ asked \in Places \cup {None}
         /\ m = None \/ (m = moving /\ Live)
    BY DEF IInv, TypeOK
  <1> HIDE DEF m
  <1>3. /\ hidden' = (IF hidden # None /\ hidden = line.text THEN hidden ELSE None)
        /\ asked' \in Places \cup {None} /\ cursorMoved' = Strays(cursorMoved) /\ drawnAt' = line
        /\ \/ menu' = None
           \/ /\ menu' \in Menu /\ menu'.on = line /\ menu'.rows \in Offers[line]
              /\ menu'.shown => /\ menu'.rows # <<>> /\ MenuLines > 0 /\ onScreen' = menu'.rows
                                /\ MenuOnMove \/ ~Strays(cursorMoved)
                                /\ hidden # None => hidden # line.text
        /\ onScreen' \in Menus \cup {<<>>}
    <2>1. /\ hidden' = (IF hidden # None /\ hidden = line.text THEN hidden ELSE None)
          /\ asked' \in Places \cup {None} /\ cursorMoved' = Strays(cursorMoved)
          /\ drawnAt' = line
      BY <1>1, <1>13, DrawNotes
    <2>2. /\ \/ menu' = None
             \/ /\ menu' \in Menu /\ menu'.on = line /\ menu'.rows \in Offers[line]
                /\ menu'.shown => /\ menu'.rows # <<>> /\ MenuLines > 0 /\ onScreen' = menu'.rows
                                  /\ MenuOnMove \/ ~Strays(cursorMoved)
                                  /\ hidden # None => hidden # line.text
          /\ onScreen' \in Menus \cup {<<>>}
      BY <1>1, <1>13, DrawLeavesMenu
    <2> QED BY <2>1, <2>2
  <1>4. \/ moving' = None
        \/ /\ Live /\ moving' = [moving EXCEPT !.shown = moving'.shown] /\ moving' \in Move
           /\ moving'.shown => MenuLines > 0 /\ onScreen' = moving.rows
    BY DrawKeepsMove
  <1>5. Strays(cursorMoved) \in BOOLEAN
    BY <1>2 DEF Strays
  <1>6. TypeOK'
    BY <1>2, <1>3, <1>4, <1>5, LineTyped DEF IInv, TypeOK
  <1>7. MovingHolds'
    <2>1. CASE moving' = None
      BY <2>1 DEF MovingHolds
    <2>2. CASE /\ Live /\ moving' = [moving EXCEPT !.shown = moving'.shown] /\ moving' \in Move
               /\ moving'.shown => MenuLines > 0 /\ onScreen' = moving.rows
      <3>1. moving \in Move /\ moving # None /\ moving.shown
        BY <2>2, LiveUndoes DEF Live
      <3>2. /\ moving'.on = moving.on /\ moving'.rows = moving.rows
            /\ moving'.picked = moving.picked /\ moving'.written = moving.written
            /\ moving'.undoHead = moving.undoHead
        BY <2>2, <3>1 DEF Move
      <3>3. PlaceOf(moving.rows[moving.picked])' = PlaceOf(moving.rows[moving.picked])
        BY <3>2 DEF PlaceOf
      <3>4. /\ moving.on \in EditPlaces /\ moving.rows \in Offers[moving.on]
            /\ moving.picked \in DOMAIN moving.rows
            /\ moving.written = PlaceOf(moving.rows[moving.picked])
            /\ last = "move" =>
                 \E i \in DOMAIN undo : undo[i].id = moving.undoHead /\ undo[i].text = moving.on.text
        BY <3>1 DEF IInv, MovingHolds
      <3>5. moving'.shown => MenuLines > 0 /\ onScreen' = moving'.rows
        BY <2>2, <3>2
      <3>6. moving'.shown /\ moving' # None => Live'
        BY <1>2, <2>2, <3>2 DEF Live, UndoHead
      <3> QED BY <1>2, <3>2, <3>3, <3>4, <3>5, <3>6 DEF MovingHolds, PlaceOf
    <2> QED BY <1>4, <2>1, <2>2
  <1>8. MenuHolds'
    BY <1>2, <1>3, LineTyped DEF MenuHolds
  <1>9. HidHolds'
    <2> SUFFICES ASSUME hid' # None PROVE HidHolds'
      BY DEF HidHolds
    <2>1. hid = line.text /\ hidden = hid /\ ~Live
      BY <1>2 DEF IInv, HidHolds
    <2>2. moving' = None /\ ~Live'
      BY <1>4, <2>1 DEF Live
    <2> QED BY <1>2, <1>3, <2>1, <2>2 DEF HidHolds
  <1>10. WanderedHolds'
    <2> SUFFICES ASSUME wandered'
                 PROVE  /\ pc' # "hook" /\ Strays(cursorMoved)'
                        /\ ~MenuOnMove => ~ShowingMenu'
      BY DEF WanderedHolds
    <2>1. Strays(cursorMoved)
      BY <1>2 DEF IInv, WanderedHolds
    <2>2. line \in Places /\ line # None
      BY LineTyped, MovingConstantsOK
    <2>3. Strays(cursorMoved)'
      BY <1>2, <1>3, <2>1, <2>2 DEF Strays
    <2>4. ~MenuOnMove => ~ShowingMenu'
      BY <1>3, <2>1 DEF ShowingMenu
    <2> QED BY <1>2, <2>3, <2>4
  <1>11. DrawnHolds'
    BY <1>2, <1>3 DEF DrawnHolds
  <1>12. Ids(undo)'
    BY <1>2, LineTyped DEF Ids
  <1> QED BY <1>6, <1>7, <1>8, <1>9, <1>10, <1>11, <1>12 DEF IInv

\* Tab that shows the menu again.
LEMMA TabShowsKeeps == IInv /\ TabShows => IInv'
  <1> SUFFICES ASSUME IInv, TabShows PROVE IInv'
    OBVIOUS
  <1>1. PICK byReadline \in BOOLEAN, c \in BOOLEAN :
          /\ c = FALSE /\ Draws(None, None, line, c, byReadline)
          /\ \/ UNCHANGED <<line, undo>>
             \/ /\ line' \in [text : Texts, at : Spots]
                /\ Changes(undo, line, line.at)
    BY DEF TabShows
  <1>2. /\ pc' \in {"hook", "draw"} /\ last' = "move" /\ hid' = None /\ wandered' = FALSE
        /\ entry' = entry
    BY DEF TabShows, Ran
  <1>3. line' \in EditPlaces /\ undo' \in Seq(Entry) /\ Ids(undo')
    <2>1. CASE UNCHANGED <<line, undo>>
      BY <2>1, LineTyped
    <2>2. CASE line' \in [text : Texts, at : Spots] /\ Changes(undo, line, line.at)
      BY <2>2, LineTyped, ChangesKeep DEF EditPlaces
    <2> QED BY <1>1, <2>1, <2>2
  <1>4. /\ hidden' = None /\ asked' \in Places \cup {None} /\ cursorMoved' = Strays(c)
        /\ drawnAt' = line
        /\ \/ menu' = None
           \/ /\ menu' \in Menu /\ menu'.on = line /\ menu'.rows \in Offers[line]
              /\ menu'.shown => menu'.rows # <<>> /\ MenuLines > 0 /\ onScreen' = menu'.rows
        /\ onScreen' \in Menus \cup {<<>>}
    <2>1. /\ hidden' = None /\ asked' \in Places \cup {None} /\ cursorMoved' = Strays(c)
          /\ drawnAt' = line
      BY <1>1, LineTyped, DrawNotes
    <2>2. /\ \/ menu' = None
             \/ /\ menu' \in Menu /\ menu'.on = line /\ menu'.rows \in Offers[line]
                /\ menu'.shown => menu'.rows # <<>> /\ MenuLines > 0 /\ onScreen' = menu'.rows
          /\ onScreen' \in Menus \cup {<<>>}
      BY <1>1, LineTyped, DrawLeavesMenu
    <2> QED BY <2>1, <2>2
  <1>5. moving' = None
    BY <1>1, LineTyped, DrawLeavesMove
  <1>6. Strays(c) \in BOOLEAN
    BY DEF Strays
  <1>7. TypeOK'
    BY <1>2, <1>3, <1>4, <1>5, <1>6, LineTyped DEF TypeOK, EditPlaces
  <1>8. MovingHolds' /\ HidHolds' /\ WanderedHolds' /\ DrawnHolds'
    BY <1>2, <1>5 DEF MovingHolds, HidHolds, WanderedHolds, DrawnHolds
  <1>9. MenuHolds'
    BY <1>2, <1>4, LineTyped DEF MenuHolds
  <1> QED BY <1>3, <1>7, <1>8, <1>9 DEF IInv

\* What the hook changes is another entry of the undo list, so moving has ended.
LEMMA HookEndsMove ==
  ASSUME IInv, Changes(undo, line, line.at), moving' = moving, last' = last
  PROVE  ~Live'
  <1>1. UndoHead(undo') \notin InList(undo)
    BY LineTyped, ChangesKeep
  <1>2. SUFFICES ASSUME moving # None, moving.shown, last = "move", UndoHead(undo') = moving.undoHead
                 PROVE  FALSE
    BY DEF Live
  <1>3. PICK i \in DOMAIN undo : undo[i].id = moving.undoHead
    BY <1>2 DEF IInv, MovingHolds
  <1> QED BY <1>1, <1>2, <1>3 DEF InList

\* The after-change functions: a change of theirs is the head.
LEMMA HookKeeps == IInv /\ Hook => IInv'
  <1> SUFFICES ASSUME IInv, Hook PROVE IInv'
    OBVIOUS
  <1>1. /\ pc = "hook" /\ pc' = "draw" /\ hid' = (IF TextChanges THEN None ELSE hid)
        /\ UNCHANGED <<entry, last, menu, moving, hidden, drawnAt, asked, cursorMoved>>
        /\ UNCHANGED <<onScreen, wandered>>
    BY DEF Hook, state
  <1>2. ~wandered
    BY <1>1 DEF IInv, WanderedHolds
  <1>3. CASE UNCHANGED <<line, undo>>
    <2>1. TypeOK' /\ Ids(undo)'
      BY <1>1, <1>3, LineTyped DEF IInv, TypeOK, Ids, TextChanges
    <2>2. MovingHolds'
      BY <1>1, <1>3 DEF IInv, MovingHolds, PlaceOf
    <2>3. MenuHolds' /\ WanderedHolds' /\ DrawnHolds'
      BY <1>1, <1>2 DEF IInv, MenuHolds, WanderedHolds, DrawnHolds
    <2>4. HidHolds'
      BY <1>1, <1>3 DEF IInv, HidHolds, TextChanges, Live, UndoHead
    <2> QED BY <2>1, <2>2, <2>3, <2>4 DEF IInv
  <1>4. CASE line' \in [text : Texts, at : Spots] /\ Changes(undo, line, line.at)
    <2>1. /\ undo' \in Seq(Entry) /\ Ids(undo')
          /\ \A i \in DOMAIN undo : i \in DOMAIN undo' /\ undo'[i] = undo[i]
      BY <1>4, LineTyped, ChangesKeep
    <2>2. TypeOK' /\ Ids(undo)'
      BY <1>1, <1>4, <2>1 DEF IInv, TypeOK
    <2>3. MovingHolds'
      BY <1>1, <2>1 DEF IInv, MovingHolds, PlaceOf
    <2>4. MenuHolds' /\ WanderedHolds' /\ DrawnHolds'
      BY <1>1, <1>2 DEF IInv, MenuHolds, WanderedHolds, DrawnHolds
    <2>5. HidHolds'
      BY <1>1, <1>4, HookEndsMove DEF IInv, HidHolds, TextChanges
    <2> QED BY <2>2, <2>3, <2>4, <2>5 DEF IInv
  <1> QED BY <1>3, <1>4 DEF Hook

-----------------------------------------------------------------------------
(* The invariant, and what follows. *)

\* What holds at first.
LEMMA InitHolds == Init => IInv
  <1> SUFFICES ASSUME Init PROVE IInv
    OBVIOUS
  <1>1. TypeOK
    <2>1. line \in [text : Texts, at : Spots] /\ undo \in Seq(Entry)
      BY MovingConstantsOK DEF Init
    <2>2. onScreen \in Menus \cup {<<>>}
      BY DEF Init
    <2> QED BY <2>1, <2>2 DEF Init, TypeOK
  <1>2. Ids(undo)
    BY DEF Init, Ids
  <1>3. MovingHolds /\ MenuHolds /\ HidHolds /\ WanderedHolds /\ DrawnHolds
    BY DEF Init, MovingHolds, MenuHolds, HidHolds, WanderedHolds, DrawnHolds
  <1> QED BY <1>1, <1>2, <1>3 DEF IInv

\* Each step keeps the invariant.
LEMMA StepHolds == IInv /\ [Next]_vars => IInv'
  <1> SUFFICES ASSUME IInv, [Next]_vars PROVE IInv'
    OBVIOUS
  <1>1. CASE Redisplay
    BY <1>1, DrawKeeps DEF Redisplay, DrawsTheLine
  <1>2. CASE Redraw
    BY <1>2, DrawKeeps DEF Redraw, DrawsTheLine
  <1>3. CASE Hook
    BY <1>3, HookKeeps
  <1>4. CASE MenuStep
    BY <1>4, MenuStepKeeps
  <1>5. CASE TabWrites
    BY <1>5, TabWritesKeeps
  <1>6. CASE TabShows
    BY <1>6, TabShowsKeeps
  <1>7. CASE MenuHide
    BY <1>7, MenuHideKeeps
  <1>8. CASE Enter
    BY <1>8, EnterKeeps
  <1>9. CASE OtherKey
    BY <1>9, OtherKeyKeeps
  <1>10. CASE Interrupt
    BY <1>10, NewLineKeeps DEF Interrupt
  <1>11. CASE ShiftTabFalls
    BY <1>11, ShiftTabFallsKeeps
  <1>12. CASE UNCHANGED vars
    BY <1>12 DEF vars, readline, state, watched, IInv, TypeOK, Ids, MovingHolds, MenuHolds,
                 HidHolds, WanderedHolds, DrawnHolds, Live, ShowingMenu, Strays, UndoHead, PlaceOf
  <1> QED
    BY <1>1, <1>2, <1>3, <1>4, <1>5, <1>6, <1>7, <1>8, <1>9, <1>10, <1>11, <1>12 DEF Next

\* The invariant holds: moving.rs keeps its state, readline's undo list and the
\* draws of hooks.rs in step.
THEOREM InvHolds == Spec => []IInv
  BY InitHolds, StepHolds, PTL DEF Spec

\* The types hold, and with them that no row is written into another line than
\* the one its menu was made for (moving.rs, resume and advance).
THEOREM TypeCorrect == Spec => []TypeOK
  <1>1. IInv => TypeOK
    BY DEF IInv
  <1> QED BY <1>1, InvHolds, PTL

\* The row written is one of those that menu.rs's window puts on screen, within
\* the lines given.
THEOREM PickIsShown == Spec => []PickedRowShows
  <1>1. IInv => PickedRowShows
    <2> SUFFICES ASSUME IInv, Live
                 PROVE  LET w == Window(Len(moving.rows), moving.picked, MenuLines) IN
                        /\ w.first <= moving.picked /\ moving.picked < w.first + w.count
                        /\ w.count + (IF w.more > 0 /\ MenuLines > 1 THEN 1 ELSE 0) <= MenuLines
      BY DEF PickedRowShows
    <2>1. moving.rows \in Seq(Row) /\ moving.picked \in DOMAIN moving.rows
      BY LiveUndoes, EditPlacesArePlaces, OffersTyped
    <2>2. Len(moving.rows) \in Nat /\ moving.picked \in 1 .. Len(moving.rows)
      BY <2>1
    <2>3. MenuLines \in Nat \ {0}
      BY MovingConstantsOK, LiveUndoes
    <2> QED BY <2>2, <2>3, WindowHoldsThePick
  <1> QED BY <1>1, InvHolds, PTL

\* The menu that C-g hid (menu_hide, and moving.rs's cancel) stays hidden while
\* the text stays, whatever is drawn and wherever the cursor goes.
THEOREM HiddenStays == Spec => []HiddenStaysHidden
  <1>1. IInv => HiddenStaysHidden
    BY DEF IInv, HidHolds, HiddenStaysHidden, ShowingMenu
  <1> QED BY <1>1, InvHolds, PTL

\* Once the cursor has moved on a text, no draw of hooks.rs shows a menu there.
THEOREM StrayedShows == Spec => []StrayedShowsNone
  <1>1. IInv => StrayedShowsNone
    BY DEF IInv, WanderedHolds, StrayedShowsNone
  <1> QED BY <1>1, InvHolds, PTL

\* A menu hidden with C-g, or by moving the cursor off, stays away.
THEOREM StaysAway == Spec => []MenuStaysAway
  <1>1. IInv => MenuStaysAway
    BY DEF IInv, HidHolds, WanderedHolds, MenuStaysAway, HiddenStaysHidden, StrayedShowsNone, ShowingMenu
  <1> QED BY <1>1, InvHolds, PTL

\* A move writes a row of the menu on screen: hooks.rs keeps no menu as shown
\* that the last draw had no room for.
THEOREM RowsAreShown == Spec => RowsWereOnScreen
  <1> DEFINE A == pc = "key" /\ Live' /\ line' # line =>
                    \E i \in DOMAIN onScreen : line' = PlaceOf(onScreen[i])
  <1>1. IInv /\ IInv' /\ [Next]_vars => [A]_vars
    <2> SUFFICES ASSUME IInv, IInv', Next, pc = "key", Live', line' # line
                 PROVE  \E i \in DOMAIN onScreen : line' = PlaceOf(onScreen[i])
      OBVIOUS
    <2>1. /\ moving' # None /\ last' = "move"
          /\ moving'.picked \in DOMAIN moving'.rows /\ moving'.shown
          /\ line' = PlaceOf(moving'.rows[moving'.picked]) /\ onScreen' = moving'.rows
      BY DEF IInv, MovingHolds, Live, PlaceOf
    <2>2. CASE onScreen' = onScreen
      BY <2>1, <2>2
    <2>3. CASE onScreen' # onScreen
      <3>1. TabShows \/ Enter \/ Interrupt
        BY <2>3 DEF Next, Redisplay, Redraw, readline, Hook, MenuStep, TabWrites, MenuHide,
                    ShiftTabFalls, OtherKey, Watch
      <3>2. moving' = None
        <4>1. CASE TabShows
          <5>1. PICK byReadline \in BOOLEAN, c \in BOOLEAN :
                  c = FALSE /\ Draws(None, None, line, c, byReadline)
            BY <4>1 DEF TabShows
          <5> QED BY <5>1, LineTyped, DrawLeavesMove
        <4>2. CASE Enter \/ Interrupt
          BY <4>2 DEF Enter, Interrupt, NewLine
        <4> QED BY <3>1, <4>1, <4>2
      <3> QED BY <2>1, <3>2
    <2> QED BY <2>2, <2>3
  <1>2. [][A]_vars => RowsWereOnScreen
    BY DEF RowsWereOnScreen
  <1> QED BY <1>1, <1>2, InvHolds, PTL DEF Spec

-----------------------------------------------------------------------------
(* Moving implements Browsing. *)

\* What Browsing sees of the state.
Browse == IF Live THEN [base |-> moving.on, rows |-> PlacesOf(moving.rows), pick |-> moving.picked]
          ELSE None
BackOf(list) == IF list = <<>> THEN None ELSE list[Len(list)].text
Back == BackOf(undo)

\* The places of a menu's rows are those of the abstract menu.
LEMMA PlacesOfTyped ==
  ASSUME NEW p \in Places, NEW rows \in Offers[p]
  PROVE  /\ PlacesOf(rows) \in {PlacesOf(r) : r \in Menus} /\ PlacesOf(rows) \in Seq(Places)
         /\ DOMAIN PlacesOf(rows) = DOMAIN rows
         /\ \A n \in DOMAIN rows : PlacesOf(rows)[n] = PlaceOf(rows[n])
  <1>1. rows \in Seq(Row) /\ rows \in Menus
    BY OffersTyped
  <1>2. \A row \in Row : PlaceOf(row) \in Places
    BY DEF Row, Places, PlaceOf
  <1>3. PlacesOf(rows) \in Seq(Places)
    BY <1>1, <1>2 DEF PlacesOf
  <1> QED BY <1>1, <1>3 DEF PlacesOf

\* While moving, there is something to see.
LEMMA LiveBrowses ==
  ASSUME IInv, Live
  PROVE  Browse # None
  <1>1. /\ moving.on \in Places /\ moving.picked \in Nat
        /\ PlacesOf(moving.rows) \in Seq(Places)
    BY LiveUndoes, EditPlacesArePlaces, PlacesOfTyped DEF Move
  <1> QED BY <1>1, MovingConstantsOK DEF Browse

\* What one undo gives back is a text.
LEMMA BackTyped ==
  ASSUME NEW list \in Seq(Entry)
  PROVE  BackOf(list) \in {p.text : p \in Places} \cup {None}
  <1>1. CASE list # <<>>
    <2>1. list[Len(list)] \in Entry
      BY <1>1
    <2> DEFINE p == [text |-> list[Len(list)].text, at |-> End]
    <2>2. p \in Places /\ p.text = list[Len(list)].text
      BY <2>1, MovingConstantsOK DEF Entry, Places
    <2> QED BY <1>1, <2>2 DEF BackOf
  <1>2. CASE list = <<>>
    BY <1>2 DEF BackOf
  <1> QED BY <1>1, <1>2

\* A step after which nothing is moved through.
LEMMA EndsAsOther ==
  ASSUME IInv', ~Live', Live => last' \notin {"hide", "enter"}
  PROVE  B!Other
  <1>1. Browse' = None /\ line' \in Places
    BY EditPlacesArePlaces DEF Browse, IInv, TypeOK, EditPlaces
  <1>2. Back' \in {p.text : p \in Places} \cup {None}
    BY BackTyped DEF Back, BackOf, IInv, TypeOK
  <1>3. Browse # None => last' \notin {"hide", "enter"}
    BY DEF Browse
  <1>4. last' \in {"none", "move", "hide", "enter", "other"}
    BY DEF IInv, TypeOK
  <1> QED BY <1>1, <1>2, <1>3, <1>4 DEF B!Other, Browse, Back, BackOf

\* The state after a step that leaves what is moved through.
LEMMA StaysIdles ==
  ASSUME IInv, IInv', UNCHANGED <<line, undo>>, Live => last' \notin {"hide", "enter"},
         Live => moving'.on = moving.on /\ moving'.rows = moving.rows
                 /\ moving'.picked = moving.picked,
         Live' => Live /\ last' = "move"
  PROVE  B!Idles \/ B!Other
  <1>1. CASE Live'
    <2>1. Browse' = Browse
      BY <1>1 DEF Browse, PlacesOf, PlaceOf
    <2> QED BY <1>1, <2>1 DEF B!Idles, Browse
  <1>2. CASE ~Live'
    BY <1>2, EndsAsOther
  <1> QED BY <1>1, <1>2

\* A move, from the menu on screen or from the one moved through.
LEMMA AdvanceImplements ==
  ASSUME IInv, IInv', NEW delta \in Int \ {0}, last' \in {"move", "other"},
         \/ Live /\ Advance(moving, Undone(undo), UndonePlace(undo, line), delta)
         \/ ~Live /\ ShowingMenu /\ Advance(Started, undo, line, delta)
  PROVE  B!Next
  <1>1. CASE ~Live'
    BY <1>1, EndsAsOther DEF B!Next
  <1>2. CASE Live' /\ Live /\ Advance(moving, Undone(undo), UndonePlace(undo, line), delta)
    <2>1. UndonePlace(undo, line) \in EditPlaces /\ UndonePlace(undo, line).text = moving.on.text
      BY <1>2, LineTyped, LiveUndoes, UndonePlaceTyped
    <2>2. Undone(undo) \in Seq(Entry) /\ Ids(Undone(undo))
      BY LineTyped, UndoneKeeps
    <2>3. PICK n \in DOMAIN moving.rows :
            /\ line' = PlaceOf(moving.rows[n]) /\ undo' # <<>>
            /\ undo'[Len(undo')].text = moving.on.text
            /\ moving'.on = moving.on /\ moving'.rows = moving.rows /\ moving'.picked = n
      BY <1>2, <2>1, <2>2, LiveUndoes, AdvanceWrites
    <2> DEFINE rows == PlacesOf(moving.rows)
    <2>4. n \in DOMAIN rows /\ line' = rows[n]
      BY <1>2, <2>3, LiveUndoes, EditPlacesArePlaces, PlacesOfTyped
    <2>5. Browse = [base |-> moving.on, rows |-> rows, pick |-> moving.picked] /\ Browse # None
      BY <1>2, LiveBrowses DEF Browse
    <2>6. Browse' = [base |-> moving.on, rows |-> rows, pick |-> n]
      BY <1>2, <2>3 DEF Browse, PlacesOf, PlaceOf
    <2>7. Back' = Back
      BY <1>2, <2>3, LiveUndoes DEF Back, BackOf
    <2>8. last' = "move"
      BY <1>2 DEF Live
    <2> HIDE DEF rows
    <2>9. Browse' = [Browse EXCEPT !.pick = n] /\ Browse.rows = rows
      BY <2>5, <2>6
    <2>10. B!Moves
      BY <2>4, <2>5, <2>7, <2>8, <2>9 DEF B!Moves, Browse, Back, BackOf
    <2> QED BY <2>10 DEF B!Next
  <1>3. CASE Live' /\ ~Live /\ ShowingMenu /\ Advance(Started, undo, line, delta)
    <2>1. PICK n \in DOMAIN Started.rows :
            /\ line' = PlaceOf(Started.rows[n]) /\ undo' # <<>>
            /\ undo'[Len(undo')].text = line.text
            /\ moving'.on = line /\ moving'.rows = Started.rows /\ moving'.picked = n
      BY <1>3, LineTyped, StartedFromMenu, AdvanceWrites
    <2> DEFINE rows == PlacesOf(Started.rows)
    <2>2. n \in DOMAIN rows /\ line' = rows[n] /\ rows \in {PlacesOf(r) : r \in Menus}
      BY <1>3, <2>1, LineTyped, StartedFromMenu, PlacesOfTyped
    <2>3. Browse = None
      BY <1>3 DEF Browse
    <2>4. Browse' = [base |-> line, rows |-> rows, pick |-> n]
      BY <1>3, <2>1 DEF Browse, PlacesOf, PlaceOf
    <2>5. Back' = line.text
      BY <2>1 DEF Back, BackOf
    <2>6. last' = "move"
      BY <1>3 DEF Live
    <2> HIDE DEF rows
    <2>7. B!Begins
      BY <2>2, <2>3, <2>4, <2>5, <2>6 DEF B!Begins, Browse, Back, BackOf
    <2> QED BY <2>7 DEF B!Next
  <1> QED BY <1>1, <1>2, <1>3

\* The first states are Browsing's.
LEMMA InitImplements == Init => B!Init
  <1> SUFFICES ASSUME Init PROVE B!Init
    OBVIOUS
  <1>1. line \in Places
    BY MovingConstantsOK DEF Init, Places
  <1> QED BY <1>1 DEF Init, B!Init, Live

\* A draw shows rows, or stutters.
LEMMA DrawImplements ==
  ASSUME IInv, IInv', DrawsTheLine
  PROVE  B!Next
  <1>1. UNCHANGED <<line, undo, last>>
    BY DEF DrawsTheLine, readline
  <1>2. \/ moving' = None
        \/ /\ Live /\ moving' = [moving EXCEPT !.shown = moving'.shown] /\ moving' \in Move
           /\ moving'.shown => MenuLines > 0 /\ onScreen' = moving.rows
    BY DrawKeepsMove
  <1>3. CASE moving' = None
    <2>1. ~Live' /\ (Live => last' \notin {"hide", "enter"})
      BY <1>1, <1>3 DEF Live
    <2> QED BY <2>1, EndsAsOther DEF B!Next
  <1>4. CASE Live /\ moving' = [moving EXCEPT !.shown = moving'.shown]
    <2>1. moving \in Move /\ last' = "move"
      BY <1>1, <1>4, LiveUndoes
    <2>2. moving'.on = moving.on /\ moving'.rows = moving.rows /\ moving'.picked = moving.picked
      BY <1>4, <2>1 DEF Move
    <2>3. B!Idles \/ B!Other
      BY <1>1, <1>4, <2>1, <2>2, StaysIdles
    <2> QED BY <2>3 DEF B!Next
  <1> QED BY <1>2, <1>3, <1>4

\* A change by the hook ends moving, or stutters.
LEMMA HookImplements ==
  ASSUME IInv, IInv', Hook
  PROVE  B!Next
  <1>1. moving' = moving /\ last' = last /\ (Live => last = "move")
    BY DEF Hook, state, Live
  <1>2. CASE UNCHANGED <<line, undo>>
    <2>1. Live' <=> Live
      BY <1>1, <1>2 DEF Live, UndoHead
    <2>2. B!Idles \/ B!Other
      BY <1>1, <1>2, <2>1, StaysIdles
    <2> QED BY <2>2 DEF B!Next
  <1>3. CASE Changes(undo, line, line.at)
    <2>1. ~Live' /\ (Live => last' \notin {"hide", "enter"})
      BY <1>1, <1>3, HookEndsMove
    <2> QED BY <2>1, EndsAsOther DEF B!Next
  <1> QED BY <1>2, <1>3 DEF Hook

\* A step moves on over the same rows.
LEMMA MenuStepImplements ==
  ASSUME IInv, IInv', MenuStep
  PROVE  B!Next
  <1>1. PICK count \in Counts, down \in BOOLEAN, command \in {"move", "other"} :
          LET delta == IF down THEN count ELSE -count IN
          /\ \/ /\ delta = 0 /\ (Live \/ ShowingMenu)
                /\ UNCHANGED <<line, undo, entry, moving>>
             \/ /\ delta # 0 /\ Live
                /\ Advance(moving, Undone(undo), UndonePlace(undo, line), delta)
             \/ /\ delta # 0 /\ ~Live /\ ShowingMenu
                /\ Advance(Started, undo, line, delta)
             \/ /\ ~Live /\ ~ShowingMenu
                /\ moving' = IF delta = 0 THEN moving ELSE None
          /\ Ran(command)
    BY DEF MenuStep
  <1> DEFINE delta == IF down THEN count ELSE -count
  <1>2. delta \in Int /\ last' \in {"move", "other"} /\ pc = "key"
    BY <1>1, MovingConstantsOK DEF Ran, MenuStep
  <1> HIDE DEF delta
  \* What is not moved through now is not after any of these either.
  <1>3. ~Live /\ moving' \in {moving, None} => ~Live'
    BY <1>2 DEF Live, IInv, MovingHolds
  <1>4. CASE UNCHANGED <<line, undo, entry, moving>>
    <2>1. Live' => Live /\ last' = "move"
      BY <1>3, <1>4 DEF Live
    <2>2. B!Idles \/ B!Other
      BY <1>2, <1>4, <2>1, StaysIdles
    <2> QED BY <2>2 DEF B!Next
  <1>5. CASE /\ delta # 0
             /\ \/ Live /\ Advance(moving, Undone(undo), UndonePlace(undo, line), delta)
                \/ ~Live /\ ShowingMenu /\ Advance(Started, undo, line, delta)
    <2>1. delta \in Int \ {0}
      BY <1>2, <1>5
    <2> QED BY <1>2, <1>5, <2>1, AdvanceImplements
  <1>6. CASE ~Live /\ moving' \in {moving, None}
    BY <1>3, <1>6, EndsAsOther DEF B!Next
  <1> QED BY <1>1, <1>4, <1>5, <1>6 DEF delta

\* Tab starts moving, or moves on.
LEMMA TabWritesImplements ==
  ASSUME IInv, IInv', TabWrites
  PROVE  B!Next
  <1>1. PICK delta \in {1, -1} :
          \/ Live /\ Advance(moving, Undone(undo), UndonePlace(undo, line), delta)
          \/ ~Live /\ ShowingMenu /\ Advance(Started, undo, line, delta)
          \/ ~Live /\ moving' = None
    BY DEF TabWrites
  <1>2. last' = "move" /\ delta \in Int \ {0}
    BY DEF TabWrites, Ran
  <1>3. CASE ~Live /\ moving' = None
    <2>1. ~Live'
      BY <1>3 DEF Live
    <2> QED BY <1>3, <2>1, EndsAsOther DEF B!Next
  <1> QED BY <1>1, <1>2, <1>3, AdvanceImplements

\* Tab that only shows the menu shows rows.
LEMMA TabShowsImplements ==
  ASSUME IInv, IInv', TabShows
  PROVE  B!Next
  <1>1. PICK byReadline \in BOOLEAN, c \in BOOLEAN :
          c = FALSE /\ Draws(None, None, line, c, byReadline)
    BY DEF TabShows
  <1>2. moving' = None
    BY <1>1, LineTyped, DrawLeavesMove
  <1>3. ~Live' /\ ~Live
    BY <1>2 DEF Live, TabShows
  <1> QED BY <1>3, EndsAsOther DEF B!Next

\* C-g gives back the line that the menu is for: what undoing the row leads to,
\* with the cursor where it was.
LEMMA MenuHideImplements ==
  ASSUME IInv, IInv', MenuHide
  PROVE  B!Next
  <1>1. moving' = None /\ ~Live'
    BY DEF MenuHide, Live
  <1>2. CASE ~Live
    BY <1>1, <1>2, EndsAsOther DEF B!Next
  <1>3. CASE Live
    <2>1. Cancel /\ last' = "hide"
      BY <1>3 DEF MenuHide, Hide, Ran
    <2>2. UndonePlace(undo, line) \in EditPlaces /\ UndonePlace(undo, line).text = moving.on.text
      BY <1>3, LineTyped, LiveUndoes, UndonePlaceTyped
    <2>3. line' = moving.on
      BY <1>3, <2>1, <2>2, LiveUndoes DEF Cancel, EditPlaces
    <2>4. Browse # None /\ Browse.base = moving.on
      BY <1>3, LiveBrowses DEF Browse
    <2>5. Browse' = None
      BY <1>1 DEF Browse
    <2>6. Back' \in {p.text : p \in Places} \cup {None}
      BY BackTyped DEF Back, BackOf, IInv, TypeOK
    <2>7. B!GivesUp
      BY <2>1, <2>3, <2>4, <2>5, <2>6 DEF B!GivesUp, Browse, Back, BackOf
    <2> QED BY <2>7 DEF B!Next
  <1> QED BY <1>2, <1>3

\* Enter keeps the row, or ends the line.
LEMMA EnterImplements ==
  ASSUME IInv, IInv', Enter
  PROVE  B!Next
  <1>1. moving' = None /\ ~Live'
    BY DEF Enter, NewLine, Live
  <1>2. CASE ~Live
    BY <1>1, <1>2, EndsAsOther DEF B!Next
  <1>3. CASE Live
    <2>1. UNCHANGED <<line, undo>> /\ last' = "enter"
      BY <1>3 DEF Enter, Ran
    <2>2. Browse # None /\ Browse' = None
      BY <1>1, <1>3, LiveBrowses DEF Browse
    <2>3. B!Keeps
      BY <2>1, <2>2 DEF B!Keeps, Browse
    <2> QED BY <2>3 DEF B!Next
  <1> QED BY <1>2, <1>3

\* Each step is one of Browsing's or a stutter.
LEMMA StepImplements == IInv /\ IInv' /\ [Next]_vars => [B!Next]_(B!vars)
  <1> SUFFICES ASSUME IInv, IInv', [Next]_vars PROVE B!Next \/ UNCHANGED B!vars
    OBVIOUS
  <1>1. CASE Redisplay \/ Redraw
    BY <1>1, DrawImplements DEF Redisplay, Redraw, DrawsTheLine
  <1>2. CASE Hook
    BY <1>2, HookImplements
  <1>3. CASE MenuStep
    BY <1>3, MenuStepImplements
  <1>4. CASE TabWrites
    BY <1>4, TabWritesImplements
  <1>5. CASE TabShows
    BY <1>5, TabShowsImplements
  <1>6. CASE MenuHide
    BY <1>6, MenuHideImplements
  <1>7. CASE Enter
    BY <1>7, EnterImplements
  <1>8. CASE OtherKey
    <2>1. last' = "other"
      BY <1>8 DEF OtherKey, Edits, Ran
    <2>2. ~Live'
      BY <2>1 DEF Live
    <2> QED BY <2>1, <2>2, EndsAsOther DEF B!Next
  <1>9. CASE Interrupt
    <2>1. last' = "none" /\ ~Live'
      BY <1>9 DEF Interrupt, NewLine, Live
    <2> QED BY <2>1, EndsAsOther DEF B!Next
  <1>10. CASE ShiftTabFalls
    <2>1. ~Live /\ ~Live'
      BY <1>10 DEF ShiftTabFalls, Live
    <2> QED BY <2>1, EndsAsOther DEF B!Next
  <1>11. CASE UNCHANGED vars
    BY <1>11 DEF vars, readline, state, watched, B!vars, Live, UndoHead, PlacesOf, PlaceOf
  <1> QED BY <1>1, <1>2, <1>3, <1>4, <1>5, <1>6, <1>7, <1>8, <1>9, <1>10, <1>11 DEF Next

\* What README.md promises of moving through the menu is what moving.rs and
\* hooks.rs do: one undo gives back what was typed, C-g the cursor too, and Enter
\* keeps the row.
THEOREM Implements == Spec => Browses
  BY InitImplements, StepImplements, InvHolds, PTL DEF Spec, Browses, B!Spec
=============================================================================
