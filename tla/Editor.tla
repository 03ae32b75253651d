-------------------------------- MODULE Editor --------------------------------
(***************************************************************************)
(* Editing a command of several lines: Enter and C-j with the indentation   *)
(* (hooks/multiline.rs up to accept_or_newline's end), brackets and quotes  *)
(* in pairs (pairs.rs, hooks.rs), the kills, the region (hooks/region.rs)   *)
(* and DEL's binding while an incremental search runs, over readline's      *)
(* line, undo list and mark, which are external.  A row on screen holds a   *)
(* line of any length.  A backquote, a here-document and moving through the *)
(* menu are left out.                                                       *)
(***************************************************************************)
EXTENDS Indent

CONSTANTS
    Starting,    \* texts recalled from history to begin with
    Found,       \* texts an incremental search finds
    CloserOf,    \* opening characters that pair, with what closes each
    ModeWord,    \* a command that uses a mode
    DepthAnswers, \* what the mode's server answers: none or depths
    ScreenRows,  \* rows on screen
    None,        \* Rust's None
    Typing,      \* bound: characters that are typed
    MaxKeys,     \* bound: keys of a line
    TypedOn,     \* bound: what a new line that is only typed is made of
    MaxTyped     \* bound: the keys of such a line

Begin == [what |-> "begin"]
EndGroup == [what |-> "end"]
\* What readline's undo list holds, and its line.
Changes == [what : {"ins"}, start : Nat, end : Nat] \cup
           [what : {"del"}, start : Nat, text : Texts] \cup {Begin, EndGroup}
RlLines == [text : Texts, point : Nat, undo : Seq(Changes)]

ASSUME EditorConstantsOK ==
    /\ Starting \subseteq Texts /\ Found \subseteq Texts /\ ModeWord \in Chars
    /\ DOMAIN CloserOf \subseteq Chars /\ \A c \in DOMAIN CloserOf : CloserOf[c] \in Chars
    /\ Typing \subseteq Chars /\ TypedOn \subseteq Words \cup Continuers
    /\ \A answer \in DepthAnswers :
          answer # <<>> => /\ answer[1].new \in Nat
                           /\ answer[1].current # <<>> => answer[1].current[1] \in Nat
    /\ None \notin Chars /\ None \notin Texts /\ None \notin Nat /\ None \notin RlLines
    /\ ScreenRows \in Nat /\ MaxKeys \in Nat /\ MaxTyped \in Nat

VARIABLES
    line,      \* readline's: text, point, undo list (newest last)
    region,    \* ACTIVE, MARK_BEFORE_SEARCH; readline's mark, whether it is
               \* active, and whether the command asked to keep it so
    searching, \* the line, undo list and point an incremental search started
               \* from, or None
    del,       \* the command the key DEL is bound to
    set,       \* the mark and the text where the user made the region active
    typed,     \* whether the line was only typed, of words and pipes at its end
               \* and Enter at the ends of its lines
    accepted,  \* the text that was run, or None
    keys       \* how many keys the line has had

vars == <<line, region, searching, del, set, typed, accepted, keys>>

-----------------------------------------------------------------------------
(* readline's line: r is its text, point and undo list. *)

BeginGroup(r) == [r EXCEPT !.undo = Append(@, Begin)]
CloseGroup(r) == [r EXCEPT !.undo = Append(@, EndGroup)]
SetPoint(r, point) == [r EXCEPT !.point = point]

\* rl_insert_text: one character more joins an insertion that ends there.
Insert(r, text) ==
    LET to == r.point + Len(text)
        joins == /\ Len(text) = 1 /\ r.undo # <<>> /\ Last(r.undo).what = "ins"
                 /\ Last(r.undo).end = r.point /\ Last(r.undo).end - Last(r.undo).start < 20
    IN [text |-> SubSeq(r.text, 1, r.point) \o text \o SubSeq(r.text, r.point + 1, Len(r.text)),
        point |-> to,
        undo |-> IF joins THEN [r.undo EXCEPT ![Len(r.undo)].end = to]
                 ELSE IF text = <<>> THEN r.undo
                 ELSE Append(r.undo, [what |-> "ins", start |-> r.point, end |-> to])]

\* rl_delete_text, which leaves the point.
Delete(r, from, to) ==
    [r EXCEPT !.text = SubSeq(r.text, 1, from) \o SubSeq(r.text, to + 1, Len(r.text)),
              !.undo = Append(@, [what |-> "del", start |-> from,
                                  text |-> SubSeq(r.text, from + 1, to)])]

\* A change taken back.
Back(r, u) ==
    CASE u.what = "del" -> Insert(SetPoint(r, u.start), u.text)
      [] u.what = "ins" -> SetPoint(Delete(r, u.start, u.end), u.start)
      [] OTHER -> r
\* rl_do_undo: the newest change, or the newest group.
Undone(r) ==
    LET n == Len(r.undo)
        balanced(i) == Cardinality({j \in i .. n : r.undo[j] = EndGroup})
                         = Cardinality({j \in i .. n : r.undo[j] = Begin})
        first == Max({i \in 1 .. n : balanced(i)})
        undone == FoldLeft(Back, r, Reverse(SubSeq(r.undo, first, n)))
    IN [undone EXCEPT !.undo = SubSeq(r.undo, 1, first - 1)]
CanUndo(r) == \E i \in DOMAIN r.undo : r.undo[i].what \notin {"begin", "end"}

-----------------------------------------------------------------------------
(* A new line. *)

\* fits_more_rows
FitsMoreRows(text, more) == Cardinality(Starts(text)) + more <= ScreenRows

\* move_out: the line the cursor is on goes out a step when it starts with a
\* closing word, but for one that has moved out before.
MovesOutAgain(r) == Step > 0 /\ Outdent(LineAt(r.text, r.point)) > 0
MovesOut(r) ==
    LET start == LineStart(r.text, r.point)
        own == LineAt(r.text, r.point)
        above == Max({e \in Ends(r.text) : e < start /\
                        (LineStart(r.text, e) = 0 \/ StartsCode(r.text, LineStart(r.text, e) - 1))})
    IN /\ Step > 0 /\ Outdent(own) > 0
       /\ start > 0 => /\ StartsCode(r.text, start - 1)
                       /\ WidthFrom0(Indentation(own))
                            >= WidthFrom0(ForNewLine(r.text, above))
MovedOut(r) ==
    LET start == LineStart(r.text, r.point)
        remove == Outdent(LineAt(r.text, r.point))
    IN IF ~MovesOut(r) THEN r
       ELSE SetPoint(Delete(r, start, start + remove), Max({start, r.point - remove}))

\* in_script: inside a quoted argument of a command that uses a mode.
InScript(r) == \E i \in 1 .. OpenQuote(r.text, r.point) : r.text[i] = ModeWord
CommandLine(r) ==
    LineStart(r.text, Max({i \in 1 .. OpenQuote(r.text, r.point) : r.text[i] = ModeWord}))
EmptyQuotePair(r) ==
    LET opened == OpenQuote(r.text, r.point)
        after == IndentationEnd(r.text, r.point) IN
    /\ \A i \in opened + 2 .. r.point : IsBlank(r.text[i])
    /\ after < Len(r.text) /\ r.text[after + 1] = Quote

\* set_indentation
SetIndentation(r, to) ==
    LET start == LineStart(r.text, r.point)
        old == Len(Indentation(LineAt(r.text, r.point))) IN
    SetPoint(Insert(SetPoint(Delete(r, start, start + old), start), to), r.point - old + Len(to))

\* What goes before the newline goes in: the line as it is then, the new
\* line's indentation, the blanks around the cursor, and the indentation of a
\* line below (none, or one).
AsItIs(r) == [r |-> r, indentation |-> <<>>, blanks |-> Part(r.point, r.point), below |-> <<>>]
InCode(r) ==
    [r |-> r, indentation |-> ForNewLine(r.text, r.point), blanks |-> BlanksAround(r.text, r.point),
     below |-> <<>>]
OfScript(r, answer) ==
    LET depths == IF EmptyQuotePair(r) THEN <<>> ELSE answer
        split == ScriptLine(r.text, r.point, CommandLine(r),
                            LineStart(r.text, OpenQuote(r.text, r.point)), depths)
        moved == IF split.movedOut = <<>> THEN r ELSE SetIndentation(r, split.movedOut[1])
    IN [r |-> moved, indentation |-> split.newLine, blanks |-> BlanksAround(moved.text, moved.point),
        below |-> IF EmptyQuotePair(r) /\ FitsMoreRows(moved.text, 2)
                  THEN <<Indentation(LineAt(moved.text, CommandLine(r)))>> ELSE <<>>]
OfMoved(moved, answer) ==
    IF StartsCode(moved.text, moved.point) THEN InCode(moved)
    ELSE IF InScript(moved) THEN OfScript(moved, answer)
    ELSE AsItIs(moved)
Prepared(r, pasted, answer) ==
    IF Step = 0 \/ pasted THEN AsItIs(r) ELSE OfMoved(MovedOut(r), answer)

\* The newline, and then the blanks around it go.
BrokenBlanksFirst(p) ==
    LET point == p.r.point
        before == Delete(p.r, p.blanks.from, p.blanks.to)
    IN Insert(SetPoint(before, p.blanks.from), <<Newline>> \o p.indentation)
Broken(p) ==
    LET point == p.r.point
        inserted == <<Newline>> \o p.indentation
        broken == Insert(p.r, inserted)
        after == point + Len(inserted)
        ahead == IF p.blanks.to > point
                 THEN Delete(broken, after, after + p.blanks.to - point) ELSE broken
    IN IF p.blanks.from < point
       THEN SetPoint(Delete(ahead, p.blanks.from, point), p.blanks.from + Len(inserted))
       ELSE ahead

\* What follows the cursor goes on a line of its own below.
Below(r, base) ==
    LET blanks == IndentationEnd(r.text, r.point) - r.point IN
    SetPoint(Insert(Delete(r, r.point, r.point + blanks), <<Newline>> \o base), r.point)

\* The line below: for a closer that is opened up, or what was prepared.
CloserBelow(broken) ==
    Below(broken, Indentation(LineAt(broken.text, LineStart(broken.text, broken.point) - 1)))
PreparedBelow(broken, below) == IF below = <<>> THEN broken ELSE Below(broken, below[1])
WithBelow(p, closeBelow) ==
    IF closeBelow THEN CloserBelow(Broken(p)) ELSE PreparedBelow(Broken(p), p.below)

\* new_line
NewLine(r, pasted, answer, closeBelow) ==
    CloseGroup(WithBelow(Prepared(BeginGroup(r), pasted, answer), closeBelow))

\* empty_pair: between a bracket and its closer, with only closers after.
EmptyPair(r) ==
    LET own == LineAt(r.text, r.point)
        at == r.point - LineStart(r.text, r.point)
        visible(c) == ~IsBlank(c)
        before == SelectSeq(SubSeq(own, 1, at), visible)
        after == SelectSeq(SubSeq(own, at + 1, Len(own)), visible)
        brackets == DOMAIN CloserOf \ {Quote}
    IN /\ before # <<>> /\ after # <<>> /\ Last(before) \in brackets
       /\ Head(after) = CloserOf[Last(before)]
       /\ \A k \in DOMAIN after : \E open \in brackets : after[k] = CloserOf[open]

-----------------------------------------------------------------------------
(* Pairs: pairs.rs, with `context' whether the cursor is in a string. *)

Prev(r) == IF r.point = 0 THEN None ELSE r.text[r.point]
NextChar(r) == IF r.point = Len(r.text) THEN None ELSE r.text[r.point + 1]

\* open: what an opening character does.
OpenSkips(r, c) == c = Quote /\ NextChar(r) = c /\ ~StartsCode(r.text, r.point)
OpenPairs(r, c) ==
    /\ NextChar(r) \notin Words \cup {Quote}
    /\ ~(c = Quote /\ Prev(r) \in Words)
    /\ Prev(r) # Backslash
    /\ StartsCode(r.text, r.point)
\* InsertPair and the fallback, readline's self-insert.
InsertPair(r, c) ==
    IF OpenSkips(r, c) THEN SetPoint(r, r.point + 1)
    ELSE IF OpenPairs(r, c)
    THEN CloseGroup(SetPoint(Insert(BeginGroup(r), <<c, CloserOf[c]>>), r.point + 1))
    ELSE Insert(r, <<c>>)
InsertClose(r, c) ==
    IF NextChar(r) = c THEN SetPoint(r, r.point + 1) ELSE Insert(r, <<c>>)

\* delete_pair, when it does not delete a region; rl_rubout.
Rubout(r) == SetPoint(Delete(r, r.point - 1, r.point), r.point - 1)
DeletePair(r) ==
    IF /\ Prev(r) \in DOMAIN CloserOf /\ NextChar(r) # None /\ CloserOf[Prev(r)] = NextChar(r)
    THEN SetPoint(Delete(r, r.point - 1, r.point + 1), r.point - 1)
    ELSE Rubout(r)

-----------------------------------------------------------------------------
(* The region. *)

Active(g) == g.text # None
Activated(g, r) == [g EXCEPT !.text = r.text, !.on = TRUE, !.keep = TRUE]
Ended(g) == [g EXCEPT !.before = None, !.text = None, !.on = (@ /\ ~Active(g))]
EndedIfChanged(g, r) == IF Active(g) /\ g.text # r.text THEN Ended(g) ELSE g
Kept(g) == IF Active(g) THEN [g EXCEPT !.on = TRUE, !.keep = TRUE] ELSE g

\* What readline does to its mark once a command has returned.
AfterCommand(g, r) == [g EXCEPT !.on = @ /\ g.keep, !.keep = FALSE, !.mark = Min({@, Len(r.text)})]

\* update, before a draw: while a search runs, and otherwise.
UpdatedInSearch(g) ==
    IF Active(g) /\ g.before = None THEN [g EXCEPT !.before = g.mark, !.on = FALSE] ELSE g
\* The mark is put back once the search has ended.
PutBack(g, r) ==
    LET checked == [EndedIfChanged(g, r) EXCEPT !.before = None] IN
    IF g.before = None THEN g
    ELSE IF Active(checked)
    THEN [checked EXCEPT !.mark = Min({g.before, Len(r.text)}), !.on = TRUE, !.keep = TRUE]
    ELSE checked
UpdatedAtMatch(g, r) ==
    LET back == [g EXCEPT !.before = None, !.on = @ \/ (Active(g) /\ g.before # None)] IN
    IF Active(back) /\ ~back.on THEN Ended(back) ELSE Kept(EndedIfChanged(back, r))
Updated(g, r) ==
    LET back == PutBack(g, r) IN
    IF Active(back) /\ ~back.on THEN Ended(back) ELSE Kept(EndedIfChanged(back, r))

\* range: what is between the mark and the cursor.
RegionRange(r, g) ==
    LET mark == Min({g.mark, Len(r.text)}) IN
    Part(Min({r.point, mark}), Max({r.point, mark}))
InUse(r, g) == Active(g) /\ RegionRange(r, g).from < RegionRange(r, g).to
AtRange(r, g) == LET part == RegionRange(r, g) IN SetPoint(Delete(r, part.from, part.to), part.from)

\* rubout_while_searching
DelBinding(search) == IF search # None THEN "backward-delete-char" ELSE "delete-pair"

-----------------------------------------------------------------------------
(* Keys.  Each is a command, and the draw after it (redisplay). *)

\* The command leaves the line r and the region g.
Leaves(r, g) ==
    /\ searching = None /\ accepted = None
    /\ keys' = keys + 1
    /\ keys' <= IF typed THEN MaxTyped ELSE MaxKeys
    /\ line' = r /\ region' = Updated(AfterCommand(g, r), r)
    /\ searching' = None /\ del' = DelBinding(None) /\ UNCHANGED accepted
NoSet == [text |-> <<>>, mark |-> 0]
StillSet == set' = IF Active(region') THEN set ELSE NoSet
Edits(r) == Leaves(r, region) /\ StillSet

Other == keys < MaxKeys /\ typed' = FALSE

\* accept-line: rl_newline turns the mark off, and the line is drawn once more.
Runs(r) ==
    /\ searching = None /\ accepted = None
    /\ accepted' = r.text /\ line' = r
    /\ region' = Updated([region EXCEPT !.on = FALSE], r)
    /\ del' = DelBinding(None)
    /\ set' = NoSet /\ UNCHANGED <<searching, keys>>

\* A key that types c.
Pressed(r, c) ==
    IF c \in DOMAIN CloserOf THEN InsertPair(r, c)
    ELSE IF \E open \in DOMAIN CloserOf : c = CloserOf[open] THEN InsertClose(r, c)
    ELSE Insert(r, <<c>>)
Types(c) ==
    /\ typed' = (typed /\ c \in TypedOn /\ line.point = Len(line.text)
                   /\ Len(Pressed(line, c).text) = Len(line.text) + 1)
    /\ typed' \/ keys < MaxKeys
    /\ Edits(Pressed(line, c))

\* accept_or_newline.  What the checker says of a text is left open.
ClosesBelow(unfinished) == unfinished /\ EmptyPair(line) /\ StartsCode(line.text, line.point)
Enter ==
    \E pasted, unfinished \in BOOLEAN, answer \in DepthAnswers :
      LET more == IF ClosesBelow(unfinished) /\ ~pasted THEN 2 ELSE 1
          moved == IF pasted THEN line ELSE MovedOut(line) IN
      /\ typed' = (typed /\ ~pasted)
      /\ typed' \/ keys <= MaxKeys
      /\ IF unfinished /\ FitsMoreRows(line.text, more)
         THEN Edits(NewLine(line, pasted, answer, more = 2))
         ELSE Runs(IF unfinished THEN line ELSE moved)

\* insert_newline
InsertNewline ==
    /\ Other
    /\ \E pasted \in BOOLEAN, answer \in DepthAnswers : Edits(NewLine(line, pasted, answer, FALSE))

Kills(part) == Edits(SetPoint(Delete(line, part.from, part.to), part.from))
KillKey ==
    /\ Other
    /\ \/ IsMultiLine(line.text) /\ Kills(KillForward(line.text, line.point))
       \/ IsMultiLine(line.text) /\ Kills(KillBackward(line.text, line.point))
       \/ \E count \in {-1, 2} : Kills(KillLines(line.text, line.point, count))

\* DEL (delete_pair) and C-d, on a region first.
DeleteKey ==
    /\ Other /\ set' = NoSet
    /\ \/ InUse(line, region)
          /\ Leaves(AtRange(line, region), [Ended(region) EXCEPT !.mark = RegionRange(line, region).from])
       \/ ~InUse(line, region) /\ line.point > 0 /\ Edits(DeletePair(line))
       \/ ~InUse(line, region) /\ line.point < Len(line.text)
          /\ Edits(Delete(line, line.point, line.point + 1))

\* set_mark_command and swap_point_and_mark.
SetMark ==
    /\ Other
    /\ IF Active(region) /\ region.mark = line.point
       THEN Leaves(line, Ended(region)) /\ set' = NoSet
       ELSE /\ Leaves(line, Activated([region EXCEPT !.mark = line.point], line))
            /\ set' = [text |-> line.text, mark |-> line.point]
SwapPointAndMark ==
    LET mark == Min({region.mark, Len(line.text)})
        g == [region EXCEPT !.mark = line.point] IN
    /\ Other
    /\ Leaves(SetPoint(line, mark), IF Active(region) THEN g ELSE Activated(g, line))
    /\ set' = [text |-> line.text, mark |-> line.point]

\* kill_region_or_word and kill_ring_save, while the region is active.
KillRegion ==
    /\ Active(region)
    /\ Leaves(IF InUse(line, region) THEN AtRange(line, region) ELSE line,
              [Ended(region) EXCEPT !.mark = RegionRange(line, region).from])
    /\ Other /\ set' = NoSet
SaveRegion ==
    LET part == RegionRange(line, region) IN
    /\ Active(region)
    /\ Leaves(line, [Ended(region) EXCEPT !.mark = IF line.point = part.from THEN part.to ELSE part.from])
    /\ Other /\ set' = NoSet

\* C-g: menu_hide, or readline's abort, which turns the mark off.
Cancels ==
    /\ Active(region) /\ Leaves(line, Ended(region))
    /\ Other /\ set' = NoSet

MovesCursor ==
    \E point \in Points(line.text) :
      /\ typed' = (typed /\ point \in Ends(line.text))
      /\ typed' \/ keys < MaxKeys
      /\ Edits(SetPoint(line, point))
Undo == Other /\ CanUndo(line) /\ Edits(Undone(line))

-----------------------------------------------------------------------------
(* An incremental search, with the draws it makes, and a C-c. *)

SearchStarts ==
    /\ searching = None /\ accepted = None /\ ~typed
    /\ searching' = line /\ region' = UpdatedInSearch(region) /\ del' = DelBinding(line)
    /\ UNCHANGED <<line, set, typed, accepted, keys>>
SearchFinds ==
    /\ searching # None
    /\ \E text \in Found, mark \in {0, 1} :
         /\ line' = [text |-> text, point |-> 0, undo |-> <<>>]
         /\ region' = UpdatedInSearch([region EXCEPT !.mark = mark])
    /\ UNCHANGED <<searching, del, set, typed, accepted, keys>>
\* It ends on what it found, or gives the line back.
SearchEnds ==
    /\ searching # None
    /\ line' \in {line, searching}
    /\ searching' = None /\ region' = Updated(AfterCommand([region EXCEPT !.on = FALSE], line'), line')
    /\ del' = DelBinding(None)
    /\ StillSet /\ UNCHANGED <<typed, accepted, keys>>

\* A C-c: deprep_terminal puts DEL back, and pre_input ends the region; or the
\* next line after one that was run.
EmptyRegion == [text |-> None, mark |-> 0, on |-> FALSE, keep |-> FALSE, before |-> None]
Fresh(text, point) == [text |-> text, point |-> point, undo |-> <<>>]
FreshLine == line' = Fresh(<<>>, 0)
InterruptedInSearch ==
    /\ FreshLine /\ region' = Ended(region) /\ searching' = None /\ accepted' = None
    /\ typed' = TRUE /\ keys' = 0 /\ UNCHANGED <<set, del>>
Interrupted ==
    /\ FreshLine /\ region' = EmptyRegion /\ searching' = None /\ accepted' = None
    /\ typed' = TRUE /\ keys' = 0
    /\ del' = DelBinding(None) /\ set' = NoSet

-----------------------------------------------------------------------------
\* A line to begin with, perhaps with a region made active on it from the start
\* or the end of one of its lines.
Init ==
    /\ line \in UNION {{Fresh(text, point) : point \in Points(text)} : text \in Starting}
    /\ \/ region = EmptyRegion /\ set = NoSet
       \/ \E mark \in Starts(line.text) \cup Ends(line.text) :
            /\ region = Activated([EmptyRegion EXCEPT !.mark = mark], line)
            /\ set = [text |-> line.text, mark |-> mark]
    /\ searching = None /\ del = "delete-pair"
    /\ typed = (line.text = <<>>) /\ accepted = None /\ keys = 0

Next ==
    \/ \E c \in Typing : Types(c)
    \/ Enter \/ InsertNewline \/ KillKey \/ DeleteKey
    \/ SetMark \/ SwapPointAndMark \/ KillRegion \/ SaveRegion \/ Cancels
    \/ MovesCursor \/ Undo
    \/ SearchStarts \/ SearchFinds \/ SearchEnds \/ Interrupted

Spec == Init /\ [][Next]_vars

-----------------------------------------------------------------------------
(* Properties. *)

\* A key that adds to the undo list is taken back by one undo: the text, and
\* after a new line that moved no line out, the cursor where it was.
AddsLine == Cardinality(Starts(line'.text)) > Cardinality(Starts(line.text))
OneUndo ==
    [][searching = None /\ accepted' = None /\ Len(line'.undo) > Len(line.undo) =>
         /\ Undone(line').text = line.text
         /\ (AddsLine /\ ~MovesOut(line) /\ (StartsCode(line.text, line.point) \/ ~InScript(line)))
              => Undone(line').point = line.point]_vars

\* What a new line or an Enter may not touch: all but newlines and the blanks
\* between words; a blank in a string or after a backslash is no such blank,
\* but for the blanks of a mode's script.
Solid(text) ==
    LET isSolid(i) ==
          \/ text[i] # Newline /\ ~IsBlank(text[i])
          \/ IsBlank(text[i]) /\ (Escaped(text, i) \/ (~StartsCode(text, i) /\
                                    ~InScript([text |-> text, point |-> i])))
        places == SelectSeq([i \in DOMAIN text |-> i], isSolid)
    IN [k \in DOMAIN places |-> text[places[k]]]
WordsStay ==
    [][searching = None /\ Prev(line) # Backslash /\
       ((accepted = None /\ accepted' # None)
         \/ (keys' > keys /\ AddsLine /\ Len(line'.undo) > Len(line.undo)))
       => Solid(line'.text) = Solid(line.text)]_vars

\* The lines of the command, and what each is to a block.
TheLines == IF accepted # None THEN accepted ELSE line.text
LineStarts == SetToSortSeq(Starts(TheLines), <)
EachLine == LET starts == LineStarts IN [k \in DOMAIN starts |-> LineAt(TheLines, starts[k])]
OpensBlock(own) == EndsWith(Tokens(own), Do)
ClosesBlock(own) == LET toks == Tokens(own) IN toks # <<>> /\ Head(toks).text \in Closers
IsUsual(own) ==
    LET toks == Tokens(own) IN
    \A n \in DOMAIN toks :
      /\ toks[n].text \in Do => n = Len(toks) /\ toks[n].command
      /\ toks[n].text \in Closers => n = 1

\* Of the lines that open or close a block, the one that line j closes.
IsOpenerOf(k, j, opens, closes) ==
    /\ k < j /\ Cardinality(opens \cap (k .. j)) = Cardinality(closes \cap (k .. j))
    /\ \A i \in k + 1 .. j : Cardinality(opens \cap (i .. j)) < Cardinality(closes \cap (i .. j))

\* A line that starts with a closing word is as far in as the line that
\* opened their block.
LinedUp(j, lines) ==
    LET opens == {k \in DOMAIN lines : OpensBlock(lines[k])}
        closes == {k \in DOMAIN lines : ClosesBlock(lines[k])}
    IN \A k \in opens : IsOpenerOf(k, j, opens, closes) => Indentation(lines[k]) = Indentation(lines[j])

\* In a line that was only typed, each line that starts with a closing word
\* and was left with Enter, once or again, is as far in as the line that opened
\* its block; so is the last, run from there with room for a line more.  Below
\* an empty line this may fail (see MovesOutOnce), and a line that goes on from
\* the one above is further in.
BlocksLineUp ==
    LET lines == EachLine
        left == {j \in DOMAIN lines :
                   /\ ClosesBlock(lines[j]) /\ j > 1
                   /\ Tokens(lines[j - 1]) # <<>> /\ ~Continues(lines[j - 1])
                   /\ \/ j < Len(lines)
                      \/ accepted # None /\ FitsMoreRows(accepted, 1) /\ line.point >= LineStarts[j]}
    IN typed /\ (\A j \in DOMAIN lines : IsUsual(lines[j])) => \A j \in left : LinedUp(j, lines)

\* "A closing word that already moved out stays where it is on a second Enter"
\* (tests/multiline.rs).
MovesOutOnce ==
    [][typed' /\ AddsLine /\ line.point = LineEnd(line.text, line.point) =>
         LET lines == EachLine
             here == Cardinality({s \in Starts(line.text) : s <= line.point})
         IN /\ \A j \in DOMAIN lines : IsUsual(lines[j])
            /\ ClosesBlock(lines[here]) /\ LinedUp(here, lines)
            => LinedUp(here, EachLine')]_vars

\* Between two keys an active region is the text and the mark that the user
\* made it active with, whatever was searched in between, and no other time
\* is it drawn.
RegionIsWhereSet ==
    searching = None /\ accepted = None /\ Active(region) =>
      /\ line.text = set.text /\ region.mark = set.mark
      /\ region.on /\ region.before = None

\* DEL deletes pairs but while a search runs, which it would end.
DelIsOurs == (del = "backward-delete-char") = (searching # None)

\* A search that is left, by any key or a C-c, leaves the region and DEL as they
\* were.
SearchLeavesNoTrace == RegionIsWhereSet /\ DelIsOurs

\* A key that adds a line, or runs the line, is one undo and changes blanks only.
EnterIsOneStep == OneUndo /\ WordsStay
=============================================================================
