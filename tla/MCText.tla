------------------------------- MODULE MCText -------------------------------
(***************************************************************************)
(* Small instances of what is done with the text of a line: which items    *)
(* the menu lists, what is drawn on a screen of three rows, and what Lisp  *)
(* edits.  One part at a time runs.                                        *)
(***************************************************************************)
EXTENDS Ranking, Screen, Buffer

CONSTANTS letter, threeBytes, feed

VARIABLE part

-----------------------------------------------------------------------------
(* The menu's items. *)

MCEntries == {<<"a">>, <<"A">>, <<"b">>, <<"a", "b">>, <<"b", "a">>, <<"A", "b">>, <<"a", "a">>, <<"a", "^">>,
              <<"a", "b", "a">>, <<"b", "a", "b">>, <<"a", " ", "b">>, <<"b", " ", "a">>}
             \cup {text \in [1..5 -> {"a", "b", " "}] : text[1] # " " /\ text[5] # " "}
MCLetters == {"a", "A", "b", " ", "^", "q"}
MCLines == {<<"a">>, <<"a", "b">>, <<"b", " ", "a">>}
Item(lin, text, start, source) == [text |-> text, start |-> start, end |-> Len(lin), source |-> source]
\* Two sources that give one line, a mark before a mode server's item, and
\* other case.
OthersOf(lin) ==
    LET last == Len(lin) - 1 IN
    <<Item(lin, lin \o <<"a">>, 0, "lisp"), Item(lin, <<"q", lin[Len(lin)], "b">>, last, "mode"),
      Item(lin, <<lin[Len(lin)], "a">>, last, "bash"), Item(lin, <<"A", "b">>, last, "bash")>>
MCOffers ==
    [lin \in MCLines |->
        {[items |-> <<>>, listed |-> [sources |-> {"history"}, minChars |-> 0]]} \cup
        [items : {OthersOf(lin)},
         listed : {[sources |-> {"history", "lisp", "mode", "bash"}, minChars |-> 0],
                   [sources |-> {"bash"}, minChars |-> 0]}]]

-----------------------------------------------------------------------------
(* The screen. *)

Escape == <<HideBegin, "h", HideEnd>>
MCPrompts == {<<"$">>, <<"$", HideBegin, "h", HideEnd, "$", "$", "$", "$">>}
\* Up to seven characters or escape sequences; and three rows of characters
\* with up to two escape sequences between them.
MCOddPrompts ==
    {FlattenSeq(parts) : parts \in UNION {[1..n -> {<<"$">>, <<"e">>, Escape}] : n \in 0..7}}
    \cup {FlattenSeq([i \in 1..13 |-> IF i \in {k, m} THEN Escape ELSE <<c>>]) :
            k \in 1..13, m \in 1..13, c \in {"$", "e"}}
    \cup UNION {[1..n -> {"$", HideBegin, HideEnd, Accent, Wide}] : n \in 0..4}
MCFirstLines == UNION {[1..n -> {"a", Wide, Tab, Newline}] : n \in 0..2}
MCTyped == {"a", Wide, Newline}
MCMessages == {<<"m", "m">>}
MenuItem(lines, note) == [lines |-> lines, note |-> note, letter |-> "h"]
MenuOfItems(items, picked, rows) == [items |-> items, highlighted |-> picked, maxRows |-> rows]
MCFound ==
    {NothingFound,
     [NothingFound EXCEPT !.suggestion = <<<<"s", "s", "s", "s", "s", "s">>, <<"t">>, <<"u">>>>, !.lines = 2],
     [NothingFound EXCEPT !.menu = MenuOfItems(<<MenuItem(<<<<"i", "j">>, <<"k">>>>, <<>>),
                                                MenuItem(<<<<Wide>>>>, <<>>), MenuItem(<<<<"k">>>>, <<>>)>>, 3, 3),
                          !.suggestion = <<<<"j">>, <<"k">>>>, !.lines = 2],
     [NothingFound EXCEPT !.spans = {[start |-> 0, end |-> 1, code |-> "command"]},
                          !.error = [start |-> 1, end |-> 2], !.errorMessage = <<"e">>,
                          !.highlight = [start |-> 0, end |-> 2]]}

-----------------------------------------------------------------------------
(* The line Lisp edits: a letter, a character of three bytes, a newline. *)

MCBytes == [c \in Symbols |-> IF c = threeBytes THEN 3 ELSE 1]
BytesIn(c) == [k \in 1 .. MCBytes[c] |-> [char |-> c, nth |-> k]]
MCLineTexts ==
    {<<>>} \cup {BytesIn(c) : c \in Symbols} \cup
    {BytesIn(pair[1]) \o BytesIn(pair[2]) : pair \in {p \in Symbols \X Symbols : p[1] # p[2]}}
MCCharSets == {{letter}, {letter, threeBytes}}

-----------------------------------------------------------------------------
RankingIdle == /\ typed = <<>> /\ how = [style |-> "prefix", ignoreCase |-> FALSE]
               /\ history = <<>> /\ gather = NoneTaken /\ menu = NoMenu
ScreenIdle == /\ phase = "idle" /\ prompt = <<>> /\ lineAt = NoPlace /\ line = <<>> /\ point = 0 /\ pressed = 0
              /\ term = <<>> /\ painted = <<>> /\ message = <<>>
              /\ shownAt = None /\ messageRows = None /\ menuRows = None

TextInit ==
    /\ BufferInit
    /\ \/ part = "menu" /\ RankingInit /\ ScreenIdle
       \/ part = "screen" /\ ScreenInit /\ RankingIdle
       \/ part = "lisp" /\ RankingIdle /\ ScreenIdle
TextNext ==
    \/ part = "menu" /\ RankingNext /\ UNCHANGED <<part, screenVars, bufferVars>>
    \/ part = "screen" /\ ScreenNext /\ UNCHANGED <<part, rankingVars, bufferVars>>
    \/ part = "lisp" /\ BufferNext /\ UNCHANGED <<part, rankingVars, screenVars>>
=============================================================================
