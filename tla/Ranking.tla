------------------------------ MODULE Ranking ------------------------------
(***************************************************************************)
(* What the completion menu lists for a line, and in which order (menu.rs, *)
(* menu_for of hooks.rs): history entries are offered newest first, each   *)
(* kind of match up to a limit, and the items of all the sources are put   *)
(* in one order by how well they match.                                    *)
(*                                                                         *)
(* A text is a sequence of characters, one byte each.                      *)
(***************************************************************************)
EXTENDS Integers, Sequences, FiniteSets, SequencesExt

CONSTANTS
    HistoryLimit,   \* HISTORY_LIMIT: the history items gathered of each kind
    Entries,        \* the texts history can hold
    LinesTyped,     \* the lines completed
    Offers,         \* for each line, what the other sources may offer, and Listed
    MaxOffered,     \* bound: the entries of history looked at
    MaxChars,       \* bound: their characters
    Letters         \* the characters of texts

Texts == Seq(Letters)
Source == {"history", "lisp", "mode", "bash"}
Items == [text : Texts, start : Nat, end : Nat, source : Source]

ASSUME HistoryLimitAssumption == HistoryLimit \in Nat \ {0}
ASSUME BoundsAssumption == MaxOffered \in Nat /\ MaxChars \in Nat
ASSUME TextsAssumption ==
    /\ Entries \subseteq Texts /\ LinesTyped \subseteq Texts
    /\ \A t \in LinesTyped : \A offer \in Offers[t] : offer.items \in Seq(Items)

VARIABLES
    typed,      \* the line; the cursor is at its end
    how,        \* Matching: the style, and whether case is ignored
    history,    \* the entries offered, newest first
    gather,     \* HistoryGather: the items and how many are of each kind
    menu        \* the menu made, once it is

rankingVars == <<typed, how, history, gather, menu>>

Blank == " "
Unprintable == "^"
QuoteMark == "q"    \* one of the three
NoMenu == [items |-> <<>>, top |-> <<>>,
           offer |-> [items |-> <<>>, listed |-> [sources |-> {}, minChars |-> 0]]]

Styles == {"prefix", "substring", "orderless", "fuzzy"}
Matchings == [style : Styles, ignoreCase : BOOLEAN]

-----------------------------------------------------------------------------
(* Characters and texts. *)

\* fold, for the letters of the model: A is the other case of a.
Fold(c) == IF c = "A" THEN "a" ELSE c
Folded(text) == [i \in DOMAIN text |-> Fold(text[i])]
Same(h, a, b) == a = b \/ (h.ignoreCase /\ Fold(a) = Fold(b))

Smallest(S) == CHOOSE n \in S : \A m \in S : n <= m
Largest(S) == CHOOSE n \in S : \A m \in S : m <= n
\* The n-th of a set of numbers, and the elements of a sequence at such places.
NthOf(set, n) == CHOOSE i \in set : Cardinality({j \in set : j <= i}) = n
Picked(items, places) == [n \in 1..Cardinality(places) |-> items[NthOf(places, n)]]

Drawable(text) == \A i \in DOMAIN text : text[i] # Unprintable

\* str::find from byte `from': the places where `word' is.
Places(word, text, from) ==
    {at \in from..(Len(text) - Len(word)) : SubSeq(text, at + 1, at + Len(word)) = word}
ContainsText(typedText, text) == Places(typedText, text, 0) # {}

\* split_whitespace
WordsOf(text) ==
    LET starts == {i \in DOMAIN text : text[i] # Blank /\ (i = 1 \/ text[i - 1] = Blank)}
        end(i) == Largest({j \in i..Len(text) : \A k \in i..j : text[k] # Blank})
        nth[n \in 1..Cardinality(starts)] ==
            CHOOSE i \in starts : Cardinality({j \in starts : j < i}) = n - 1
    IN [n \in 1..Cardinality(starts) |-> SubSeq(text, nth[n], end(nth[n]))]

HoldsWords(typedText, text) ==
    \A n \in DOMAIN WordsOf(typedText) : ContainsText(WordsOf(typedText)[n], text)

\* Each word at its earliest place after the one before.
HoldsWordsInOrder(typedText, text) ==
    LET words == WordsOf(typedText)
        \* Where the search goes on after the first n words; past the text
        \* when they are not all there.
        after[n \in 0..Len(words)] ==
            IF n = 0 THEN 0
            ELSE LET found == Places(words[n], text, after[n - 1]) IN
                 IF found = {} THEN Len(text) + 1 ELSE Smallest(found) + Len(words[n])
    IN after[Len(words)] <= Len(text)

-----------------------------------------------------------------------------
(* Matching: how a text matches what is typed, lower first. *)

\* Rank; NoRank is None.
Prefix == <<0, 0, 0>>
OtherCasePrefix == <<1, 0, 0>>
ContainsRank == <<2, 0, 0>>
Unordered == <<3, 0, 0>>
Gapped(skipped, start) == <<4, skipped, start>>
NoRank == <<5, 0, 0>>
Before(a, b) ==
    \/ a[1] < b[1]
    \/ a[1] = b[1] /\ (a[2] < b[2] \/ (a[2] = b[2] /\ a[3] < b[3]))

Starts(h, t, text) ==
    IF IsPrefix(t, text) THEN Prefix
    ELSE IF /\ h.ignoreCase /\ Len(t) <= Len(text)
            /\ \A i \in DOMAIN t : Same(h, text[i], t[i])
    THEN OtherCasePrefix ELSE NoRank

ContainsTyped(h, t, text) ==
    ContainsText(t, text) \/ (h.ignoreCase /\ ContainsText(Folded(t), Folded(text)))

Holds(h, t, text) ==
    LET words == IF h.ignoreCase THEN Folded(t) ELSE t
        whole == IF h.ignoreCase THEN Folded(text) ELSE text
    IN IF ~HoldsWords(words, whole) THEN NoRank
       ELSE IF HoldsWordsInOrder(words, whole) THEN ContainsRank ELSE Unordered

\* How many characters of t are matched, going forward from `from' to each end.
MatchedTo(h, t, text, from) ==
    LET run[end \in from..Len(text)] ==
            IF end = from THEN 0
            ELSE LET want == run[end - 1] IN
                 IF want < Len(t) /\ Same(h, text[end], t[want + 1]) THEN want + 1 ELSE want
    IN run
InOrder(h, t, text) == MatchedTo(h, t, text, 0)[Len(text)] = Len(t)

\* tightest: its length and start.  Forward to the earliest end, then back to
\* the latest start; the next round starts after that start.
TightestStopsAtFirst(h, t, text) ==
    LET run == MatchedTo(h, t, text, 0)
        end == Smallest({e \in 0..Len(text) : run[e] = Len(t)})
        start == Largest({s \in 0..end : MatchedTo(h, t, SubSeq(text, 1, end), s)[end] = Len(t)})
    IN IF Len(t) = 0 \/ run[Len(text)] < Len(t) THEN <<>> ELSE <<end - start, start>>
\* How many of t are still wanted, going back from `end' to each start.
WantedFrom(h, t, text, end) ==
    LET wanted[start \in 0..end] ==
            IF start = end THEN Len(t)
            ELSE LET want == wanted[start + 1] IN
                 IF want > 0 /\ Same(h, text[start + 1], t[want]) THEN want - 1 ELSE want
    IN wanted
StartFor(h, t, text, end) ==
    LET wanted == WantedFrom(h, t, text, end) IN Largest({start \in 0..end : wanted[start] = 0})
EndsFrom(h, t, text, from) ==
    LET run == MatchedTo(h, t, text, from) IN {e \in from..Len(text) : run[e] = Len(t)}
Shorter(length, start, later) ==
    IF later # <<>> /\ later[1] < length THEN later ELSE <<length, start>>
Tightest(h, t, text) ==
    LET best[from \in 0..Len(text) + 1] ==
            LET ends == IF from > Len(text) THEN {} ELSE EndsFrom(h, t, text, from)
                end == Smallest(ends)
                start == StartFor(h, t, text, end)
            IN IF ends = {} THEN <<>> ELSE Shorter(end - start, start, best[start + 1])
    IN IF Len(t) = 0 THEN <<>> ELSE best[0]

\* rank
FuzzyRank(t, match) == IF match = <<>> THEN NoRank ELSE Gapped(match[1] - Len(t), match[2])
RankElsewhere(h, t, text) ==
    CASE h.style = "prefix" -> NoRank
      [] h.style = "substring" -> IF ContainsTyped(h, t, text) THEN ContainsRank ELSE NoRank
      [] h.style = "orderless" -> Holds(h, t, text)
      [] h.style = "fuzzy" -> FuzzyRank(t, Tightest(h, t, text))
RankOr(starts, h, t, text) == IF starts # NoRank THEN starts ELSE RankElsewhere(h, t, text)
RankOf(h, t, text) == RankOr(Starts(h, t, text), h, t, text)

\* item_rank: a mode server's quoted item is matched after the mark too.
BetterOf(whole, after) == IF Before(after, whole) THEN after ELSE whole
Quoted(item) == item.source = "mode" /\ item.text # <<>> /\ Head(item.text) = QuoteMark
ItemRank(h, t, item) ==
    IF Quoted(item) THEN BetterOf(RankOf(h, t, item.text), RankOf(h, t, Tail(item.text)))
    ELSE RankOf(h, t, item.text)

-----------------------------------------------------------------------------
(* HistoryGather *)

Kinds == {"same case", "other case", "not prefix", "unordered"}
\* Kind::of
KindOf(rank) ==
    CASE rank = Prefix -> "same case"
      [] rank = OtherCasePrefix -> "other case"
      [] rank = Unordered -> "unordered"
      [] OTHER -> "not prefix"

NoneTaken == [items |-> <<>>, taken |-> [kind \in Kinds |-> 0]]
Room(g, kind) == g.taken[kind] < HistoryLimit

\* offer's kind of an entry: what can be told without ranking it, and is
\* not looked at once its kind is full.
KindsElsewhere(g, h, t, entry) ==
    CASE h.style = "substring" /\ Room(g, "not prefix") /\ ContainsTyped(h, t, entry) -> {"not prefix"}
      [] h.style = "orderless" /\ (Room(g, "not prefix") \/ Room(g, "unordered")) ->
            {KindOf(rank) : rank \in {Holds(h, t, entry)} \ {NoRank}}
      [] h.style = "fuzzy" /\ Room(g, "not prefix") /\ InOrder(h, t, entry) -> {"not prefix"}
      [] OTHER -> {}
KindsWith(starts, g, h, t, entry) ==
    IF starts # NoRank THEN {KindOf(starts)} ELSE KindsElsewhere(g, h, t, entry)
OfferedKinds(g, h, t, entry) == KindsWith(Starts(h, t, entry), g, h, t, entry)

HistoryItem(t, entry) == [text |-> entry, start |-> 0, end |-> Len(t), source |-> "history"]

New(g, t, entry) ==
    entry # t /\ Drawable(entry) /\ \A i \in DOMAIN g.items : g.items[i].text # entry
Taken(g, t, entry, kind) ==
    [items |-> Append(g.items, HistoryItem(t, entry)), taken |-> [g.taken EXCEPT ![kind] = @ + 1]]
TakenAs(kinds, g, t, entry) ==
    IF kinds # {} /\ New(g, t, entry) THEN Taken(g, t, entry, CHOOSE kind \in kinds : TRUE) ELSE g
\* The room is one for all that do not start with the line.
OfferedSharingRoom(g, h, t, entry) ==
    IF g.taken["same case"] + g.taken["other case"] + g.taken["not prefix"] < HistoryLimit
    THEN TakenAs(OfferedKinds(g, h, t, entry), g, t, entry) ELSE g
Offered(g, h, t, entry) ==
    TakenAs({kind \in OfferedKinds(g, h, t, entry) : Room(g, kind)}, g, t, entry)
\* The scan can stop.
Full(g) == ~Room(g, "same case")

-----------------------------------------------------------------------------
(* assemble *)

Applied(t, item) == SubSeq(t, 1, item.start) \o item.text \o SubSeq(t, item.end + 1, Len(t))

\* ordered: a stable sort by rank of the items that match.
Ranked(t, point, h, items) ==
    [i \in DOMAIN items |->
        [item |-> items[i], rank |-> ItemRank(h, SubSeq(t, items[i].start + 1, point), items[i])]]
Matches(t, point, r) ==
    r.item.start <= point /\ point <= r.item.end /\ r.item.end <= Len(t) /\ r.rank # NoRank
Matched(t, point, ranked) == Picked(ranked, {i \in DOMAIN ranked : Matches(t, point, ranked[i])})
Ahead(kept, i) ==
    {j \in DOMAIN kept : \/ Before(kept[j].rank, kept[i].rank)
                         \/ kept[j].rank = kept[i].rank /\ j < i}
PlaceOf(kept, i) == 1 + Cardinality(Ahead(kept, i))
Sorted(kept) ==
    [n \in DOMAIN kept |-> kept[CHOOSE i \in DOMAIN kept : PlaceOf(kept, i) = n].item]
OrderedByTyped(t, point, h, items) ==
    LET kept == Matched(t, point, Ranked(t, point, h, items))
    IN [n \in DOMAIN kept |-> kept[n].item]
Ordered(t, point, h, items) ==
    Sorted(Matched(t, point, Ranked(t, point, h, items)))

\* The order of the sources: history, the suggestion hook's line, the mode
\* server's items, bash's, and the completion hook's.
FirstOfEach(t, items, lines) ==
    Picked(items, {i \in DOMAIN items : lines[i] # t /\ \A j \in 1..(i - 1) : lines[j] # lines[i]})
Distinct(t, items) == FirstOfEach(t, items, [i \in DOMAIN items |-> Applied(t, items[i])])
Drawn(items) == Picked(items, {i \in DOMAIN items : Drawable(items[i].text)})
Assemble(t, point, h, items) == Distinct(t, Drawn(Ordered(t, point, h, items)))

\* Listed::lists
Lists(listed, point, item) ==
    item.source \in listed.sources /\ point - item.start >= listed.minChars

Listed(listed, point, items) ==
    Picked(items, {i \in DOMAIN items : Lists(listed, point, items[i])})

First(s) == IF s = <<>> THEN <<>> ELSE <<Head(s)>>
\* menu_for, for a menu that is not the one kept: the listed items are
\* assembled on their own; the top one is of all.
MenuForFiltered(t, h, items, listed) ==
    [items |-> Listed(listed, Len(t), Assemble(t, Len(t), h, items)),
     top |-> First(Assemble(t, Len(t), h, items))]
MenuFor(t, h, items, listed) ==
    [items |-> Assemble(t, Len(t), h, Listed(listed, Len(t), items)),
     top |-> First(Assemble(t, Len(t), h, items))]

\* grey: what is shown after the line.
Grey(t, item) ==
    LET wanted == SubSeq(t, item.start + 1, Len(t)) IN
    IF item.end = Len(t) /\ IsStrictPrefix(wanted, item.text)
    THEN SubSeq(item.text, Len(wanted) + 1, Len(item.text)) ELSE <<>>

-----------------------------------------------------------------------------
(* One line's menu: history is looked through, and the menu is made. *)

RankingInit ==
    /\ typed \in LinesTyped /\ how \in Matchings
    /\ history = <<>> /\ gather = NoneTaken /\ menu = NoMenu

Offer(entry) ==
    /\ menu = NoMenu /\ ~Full(gather)
    /\ Len(history) < MaxOffered /\ Len(FlattenSeq(history)) + Len(entry) <= MaxChars
    /\ history' = Append(history, entry)
    /\ gather' = Offered(gather, how, typed, entry)
    /\ UNCHANGED <<typed, how, menu>>

Gathers(offer) ==
    /\ menu = NoMenu
    /\ LET made == MenuFor(typed, how, gather.items \o offer.items, offer.listed)
       IN menu' = [items |-> made.items, top |-> made.top, offer |-> offer]
    /\ UNCHANGED <<typed, how, history, gather>>

RankingNext ==
    \/ \E entry \in Entries : Offer(entry)
    \/ \E offer \in Offers[typed] : Gathers(offer)

RankingSpec == RankingInit /\ [][RankingNext]_rankingVars

-----------------------------------------------------------------------------
(* What the menu must hold. *)

\* A reference for each text's rank: the whole text looked at, in every way.
\* Every place where `t' is in `text' in order, with gaps.
Gaps(h, t, text) ==
    {w \in (0..Len(text)) \X (0..Len(text)) :
        /\ w[1] <= w[2] /\ w[2] - w[1] >= Len(t)
        /\ \E S \in SUBSET ((w[1] + 1)..w[2]) :
             /\ Cardinality(S) = Len(t)
             /\ \A i \in S : Same(h, text[i], t[Cardinality({j \in S : j <= i})])}
ShortestOf(gaps) ==
    LET shortest == Smallest({w[2] - w[1] : w \in gaps})
    IN <<shortest, Smallest({w[1] : w \in {v \in gaps : v[2] - v[1] = shortest}})>>
ShortestGap(t, gaps) == IF t = <<>> \/ gaps = {} THEN <<>> ELSE ShortestOf(gaps)

\* A match with gaps is ranked by the shortest stretch of the text that holds
\* what is typed, and the first of these: no round of `tightest' skips it.
TightestIsShortest ==
    how.style = "fuzzy" /\ menu = NoMenu /\ history # <<>> =>
        Tightest(how, typed, Last(history)) = ShortestGap(typed, Gaps(how, typed, Last(history)))

\* An entry of history is in the menu's items unless as many newer entries
\* match the line in the same way: no number of entries that match worse, or
\* better, keeps it out, whatever order they are in, and what offer tells of
\* an entry without ranking it is what the menu's ranks say.
NoKindCrowdsAnother ==
    LET wanted == {i \in DOMAIN history :
                      /\ history[i] # typed /\ Drawable(history[i])
                      /\ RankOf(how, typed, history[i]) # NoRank
                      /\ \A j \in 1..(i - 1) : history[j] # history[i]}
        kind(i) == KindOf(RankOf(how, typed, history[i]))
        kept == {i \in wanted :
                    Cardinality({j \in wanted : j < i /\ kind(j) = kind(i)}) < HistoryLimit}
    IN menu = NoMenu => {gather.items[n].text : n \in DOMAIN gather.items} = {history[i] : i \in kept}

\* No match is ranked, or left out of the gathering, for less than its best.
GatheredAtTheirBest == TightestIsShortest /\ NoKindCrowdsAnother

\* Each listed source's item that is for the text up to the cursor and matches is
\* listed, or another listed one that gives the same line: one of a source that
\* is not listed never takes its place.
UpToCursor(item) == item.start <= Len(typed) /\ item.end = Len(typed)
RankHere(item) == ItemRank(how, SubSeq(typed, item.start + 1, Len(typed)), item)
ListedNotHidden ==
    menu # NoMenu =>
        \A item \in ToSet(gather.items \o menu.offer.items) :
            /\ UpToCursor(item) /\ Lists(menu.offer.listed, Len(typed), item)
            /\ RankHere(item) # NoRank /\ Drawable(item.text) /\ Applied(typed, item) # typed
            => \E n \in DOMAIN menu.items : Applied(typed, menu.items[n]) = Applied(typed, item)

\* What is listed comes best match first.
BestFirst ==
    \A n \in 2..Len(menu.items) : ~Before(RankHere(menu.items[n]), RankHere(menu.items[n - 1]))

\* The grey text goes on from the line with the item that matches best: when
\* some item starts with what is typed and none starts with it after a quote
\* mark, there is grey text, and it is not that of an item further down.
GreyWhenOneStarts ==
    LET items == gather.items \o menu.offer.items
        starts == {i \in DOMAIN items :
                      /\ UpToCursor(items[i]) /\ Drawable(items[i].text)
                      /\ Grey(typed, items[i]) # <<>>}
        marked == {i \in DOMAIN items : Quoted(items[i])}
    IN menu # NoMenu /\ starts # {} /\ marked = {} =>
           menu.top # <<>> /\ Grey(typed, menu.top[1]) # <<>>

\* The best match of all is the grey text, the listed ones are there, best first.
BestIsShown == ListedNotHidden /\ BestFirst /\ GreyWhenOneStarts
=============================================================================
