---------------------------- MODULE HistorySearch ----------------------------
(***************************************************************************)
(* The prefix and substring searches of the Up and Down keys                *)
(* (history_search.rs): which history entry the next match is.  The places  *)
(* of history are 1 .. Len(texts), from the oldest entry; the place past    *)
(* the newest is one more.                                                  *)
(***************************************************************************)
EXTENDS Lines

CONSTANTS
    Fold,        \* a character in lowercase
    IgnoreCase   \* search-ignore-case

ASSUME HistorySearchConstantsOK == Fold \in [Chars -> Chars] /\ IgnoreCase \in BOOLEAN

Kinds == {"prefix", "substring"}

\* HistorySearch; an Option of a text is a sequence of none or one.
Searches ==
    [kind : Kinds, text : Texts, line : Texts, point : Nat, start : Nat, end : Nat,
     startFound : BOOLEAN, at : Nat, lastFound : Seq(Texts), goingOn : BOOLEAN]

\* found_at
IsFound(s) == s.lastFound # <<>> \/ s.startFound

StartedPastItsEntries(s) == s.start = s.end
GivesBackStart(s) == StartedPastItsEntries(s) /\ s.at # s.start

Holds(text, part) ==
    \E i \in 0 .. Len(text) - Len(part) : SubSeq(text, i + 1, i + Len(part)) = part

\* SearchText::matches, where every text is UTF-8.
Folded(text) == IF IgnoreCase THEN [i \in DOMAIN text |-> Fold[text[i]]] ELSE text
Matches(s, text) ==
    IF s.kind = "prefix" THEN IsPrefix(Folded(s.text), Folded(text))
                         ELSE Holds(Folded(text), Folded(s.text))

\* prefix_end
PrefixEnd(s, line) == Min({Len(s.text), Len(line)})

-----------------------------------------------------------------------------
(* next_match.                                                              *)

\* The places beyond `at' that are older than `end', nearest first.
Ahead(s, up) ==
    LET newest == Min({s.at, s.end}) IN
    IF up THEN [i \in 1 .. newest - 1 |-> newest - i]
          ELSE [i \in 1 .. Max({0, s.end - 1 - s.at}) |-> s.at + i]

\* Whether a search wants an entry of that text.
Wants(s, text) == Matches(s, text) /\ ~(StartedPastItsEntries(s) /\ text = s.line)

\* The scan: how many matches are left to find, the last place it found, the
\* last it saw, and the text that a match passed over repeats.
Looked(s, scan, text, place) ==
    IF scan.left = 0 \/ ~Wants(s, text) THEN scan
    ELSE IF scan.last = <<text>> THEN [scan EXCEPT !.seen = place]
    ELSE [left |-> scan.left - 1, found |-> place, seen |-> place, last |-> <<text>>]

\* The scan after each of those places.
Scans(s, texts, count, places) ==
    LET scan[k \in 0 .. Len(places)] ==
          IF k = 0 THEN [left |-> count, found |-> 0, seen |-> 0, last |-> s.lastFound]
          ELSE Looked(s, scan[k - 1], texts[places[k]], places[k])
    IN scan
Scan(s, texts, count, up) ==
    LET places == Ahead(s, up) IN Scans(s, texts, count, places)[Len(places)]

\* The place of the match, or 0.
NextMatchFound(s, texts, count, up) ==
    LET scan == Scan(s, texts, count, up) IN
    IF ~StartedPastItsEntries(s) \/ up \/ scan.left = 0 \/ ~GivesBackStart(s)
    THEN scan.found ELSE 0
NextMatch(s, texts, count, up) ==
    LET scan == Scan(s, texts, count, up) IN
    IF ~StartedPastItsEntries(s) THEN scan.seen
    ELSE IF up \/ scan.left = 0 \/ ~GivesBackStart(s) THEN scan.found
    ELSE 0

-----------------------------------------------------------------------------
(* What a search promises: it steps over the texts that match, not over     *)
(* their entries.                                                           *)

\* Which of those places match, and which start a run of equal matches; a first
\* run that repeats the last match found does not count.
Matching(s, texts, places) == {i \in DOMAIN places : Wants(s, texts[places[i]])}
Repeats(s, texts, places, i) ==
    LET before == {j \in Matching(s, texts, places) : j < i} IN
    <<texts[places[i]]>> = IF before = {} THEN s.lastFound ELSE <<texts[places[Max(before)]]>>
Heads(s, texts, places) ==
    {i \in Matching(s, texts, places) : ~Repeats(s, texts, places, i)}

NthOf(S, n) == CHOOSE i \in S : Cardinality({j \in S : j <= i}) = n
LastOf(S, places) == IF S = {} THEN 0 ELSE places[Max(S)]

\* The match count away: the first of the count-th run of equal matches, or,
\* with fewer, the last run, or for a search inside history the last match.
\* Down from a search that gives back its start runs past its newest match.
PromisedMatch(s, texts, count, up) ==
    LET places == Ahead(s, up)
        heads == Heads(s, texts, places) IN
    IF count <= Cardinality(heads) THEN places[NthOf(heads, count)]
    ELSE IF ~StartedPastItsEntries(s) THEN LastOf(Matching(s, texts, places), places)
    ELSE IF ~up /\ GivesBackStart(s) THEN 0
    ELSE LastOf(heads, places)
=============================================================================
