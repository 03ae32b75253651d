------------------------------ MODULE BashWords ------------------------------
(***************************************************************************)
(* The word bash would complete, and when bash's answer for one word serves *)
(* another (bash_complete.rs).                                             *)
(*                                                                         *)
(* A text is a sequence of characters, "/" and "-" among them.  A word is  *)
(* the text typed at a place; a place is the rest of the line, before the  *)
(* word's start and after the cursor.                                      *)
(***************************************************************************)
EXTENDS Naturals, Sequences

IsPrefixOf(s, t) ==
    Len(s) <= Len(t) /\ \A i \in 1 .. Len(s) : s[i] = t[i]

IsFlag(t) == Len(t) > 0 /\ t[1] = "-"

\* directory, of two texts of which one goes on from the other: up to and
\* including the last `/' they are the same text when their `/'s are at the
\* same places.
SlashPlaces(t) == {i \in 1 .. Len(t) : t[i] = "/"}
SameDirectory(s, t) == SlashPlaces(s) = SlashPlaces(t)

SamePlace(w, v) == w.place = v.place

FitsAnyDash(asked, word) ==
    /\ SamePlace(asked, word)
    /\ IsPrefixOf(asked.typed, word.typed)
    /\ SameDirectory(asked.typed, word.typed)
Fits(asked, word) ==
    /\ SamePlace(asked, word)
    /\ IsPrefixOf(asked.typed, word.typed)
    /\ SameDirectory(asked.typed, word.typed)
    /\ ~(asked.typed = <<>> /\ IsFlag(word.typed))

\* menu.rs, matches, in the default style: the typed text is somewhere in it.
Matches(typed, text) ==
    \E k \in 0 .. Len(text) :
        k + Len(typed) <= Len(text) /\ \A i \in 1 .. Len(typed) : text[k + i] = typed[i]

-----------------------------------------------------------------------------
(* bash, as far as fits counts on it.                                      *)

\* What bash's own Tab lists for the text `typed', of all the texts `offered'
\* that a rule or the file system has at the place: those that go on from it,
\* one directory at a time, what a directory holds once its `/' is typed, and
\* flags only for a word that starts with `-'.
Tab(offered, typed) ==
    {c \in offered :
        /\ IsPrefixOf(typed, c)
        /\ \A i \in Len(typed) + 1 .. Len(c) - 1 : c[i] # "/"
        /\ Len(c) \notin SlashPlaces(typed)
        /\ IsFlag(c) => IsFlag(typed)}

\* The rows of an answer that go on from `typed'.
GoOnFrom(typed, items) == {c \in items : IsPrefixOf(typed, c)}
=============================================================================
