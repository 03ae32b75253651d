------------------------------- MODULE MCEditor -------------------------------
(* An instance of Editor for TLC. *)
EXTENDS Editor

CONSTANTS w, do, done, open, close, pipe, quote, m, case, in, ends, blank, tab, nl, backslash

MCWidthOf == [c \in Chars |-> 1]
MCCloserOf == [c \in {open, quote} |-> IF c = open THEN close ELSE quote]

\* An empty line; a block within a block with its closing words indented; a
\* split word after an escaped blank; a bracket pair; a case pattern; a string
\* of two lines; a mode's script, and an empty pair of quotes after its word.
MCStarting ==
    {<<>>,
     <<do, nl, blank, done, w>>,
     <<w, backslash, blank, blank, w>>,
     <<open, close>>,
     <<case, w, in, nl, tab, w, close>>,
     <<w, quote, blank, nl, blank, w, quote>>,
     <<blank, m, quote, w, nl, blank, blank, blank, w, quote>>,
     <<m, quote, quote>>}
MCNewLine == {<<>>}
MCFound == {<<open, close>>, <<w>>}
MCDepthAnswers == {<<>>, <<[current |-> <<0>>, new |-> 1]>>, <<[current |-> <<>>, new |-> 2]>>}
=============================================================================
