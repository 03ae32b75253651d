-------------------------------- MODULE Indent --------------------------------
(***************************************************************************)
(* How the lines of a command of several lines are indented (indent.rs).    *)
(* A word or an operator is one character here, as are the blanks and the   *)
(* newline; comments are left out.                                          *)
(***************************************************************************)
EXTENDS Lines

CONSTANTS
    Words,      \* the characters that make up words
    Do,         \* `do', `then' and `else'
    Open,       \* `{' and `('
    OpenParen, CloseParen,
    Case, In, EndOfBody,  \* `case', `in' and `;;'
    Closers,    \* CLOSERS
    Continuers, \* CONTINUERS, but for the backslash
    Separators, \* those of STARTS_COMMAND that are none of these
    Quote,      \* a quote mark
    Step,       \* inkline-indent
    MostDepth   \* MOST_DEPTH

ASSUME IndentConstantsOK ==
    /\ Words \cup Do \cup Open \cup Closers \cup Continuers \cup Separators \subseteq Chars
    /\ {Quote, OpenParen, CloseParen, Case, In, EndOfBody} \subseteq Chars
    /\ Step \in Nat /\ MostDepth \in Nat

StartsCommand == Do \cup Open \cup Continuers \cup Separators

Spaces(n) == [i \in 1 .. n |-> Space]
LineAt(text, point) == SubSeq(text, LineStart(text, point) + 1, LineEnd(text, point))
Indentation(line) == SubSeq(line, 1, IndentationEnd(line, 0))
WidthFrom0(text) == FoldLeft(Advance, 0, text)

\* Quotes: a backslash before a mark escapes it.
Escaped(text, i) ==
    LET slashes == {j \in 1 .. i : \A k \in j .. i - 1 : text[k] = Backslash} IN
    (i - Min(slashes)) % 2 = 1
Quotes(text) == {i \in DOMAIN text : text[i] = Quote /\ ~Escaped(text, i)}
StartsCode(text, point) == Cardinality({i \in Quotes(text) : i <= point}) % 2 = 0
OpenQuote(text, point) == Max({i \in Quotes(text) : i <= point}) - 1

-----------------------------------------------------------------------------
(* tokens: a string is a token of its own, whatever is in it. *)
Tokens(line) ==
    LET places == SelectSeq([i \in DOMAIN line |-> i],
                            LAMBDA i : ~IsBlank(line[i]) /\ StartsCode(line, i - 1))
    IN [k \in DOMAIN places |->
          [text |-> line[places[k]],
           command |-> k = 1 \/ line[places[k - 1]] \in StartsCommand]]

EndsWith(toks, chars) == toks # <<>> /\ Last(toks).text \in chars
Continues(line) ==
    EndsWith(Tokens(line), Continuers) \/ (line # <<>> /\ Last(line) = Backslash)

\* has_pattern: a `)' that no `(' of the line opens, past those it starts with.
HasPattern(toks) ==
    LET leading == Min({k \in DOMAIN toks : toks[k].text # CloseParen} \cup {Len(toks) + 1})
        count(c, k) == Cardinality({j \in leading .. k : toks[j].text = c})
    IN \E k \in leading .. Len(toks) : count(CloseParen, k) > count(OpenParen, k)

Opens(toks) ==
    /\ toks # <<>>
    /\ \/ Last(toks).command /\ Last(toks).text \in Do
       \/ Last(toks).text \in Open
       \/ Last(toks).text = In /\ \E k \in DOMAIN toks : toks[k].command /\ toks[k].text = Case
       \/ Last(toks).text = CloseParen /\ HasPattern(toks)

Shallower(base) ==
    LET trailing == {n \in 0 .. Len(base) : \A i \in Len(base) - n + 1 .. Len(base) : base[i] = Space}
    IN IF base # <<>> /\ Last(base) = Tab THEN Front(base)
       ELSE SubSeq(base, 1, Len(base) - Min({Max(trailing), Step}))

\* for_new_line
ForNewLine(text, point) ==
    LET start == LineStart(text, point)
        line == SubSeq(text, start + 1, point)
        toks == Tokens(line)
        base == Indentation(line)
        continued == start > 0 /\ Continues(LineAt(text, start - 1))
    IN IF Continues(line) THEN (IF continued THEN base ELSE base \o Spaces(Step))
       ELSE IF Opens(toks) THEN base \o Spaces(Step)
       ELSE IF continued \/ (EndsWith(toks, {EndOfBody}) /\ ~HasPattern(toks)) THEN Shallower(base)
       ELSE base

\* One step of the spaces that an indentation starts with, or one tab.
FirstBlanksAll(base) == Len(base)
FirstBlanks(base) ==
    IF base # <<>> /\ Head(base) = Tab THEN 1
    ELSE Max({n \in 0 .. Min({Step, Len(base)}) : SubSeq(base, 1, n) = Spaces(n)})

\* outdent: how many blanks go from the start of a line.
Outdent(line) ==
    IF Tokens(line) = <<>> \/ Head(Tokens(line)).text \notin Closers THEN 0
    ELSE FirstBlanks(Indentation(line))

-----------------------------------------------------------------------------
(* Scripts of a mode: for_depth and script_line. *)

ForDepth(base, depth) == base \o Spaces((1 + Min({depth, MostDepth})) * Step)

\* depths: what the mode's server gave (none: <<>>); its `current' may be
\* none too.  movedOut is none or one indentation.
ScriptLine(text, point, commandLine, firstLine, depths) ==
    LET start == LineStart(text, point)
        present == Indentation(LineAt(text, point))
        base == Indentation(LineAt(text, commandLine))
        out == IF depths = <<>> \/ depths[1].current = <<>> THEN <<>>
               ELSE <<ForDepth(base, depths[1].current[1])>>
    IN [newLine |-> IF depths # <<>> THEN ForDepth(base, depths[1].new)
                    ELSE IF start = firstLine THEN ForDepth(base, 0) ELSE present,
        movedOut |-> IF /\ out # <<>> /\ start # firstLine /\ point > start + Len(present)
                        /\ WidthFrom0(out[1]) < WidthFrom0(present)
                     THEN out ELSE <<>>]
=============================================================================
