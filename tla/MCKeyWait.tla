----------------------------- MODULE MCKeyWait -----------------------------
(* KeyWait on a small instance, and what is checked of it. *)
EXTENDS KeyWait

\* A C-c acts once, and in its turn.  A line is thrown away only for a C-c
\* since the last one that was, whatever flags Lisp left.  While Lisp runs and
\* no line is read under it, bash's hook never runs: it would jump over Lisp's
\* frames, free the line's undo list, run traps.  And Lisp does not go on, with
\* the key a question or command of its got or without, after a C-c that came
\* since it called it, whoever took the C-c.
CtrlCInTurn == [][lastly' \notin {"thrown unasked", "bash ran over Lisp", "went on"}]_vars

\* The keys typed after a C-c that bash has yet to act on go to one line: the
\* C-c is not acted on between two of them but by a signal of its own.
KeysStayTogether == [][lastly' # "thrown before the wait"]_vars

\* A C-c is acted on without another key, also one that came while Lisp ran.
\* Not so for one that came just before the wait started, one the user typed
\* on after, and one readline passed on to bash before Lisp, or the command
\* Lisp called, asked for its next key.
CtrlCActs ==
    owed ~> \/ ~owed
            \/ at = "waiting" /\ (late \/ keysAfter \/ (InLisp /\ bashHas))

\* A new error shows once typing pauses, however often servers wake the wait.
ErrorShows ==
    (at = "waiting" /\ mode = "line" /\ newError)
        ~> \/ ~newError
           \/ at \in {"erase", "noted", "signal"}
=============================================================================
