------------------------------- MODULE Lockout -------------------------------
(***************************************************************************)
(* What keeps an `init.el' that never ends from locking its user out of    *)
(* new shells (lisp/lockout.rs, lisp/init.rs): each shell leaves a marker   *)
(* file while it runs Lisp at its start, and one that finds a marker of a  *)
(* shell that did not finish skips the file until it changes.              *)
(*                                                                         *)
(* The shells of one user share the file and the markers, and step in any  *)
(* order; each system call is a step.  A shell is one process: it runs     *)
(* once, and its pid may be another's once it has ended.  `pc' is where it *)
(* is:                                                                     *)
(*   "out"                   not started;                                  *)
(*   "text", "stat"          read is about to read init.el, and to ask     *)
(*                           when it was changed;                          *)
(*   "list", "judge"         stuck_markers reads the directory, and asks   *)
(*                           which shells are alive;                       *)
(*   "clear", "mark"         stuck markers are removed, its own is made;   *)
(*   "load", "hook"          it runs init.el, or the line-start hook;      *)
(*   "started", "prompt"     before its first line, and from there on;     *)
(*   "ended".                                                              *)
(* Lisp may run as long as it likes: nothing tells a shell that hangs from *)
(* one that is slow but that it is ended.                                  *)
(***************************************************************************)
EXTENDS Naturals, FiniteSets

CONSTANTS
    Shells,      \* processes, each started once at most
    Pids,        \* process ids
    None,        \* Rust's None
    StuckAfter,  \* STUCK_AFTER
    MaxNow,      \* bound: the clock
    MaxSaves,    \* bound: changes of init.el
    MaxMarks     \* bound: markers all the shells make

ASSUME LockoutConstantsOK ==
    /\ None \notin Shells \cup Pids \cup {"load", "hook"}
    /\ None \notin [made : Nat, by : Shells, nth : Nat]   \* a marker
    /\ StuckAfter \in Nat /\ MaxNow \in Nat /\ MaxSaves \in Nat /\ MaxMarks \in Nat

VARIABLES
    \* the clock, init.el and the marker directory
    now, file, markers,
    \* the shells: where they are, their pids, and the locals of read
    pc, why, pid, text, changed, seen,
    \* history: markers a shell made, the version of init.el it ran last, what
    \* it was ended in, the markers its reloads have seen stuck, the shells
    \* that had hung as it read the text, and the races there have been
    marks, ran, endedIn, forgiven, known, races

disk    == <<now, file, markers>>
locals  == <<why, pid, text, changed, seen>>
history == <<marks, ran, endedIn, forgiven, known, races>>
vars    == <<disk, pc, locals, history>>

Kinds == {"loading", "hooks"}
Lisp == {"load", "hook"}
Alive(s) == pc[s] \notin {"out", "ended"}
\* process_alive
ProcessAlive(p) == \E s \in Shells : Alive(s) /\ pid[s] = p

\* <kind>.<pid>, when it was made, and (history) by which shell, as its n-th.
Marker == [made : 0 .. MaxNow, by : Shells, nth : Nat]
\* A marker as stuck_markers has read it.
Seen == [kind : Kinds, pid : Pids, is : Marker, old : BOOLEAN]

\* The shells that were ended in Lisp, but for those whose marker a reload has
\* since seen stuck: the user asked to try again.
Forgiven(s) == \E t \in Shells : \E m \in forgiven[t] : m.by = s /\ m.nth = marks[s]
Hung == {s \in Shells : endedIn[s] \in Lisp /\ ~Forgiven(s)}

\* Within the bound another marker may be made.
MarksMade == {m \in Shells \X (1 .. MaxMarks) : m[2] <= marks[m[1]]}
MayMark == Cardinality(MarksMade) < MaxMarks

Goto(s, place) == pc' = [pc EXCEPT ![s] = place]
\* read's locals, once it needs them no more.
LocalsGone(s) ==
    /\ text' = [text EXCEPT ![s] = 0] /\ changed' = [changed EXCEPT ![s] = 0]
    /\ seen' = [seen EXCEPT ![s] = {}] /\ known' = [known EXCEPT ![s] = {}]
\* read returns: at the start, or to the prompt.
AfterRead(s) == IF why[s] = "start" THEN "started" ELSE "prompt"

-----------------------------------------------------------------------------
(* read, in one shell. *)

\* A marker of that pid is there, or has been seen by one that will judge it.
HasMarker(p) ==
    \/ \E k \in Kinds : markers[<<k, p>>] # None
    \/ \E s \in Shells : \E m \in seen[s] : m.pid = p

\* start_for_shell: the first `enable -f' of a new process.
Starts(s) ==
    /\ pc[s] = "out"
    /\ \E p \in {q \in Pids : ~ProcessAlive(q)} :
         /\ pid' = [pid EXCEPT ![s] = p]
         /\ races' = races \cup (IF HasMarker(p) THEN {"pid"} ELSE {})
    /\ why' = [why EXCEPT ![s] = "start"]
    /\ Goto(s, "text")
    /\ UNCHANGED <<disk, text, changed, seen, marks, ran, endedIn, forgiven, known>>

\* read_checked
ReadsText(s) ==
    /\ pc[s] = "text"
    /\ text' = [text EXCEPT ![s] = file.version]
    /\ known' = [known EXCEPT ![s] = Hung]
    /\ Goto(s, "stat")
    /\ UNCHANGED <<disk, why, pid, changed, seen, marks, ran, endedIn, forgiven, races>>

Stats(s) ==
    /\ pc[s] = "stat"
    /\ changed' = [changed EXCEPT ![s] = file.changed]
    /\ Goto(s, "list")
    /\ UNCHANGED <<disk, why, pid, text, seen, history>>

\* stuck_markers: the directory and each marker's time.
Listing ==
    {[kind |-> n[1], pid |-> n[2], is |-> markers[n], old |-> now - markers[n].made > StuckAfter] :
        n \in {m \in Kinds \X Pids : markers[m] # None}}
Lists(s) ==
    /\ pc[s] = "list"
    /\ seen' = [seen EXCEPT ![s] = Listing]
    /\ Goto(s, "judge")
    /\ UNCHANGED <<disk, why, pid, text, changed, history>>

\* stuck_markers: whose shell has ended, or that are too old.
Stuck(s) == {m \in seen[s] : m.old \/ ~ProcessAlive(m.pid)}
\* skip_init
SkipsOnlyNewer(s) == \E m \in Stuck(s) : m.is.made > changed[s]
SkipInit(s) == \E m \in Stuck(s) : m.is.made >= changed[s]

Skips(s) ==
    /\ pc[s] = "judge" /\ why[s] # "forget" /\ SkipInit(s)
    /\ LocalsGone(s)
    /\ Goto(s, AfterRead(s))
    /\ UNCHANGED <<disk, why, pid, marks, ran, endedIn, forgiven, races>>

\* The stuck markers left to remove.  With none left, read_again goes on to
\* read, and read to make its own.
ToClear(s, ms) ==
    /\ seen' = [seen EXCEPT ![s] = ms]
    /\ Goto(s, IF ms # {} THEN "clear" ELSE IF why[s] = "forget" THEN "text" ELSE "mark")
    /\ why' = IF ms = {} /\ why[s] = "forget" THEN [why EXCEPT ![s] = "again"] ELSE why

\* What is stuck is to be removed: of a file changed since, or at a reload.
Judges(s) ==
    /\ pc[s] = "judge" /\ (why[s] = "forget" \/ ~SkipInit(s))
    /\ ToClear(s, Stuck(s))
    /\ forgiven' = [forgiven EXCEPT ![s] =
                      @ \cup (IF why[s] = "forget" THEN {m.is : m \in Stuck(s)} ELSE {})]
    /\ UNCHANGED <<disk, pid, text, changed, marks, ran, endedIn, known, races>>

\* remove_file, of each in turn.
Clears(s) ==
    /\ pc[s] = "clear"
    /\ \E m \in seen[s] :
         /\ markers' = [markers EXCEPT ![<<m.kind, m.pid>>] = None]
         /\ ToClear(s, seen[s] \ {m})
         /\ races' = races \cup (IF markers[<<m.kind, m.pid>>] \notin {None, m.is} THEN {"clear"} ELSE {})
    /\ UNCHANGED <<now, file, pid, text, changed, marks, ran, endedIn, forgiven, known>>

-----------------------------------------------------------------------------
(* Running Lisp, behind a marker. *)

\* make_marker: one of that name is removed first.
MakeMarker(s, kind) ==
    /\ markers' = [markers EXCEPT ![<<kind, pid[s]>>] = [made |-> now, by |-> s, nth |-> marks[s] + 1]]
    /\ marks' = [marks EXCEPT ![s] = @ + 1]
\* Drop for OwnMarker
DropMarker(s, kind) == markers' = [markers EXCEPT ![<<kind, pid[s]>>] = None]

Marks(s) ==
    /\ pc[s] = "mark" /\ MayMark
    /\ MakeMarker(s, "loading")
    /\ ran' = [ran EXCEPT ![s] = text[s]]
    /\ LocalsGone(s)
    /\ Goto(s, "load")
    /\ UNCHANGED <<now, file, why, pid, endedIn, forgiven, races>>

\* init.el has run, has failed, panicked, or was ended with C-c.
Loads(s) ==
    /\ pc[s] = "load"
    /\ DropMarker(s, "loading")
    /\ Goto(s, AfterRead(s))
    /\ UNCHANGED <<now, file, locals, history>>

\* run_line_start, at the first line: with functions in the hook, and without.
FirstLine(s) ==
    /\ pc[s] = "started"
    /\ \/ MayMark /\ MakeMarker(s, "hooks") /\ Goto(s, "hook")
       \/ UNCHANGED <<markers, marks>> /\ Goto(s, "prompt")
    /\ UNCHANGED <<now, file, locals, ran, endedIn, forgiven, known, races>>

HookReturnsKept(s) ==
    /\ pc[s] = "hook"
    /\ Goto(s, "prompt")
    /\ UNCHANGED <<disk, locals, history>>
HookReturns(s) ==
    /\ pc[s] = "hook"
    /\ DropMarker(s, "hooks")
    /\ Goto(s, "prompt")
    /\ UNCHANGED <<now, file, locals, history>>

\* `inkline reload': read_again.
Reload(s) ==
    /\ pc[s] = "prompt" /\ MayMark
    /\ why' = [why EXCEPT ![s] = "forget"]
    /\ Goto(s, "list")
    /\ UNCHANGED <<disk, pid, text, changed, seen, history>>

\* The shell exits, or is killed, wherever it is.
Ends(s) ==
    /\ Alive(s)
    /\ endedIn' = IF pc[s] \in Lisp THEN [endedIn EXCEPT ![s] = pc[s]] ELSE endedIn
    /\ LocalsGone(s) /\ why' = [why EXCEPT ![s] = "start"]
    /\ Goto(s, "ended")
    /\ UNCHANGED <<disk, pid, marks, ran, forgiven, races>>

-----------------------------------------------------------------------------
(* The user and the clock. *)

\* init.el is saved: another version, changed now.
Saves ==
    /\ file.version < MaxSaves + 1
    /\ file' = [version |-> file.version + 1, changed |-> now]
    /\ races' = races \cup (IF \E s \in Shells : pc[s] \in {"stat", "list"} /\ why[s] # "forget"
                              THEN {"save"} ELSE {})
    /\ UNCHANGED <<now, markers, pc, locals, marks, ran, endedIn, forgiven, known>>

Tick ==
    /\ now < MaxNow
    /\ now' = now + 1
    /\ UNCHANGED <<file, markers, pc, locals, history>>

-----------------------------------------------------------------------------
Init ==
    /\ now = 0 /\ file = [version |-> 1, changed |-> 0]
    /\ markers = [n \in Kinds \X Pids |-> None]
    /\ pc = [s \in Shells |-> "out"] /\ why = [s \in Shells |-> "start"]
    /\ pid = [s \in Shells |-> None]
    /\ text = [s \in Shells |-> 0] /\ changed = [s \in Shells |-> 0]
    /\ seen = [s \in Shells |-> {}]
    /\ marks = [s \in Shells |-> 0] /\ ran = [s \in Shells |-> 0]
    /\ endedIn = [s \in Shells |-> None] /\ forgiven = [s \in Shells |-> {}]
    /\ known = [s \in Shells |-> {}] /\ races = {}

Shell(s) ==
    \/ Starts(s) \/ ReadsText(s) \/ Stats(s) \/ Lists(s) \/ Skips(s) \/ Judges(s)
    \/ Clears(s) \/ Marks(s) \/ Loads(s) \/ FirstLine(s) \/ HookReturns(s)
    \/ Reload(s) \/ Ends(s)

Next == (\E s \in Shells : Shell(s)) \/ Saves \/ Tick

Spec == Init /\ [][Next]_vars

-----------------------------------------------------------------------------
(* Properties. *)

Places == {"out", "text", "stat", "list", "judge", "clear", "mark", "load", "started",
           "hook", "prompt", "ended"}

\* The file, the markers and every shell's locals have their types.
TypeOK ==
    /\ now \in 0 .. MaxNow
    /\ file \in [version : Nat \ {0}, changed : 0 .. MaxNow]
    /\ markers \in [Kinds \X Pids -> Marker \cup {None}]
    /\ pc \in [Shells -> Places] /\ why \in [Shells -> {"start", "forget", "again"}]
    /\ pid \in [Shells -> Pids \cup {None}]
    /\ text \in [Shells -> Nat] /\ changed \in [Shells -> 0 .. MaxNow]
    /\ seen \in [Shells -> SUBSET Seen]
    /\ marks \in [Shells -> Nat] /\ ran \in [Shells -> Nat]
    /\ endedIn \in [Shells -> Lisp \cup {None}] /\ forgiven \in [Shells -> SUBSET Marker]
    /\ known \in [Shells -> SUBSET Shells] /\ races \subseteq {"pid", "save", "clear"}

In(s, place) == pc[s] = place \/ endedIn[s] = place
\* A marker in the directory is of a shell that is running the Lisp it was made
\* for, or was ended in it: none is left of a shell that got further, however
\* its Lisp ended (OwnMarker), and no other's is taken for it.
MarkerMeansUnfinished ==
    \A n \in Kinds \X Pids : markers[n] # None =>
        LET s == markers[n].by IN
        pid[s] = n[2] /\ In(s, IF n[1] = "loading" THEN "load" ELSE "hook")

\* A shell that begins to read init.el after another was ended in it does not
\* run it again: "A later shell that finds it, once the stuck shell has ended
\* [...], skips init.el until the file changes" (README.md).
RunsAgain(s) == pc[s] = "mark" /\ pc'[s] = "load" /\ \E t \in known[s] \cap Hung : ran[t] = text[s]
\* But for a pid given out again while its marker is there or is being judged, a
\* save in the middle of a read, and a marker removed in the place of the one
\* seen.
HungIsNotRunAgain == [][races = {} => \A s \in Shells : ~RunsAgain(s)]_vars

\* The same also with a save between the reading of the text and of the time.
HungIsNotRunAgainAtASave == [][races \subseteq {"save"} => \A s \in Shells : ~RunsAgain(s)]_vars
=============================================================================
