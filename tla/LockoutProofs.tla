----------------------------- MODULE LockoutProofs -----------------------------
(***************************************************************************)
(* Theorems about Lockout, for every number of shells and pids, every age  *)
(* at which a marker is stuck, and every bound on the clock, the saves and *)
(* the markers.                                                            *)
(***************************************************************************)
EXTENDS Lockout, TLAPS

-----------------------------------------------------------------------------
(* Types. *)

\* What the shells read of the directory are markers.
LEMMA ListingTyped == TypeOK => Listing \subseteq Seen
  <1> SUFFICES ASSUME TypeOK, NEW m \in Listing PROVE m \in Seen
    OBVIOUS
  <1>1. PICK n \in Kinds \X Pids :
          /\ markers[n] # None
          /\ m = [kind |-> n[1], pid |-> n[2], is |-> markers[n],
                  old |-> now - markers[n].made > StuckAfter]
    BY DEF Listing
  <1>2. markers[n] \in Marker
    BY <1>1 DEF TypeOK
  <1>3. n[1] \in Kinds /\ n[2] \in Pids
    BY <1>1
  <1>4. (now - markers[n].made > StuckAfter) \in BOOLEAN
    OBVIOUS
  <1> QED
    BY <1>1, <1>2, <1>3, <1>4 DEF Seen

\* Those that hung are shells.
LEMMA HungTyped == Hung \subseteq Shells
  BY DEF Hung

\* A shell's locals are typed once they are gone.
LEMMA LocalsGoneTyped ==
  ASSUME TypeOK, NEW s \in Shells, LocalsGone(s)
  PROVE  /\ text' \in [Shells -> Nat] /\ changed' \in [Shells -> 0 .. MaxNow]
         /\ seen' \in [Shells -> SUBSET Seen] /\ known' \in [Shells -> SUBSET Shells]
  <1>1. 0 \in 0 .. MaxNow
    BY LockoutConstantsOK
  <1> QED
    BY <1>1 DEF LocalsGone, TypeOK

\* A marker is made typed.
LEMMA MakeMarkerTyped ==
  ASSUME TypeOK, NEW s \in Shells, NEW kind \in Kinds, MakeMarker(s, kind)
  PROVE  /\ markers' \in [Kinds \X Pids -> Marker \cup {None}]
         /\ marks' \in [Shells -> Nat]
  <1>1. [made |-> now, by |-> s, nth |-> marks[s] + 1] \in Marker
    BY DEF Marker, TypeOK
  <1> DEFINE n == <<kind, pid[s]>>
             m == [made |-> now, by |-> s, nth |-> marks[s] + 1]
  <1>3. markers' = [markers EXCEPT ![n] = m]
    BY DEF MakeMarker
  <1>4. markers' \in [Kinds \X Pids -> Marker \cup {None}]
    <2> HIDE DEF n, m
    <2> QED
      BY <1>1, <1>3 DEF TypeOK, m
  <1>5. marks' \in [Shells -> Nat]
    BY DEF MakeMarker, TypeOK
  <1> QED
    BY <1>4, <1>5

\* Where a shell goes once there is less to clear.
LEMMA ToClearTyped ==
  ASSUME TypeOK, NEW s \in Shells, NEW ms \in SUBSET Seen, ToClear(s, ms)
  PROVE  /\ seen' \in [Shells -> SUBSET Seen] /\ pc' \in [Shells -> Places]
         /\ why' \in [Shells -> {"start", "forget", "again"}]
  <1>1. seen' \in [Shells -> SUBSET Seen]
    BY DEF ToClear, TypeOK
  <1>2. (IF ms # {} THEN "clear" ELSE IF why[s] = "forget" THEN "text" ELSE "mark") \in Places
    BY DEF Places
  <1>3. pc' \in [Shells -> Places]
    BY <1>2 DEF ToClear, Goto, TypeOK
  <1>4. why' \in [Shells -> {"start", "forget", "again"}]
    BY DEF ToClear, TypeOK
  <1> QED
    BY <1>1, <1>3, <1>4

\* Every step of a shell keeps the types.
LEMMA ShellTyped ==
  ASSUME TypeOK, NEW s \in Shells, Shell(s)
  PROVE  TypeOK'
  <1> USE DEF disk, locals, history
  <1>1. ASSUME Starts(s) PROVE TypeOK'
    <2>1. PICK p \in Pids :
            /\ pid' = [pid EXCEPT ![s] = p]
            /\ races' = races \cup (IF HasMarker(p) THEN {"pid"} ELSE {})
      BY <1>1 DEF Starts
    <2>2. pid' \in [Shells -> Pids \cup {None}] /\ races' \subseteq {"pid", "save", "clear"}
      BY <2>1 DEF TypeOK
    <2>3. pc' \in [Shells -> Places] /\ why' \in [Shells -> {"start", "forget", "again"}]
      BY <1>1 DEF Starts, Goto, Places, TypeOK
    <2> QED
      BY <1>1, <2>2, <2>3 DEF Starts, TypeOK
  <1>2. ASSUME ReadsText(s) PROVE TypeOK'
    <2>1. text' \in [Shells -> Nat] /\ pc' \in [Shells -> Places]
      BY <1>2 DEF ReadsText, Goto, Places, TypeOK
    <2>2. known' \in [Shells -> SUBSET Shells]
      BY <1>2, HungTyped DEF ReadsText, TypeOK
    <2> QED
      BY <1>2, <2>1, <2>2 DEF ReadsText, TypeOK
  <1>3. ASSUME Stats(s) PROVE TypeOK'
    BY <1>3 DEF Stats, Goto, Places, TypeOK
  <1>4. ASSUME Lists(s) PROVE TypeOK'
    BY <1>4, ListingTyped DEF Lists, Goto, Places, TypeOK
  <1>5. ASSUME Skips(s) PROVE TypeOK'
    <2>1. pc' \in [Shells -> Places]
      BY <1>5 DEF Skips, Goto, AfterRead, Places, TypeOK
    <2> QED
      BY <1>5, <2>1, LocalsGoneTyped DEF Skips, TypeOK
  <1>6. ASSUME Judges(s) PROVE TypeOK'
    <2>1. Stuck(s) \in SUBSET Seen
      BY DEF Stuck, TypeOK
    <2>2. {m.is : m \in Stuck(s)} \subseteq Marker
      BY <2>1 DEF Seen
    <2>3. forgiven' \in [Shells -> SUBSET Marker]
      BY <1>6, <2>2 DEF Judges, TypeOK
    <2>4. ToClear(s, Stuck(s))
      BY <1>6 DEF Judges
    <2> QED
      BY <1>6, <2>1, <2>3, <2>4, ToClearTyped DEF Judges, TypeOK
  <1>7. ASSUME Clears(s) PROVE TypeOK'
    <2>1. PICK m \in seen[s] :
            /\ markers' = [markers EXCEPT ![<<m.kind, m.pid>>] = None]
            /\ ToClear(s, seen[s] \ {m})
            /\ races' = races \cup (IF markers[<<m.kind, m.pid>>] \notin {None, m.is} THEN {"clear"} ELSE {})
      BY <1>7 DEF Clears
    <2>2. seen[s] \ {m} \in SUBSET Seen
      BY DEF TypeOK
    <2>3. markers' \in [Kinds \X Pids -> Marker \cup {None}] /\ races' \subseteq {"pid", "save", "clear"}
      BY <2>1 DEF TypeOK
    <2> QED
      BY <1>7, <2>1, <2>2, <2>3, ToClearTyped DEF Clears, TypeOK
  <1>8. ASSUME Marks(s) PROVE TypeOK'
    <2>1. MakeMarker(s, "loading") /\ "loading" \in Kinds
      BY <1>8 DEF Marks, Kinds
    <2>2. ran' \in [Shells -> Nat] /\ pc' \in [Shells -> Places]
      BY <1>8 DEF Marks, Goto, Places, TypeOK
    <2> QED
      BY <1>8, <2>1, <2>2, MakeMarkerTyped, LocalsGoneTyped DEF Marks, TypeOK
  <1>9. ASSUME Loads(s) PROVE TypeOK'
    <2>1. pc' \in [Shells -> Places]
      BY <1>9 DEF Loads, Goto, AfterRead, Places, TypeOK
    <2>2. markers' \in [Kinds \X Pids -> Marker \cup {None}]
      BY <1>9 DEF Loads, DropMarker, TypeOK
    <2> QED
      BY <1>9, <2>1, <2>2 DEF Loads, TypeOK
  <1>10. ASSUME FirstLine(s) PROVE TypeOK'
    <2>1. pc' \in [Shells -> Places]
      BY <1>10 DEF FirstLine, Goto, Places, TypeOK
    <2>2. /\ markers' \in [Kinds \X Pids -> Marker \cup {None}]
          /\ marks' \in [Shells -> Nat]
      <3>1. CASE MakeMarker(s, "hooks")
        BY <3>1, MakeMarkerTyped DEF Kinds
      <3>2. CASE UNCHANGED <<markers, marks>>
        BY <3>2 DEF TypeOK
      <3> QED
        BY <1>10, <3>1, <3>2 DEF FirstLine
    <2> QED
      BY <1>10, <2>1, <2>2 DEF FirstLine, TypeOK
  <1>11. ASSUME HookReturns(s) PROVE TypeOK'
    <2>1. markers' \in [Kinds \X Pids -> Marker \cup {None}] /\ pc' \in [Shells -> Places]
      BY <1>11 DEF HookReturns, DropMarker, Goto, Places, TypeOK
    <2> QED
      BY <1>11, <2>1 DEF HookReturns, TypeOK
  <1>12. ASSUME Reload(s) PROVE TypeOK'
    BY <1>12 DEF Reload, Goto, Places, TypeOK
  <1>13. ASSUME Ends(s) PROVE TypeOK'
    <2>1. pc' \in [Shells -> Places] /\ why' \in [Shells -> {"start", "forget", "again"}]
      BY <1>13 DEF Ends, Goto, Places, TypeOK
    <2>2. endedIn' \in [Shells -> Lisp \cup {None}]
      BY <1>13 DEF Ends, TypeOK
    <2> QED
      BY <1>13, <2>1, <2>2, LocalsGoneTyped DEF Ends, TypeOK
  <1> QED
    BY <1>1, <1>2, <1>3, <1>4, <1>5, <1>6, <1>7, <1>8, <1>9, <1>10, <1>11, <1>12, <1>13 DEF Shell

\* So does every other step.
LEMMA NextTyped == TypeOK /\ [Next]_vars => TypeOK'
  <1> SUFFICES ASSUME TypeOK, [Next]_vars PROVE TypeOK'
    OBVIOUS
  <1>1. ASSUME NEW s \in Shells, Shell(s) PROVE TypeOK'
    BY <1>1, ShellTyped
  <1>2. CASE Saves
    <2>1. file' \in [version : Nat \ {0}, changed : 0 .. MaxNow]
      BY <1>2 DEF Saves, TypeOK
    <2>2. races' \subseteq {"pid", "save", "clear"}
      BY <1>2 DEF Saves, TypeOK
    <2> QED
      BY <1>2, <2>1, <2>2 DEF Saves, TypeOK, locals
  <1>3. CASE Tick
    <2>1. now' \in 0 .. MaxNow
      BY <1>3, LockoutConstantsOK DEF Tick, TypeOK
    <2> QED
      BY <1>3, <2>1 DEF Tick, TypeOK, locals, history
  <1>4. CASE UNCHANGED vars
    BY <1>4 DEF TypeOK, vars, disk, locals, history
  <1> QED
    BY <1>1, <1>2, <1>3, <1>4 DEF Next

\* Whatever its instance, the model stays in its types: a marker that
\* stuck_markers reads has a kind, a pid and the time it was made.
THEOREM TypeCorrect == Spec => []TypeOK
  <1>1. Init => TypeOK
    <2>1. 0 \in 0 .. MaxNow
      BY LockoutConstantsOK
    <2> QED
      BY <2>1 DEF Init, TypeOK, Places
  <1> QED
    BY <1>1, NextTyped, PTL DEF Spec

-----------------------------------------------------------------------------
(* No marker but of what has not finished. *)

\* Only a shell that has ended was ended in anything.
EndedInEnded == \A s \in Shells : endedIn[s] # None => pc[s] = "ended"

Unfinished == TypeOK /\ EndedInEnded /\ MarkerMeansUnfinished

\* The place a kind's marker is made for.
Place(kind) == IF kind = "loading" THEN "load" ELSE "hook"

\* Once started, a shell that stays out of Lisp disturbs nothing: no marker is
\* its own, and it makes none.
LEMMA NoMarkerOutsideLisp ==
  ASSUME Unfinished, NEW s \in Shells, pc[s] \notin Lisp \cup {"ended"},
         NEW n \in Kinds \X Pids, markers[n] # None
  PROVE  markers[n].by # s
  BY LockoutConstantsOK DEF Unfinished, EndedInEnded, MarkerMeansUnfinished, In, Lisp

\* A shell that goes from one place outside of Lisp to another, and removes
\* markers or none.
LEMMA ElsewhereUnfinished ==
  ASSUME Unfinished, NEW s \in Shells,
         pc[s] \notin Lisp \cup {"ended"},
         NEW to, to # "ended", Goto(s, to),
         \A n \in Kinds \X Pids : markers'[n] \in {markers[n], None},
         \A t \in Shells \ {s} : pid'[t] = pid[t],
         UNCHANGED endedIn
  PROVE  EndedInEnded' /\ MarkerMeansUnfinished'
  <1>1. \A t \in Shells \ {s} : pc'[t] = pc[t]
    BY DEF Goto, Unfinished, TypeOK
  <1>2. EndedInEnded'
    BY <1>1 DEF Unfinished, EndedInEnded
  <1>3. ASSUME NEW n \in Kinds \X Pids, markers'[n] # None
        PROVE  (/\ pid[markers[n].by] = n[2]
                /\ In(markers[n].by, IF n[1] = "loading" THEN "load" ELSE "hook"))'
    <2>1. markers'[n] = markers[n] /\ markers[n] # None
      BY <1>3
    <2>2. markers[n].by \in Shells \ {s}
      BY <2>1, NoMarkerOutsideLisp DEF Unfinished, TypeOK, Marker
    <2>3. /\ pid[markers[n].by] = n[2]
          /\ In(markers[n].by, IF n[1] = "loading" THEN "load" ELSE "hook")
      BY <2>1 DEF Unfinished, MarkerMeansUnfinished
    <2> QED
      BY <1>1, <2>1, <2>2, <2>3 DEF In
  <1> QED
    BY <1>2, <1>3 DEF MarkerMeansUnfinished

\* A shell that makes a marker as it goes on to the Lisp the marker is for.
LEMMA MakesUnfinished ==
  ASSUME Unfinished, NEW s \in Shells, NEW kind \in Kinds,
         pc[s] \notin Lisp \cup {"ended"},
         MakeMarker(s, kind), Goto(s, Place(kind)), UNCHANGED <<pid, endedIn>>
  PROVE  EndedInEnded' /\ MarkerMeansUnfinished'
  <1>1. \A t \in Shells \ {s} : pc'[t] = pc[t]
    BY DEF Goto, Unfinished, TypeOK
  <1>2. pc'[s] = Place(kind)
    BY DEF Goto, Unfinished, TypeOK
  <1>3. EndedInEnded'
    BY <1>1 DEF Unfinished, EndedInEnded, Lisp
  <1>4. ASSUME NEW n \in Kinds \X Pids, markers'[n] # None
        PROVE  (/\ pid[markers[n].by] = n[2]
                /\ In(markers[n].by, IF n[1] = "loading" THEN "load" ELSE "hook"))'
    <2>1. CASE n = <<kind, pid[s]>>
      <3>1. markers'[n].by = s
        BY <2>1 DEF MakeMarker, Unfinished, TypeOK
      <3> QED
        BY <2>1, <3>1, <1>2 DEF In, Place, Kinds
    <2>2. CASE n # <<kind, pid[s]>>
      <3>1. markers'[n] = markers[n] /\ markers[n] # None
        BY <1>4, <2>2 DEF MakeMarker, Unfinished, TypeOK
      <3>2. markers[n].by \in Shells \ {s}
        BY <3>1, NoMarkerOutsideLisp DEF Unfinished, TypeOK, Marker
      <3>3. /\ pid[markers[n].by] = n[2]
            /\ In(markers[n].by, IF n[1] = "loading" THEN "load" ELSE "hook")
        BY <3>1 DEF Unfinished, MarkerMeansUnfinished
      <3> QED
        BY <1>1, <3>1, <3>2, <3>3 DEF In
    <2> QED
      BY <2>1, <2>2
  <1> QED
    BY <1>3, <1>4 DEF MarkerMeansUnfinished

\* A shell whose Lisp is done drops the marker it was made behind.
LEMMA DropsUnfinished ==
  ASSUME Unfinished, NEW s \in Shells, NEW kind \in Kinds,
         pc[s] = Place(kind),
         DropMarker(s, kind), NEW to, to # "ended", Goto(s, to), UNCHANGED <<pid, endedIn>>
  PROVE  EndedInEnded' /\ MarkerMeansUnfinished'
  <1>1. \A t \in Shells \ {s} : pc'[t] = pc[t]
    BY DEF Goto, Unfinished, TypeOK
  <1>2. endedIn[s] = None
    BY DEF Unfinished, EndedInEnded, Place
  <1>3. EndedInEnded'
    BY <1>1, <1>2 DEF Unfinished, EndedInEnded
  <1>4. ASSUME NEW n \in Kinds \X Pids, markers'[n] # None
        PROVE  (/\ pid[markers[n].by] = n[2]
                /\ In(markers[n].by, IF n[1] = "loading" THEN "load" ELSE "hook"))'
    <2>1. n # <<kind, pid[s]>> /\ markers'[n] = markers[n] /\ markers[n] # None
      BY <1>4 DEF DropMarker, Unfinished, TypeOK
    <2>2. /\ pid[markers[n].by] = n[2]
          /\ In(markers[n].by, IF n[1] = "loading" THEN "load" ELSE "hook")
      BY <2>1 DEF Unfinished, MarkerMeansUnfinished
    <2>3. markers[n].by \in Shells
      BY <2>1 DEF Unfinished, TypeOK, Marker
    <2>4. markers[n].by # s
      <3>1. SUFFICES ASSUME markers[n].by = s PROVE FALSE
        OBVIOUS
      <3>2. n[2] = pid[s] /\ pc[s] = IF n[1] = "loading" THEN "load" ELSE "hook"
        BY <2>2, <3>1, <1>2, LockoutConstantsOK DEF In
      <3>3. n[1] = kind
        BY <3>2 DEF Place, Kinds
      <3> QED
        BY <2>1, <3>2, <3>3
    <2> QED
      BY <1>1, <2>1, <2>2, <2>3, <2>4 DEF In
  <1> QED
    BY <1>3, <1>4 DEF MarkerMeansUnfinished

\* A shell that ends leaves the marker of the Lisp it was running.
LEMMA EndsUnfinished ==
  ASSUME Unfinished, NEW s \in Shells, Ends(s)
  PROVE  EndedInEnded' /\ MarkerMeansUnfinished'
  <1>1. /\ \A t \in Shells \ {s} : pc'[t] = pc[t] /\ endedIn'[t] = endedIn[t]
        /\ pc'[s] = "ended"
    BY DEF Ends, Goto, Unfinished, TypeOK
  <1>2. pc[s] \in Lisp => endedIn'[s] = pc[s]
    BY DEF Ends, Unfinished, TypeOK
  <1>3. endedIn[s] = None
    BY DEF Ends, Alive, Unfinished, EndedInEnded
  <1>4. UNCHANGED <<markers, pid>>
    BY DEF Ends, disk
  <1>5. EndedInEnded'
    BY <1>1 DEF Unfinished, EndedInEnded
  <1>6. ASSUME NEW n \in Kinds \X Pids, markers[n] # None
        PROVE  (/\ pid[markers[n].by] = n[2]
                /\ In(markers[n].by, IF n[1] = "loading" THEN "load" ELSE "hook"))'
    <2>1. /\ pid[markers[n].by] = n[2]
          /\ In(markers[n].by, IF n[1] = "loading" THEN "load" ELSE "hook")
      BY <1>6 DEF Unfinished, MarkerMeansUnfinished
    <2>2. markers[n].by \in Shells
      BY <1>6 DEF Unfinished, TypeOK, Marker
    <2>3. CASE markers[n].by = s
      <3>1. pc[s] = IF n[1] = "loading" THEN "load" ELSE "hook"
        BY <2>1, <2>3, <1>3, LockoutConstantsOK DEF In
      <3> QED
        BY <2>1, <2>3, <3>1, <1>2, <1>4 DEF In, Lisp
    <2>4. CASE markers[n].by # s
      BY <2>1, <2>2, <2>4, <1>1, <1>4 DEF In
    <2> QED
      BY <2>3, <2>4
  <1> QED
    BY <1>4, <1>5, <1>6 DEF MarkerMeansUnfinished

\* Each step keeps that markers are of what is unfinished.
LEMMA NextUnfinished == Unfinished /\ [Next]_vars => Unfinished'
  <1> SUFFICES ASSUME Unfinished, [Next]_vars PROVE Unfinished'
    OBVIOUS
  <1>1. TypeOK'
    BY NextTyped DEF Unfinished
  <1>2. ASSUME NEW s \in Shells, Shell(s) PROVE EndedInEnded' /\ MarkerMeansUnfinished'
    <2> USE DEF disk, locals, history
    <2>1. CASE Starts(s)
      <3>1. pc[s] = "out" /\ Goto(s, "text") /\ UNCHANGED <<markers, endedIn>>
        BY <2>1 DEF Starts
      <3>2. \A t \in Shells \ {s} : pid'[t] = pid[t]
        BY <2>1 DEF Starts, Unfinished, TypeOK
      <3> QED
        BY <3>1, <3>2, ElsewhereUnfinished DEF Lisp
    <2>2. CASE ReadsText(s)
      BY <2>2, ElsewhereUnfinished DEF ReadsText, Lisp
    <2>3. CASE Stats(s)
      BY <2>3, ElsewhereUnfinished DEF Stats, Lisp
    <2>4. CASE Lists(s)
      BY <2>4, ElsewhereUnfinished DEF Lists, Lisp
    <2>5. CASE Skips(s)
      BY <2>5, ElsewhereUnfinished DEF Skips, AfterRead, Lisp
    <2>6. CASE Judges(s)
      <3>1. PICK to : to # "ended" /\ Goto(s, to)
        BY <2>6 DEF Judges, ToClear
      <3> QED
        BY <2>6, <3>1, ElsewhereUnfinished DEF Judges, Lisp
    <2>7. CASE Clears(s)
      <3>1. PICK to : to # "ended" /\ Goto(s, to)
        BY <2>7 DEF Clears, ToClear
      <3>2. \A n \in Kinds \X Pids : markers'[n] \in {markers[n], None}
        BY <2>7 DEF Clears, Unfinished, TypeOK
      <3> QED
        BY <2>7, <3>1, <3>2, ElsewhereUnfinished DEF Clears, Lisp
    <2>8. CASE Marks(s)
      BY <2>8, MakesUnfinished DEF Marks, Kinds, Place, Lisp
    <2>9. CASE Loads(s)
      BY <2>9, DropsUnfinished DEF Loads, AfterRead, Kinds, Place
    <2>10. CASE FirstLine(s)
      <3>1. CASE MakeMarker(s, "hooks") /\ Goto(s, "hook")
        BY <2>10, <3>1, MakesUnfinished DEF FirstLine, Kinds, Place, Lisp
      <3>2. CASE UNCHANGED <<markers, marks>> /\ Goto(s, "prompt")
        BY <2>10, <3>2, ElsewhereUnfinished DEF FirstLine, Lisp
      <3> QED
        BY <2>10, <3>1, <3>2 DEF FirstLine
    <2>11. CASE HookReturns(s)
      BY <2>11, DropsUnfinished DEF HookReturns, Kinds, Place
    <2>12. CASE Reload(s)
      BY <2>12, ElsewhereUnfinished DEF Reload, Lisp
    <2>13. CASE Ends(s)
      BY <2>13, EndsUnfinished
    <2> QED
      BY <1>2, <2>1, <2>2, <2>3, <2>4, <2>5, <2>6, <2>7, <2>8, <2>9, <2>10, <2>11, <2>12, <2>13
         DEF Shell
  <1>3. CASE Saves \/ Tick \/ UNCHANGED vars
    <2>1. UNCHANGED <<pc, markers, pid, endedIn>>
      BY <1>3 DEF Saves, Tick, vars, disk, locals, history
    <2> QED
      BY <1>1, <2>1 DEF Unfinished, EndedInEnded, MarkerMeansUnfinished, In
  <1> QED
    BY <1>1, <1>2, <1>3 DEF Next, Unfinished

\* However shells start, hang, are killed, reload and clear each other's
\* markers, and whichever pids are given out again: a marker in the directory
\* is of a shell that runs the Lisp it was made for, or was ended in it.
THEOREM MarkersAreOfUnfinished == Spec => []MarkerMeansUnfinished
  <1>1. Init => Unfinished
    <2>1. Init => TypeOK
      BY LockoutConstantsOK DEF Init, TypeOK, Places
    <2> QED
      BY <2>1 DEF Init, Unfinished, EndedInEnded, MarkerMeansUnfinished
  <1>2. Unfinished => MarkerMeansUnfinished
    BY DEF Unfinished
  <1> QED
    BY <1>1, <1>2, NextUnfinished, PTL DEF Spec
-----------------------------------------------------------------------------
(* What hung is not run again.  While none of the races has been:          *)
(*   a shell that runs Lisp, or was ended in it, of the init.el there is   *)
(* now, has its marker in the directory, as new as the file, unless a      *)
(* reload has seen it stuck;                                               *)
(*   a marker to be removed is older than the file, or forgiven;           *)
(*   and a shell that has read the text of one that hung has listed, or    *)
(* will list, its marker, which stays stuck: it will not get past the      *)
(* judging.                                                                *)

RanLisp(t) == pc[t] \in Lisp \/ endedIn[t] \in Lisp
Kind(t) == IF pc[t] = "load" \/ endedIn[t] = "load" THEN "loading" ELSE "hooks"

\* No time or version is of the future.
Times ==
    /\ file.changed <= now
    /\ \A s \in Shells : /\ changed[s] <= file.changed
                         /\ text[s] <= file.version /\ ran[s] <= file.version

\* A running shell's pid is its own, and so are the markers of that pid.
OwnPids ==
    /\ \A s \in Shells : pc[s] # "out" => pid[s] \in Pids
    /\ \A s, t \in Shells : (Alive(s) /\ Alive(t) /\ pid[s] = pid[t]) => s = t
OwnMarkers ==
    \A n \in Kinds \X Pids : \A s \in Shells :
        (markers[n] # None /\ Alive(s) /\ pid[s] = n[2]) => markers[n].by = s

HasItsMarker(t) ==
    /\ markers[<<Kind(t), pid[t]>>] # None
    /\ markers[<<Kind(t), pid[t]>>].by = t
    /\ markers[<<Kind(t), pid[t]>>].nth = marks[t]
    /\ markers[<<Kind(t), pid[t]>>].made >= file.changed
Kept ==
    \A t \in Shells :
        (RanLisp(t) /\ ran[t] = file.version /\ ~Forgiven(t)) => HasItsMarker(t)

\* What is being removed: all of it forgiven, or all of it older than the file.
Removable ==
    \A s \in Shells : pc[s] = "clear" =>
        \A m \in seen[s] : IF why[s] = "forget" THEN m.is \in forgiven[s]
                           ELSE m.is.made < changed[s]

\* The shells that hung on the text s has read, as far as s is to know.
HungOnText(s) == {t \in known[s] \cap Hung : ran[t] = text[s]}
SeesStuck(s, t) ==
    \E m \in seen[s] : m.pid = pid[t] /\ m.is.made >= changed[s] /\ ~ProcessAlive(m.pid)
Reading ==
    \A s \in Shells :
        /\ pc[s] = "mark" => why[s] # "forget"
        /\ \A t \in known[s] : t \in Shells /\ endedIn[t] \in Lisp
        /\ why[s] # "forget" =>
             /\ pc[s] \in {"stat", "list"} => text[s] = file.version
             /\ pc[s] = "list" => changed[s] = file.changed
             /\ pc[s] = "judge" => (\A t \in HungOnText(s) : SeesStuck(s, t))
             /\ pc[s] \in {"clear", "mark"} => HungOnText(s) = {}

NotAgain ==
    /\ Unfinished /\ Times /\ OwnPids /\ Removable
    /\ races = {} => (OwnMarkers /\ Kept /\ Reading)

\* A step of one shell changes nothing of another's.
LEMMA Others ==
  ASSUME TypeOK, NEW s \in Shells, Shell(s), NEW t \in Shells, t # s
  PROVE  /\ pc'[t] = pc[t] /\ why'[t] = why[t] /\ pid'[t] = pid[t]
         /\ text'[t] = text[t] /\ changed'[t] = changed[t] /\ seen'[t] = seen[t]
         /\ known'[t] = known[t] /\ marks'[t] = marks[t] /\ ran'[t] = ran[t]
         /\ endedIn'[t] = endedIn[t] /\ forgiven'[t] = forgiven[t]
  <1> USE DEF disk, locals, history, Goto, LocalsGone, TypeOK
  <1>1. CASE Starts(s) \/ ReadsText(s) \/ Stats(s) \/ Lists(s)
    BY <1>1 DEF Starts, ReadsText, Stats, Lists
  <1>2. CASE Skips(s)
    BY <1>2 DEF Skips
  <1>3. CASE Judges(s)
    BY <1>3 DEF Judges, ToClear
  <1>4. CASE Clears(s)
    BY <1>4 DEF Clears, ToClear
  <1>5. CASE Marks(s)
    BY <1>5 DEF Marks, MakeMarker
  <1>6. CASE FirstLine(s)
    BY <1>6 DEF FirstLine, MakeMarker
  <1>7. CASE Loads(s) \/ HookReturns(s) \/ Reload(s)
    BY <1>7 DEF Loads, HookReturns, Reload
  <1>8. CASE Ends(s)
    BY <1>8 DEF Ends
  <1> QED
    BY <1>1, <1>2, <1>3, <1>4, <1>5, <1>6, <1>7, <1>8 DEF Shell

\* What a step of a shell leaves of its own, of the file and of the races.
LEMMA OwnStep ==
  ASSUME Unfinished, NEW s \in Shells, Shell(s)
  PROVE  /\ file' = file /\ now' = now
         /\ races \subseteq races'
         /\ forgiven[s] \subseteq forgiven'[s]
         /\ pc[s] # "ended" /\ endedIn[s] = None
         /\ pc[s] \notin {"mark", "started"} => marks'[s] = marks[s]
         /\ pc[s] # "mark" => ran'[s] = ran[s]
         /\ pc[s] # "out" => Alive(s) /\ pid' = pid
  <1>1. pc[s] # "ended"
    BY DEF Shell, Starts, ReadsText, Stats, Lists, Skips, Judges, Clears, Marks, Loads, FirstLine,
           HookReturns, Reload, Ends, Alive
  <1>2. endedIn[s] = None
    BY <1>1 DEF Unfinished, EndedInEnded
  <1> USE DEF disk, locals, history, Unfinished, TypeOK, Alive
  <1>3. CASE Starts(s) \/ ReadsText(s) \/ Stats(s) \/ Lists(s)
    BY <1>1, <1>2, <1>3 DEF Starts, ReadsText, Stats, Lists
  <1>4. CASE Skips(s)
    BY <1>1, <1>2, <1>4 DEF Skips
  <1>7. CASE Judges(s)
    <2>1. PICK more : forgiven' = [forgiven EXCEPT ![s] = @ \cup more]
      BY <1>7 DEF Judges
    <2>2. forgiven[s] \subseteq forgiven'[s]
      BY <2>1
    <2> QED
      BY <1>1, <1>2, <1>7, <2>2 DEF Judges
  <1>8. CASE Clears(s)
    <2>1. races \subseteq races'
      BY <1>8 DEF Clears
    <2> QED
      BY <1>1, <1>2, <1>8, <2>1 DEF Clears
  <1>5. CASE Marks(s) \/ FirstLine(s)
    BY <1>1, <1>2, <1>5 DEF Marks, FirstLine, MakeMarker
  <1>6. CASE Loads(s) \/ HookReturns(s) \/ Reload(s) \/ Ends(s)
    BY <1>1, <1>2, <1>6 DEF Loads, HookReturns, Reload, Ends
  <1> QED
    BY <1>3, <1>4, <1>5, <1>6, <1>7, <1>8 DEF Shell

\* Who was forgiven stays so, but by making another marker.
LEMMA StaysForgiven ==
  ASSUME Unfinished, NEW s \in Shells, Shell(s), NEW t \in Shells, Forgiven(t),
         marks'[t] = marks[t]
  PROVE  Forgiven(t)'
  <1>1. PICK u \in Shells : \E m \in forgiven[u] : m.by = t /\ m.nth = marks[t]
    BY DEF Forgiven
  <1>2. forgiven[u] \subseteq forgiven'[u]
    BY Others, OwnStep DEF Unfinished
  <1> QED
    BY <1>1, <1>2 DEF Forgiven

\* Who has ended is as it was, and no new reason to call it hung.
LEMMA EndedStays ==
  ASSUME Unfinished, NEW s \in Shells, Shell(s), NEW t \in Shells, endedIn[t] \in Lisp
  PROVE  /\ t # s /\ endedIn'[t] = endedIn[t] /\ ran'[t] = ran[t] /\ pid'[t] = pid[t]
         /\ marks'[t] = marks[t]
         /\ t \in Hung' => t \in Hung
  <1>1. t # s
    BY OwnStep, LockoutConstantsOK DEF Lisp
  <1>2. /\ endedIn'[t] = endedIn[t] /\ ran'[t] = ran[t] /\ pid'[t] = pid[t]
        /\ marks'[t] = marks[t]
    BY <1>1, Others DEF Unfinished
  <1>3. t \in Hung' => t \in Hung
    BY <1>2, StaysForgiven DEF Hung
  <1> QED
    BY <1>1, <1>2, <1>3

\* A shell is born only as it starts.
LEMMA BornAtStart ==
  ASSUME Unfinished, NEW s \in Shells, Shell(s), ~Starts(s)
  PROVE  pid' = pid /\ \A t \in Shells : Alive(t)' => Alive(t)
  <1>1. pc[s] # "out"
    BY DEF Shell, Starts, ReadsText, Stats, Lists, Skips, Judges, Clears, Marks, Loads, FirstLine,
           HookReturns, Reload, Ends, Alive
  <1>2. pid' = pid /\ Alive(s)
    BY <1>1, OwnStep
  <1>3. ASSUME NEW t \in Shells, Alive(t)' PROVE Alive(t)
    <2>1. CASE t = s
      BY <2>1, <1>2
    <2>2. CASE t # s
      <3>1. pc'[t] = pc[t]
        BY <2>2, Others DEF Unfinished
      <3> QED
        BY <1>3, <3>1 DEF Alive
    <2> QED
      BY <2>1, <2>2
  <1> QED
    BY <1>2, <1>3

\* What becomes of the markers: one is made, by a shell that goes on to the Lisp
\* it is made for, or some are removed.
LEMMA MarkersStep ==
  ASSUME Unfinished, NEW s \in Shells, Shell(s)
  PROVE  \/ \A n \in Kinds \X Pids : markers'[n] \in {markers[n], None}
         \/ \E kind \in Kinds : /\ MakeMarker(s, kind) /\ Goto(s, Place(kind))
                               /\ Alive(s) /\ pc[s] \notin Lisp /\ ~Starts(s)
                               /\ UNCHANGED endedIn
  <1> USE DEF disk, Unfinished, TypeOK
  <1>1. CASE Starts(s) \/ ReadsText(s) \/ Stats(s) \/ Lists(s) \/ Skips(s) \/ Judges(s)
    BY <1>1 DEF Starts, ReadsText, Stats, Lists, Skips, Judges
  <1>2. CASE Clears(s)
    BY <1>2 DEF Clears
  <1>3. CASE Marks(s)
    BY <1>3 DEF Marks, Kinds, Place, Alive, Lisp, Starts
  <1>4. CASE FirstLine(s)
    BY <1>4 DEF FirstLine, Kinds, Place, Alive, Lisp, Starts
  <1>5. CASE Loads(s) \/ HookReturns(s) \/ Reload(s) \/ Ends(s)
    BY <1>5 DEF Loads, HookReturns, Reload, Ends, DropMarker
  <1> QED
    BY <1>1, <1>2, <1>3, <1>4, <1>5 DEF Shell

\* No time is of the future: read_checked, the modification time and now.
LEMMA TimesKept == NotAgain /\ [Next]_vars => Times'
  <1> SUFFICES ASSUME NotAgain, [Next]_vars PROVE Times'
    OBVIOUS
  <1> USE DEF NotAgain, Unfinished, Times, TypeOK
  <1>1. ASSUME NEW s \in Shells, Shell(s) PROVE Times'
    <2>1. file' = file /\ now' = now
      BY <1>1, OwnStep
    <2>2. ASSUME NEW t \in Shells, t # s
          PROVE  changed'[t] <= file.changed /\ text'[t] <= file.version /\ ran'[t] <= file.version
      BY <1>1, <2>2, Others
    <2>3. changed'[s] <= file.changed /\ text'[s] <= file.version /\ ran'[s] <= file.version
      <3> USE DEF locals, history, LocalsGone
      <3>1. CASE Starts(s) \/ ReadsText(s) \/ Stats(s) \/ Lists(s)
        BY <3>1 DEF Starts, ReadsText, Stats, Lists
      <3>2. CASE Skips(s) \/ Judges(s) \/ Clears(s)
        BY <3>2 DEF Skips, Judges, Clears
      <3>3. CASE Marks(s) \/ FirstLine(s)
        BY <3>3 DEF Marks, FirstLine
      <3>4. CASE Loads(s) \/ HookReturns(s) \/ Reload(s) \/ Ends(s)
        BY <3>4 DEF Loads, HookReturns, Reload, Ends
      <3> QED
        BY <1>1, <3>1, <3>2, <3>3, <3>4 DEF Shell
    <2> QED
      BY <2>1, <2>2, <2>3
  <1>2. CASE Saves
    BY <1>2 DEF Saves, locals
  <1>3. CASE Tick
    BY <1>3 DEF Tick, locals, history
  <1>4. CASE UNCHANGED vars
    BY <1>4 DEF vars, disk, locals, history
  <1> QED
    BY <1>1, <1>2, <1>3, <1>4 DEF Next

\* Two running shells have two pids.
LEMMA OwnPidsKept ==
  ASSUME Unfinished, OwnPids, NEW s \in Shells, Shell(s)
  PROVE  OwnPids'
  <1>1. CASE Starts(s)
    <2>1. PICK p \in Pids : ~ProcessAlive(p) /\ pid' = [pid EXCEPT ![s] = p]
      BY <1>1 DEF Starts
    <2>2. pid'[s] = p
      BY <2>1 DEF Unfinished, TypeOK
    <2>3. ASSUME NEW t \in Shells, t # s, Alive(t)'
          PROVE  pid'[t] = pid[t] /\ Alive(t) /\ pid'[t] # p
      <3>1. pid'[t] = pid[t] /\ pc'[t] = pc[t]
        BY <1>1, <2>3, Others DEF Unfinished
      <3> QED
        BY <2>1, <2>3, <3>1 DEF Alive, ProcessAlive
    <2>4. ASSUME NEW t \in Shells, t # s, pc'[t] # "out" PROVE pid'[t] \in Pids
      BY <2>4, Others DEF OwnPids, Unfinished
    <2> QED
      BY <2>2, <2>3, <2>4 DEF OwnPids
  <1>2. CASE ~Starts(s)
    <2>1. pc[s] # "out"
      BY <1>2, OwnStep DEF Shell, ReadsText, Stats, Lists, Skips, Judges, Clears, Marks, Loads,
           FirstLine, HookReturns, Reload, Ends, Alive
    <2>2. ASSUME NEW t \in Shells, pc'[t] # "out" PROVE pid[t] \in Pids
      BY <2>1, <2>2, Others DEF OwnPids, Unfinished
    <2> QED
      BY <1>2, <2>2, BornAtStart DEF OwnPids
  <1> QED
    BY <1>1, <1>2

\* A marker of a running shell's pid is its own: but for the race, no shell gets
\* a pid whose marker is there.
LEMMA OwnMarkersKept ==
  ASSUME Unfinished, OwnPids, OwnMarkers, NEW s \in Shells, Shell(s), races' = {}
  PROVE  OwnMarkers'
  <1> SUFFICES ASSUME NEW n \in Kinds \X Pids, NEW t \in Shells,
                      markers'[n] # None, Alive(t)', pid'[t] = n[2]
               PROVE  markers'[n].by = t
    BY DEF OwnMarkers
  <1>1. CASE Starts(s)
    <2>1. markers' = markers
      BY <1>1 DEF Starts, disk
    <2>2. PICK p \in Pids : pid' = [pid EXCEPT ![s] = p] /\ ~HasMarker(p)
      BY <1>1 DEF Starts
    <2>3. pid'[s] = p
      BY <2>2 DEF Unfinished, TypeOK
    <2>4. n[2] # p
      BY <2>1, <2>2 DEF HasMarker
    <2>5. t # s
      BY <2>3, <2>4
    <2>6. pid'[t] = pid[t] /\ pc'[t] = pc[t]
      BY <2>5, Others DEF Unfinished
    <2> QED
      BY <2>1, <2>6 DEF OwnMarkers, Alive
  <1>2. CASE ~Starts(s)
    <2>1. pid[t] = n[2] /\ Alive(t)
      BY <1>2, BornAtStart
    <2>2. CASE markers'[n] \in {markers[n], None}
      BY <2>1, <2>2 DEF OwnMarkers
    <2>3. ASSUME NEW kind \in Kinds, MakeMarker(s, kind), Alive(s) PROVE markers'[n].by = t
      <3>1. CASE n = <<kind, pid[s]>>
        <4>1. markers'[n].by = s
          BY <2>3, <3>1 DEF MakeMarker, Unfinished, TypeOK
        <4>2. s = t
          BY <2>1, <2>3, <3>1 DEF OwnPids
        <4> QED
          BY <4>1, <4>2
      <3>2. CASE n # <<kind, pid[s]>>
        <4>1. markers'[n] = markers[n]
          BY <2>3, <3>2 DEF MakeMarker, Unfinished, TypeOK
        <4> QED
          BY <2>1, <4>1 DEF OwnMarkers
      <3> QED
        BY <3>1, <3>2
    <2> QED
      BY <2>2, <2>3, MarkersStep
  <1> QED
    BY <1>1, <1>2

\* What stuck_markers removes: at a reload all that is stuck, else only what is
\* older than the file (skip_init).
LEMMA RemovableKept ==
  ASSUME Unfinished, Removable, NEW s \in Shells, Shell(s)
  PROVE  Removable'
  <1> SUFFICES ASSUME NEW t \in Shells, pc'[t] = "clear", NEW m \in seen'[t]
               PROVE  IF why'[t] = "forget" THEN m.is \in forgiven'[t]
                      ELSE m.is.made < changed'[t]
    BY DEF Removable
  <1>1. CASE t # s
    <2>1. /\ pc'[t] = pc[t] /\ why'[t] = why[t] /\ seen'[t] = seen[t]
          /\ forgiven'[t] = forgiven[t] /\ changed'[t] = changed[t]
      BY <1>1, Others DEF Unfinished
    <2> QED
      BY <2>1 DEF Removable
  <1>2. CASE t = s
    <2>1. pc'[s] = "clear"
      BY <1>2
    <2>2. CASE Judges(s)
      <3>1. seen'[s] = Stuck(s) /\ why' = why /\ changed' = changed
        BY <2>1, <2>2 DEF Judges, ToClear, Goto, Unfinished, TypeOK
      <3>2. m \in Stuck(s) /\ m \in Seen
        BY <1>2, <3>1 DEF Stuck, Unfinished, TypeOK
      <3>3. CASE why[s] = "forget"
        <4>1. forgiven' = [forgiven EXCEPT ![s] = @ \cup {x.is : x \in Stuck(s)}]
          BY <2>2, <3>3 DEF Judges
        <4>2. m.is \in forgiven'[s]
          BY <3>2, <4>1 DEF Unfinished, TypeOK
        <4> QED
          BY <1>2, <3>1, <3>3, <4>2
      <3>4. CASE why[s] # "forget"
        <4>1. ~(m.is.made >= changed[s])
          BY <2>2, <3>2, <3>4 DEF Judges, SkipInit
        <4>2. m.is.made \in Nat /\ changed[s] \in Nat
          BY <3>2 DEF Seen, Marker, Unfinished, TypeOK
        <4> QED
          BY <1>2, <3>1, <3>4, <4>1, <4>2
      <3> QED
        BY <3>3, <3>4
    <2>3. CASE Clears(s)
      <3>1. PICK x \in seen[s] : ToClear(s, seen[s] \ {x})
        BY <2>3 DEF Clears
      <3>2. /\ pc[s] = "clear" /\ m \in seen[s] /\ why' = why
            /\ forgiven' = forgiven /\ changed' = changed
        BY <1>2, <2>1, <2>3, <3>1 DEF Clears, ToClear, Goto, Unfinished, TypeOK
      <3> QED
        BY <1>2, <3>2 DEF Removable
    <2>4. ASSUME ~Judges(s), ~Clears(s) PROVE pc'[s] # "clear"
      BY <2>4 DEF Shell, Starts, ReadsText, Stats, Lists, Skips, AfterRead, Marks, Loads, FirstLine,
           HookReturns, Reload, Ends, Goto, Unfinished, TypeOK
    <2> QED
      BY <2>1, <2>2, <2>3, <2>4
  <1> QED
    BY <1>1, <1>2

\* A running shell, of its pid, removes or makes no marker but its own.
LEMMA NotAnothers ==
  ASSUME Unfinished, OwnMarkers, NEW s \in Shells, Alive(s), NEW t \in Shells, t # s,
         pid[t] \in Pids, NEW kind \in Kinds, HasItsMarker(t)
  PROVE  <<Kind(t), pid[t]>> # <<kind, pid[s]>>
  <1>1. <<Kind(t), pid[t]>> \in Kinds \X Pids
    BY DEF Kind, Kinds
  <1>2. pid[s] # pid[t]
    BY <1>1 DEF OwnMarkers, HasItsMarker
  <1> QED
    BY <1>2

\* What Clears removes is not the marker of one that hung on the file there is.
LEMMA ClearsNoKept ==
  ASSUME Unfinished, Times, Removable, NEW s \in Shells, Clears(s), races' = {},
         NEW t \in Shells, pid[t] \in Pids, HasItsMarker(t), ~Forgiven(t)
  PROVE  markers'[<<Kind(t), pid[t]>>] = markers[<<Kind(t), pid[t]>>]
  <1> DEFINE n == <<Kind(t), pid[t]>>
  <1>1. PICK m \in seen[s] :
          /\ markers' = [markers EXCEPT ![<<m.kind, m.pid>>] = None]
          /\ markers[<<m.kind, m.pid>>] \in {None, m.is}
    BY DEF Clears
  <1>2. n \in Kinds \X Pids /\ markers[n] \in Marker
    BY DEF Kind, Kinds, HasItsMarker, Unfinished, TypeOK
  <1>3. m \in Seen /\ m.is \in Marker
    BY DEF Seen, Unfinished, TypeOK
  <1>4. CASE n = <<m.kind, m.pid>>
    <2>1. m.is = markers[n]
      BY <1>1, <1>4 DEF HasItsMarker
    <2>2. m.is.by = t /\ m.is.nth = marks[t] /\ m.is.made >= file.changed
      BY <2>1 DEF HasItsMarker
    <2>3. m.is \notin forgiven[s]
      BY <2>2 DEF Forgiven
    <2>4. m.is.made < changed[s] /\ changed[s] <= file.changed
      BY <2>3 DEF Removable, Clears, Times
    <2>5. m.is.made \in Nat /\ changed[s] \in Nat /\ file.changed \in Nat
      BY <1>3 DEF Marker, Unfinished, TypeOK
    <2> QED
      BY <2>2, <2>4, <2>5
  <1>5. CASE n # <<m.kind, m.pid>>
    BY <1>1, <1>2, <1>5 DEF Unfinished, TypeOK
  <1> QED
    BY <1>4, <1>5

\* Nobody takes the marker of one that runs Lisp or was ended in it.
LEMMA NobodyTakes ==
  ASSUME Unfinished, Times, OwnPids, Removable, OwnMarkers,
         NEW s \in Shells, Shell(s), races' = {},
         NEW t \in Shells, RanLisp(t)', pid[t] \in Pids, HasItsMarker(t), ~Forgiven(t),
         t = s => Ends(s)
  PROVE  markers'[<<Kind(t), pid[t]>>] = markers[<<Kind(t), pid[t]>>]
  <1>0. <<Kind(t), pid[t]>> \in Kinds \X Pids
    BY DEF Kind, Kinds
  <1>1. CASE Clears(s)
    BY <1>1, ClearsNoKept
  <1>2. CASE Marks(s) \/ FirstLine(s)
    <2>1. Alive(s) /\ t # s
      BY <1>2 DEF Marks, FirstLine, Alive, Goto, Unfinished, TypeOK, Ends
    <2>2. markers' = markers \/ \E kind \in Kinds : MakeMarker(s, kind)
      BY <1>2 DEF Marks, FirstLine, Kinds
    <2> QED
      BY <1>0, <2>1, <2>2, NotAnothers DEF MakeMarker, Unfinished, TypeOK
  <1>3. CASE Loads(s) \/ HookReturns(s)
    <2>1. Alive(s) /\ t # s
      BY <1>3 DEF Loads, HookReturns, AfterRead, Alive, Goto, Unfinished, TypeOK, Ends
    <2>2. \E kind \in Kinds : DropMarker(s, kind)
      BY <1>3 DEF Loads, HookReturns, Kinds
    <2> QED
      BY <1>0, <2>1, <2>2, NotAnothers DEF DropMarker, Unfinished, TypeOK
  <1>4. CASE Starts(s) \/ ReadsText(s) \/ Stats(s) \/ Lists(s) \/ Skips(s) \/ Judges(s) \/ Reload(s) \/ Ends(s)
    BY <1>4 DEF Starts, ReadsText, Stats, Lists, Skips, Judges, Reload, Ends, disk
  <1> QED
    BY <1>1, <1>2, <1>3, <1>4 DEF Shell

\* A shell behind whose marker Lisp begins.
LEMMA BeginsKept ==
  ASSUME Unfinished, Times, OwnPids, NEW s \in Shells, Shell(s), NEW kind \in Kinds,
         MakeMarker(s, kind), Goto(s, Place(kind)), Alive(s), ~Starts(s), UNCHANGED endedIn
  PROVE  HasItsMarker(s)'
  <1>1. pc'[s] = Place(kind) /\ endedIn'[s] = None /\ pid' = pid
    BY OwnStep, BornAtStart DEF Goto, Unfinished, TypeOK
  <1>2. Kind(s)' = kind
    BY <1>1, LockoutConstantsOK DEF Kind, Place, Kinds
  <1>3. <<kind, pid[s]>> \in Kinds \X Pids
    BY DEF OwnPids, Alive
  <1>4. markers'[<<kind, pid[s]>>] = [made |-> now, by |-> s, nth |-> marks[s] + 1]
    BY <1>3 DEF MakeMarker, Unfinished, TypeOK
  <1>5. marks'[s] = marks[s] + 1
    BY DEF MakeMarker, Unfinished, TypeOK
  <1>6. markers'[<<kind, pid[s]>>] \in Marker /\ markers'[<<kind, pid[s]>>] # None
    BY <1>4, LockoutConstantsOK, <1>3 DEF Marker, Unfinished, TypeOK
  <1>7. now >= file.changed /\ file' = file
    BY OwnStep DEF Times, Unfinished, TypeOK
  <1> QED
    BY <1>1, <1>2, <1>4, <1>5, <1>6, <1>7 DEF HasItsMarker

\* The marker of a shell ended in the init.el there is stays, or is forgiven.
LEMMA KeptKept ==
  ASSUME Unfinished, Times, OwnPids, Removable, OwnMarkers, Kept,
         NEW s \in Shells, Shell(s), races' = {}
  PROVE  Kept'
  <1> SUFFICES ASSUME NEW t \in Shells, RanLisp(t)', ran'[t] = file'.version, ~Forgiven(t)'
               PROVE  HasItsMarker(t)'
    BY DEF Kept
  <1>1. file' = file
    BY OwnStep
  <1>2. ASSUME RanLisp(t), Kind(t)' = Kind(t), ran'[t] = ran[t], marks'[t] = marks[t],
               pid'[t] = pid[t], t = s => Ends(s)
        PROVE  HasItsMarker(t)'
    <2>1. HasItsMarker(t) /\ ~Forgiven(t)
      BY <1>1, <1>2, StaysForgiven DEF Kept
    <2>2. pid[t] \in Pids
      BY <1>2, LockoutConstantsOK DEF OwnPids, RanLisp, Lisp, Unfinished, EndedInEnded
    <2>3. markers'[<<Kind(t), pid[t]>>] = markers[<<Kind(t), pid[t]>>]
      BY <1>2, <2>1, <2>2, NobodyTakes
    <2> QED
      BY <1>1, <1>2, <2>1, <2>3 DEF HasItsMarker
  <1>3. CASE t # s
    <2>1. /\ pc'[t] = pc[t] /\ endedIn'[t] = endedIn[t] /\ ran'[t] = ran[t]
          /\ marks'[t] = marks[t] /\ pid'[t] = pid[t]
      BY <1>3, Others DEF Unfinished
    <2>2. RanLisp(t) /\ Kind(t)' = Kind(t)
      BY <2>1 DEF RanLisp, Kind
    <2> QED
      BY <1>2, <1>3, <2>1, <2>2
  <1>4. CASE t = s /\ Ends(s)
    <2>1. endedIn[s] = None /\ endedIn[s] \notin Lisp
      BY OwnStep, LockoutConstantsOK DEF Lisp
    <2>2. pc'[s] = "ended" /\ pc[s] \in Lisp /\ endedIn'[s] = pc[s]
      BY <1>4, <2>1 DEF Ends, Goto, RanLisp, Lisp, Unfinished, TypeOK
    <2>3. RanLisp(s) /\ Kind(s)' = Kind(s)
      BY <2>1, <2>2 DEF RanLisp, Kind, Lisp
    <2> QED
      BY <1>2, <1>4, <2>3 DEF Ends
  <1>5. CASE t = s /\ ~Ends(s)
    <2>1. endedIn[s] = None /\ endedIn[s] \notin Lisp
      BY OwnStep, LockoutConstantsOK DEF Lisp
    <2>2. endedIn' = endedIn
      BY <1>5 DEF Shell, Starts, ReadsText, Stats, Lists, Skips, Judges, Clears, Marks, Loads,
           FirstLine, HookReturns, Reload, history
    <2>3. pc'[s] \in Lisp
      BY <1>5, <2>1, <2>2 DEF RanLisp
    <2>4. Marks(s) \/ FirstLine(s)
      <3>1. \A place : Goto(s, place) => pc'[s] = place
        BY DEF Goto, Unfinished, TypeOK
      <3>2. \A place : Goto(s, place) => place \in Lisp
        BY <2>3, <3>1
      <3>3. ~ Starts(s) /\ ~ ReadsText(s) /\ ~ Stats(s) /\ ~ Lists(s)
        BY <3>2 DEF Starts, ReadsText, Stats, Lists, Lisp
      <3>4. AfterRead(s) \notin Lisp
        BY DEF AfterRead, Lisp
      <3>5. ~ Skips(s) /\ ~ Loads(s) /\ ~ HookReturns(s) /\ ~ Reload(s)
        BY <3>2, <3>4 DEF Skips, Loads, HookReturns, Reload, Lisp
      <3>6. \A ms : ~ ToClear(s, ms)
        BY <3>2 DEF ToClear, Lisp
      <3>7. ~ Judges(s) /\ ~ Clears(s)
        BY <3>6 DEF Judges, Clears
      <3> QED
        BY <1>5, <3>3, <3>5, <3>7 DEF Shell
    <2>5. \E kind \in Kinds : /\ MakeMarker(s, kind) /\ Goto(s, Place(kind))
                             /\ Alive(s) /\ ~Starts(s)
      BY <2>3, <2>4 DEF Marks, FirstLine, Kinds, Place, Goto, Lisp, Alive, Starts, Unfinished, TypeOK
    <2> QED
      BY <1>5, <2>2, <2>5, BeginsKept
  <1> QED
    BY <1>3, <1>4, <1>5

\* A shell does not forget whom it saw hang, nor do more of them hang.
LEMMA HungOnTextShrinks ==
  ASSUME Unfinished, NEW s \in Shells, Shell(s), NEW t \in Shells,
         \A x \in known[t] : x \in Shells /\ endedIn[x] \in Lisp,
         known'[t] = known[t], text'[t] = text[t]
  PROVE  HungOnText(t)' \subseteq HungOnText(t)
  BY EndedStays DEF HungOnText

\* What was seen stuck stays stuck: no shell gets a pid that is being judged.
LEMMA StaysStuck ==
  ASSUME Unfinished, NEW s \in Shells, Shell(s), races' = {}, NEW p, ~ProcessAlive(p),
         NEW t \in Shells, NEW m \in seen[t], m.pid = p
  PROVE  ~ProcessAlive(p)'
  <1>1. CASE Starts(s)
    <2>1. PICK q \in Pids : pid' = [pid EXCEPT ![s] = q] /\ ~HasMarker(q)
      BY <1>1 DEF Starts
    <2>2. q # p /\ pid'[s] = q
      BY <2>1 DEF HasMarker, Unfinished, TypeOK
    <2> QED
      BY <2>2, Others DEF ProcessAlive, Alive, Unfinished
  <1>2. CASE ~Starts(s)
    BY <1>2, BornAtStart DEF ProcessAlive
  <1> QED
    BY <1>1, <1>2

\* What a shell knows, at the place it has come to.
ReadingOf(s) ==
    /\ pc[s] = "mark" => why[s] # "forget"
    /\ \A t \in known[s] : t \in Shells /\ endedIn[t] \in Lisp
    /\ why[s] # "forget" =>
         /\ pc[s] \in {"stat", "list"} => text[s] = file.version
         /\ pc[s] = "list" => changed[s] = file.changed
         /\ pc[s] = "judge" => (\A t \in HungOnText(s) : SeesStuck(s, t))
         /\ pc[s] \in {"clear", "mark"} => HungOnText(s) = {}

\* What is said of those that read is said of each.
LEMMA ReadingOfEach == Reading <=> \A s \in Shells : ReadingOf(s)
  BY DEF Reading, ReadingOf

\* What others do leaves it so.
LEMMA ReadingOfOthers ==
  ASSUME Unfinished, NEW s \in Shells, Shell(s), races' = {}, NEW t \in Shells, t # s,
         ReadingOf(t)
  PROVE  ReadingOf(t)'
  <1>1. /\ pc'[t] = pc[t] /\ why'[t] = why[t] /\ text'[t] = text[t]
        /\ changed'[t] = changed[t] /\ seen'[t] = seen[t] /\ known'[t] = known[t]
    BY Others DEF Unfinished
  <1>2. file' = file
    BY OwnStep
  <1>3. \A x \in known[t] : x \in Shells /\ endedIn[x] \in Lisp
    BY DEF ReadingOf
  <1>4. HungOnText(t)' \subseteq HungOnText(t)
    BY <1>1, <1>3, HungOnTextShrinks
  <1>5. \A x \in known'[t] : x \in Shells /\ endedIn'[x] \in Lisp
    BY <1>1, <1>3, EndedStays
  <1>6. ASSUME NEW x \in HungOnText(t), SeesStuck(t, x) PROVE SeesStuck(t, x)'
    <2>1. PICK m \in seen[t] : m.pid = pid[x] /\ m.is.made >= changed[t] /\ ~ProcessAlive(m.pid)
      BY <1>6 DEF SeesStuck
    <2>2. pid'[x] = pid[x]
      BY <1>3, EndedStays DEF HungOnText
    <2>3. ~ProcessAlive(m.pid)'
      BY <2>1, StaysStuck
    <2> QED
      BY <1>1, <2>1, <2>2, <2>3 DEF SeesStuck
  <1> QED
    BY <1>1, <1>2, <1>4, <1>5, <1>6 DEF ReadingOf

\* stuck_markers lists the marker of whom the shell saw hang, if the file is
\* still the one that hung.
LEMMA ListsStuck ==
  ASSUME Unfinished, OwnMarkers, OwnPids, Kept, NEW s \in Shells, Lists(s),
         text[s] = file.version, changed[s] = file.changed,
         NEW t \in HungOnText(s), t \in Shells
  PROVE  SeesStuck(s, t)'
  <1>1. endedIn[t] \in Lisp /\ ~Forgiven(t) /\ ran[t] = file.version
    BY DEF HungOnText, Hung
  <1>2. HasItsMarker(t) /\ pc[t] = "ended" /\ pid[t] \in Pids
    BY <1>1, LockoutConstantsOK DEF Kept, RanLisp, Lisp, Unfinished, EndedInEnded, OwnPids
  <1> DEFINE n == <<Kind(t), pid[t]>>
             m == [kind |-> Kind(t), pid |-> pid[t], is |-> markers[n],
                   old |-> now - markers[n].made > StuckAfter]
  <1>3. n \in Kinds \X Pids /\ markers[n] # None
    BY <1>2 DEF Kind, Kinds, HasItsMarker
  <1>4. m \in Listing
    BY <1>3 DEF Listing
  <1>5. seen'[s] = Listing /\ changed' = changed /\ pid' = pid
    BY DEF Lists, Unfinished, TypeOK
  <1>6. ~ProcessAlive(pid[t])
    <2>1. ASSUME NEW x \in Shells, Alive(x), pid[x] = pid[t] PROVE FALSE
      <3>1. markers[n].by = x
        BY <1>3, <2>1 DEF OwnMarkers
      <3> QED
        BY <1>2, <2>1, <3>1 DEF HasItsMarker, Alive
    <2> QED
      BY <2>1 DEF ProcessAlive
  <1>7. ~ProcessAlive(pid[t])'
    <2>1. \A x \in Shells : Alive(x)' <=> Alive(x)
      BY DEF Lists, Goto, Alive, Unfinished, TypeOK
    <2> QED
      BY <1>5, <1>6, <2>1 DEF ProcessAlive
  <1>8. m.is.made >= changed[s] /\ m.pid = pid[t]
    BY <1>2 DEF HasItsMarker
  <1> QED
    BY <1>4, <1>5, <1>7, <1>8 DEF SeesStuck

\* A shell that saw the marker of one that hung on its text skips it.
LEMMA StuckSkips ==
  ASSUME NEW s, NEW t \in HungOnText(s), SeesStuck(s, t)
  PROVE  SkipInit(s)
  BY DEF SeesStuck, SkipInit, Stuck

\* Each step of read leaves it so: what the shell reads is of the file there is
\* until it lists the markers, and skip_init sees the one that hung.
LEMMA ReadingOfSelf ==
  ASSUME Unfinished, Times, OwnPids, OwnMarkers, Kept, NEW s \in Shells, Shell(s), races' = {},
         ReadingOf(s)
  PROVE  ReadingOf(s)'
  <1>1. file' = file
    BY OwnStep
  <1>2. \A x \in known[s] : x \in Shells /\ endedIn[x] \in Lisp /\ endedIn'[x] \in Lisp
    BY EndedStays DEF ReadingOf
  <1> USE DEF Goto, Unfinished, TypeOK
  <1>3. CASE Starts(s) \/ Loads(s) \/ FirstLine(s) \/ HookReturns(s) \/ Reload(s)
    <2>1. known'[s] = known[s] /\ pc'[s] \in {"text", "started", "prompt", "hook", "list"}
      BY <1>3 DEF Starts, Loads, FirstLine, HookReturns, Reload, AfterRead, locals, history
    <2>2. pc'[s] = "list" => why'[s] = "forget"
      BY <1>3 DEF Starts, Loads, FirstLine, HookReturns, Reload, AfterRead
    <2> QED
      BY <1>2, <2>1, <2>2 DEF ReadingOf
  <1>4. CASE ReadsText(s)
    <2>1. /\ known'[s] = Hung /\ pc'[s] = "stat" /\ text'[s] = file.version
          /\ endedIn' = endedIn
      BY <1>4 DEF ReadsText
    <2> QED
      BY <1>1, <2>1 DEF ReadingOf, Hung
  <1>5. CASE Stats(s)
    <2>1. /\ known'[s] = known[s] /\ pc[s] = "stat" /\ pc'[s] = "list" /\ text'[s] = text[s]
          /\ changed'[s] = file.changed /\ why' = why
      BY <1>5 DEF Stats, history
    <2> QED
      BY <1>1, <1>2, <2>1 DEF ReadingOf
  <1>6. CASE Lists(s)
    <2>1. /\ known'[s] = known[s] /\ pc[s] = "list" /\ pc'[s] = "judge" /\ text'[s] = text[s]
          /\ why' = why
      BY <1>6 DEF Lists, history
    <2>2. ASSUME why[s] # "forget", NEW t \in HungOnText(s)' PROVE SeesStuck(s, t)'
      <3>1. t \in HungOnText(s) /\ t \in Shells
        BY <1>2, <2>1, HungOnTextShrinks DEF HungOnText
      <3>2. text[s] = file.version /\ changed[s] = file.changed
        BY <2>1, <2>2 DEF ReadingOf
      <3> QED
        BY <1>6, <3>1, <3>2, ListsStuck
    <2> QED
      BY <1>2, <2>1, <2>2 DEF ReadingOf
  <1>7. CASE Skips(s) \/ Marks(s) \/ Ends(s)
    <2>1. known'[s] = {} /\ pc'[s] \in {"started", "prompt", "load", "ended"}
      BY <1>7 DEF Skips, Marks, Ends, LocalsGone, AfterRead
    <2> QED
      BY <2>1 DEF ReadingOf
  <1>8. CASE Judges(s)
    <2>1. /\ known'[s] = known[s] /\ pc[s] = "judge" /\ text'[s] = text[s]
          /\ pc'[s] \in {"clear", "text", "mark"}
          /\ why[s] = "forget" => pc'[s] = "text" \/ (pc'[s] = "clear" /\ why'[s] = "forget")
          /\ why[s] # "forget" => why'[s] = why[s]
      BY <1>8 DEF Judges, ToClear
    <2>2. ASSUME why[s] # "forget" PROVE HungOnText(s) = {}
      BY <1>8, <2>1, <2>2, StuckSkips DEF Judges, ReadingOf
    <2>3. HungOnText(s)' \subseteq HungOnText(s)
      BY <1>2, <2>1, HungOnTextShrinks
    <2> QED
      BY <1>2, <2>1, <2>2, <2>3 DEF ReadingOf
  <1>9. CASE Clears(s)
    <2>1. PICK m \in seen[s] : ToClear(s, seen[s] \ {m})
      BY <1>9 DEF Clears
    <2>2. /\ known'[s] = known[s] /\ pc[s] = "clear" /\ text'[s] = text[s]
          /\ pc'[s] \in {"clear", "text", "mark"}
          /\ why[s] = "forget" => pc'[s] = "text" \/ (pc'[s] = "clear" /\ why'[s] = "forget")
          /\ why[s] # "forget" => why'[s] = why[s]
      BY <1>9, <2>1 DEF Clears, ToClear
    <2>3. HungOnText(s)' \subseteq HungOnText(s)
      BY <1>2, <2>2, HungOnTextShrinks
    <2> QED
      BY <1>2, <2>2, <2>3 DEF ReadingOf
  <1> QED
    BY <1>3, <1>4, <1>5, <1>6, <1>7, <1>8, <1>9 DEF Shell

\* No step of a shell breaks any of it.
LEMMA ShellNotAgain ==
  ASSUME NotAgain, NEW s \in Shells, Shell(s)
  PROVE  OwnPids' /\ Removable' /\ (races' = {} => (OwnMarkers' /\ Kept' /\ Reading'))
  <1>1. OwnPids' /\ Removable'
    BY OwnPidsKept, RemovableKept DEF NotAgain
  <1>2. ASSUME races' = {} PROVE OwnMarkers' /\ Kept' /\ Reading'
    <2>1. races = {}
      BY <1>2, OwnStep DEF NotAgain
    <2>2. OwnMarkers' /\ Kept'
      BY <1>2, <2>1, OwnMarkersKept, KeptKept DEF NotAgain
    <2>3. ASSUME NEW t \in Shells PROVE ReadingOf(t)'
      <3>1. ReadingOf(t)
        BY <2>1, ReadingOfEach DEF NotAgain
      <3> QED
        BY <1>2, <2>1, <3>1, ReadingOfOthers, ReadingOfSelf DEF NotAgain
    <2>4. Reading'
      BY <2>3 DEF Reading, ReadingOf
    <2> QED
      BY <2>2, <2>4
  <1> QED
    BY <1>1, <1>2

\* A save makes every text read so far that of another version.
LEMMA SavesNotAgain ==
  ASSUME NotAgain, Saves
  PROVE  OwnPids' /\ Removable' /\ (races' = {} => (OwnMarkers' /\ Kept' /\ Reading'))
  <1>1. /\ file'.version = file.version + 1 /\ file.version \in Nat
        /\ UNCHANGED <<markers, pc, why, pid, text, changed, seen, marks, ran, endedIn, forgiven, known>>
    BY DEF Saves, locals, NotAgain, Unfinished, TypeOK
  <1>2. OwnPids' /\ Removable' /\ OwnMarkers' <=> OwnPids /\ Removable /\ OwnMarkers
    BY <1>1 DEF OwnPids, Removable, OwnMarkers, Alive
  <1>3. ASSUME races' = {} PROVE OwnMarkers' /\ Kept' /\ Reading'
    <2>1. races = {} /\ \A s \in Shells : pc[s] \in {"stat", "list"} => why[s] = "forget"
      BY <1>3 DEF Saves
    <2>2. Kept'
      <3>1. ASSUME NEW t \in Shells PROVE ran[t] # file'.version
        BY <1>1 DEF NotAgain, Times, Unfinished, TypeOK
      <3> QED
        BY <1>1, <3>1 DEF Kept
    <2>3. Reading'
      <3>1. ASSUME NEW s \in Shells
            PROVE  /\ HungOnText(s)' = HungOnText(s)
                   /\ \A t \in Shells : SeesStuck(s, t)' <=> SeesStuck(s, t)
        BY <1>1 DEF HungOnText, Hung, Forgiven, SeesStuck, ProcessAlive, Alive
      <3>2. ASSUME NEW s \in Shells, NEW t \in HungOnText(s) PROVE t \in Shells
        BY <3>2 DEF HungOnText, Hung
      <3> QED
        BY <1>1, <2>1, <3>1, <3>2 DEF Reading, NotAgain
    <2> QED
      BY <1>2, <2>1, <2>2, <2>3 DEF NotAgain
  <1> QED
    BY <1>1, <1>2, <1>3 DEF NotAgain, OwnPids, Removable, Alive

\* Each step keeps that what hung is not run again, while no race has been.
LEMMA NextNotAgain == NotAgain /\ [Next]_vars => NotAgain'
  <1> SUFFICES ASSUME NotAgain, [Next]_vars PROVE NotAgain'
    OBVIOUS
  <1>1. Unfinished' /\ Times'
    BY NextUnfinished, TimesKept DEF NotAgain
  <1>2. CASE \E s \in Shells : Shell(s)
    BY <1>1, <1>2, ShellNotAgain DEF NotAgain
  <1>3. CASE Saves
    BY <1>1, <1>3, SavesNotAgain DEF NotAgain
  <1>4. CASE Tick \/ UNCHANGED vars
    <2>1. /\ UNCHANGED <<file, markers, pc, why, pid, text, changed, seen, marks, ran, endedIn>>
          /\ UNCHANGED <<forgiven, known, races>>
      BY <1>4 DEF Tick, vars, disk, locals, history
    <2>2. /\ OwnPids' <=> OwnPids
          /\ Removable' <=> Removable
          /\ OwnMarkers' <=> OwnMarkers
      BY <2>1 DEF OwnPids, Removable, OwnMarkers, Alive
    <2>3. Kept' <=> Kept
      BY <2>1 DEF Kept, RanLisp, HasItsMarker, Kind, Forgiven
    <2>4. Reading' <=> Reading
      BY <2>1 DEF Reading, HungOnText, Hung, Forgiven, SeesStuck, ProcessAlive, Alive
    <2> QED
      BY <1>1, <2>1, <2>2, <2>3, <2>4 DEF NotAgain
  <1> QED
    BY <1>2, <1>3, <1>4 DEF Next

\* init.rs's read and lockout.rs, in any number of shells that start, reload,
\* hang and are killed between any two of their system calls: a shell that
\* begins to read an init.el in which another was ended does not run it, while
\* no pid is given out again whose marker is there or is being judged, the file
\* is not saved in the middle of a read, and no marker is removed for another.
THEOREM HungIsNotRunAgainAlways == Spec => HungIsNotRunAgain
  <1>1. Init => NotAgain
    <2>1. Init => Unfinished
      BY LockoutConstantsOK DEF Init, TypeOK, Places, Unfinished, EndedInEnded, MarkerMeansUnfinished
    <2>2. Init => Times /\ OwnPids /\ Removable
      BY DEF Init, Times, OwnPids, Removable, Alive
    <2>3. Init => OwnMarkers /\ Reading
      BY DEF Init, OwnMarkers, Reading
    <2>4. Init => Kept
      BY LockoutConstantsOK DEF Init, Kept, RanLisp, Lisp
    <2> QED
      BY <2>1, <2>2, <2>3, <2>4 DEF NotAgain
  <1>2. NotAgain => [races = {} => \A s \in Shells : ~RunsAgain(s)]_vars
    BY DEF NotAgain, Reading, RunsAgain, HungOnText
  <1> QED
    BY <1>1, <1>2, NextNotAgain, PTL DEF Spec, HungIsNotRunAgain
=============================================================================
