-------------------------- MODULE ModeServerProofs --------------------------
(***************************************************************************)
(* Theorems about ModeServer, for every number of requests and places,     *)
(* every size of the socket and of MOST_UNREAD, and any program: one that  *)
(* breaks the protocol as often as it likes.                               *)
(***************************************************************************)
EXTENDS ModeServer, SequenceTheorems, FiniteSetTheorems, TLAPS

\* A call of indent has a place to ask about.
CallTyped ==
    /\ call \in Frame /\ depths \in Depths \cup {None}
    /\ call.op = "indent" => call.spot \in Spot

\* A completion request in flight has a place: what its reply is kept under.
Typing ==
    /\ TypeOK
    /\ inFlight # None /\ inFlight.wire.kind = "complete" => inFlight.wire.at \in Places
    /\ CallTyped

\* No call is a frame.
LEMMA IdleTyping == Idle \in Frame /\ Idle.op = "idle" /\ Idle.spot = None
  BY DEF Idle, Frame

\* The initial state is typed.
LEMMA InitTyping == Init => Typing
  <1> SUFFICES ASSUME Init PROVE Typing
    OBVIOUS
  <1>1. notice \in BOOLEAN /\ alive \in BOOLEAN /\ greeted \in BOOLEAN
    BY DEF Init
  <1>2. kept \in [Requests -> Kept \cup {None}]
    BY DEF Init, NothingKept
  <1>3. buf \in Seq(Token) /\ toServer \in Seq(Wire) /\ fromServer \in Seq(Token)
    BY DEF Init
  <1> QED
    BY <1>1, <1>2, <1>3, IdleTyping DEF Init, Typing, CallTyped, TypeOK

-----------------------------------------------------------------------------
\* A server discarded, turned off or defined anew is typed whatever it was.
LEMMA DiscardTyping ==
  ASSUME TypeOK, NEW to \in {"undefined", "notStarted", "off"}, Discard(to)
  PROVE  /\ state' \in {"undefined", "notStarted", "off"}
         /\ features' \subseteq Extra /\ lastId' \in Nat /\ forgotten' \in Nat
         /\ inFlight' = None
         /\ kept' \in [Requests -> Kept \cup {None}] /\ keptItems' = None
         /\ indentAnswer' = None
         /\ slot' \in {"free", "socket", "shell"} /\ buf' \in Seq(Token)
         /\ greeted' \in BOOLEAN /\ serving' = None /\ said' \in Nat
         /\ toServer' \in Seq(Wire) /\ fromServer' \in Seq(Token)
  <1>1. greeted' \in BOOLEAN
    BY DEF Discard, FreshProcess
  <1>2. kept' \in [Requests -> Kept \cup {None}]
    BY DEF Discard, FreshRunning, NothingKept
  <1>3. buf' \in Seq(Token) /\ toServer' \in Seq(Wire) /\ fromServer' \in Seq(Token)
    BY DEF Discard, FreshProcess
  <1>4. slot' \in {"free", "socket", "shell"}
    BY DEF Discard, Drop, HasProcess, TypeOK
  <1> QED
    BY <1>1, <1>2, <1>3, <1>4 DEF Discard, FreshRunning, FreshProcess

\* Turning a server off leaves a typed state.
LEMMA TurnOffTyping ==
  ASSUME TypeOK, NEW why \in Reasons, TurnOff(why)
  PROVE  Typing'
  <1>1. Discard("off")
    BY DEF TurnOff
  <1>2. /\ reason' \in Reasons \cup {None} /\ notice' \in BOOLEAN
        /\ alive' \in BOOLEAN /\ offers' \subseteq Extra
        /\ faults' \subseteq {"output", "input"} /\ broken' \in Nat
        /\ call' = Idle /\ depths' = None /\ line' \in Nat
    BY DEF TurnOff, TypeOK
  <1> QED
    BY <1>1, <1>2, IdleTyping, DiscardTyping DEF Typing, CallTyped, TypeOK

\* A step of a call that leaves everything but the call as it was.
LEMMA PcTyping ==
  ASSUME Typing, NEW pc \in {"take", "next", "fill", "wait"}, Continue(pc)
  PROVE  CallTyped'
  BY DEF Continue, Frame, Typing, CallTyped

\* So does a call's return.
LEMMA ReturnTyping ==
  ASSUME NEW answer \in Depths \cup {None}, Return(answer)
  PROVE  CallTyped'
  BY IdleTyping DEF Return, CallTyped

\* A call starts typed.
LEMMA CallTyping ==
  ASSUME NEW op \in {"replies", "indent", "read_waiting"}, NEW asks \in Seq(Requests),
         NEW spot \in Spot \cup {None}, op = "indent" => spot \in Spot,
         Call(op, asks, spot)
  PROVE  CallTyped'
  BY DEF Call, Idle, Frame, CallTyped

\* Starting a call keeps the type.
LEMMA CallsTyping == Typing /\ Calls => Typing'
  <1> SUFFICES ASSUME Typing, Calls PROVE Typing'
    OBVIOUS
  <1> USE DEF Typing, CallTyped
  <1>1. ASSUME NEW same \in BOOLEAN, Define(same) PROVE Typing'
    <2>1. Discard("notStarted")
      BY <1>1 DEF Define, Anew
    <2>2. alive' \in BOOLEAN /\ notice' \in BOOLEAN
      BY <1>1 DEF Define, Anew
    <2> QED
      BY <1>1, <2>1, <2>2, DiscardTyping DEF Define, Anew, TypeOK
  <1>2. CASE Remove
    <2>1. Discard("undefined")
      BY <1>2 DEF Remove, Anew
    <2>2. alive' \in BOOLEAN /\ notice' \in BOOLEAN
      BY <1>2 DEF Remove, Anew
    <2> QED
      BY <1>2, <2>1, <2>2, DiscardTyping DEF Remove, Anew, TypeOK
  <1>3. CASE NewLine
    BY <1>3 DEF NewLine, ForgetReplies, NothingKept, TypeOK, server, memo, program, pipes
  <1>4. CASE TakeNotices
    <2>1. notice' \in BOOLEAN
      BY <1>4 DEF TakeNotices
    <2> QED
      BY <1>4, <2>1 DEF TakeNotices, TypeOK, running, memo, program, pipes
  <1>5. CASE ReadWaiting
    <2>1. CallTyped'
      <3>1. Call("read_waiting", <<>>, None) /\ <<>> \in Seq(Requests)
        BY <1>5 DEF ReadWaiting
      <3> QED
        BY <3>1, CallTyping
    <2>2. UNCHANGED <<server, running, slot, buf, program, pipes, line>>
      BY <1>5 DEF ReadWaiting
    <2> QED
      BY <2>1, <2>2 DEF TypeOK, server, running, memo, program, pipes
  <1>6. ASSUME NEW spot \in Spot, Indent(spot) PROVE Typing'
    <2>1. CallTyped'
      <3>1. Call("indent", <<>>, spot) /\ <<>> \in Seq(Requests)
        BY <1>6 DEF Indent
      <3> QED
        BY <3>1, CallTyping
    <2>2. UNCHANGED <<server, running, slot, buf, program, pipes, line>>
      BY <1>6 DEF Indent
    <2> QED
      BY <2>1, <2>2 DEF TypeOK, server, running, memo, program, pipes
  <1>7. ASSUME NEW asks \in AskLists, NEW spot \in Spot \cup {None}, Draw(asks, spot)
        PROVE Typing'
    <2>0. asks \in Seq(Requests)
      BY ConstantsOK
    <2>1. CASE Started /\ Call("replies", asks, spot) /\ UNCHANGED running
      <3>1. CallTyped'
        BY <2>0, <2>1, CallTyping
      <3>2. alive' \in BOOLEAN /\ greeted' \in BOOLEAN
        BY <2>1 DEF Started, FreshProcess
      <3> QED
        BY <2>1, <3>1, <3>2 DEF Started, FreshProcess, TypeOK, running, memo
    <2>2. CASE TurnOff("cannot start")
      BY <2>2, TurnOffTyping DEF Reasons
    <2>3. CASE /\ kept' = IF state = "running" THEN Retained(asks) ELSE kept
               /\ IF asks # <<>> THEN Call("replies", asks, spot)
                                 ELSE UNCHANGED <<call, depths>>
               /\ UNCHANGED <<server, features, lastId, inFlight, keptItems, forgotten,
                              indentAnswer, slot, buf, program, pipes, line>>
      <3>1. CallTyped'
        BY <2>0, <2>3, CallTyping DEF TypeOK
      <3>2. kept' \in [Requests -> Kept \cup {None}]
        BY <2>3 DEF Retained, TypeOK
      <3> QED
        BY <2>3, <3>1, <3>2 DEF TypeOK, server, program, pipes
    <2> QED
      BY <1>7, <2>1, <2>2, <2>3 DEF Draw
  <1> QED
    BY <1>1, <1>2, <1>3, <1>4, <1>5, <1>6, <1>7 DEF Calls

\* So does what the program does.
LEMMA ProgramTyping == Typing /\ Program => Typing'
  <1> SUFFICES ASSUME Typing, Program PROVE Typing'
    OBVIOUS
  <1> USE DEF Typing, CallTyped, OfProgram, server, running, memo
  <1>0. ASSUME NEW token \in Token, Write(token) PROVE fromServer' \in Seq(Token)
    BY <1>0 DEF Write, TypeOK
  <1>1. CASE ProgramHello
    <2>1. [t |-> "hello", id |-> 0, ans |-> None] \in Token
      BY DEF Token, Settling
    <2>2. greeted' \in BOOLEAN /\ fromServer' \in Seq(Token)
      BY <1>0, <1>1, <2>1 DEF ProgramHello
    <2> QED
      BY <1>1, <2>2 DEF ProgramHello, TypeOK
  <1>2. CASE ProgramReads
    <2>1. serving' \in Wire /\ toServer' \in Seq(Wire)
      BY <1>2 DEF ProgramReads, TypeOK
    <2> QED
      BY <1>2, <2>1 DEF ProgramReads, TypeOK
  <1>3. CASE ProgramSays
    <2>1. [t |-> "data", id |-> 0, ans |-> None] \in Token
      BY DEF Token, Unsettled
    <2>2. fromServer' \in Seq(Token)
      BY <1>0, <1>3, <2>1 DEF ProgramSays
    <2> QED
      BY <1>3, <2>2 DEF ProgramSays, TypeOK
  <1>4. CASE ProgramReplies
    <2>1. serving \in Wire
      BY <1>4 DEF ProgramReplies, TypeOK
    <2>2. PICK ans \in {serving, None} : Write([t |-> "end", id |-> serving.id, ans |-> ans])
      BY <1>4 DEF ProgramReplies
    <2>3. [t |-> "end", id |-> serving.id, ans |-> ans] \in Token
      BY <2>1 DEF Token, Settling, Wire
    <2>4. fromServer' \in Seq(Token)
      BY <1>0, <2>2, <2>3
    <2> QED
      BY <1>4, <2>4 DEF ProgramReplies, TypeOK
  <1>5. CASE ProgramExits
    <2>1. alive' \in BOOLEAN
      BY <1>5 DEF ProgramExits
    <2> QED
      BY <1>5, <2>1 DEF ProgramExits, TypeOK, pipes
  <1>6. CASE ProgramStrays
    <2>1. PICK t \in Settling \cup Unsettled, id \in 0 .. lastId + 1 :
            Write([t |-> t, id |-> id, ans |-> None])
      BY <1>6 DEF ProgramStrays
    <2>2. [t |-> t, id |-> id, ans |-> None] \in Token
      BY DEF Token, TypeOK
    <2>3. fromServer' \in Seq(Token)
      BY <1>0, <2>1, <2>2
    <2> QED
      BY <1>6, <2>3 DEF ProgramStrays, TypeOK
  <1>7. CASE ProgramStopsReading
    BY <1>7 DEF ProgramStopsReading, TypeOK, pipes
  <1> QED
    BY <1>1, <1>2, <1>3, <1>4, <1>5, <1>6, <1>7 DEF Program

\* So does reading what is in the buffer.
LEMMA TakeTyping ==
  ASSUME Typing,
         \/ TakeTooMuch \/ TakeIncomplete \/ TakeNone
         \/ FirstLineBad \/ FirstLineGood \/ ReplyBad \/ ReplyWhole
  PROVE  Typing'
  <1> USE DEF Typing, CallTyped
  <1>0. ASSUME AfterTakeEmpty PROVE CallTyped'
    BY <1>0, PcTyping DEF AfterTakeEmpty
  <1>1. CASE TakeTooMuch
    BY <1>1, TurnOffTyping DEF TakeTooMuch, Reasons
  <1>2. CASE TakeIncomplete
    <2>1. UNCHANGED <<server, running, slot, buf, program, pipes, line>>
      BY <1>2 DEF TakeIncomplete
    <2>2. CallTyped'
      BY <1>0, <1>2 DEF TakeIncomplete
    <2> QED
      BY <2>1, <2>2 DEF TypeOK, server, running, memo, program, pipes
  <1>3. CASE TakeNone
    <2>1. UNCHANGED <<server, running, slot, buf, program, pipes, line>>
      BY <1>3 DEF TakeNone
    <2>2. CallTyped'
      BY <1>0, <1>3 DEF TakeNone
    <2> QED
      BY <2>1, <2>2 DEF TypeOK, server, running, memo, program, pipes
  <1>4. CASE FirstLineBad
    BY <1>4, TurnOffTyping DEF FirstLineBad, Reasons
  <1>5. CASE FirstLineGood
    <2>1. PICK i \in DOMAIN buf : Drain(i)
      BY <1>5 DEF FirstLineGood
    <2>2. buf' \in Seq(Token)
      BY <2>1 DEF Drain, TypeOK
    <2>3. CallTyped'
      BY <1>5, PcTyping, ReturnTyping DEF FirstLineGood
    <2>4. kept' \in [Requests -> Kept \cup {None}]
      BY <1>5 DEF FirstLineGood, FreshRunning, NothingKept
    <2> QED
      BY <1>5, <2>2, <2>3, <2>4 DEF FirstLineGood, FreshRunning, TypeOK, program, pipes
  <1>6. CASE ReplyBad
    BY <1>6, TurnOffTyping DEF ReplyBad, Reasons
  <1>7. CASE ReplyWhole
    <2>1. inFlight \in Sent
      BY <1>7 DEF ReplyWhole, Reading, TypeOK
    <2>2. PICK i \in DOMAIN buf :
            /\ Drain(i) /\ inFlight' = None /\ Keep(buf[i].ans)
            /\ LET answer == NoteDepths(buf[i].ans) IN
               IF call.op = "indent" /\ call.own # 0
                 THEN Return([own |-> call.own, ans |-> answer]) /\ indentAnswer' = None
                 ELSE /\ indentAnswer' = answer
                      /\ IF call.op = "read_waiting" THEN Return(None) ELSE Continue("next")
      BY <1>7 DEF ReplyWhole
    <2> DEFINE ans == buf[i].ans
               answer == NoteDepths(ans)
    <2>3. ans \in Wire \cup {None} /\ answer \in Wire \cup {None}
      <3>1. buf[i] \in Token
        BY DEF TypeOK
      <3>2. ans \in Wire \cup {None}
        BY <3>1 DEF Token
      <3> QED
        BY <3>2 DEF NoteDepths, TypeOK
    <2>4. buf' \in Seq(Token)
      BY <2>2 DEF Drain, TypeOK
    <2>5. /\ kept' \in [Requests -> Kept \cup {None}]
          /\ keptItems' \in KeptItems \cup {None}
      <3>1. CASE UNCHANGED memo
        BY <3>1 DEF memo, TypeOK
      <3>2. CASE KeepAlways(ans)
        <4>1. inFlight.line \in Nat /\ inFlight.wire.req \in Requests
          BY <2>1 DEF Sent, Wire
        <4>2. [ans |-> ans, line |-> inFlight.line] \in Kept
          BY <2>3, <4>1 DEF Kept
        <4>3. kept' \in [Requests -> Kept \cup {None}]
          BY <3>2, <4>1, <4>2 DEF KeepAlways, KeepAs, TypeOK
        <4>4. ASSUME inFlight.wire.kind = "complete"
              PROVE  [req |-> inFlight.wire.req, at |-> inFlight.wire.at, ans |-> ans,
                      line |-> inFlight.line] \in KeptItems
          <5>1. inFlight.wire.at \in Places
            BY <2>1, <4>4, <1>7 DEF ReplyWhole, Reading
          <5> QED
            BY <2>3, <4>1, <5>1 DEF KeptItems
        <4>5. keptItems' \in KeptItems \cup {None}
          BY <3>2, <4>4 DEF KeepAlways, KeepAs, TypeOK
        <4> QED
          BY <4>3, <4>5
      <3> QED
        BY <2>2, <3>1, <3>2 DEF Keep
    <2>6. /\ CallTyped'
          /\ indentAnswer' \in Wire \cup {None}
      <3>1. CASE call.op = "indent" /\ call.own # 0
        <4>1. [own |-> call.own, ans |-> answer] \in Depths
          BY <2>3 DEF Depths, Frame, TypeOK
        <4> QED
          BY <2>2, <3>1, <4>1, ReturnTyping
      <3>2. CASE ~(call.op = "indent" /\ call.own # 0)
        BY <2>2, <2>3, <3>2, PcTyping, ReturnTyping
      <3> QED
        BY <3>1, <3>2
    <2>7. UNCHANGED <<server, features, lastId, forgotten, slot, program, pipes, line>>
      BY <1>7 DEF ReplyWhole
    <2> QED
      BY <2>2, <2>4, <2>5, <2>6, <2>7 DEF TypeOK, server, program, pipes
  <1> QED
    BY <1>1, <1>2, <1>3, <1>4, <1>5, <1>6, <1>7

\* What is asked next is a request of the right kind, with a place when it
\* asks for items.
LEMMA WantedTyping ==
  ASSUME Typing, NEW w \in Wanted
  PROVE  /\ w.kind \in Kinds /\ w.req \in Requests /\ w.at \in Places \cup {None}
         /\ w.kind = "complete" => w.at \in Places
  <1>1. call.spot # None => call.spot.req \in Requests /\ call.spot.at \in Places
    BY DEF Typing, CallTyped, Frame, Spot
  <1>2. \A i \in DOMAIN call.asks : call.asks[i] \in Requests
    BY DEF Typing, CallTyped, Frame
  <1>3. CASE call.op = "indent"
    BY <1>1, <1>3, ConstantsOK DEF Wanted, Kinds, Extra, Typing, CallTyped, Spot
  <1>4. CASE call.op # "indent" /\ Unanswered(call.asks) # {}
    BY <1>2, <1>4 DEF Wanted, Kinds
  <1>5. CASE call.op # "indent" /\ Unanswered(call.asks) = {}
    BY <1>1, <1>5 DEF Wanted, WantsItems, Kinds, Extra
  <1> QED
    BY <1>3, <1>4, <1>5

\* So does sending a request.
LEMMA SendTyping ==
  ASSUME Typing,
         \/ AllAnswered \/ AwaitReply \/ IndentTooLate
         \/ Send \/ SendInterrupted \/ SendTimesOut \/ SendFails
  PROVE  Typing'
  <1> USE DEF Typing, CallTyped
  <1>1. CASE AllAnswered
    <2>1. CallTyped'
      BY <1>1, ReturnTyping DEF AllAnswered
    <2>2. UNCHANGED <<server, running, slot, buf, program, pipes, line>>
      BY <1>1 DEF AllAnswered
    <2> QED
      BY <2>1, <2>2 DEF TypeOK, server, running, memo, program, pipes
  <1>2. CASE AwaitReply
    <2>1. CallTyped'
      BY <1>2, PcTyping DEF AwaitReply
    <2>2. UNCHANGED <<server, running, slot, buf, program, pipes, line>>
      BY <1>2 DEF AwaitReply
    <2> QED
      BY <2>1, <2>2 DEF TypeOK, server, running, memo, program, pipes
  <1>3. CASE IndentTooLate
    <2>1. CallTyped'
      BY <1>3, ReturnTyping DEF IndentTooLate
    <2>2. UNCHANGED <<server, running, slot, buf, program, pipes, line>>
      BY <1>3 DEF IndentTooLate
    <2> QED
      BY <2>1, <2>2 DEF TypeOK, server, running, memo, program, pipes
  <1>4. CASE Send
    <2>1. PICK w \in Wanted :
            LET wire == [id |-> lastId + 1, kind |-> w.kind, req |-> w.req, at |-> w.at] IN
            /\ toServer' = Append(toServer, wire)
            /\ lastId' = wire.id
            /\ inFlight' = [wire |-> wire, line |-> line]
            /\ call' = IF call.op = "indent"
                         THEN [call EXCEPT !.pc = "take", !.own = wire.id]
                         ELSE [call EXCEPT !.pc = "fill"]
      BY <1>4 DEF Send
    <2> DEFINE wire == [id |-> lastId + 1, kind |-> w.kind, req |-> w.req, at |-> w.at]
    <2>2. /\ wire \in Wire /\ wire.id = lastId + 1
          /\ wire.kind = "complete" => wire.at \in Places
      BY WantedTyping DEF Wire, TypeOK
    <2>3. toServer' \in Seq(Wire)
      BY <2>1, <2>2 DEF TypeOK
    <2>4. /\ inFlight' \in Sent
          /\ inFlight'.wire.kind = "complete" => inFlight'.wire.at \in Places
      BY <2>1, <2>2 DEF TypeOK, Sent
    <2>5. call' \in Frame /\ (call'.op = "indent" => call'.spot \in Spot)
      <3>1. call \in Frame /\ wire.id \in Nat
        BY <2>2 DEF Wire
      <3>2. CASE call.op = "indent"
        BY <2>1, <3>1, <3>2 DEF Frame
      <3>3. CASE call.op # "indent"
        BY <2>1, <3>1, <3>3 DEF Frame
      <3> QED
        BY <3>2, <3>3
    <2>6. UNCHANGED <<server, features, memo, forgotten, indentAnswer, slot, buf,
                      program, fromServer, depths, line>>
      BY <1>4 DEF Send
    <2> QED
      BY <2>1, <2>2, <2>3, <2>4, <2>5, <2>6 DEF TypeOK, server, memo, program
  <1>5. CASE SendInterrupted
    BY <1>5, TurnOffTyping DEF SendInterrupted, Reasons
  <1>6. CASE SendTimesOut
    BY <1>6, TurnOffTyping DEF SendTimesOut, Reasons
  <1>7. CASE SendFails
    BY <1>7, TurnOffTyping DEF SendFails, Reasons
  <1> QED
    BY <1>1, <1>2, <1>3, <1>4, <1>5, <1>6, <1>7

\* So does filling the buffer, and waiting to.
LEMMA FillTyping ==
  ASSUME Typing,
         \/ FillLost \/ FillEnd \/ FillSome \/ FillNothing \/ FillTooLate
         \/ WaitReady \/ WaitOver
  PROVE  Typing'
  <1> USE DEF Typing, CallTyped
  <1>1. CASE FillLost
    BY <1>1, TurnOffTyping DEF FillLost, Reasons
  <1>2. CASE FillEnd
    BY <1>2, TurnOffTyping DEF FillEnd, Reasons
  <1>3. CASE FillSome
    <2>1. PICK n \in 1 .. Len(fromServer) :
            /\ buf' = buf \o SubSeq(fromServer, 1, n)
            /\ fromServer' = SubSeq(fromServer, n + 1, Len(fromServer))
      BY <1>3 DEF FillSome
    <2>2. SubSeq(fromServer, 1, n) \in Seq(Token) /\ fromServer' \in Seq(Token)
      BY <2>1 DEF TypeOK
    <2>3. buf' \in Seq(Token)
      BY <2>1, <2>2 DEF TypeOK
    <2>4. call' \in Frame /\ (call'.op = "indent" => call'.spot \in Spot)
      BY <1>3 DEF FillSome, Frame
    <2>5. UNCHANGED <<server, running, slot, program, toServer, depths, line>>
      BY <1>3 DEF FillSome
    <2> QED
      BY <2>2, <2>3, <2>4, <2>5 DEF TypeOK, server, running, memo, program
  <1>4. CASE FillNothing
    <2>1. CallTyped'
      BY <1>4, PcTyping, ReturnTyping DEF FillNothing
    <2>2. UNCHANGED <<server, running, slot, buf, program, pipes, line>>
      BY <1>4 DEF FillNothing
    <2> QED
      BY <2>1, <2>2 DEF TypeOK, server, running, memo, program, pipes
  <1>5. CASE FillTooLate
    <2>1. CallTyped'
      BY <1>5, ReturnTyping DEF FillTooLate
    <2>2. UNCHANGED <<server, running, slot, buf, program, pipes, line>>
      BY <1>5 DEF FillTooLate
    <2> QED
      BY <2>1, <2>2 DEF TypeOK, server, running, memo, program, pipes
  <1>6. CASE WaitReady
    <2>1. call' \in Frame /\ (call'.op = "indent" => call'.spot \in Spot)
      BY <1>6 DEF WaitReady, Frame
    <2>2. UNCHANGED <<server, running, slot, buf, program, pipes, depths, line>>
      BY <1>6 DEF WaitReady
    <2> QED
      BY <2>1, <2>2 DEF TypeOK, server, running, memo, program, pipes
  <1>7. CASE WaitOver
    <2>1. CallTyped'
      BY <1>7, ReturnTyping DEF WaitOver
    <2>2. UNCHANGED <<server, running, slot, buf, program, pipes, line>>
      BY <1>7 DEF WaitOver
    <2> QED
      BY <2>1, <2>2 DEF TypeOK, server, running, memo, program, pipes
  <1> QED
    BY <1>1, <1>2, <1>3, <1>4, <1>5, <1>6, <1>7

\* Every step keeps the type.
LEMMA StepTyping == Typing /\ [Next]_vars => Typing'
  <1> SUFFICES ASSUME Typing, [Next]_vars PROVE Typing'
    OBVIOUS
  <1>1. CASE Running
    BY <1>1, TakeTyping, SendTyping, FillTyping DEF Running
  <1>2. CASE Calls
    BY <1>2, CallsTyping
  <1>3. CASE ShellTakesDescriptor
    <2>1. slot' \in {"free", "shell"}
      BY <1>3 DEF ShellTakesDescriptor
    <2>2. UNCHANGED <<server, running, buf, program, pipes, call, depths, line>>
      BY <1>3 DEF ShellTakesDescriptor
    <2> QED
      BY <2>1, <2>2 DEF Typing, CallTyped, TypeOK, server, running, memo, program, pipes
  <1>4. CASE Program
    BY <1>4, ProgramTyping
  <1>5. CASE UNCHANGED vars
    BY <1>5 DEF vars, Typing, CallTyped, TypeOK, server, running, memo, program, pipes
  <1> QED
    BY <1>1, <1>2, <1>3, <1>4, <1>5 DEF Next

\* Every variable keeps its type, whatever the constants.
THEOREM TypeCorrect == Spec => []TypeOK
  <1>1. Spec => []Typing
    BY InitTyping, StepTyping, PTL DEF Spec
  <1>2. Typing => TypeOK
    BY DEF Typing
  <1> QED
    BY <1>1, <1>2, PTL

-----------------------------------------------------------------------------
(***************************************************************************)
(* KeptFromThisLine is not inductive: a late reply is kept when its ID is  *)
(* above `forgotten', so what has to be kept up is that such an ID was     *)
(* given on this line.  forget_replies makes that so for the request in    *)
(* flight by raising `forgotten' to `last_id', and a later request has an  *)
(* ID above both.                                                          *)
(***************************************************************************)
LineInv ==
    /\ KeptFromThisLine
    /\ forgotten <= lastId
    /\ inFlight # None =>
          /\ inFlight.wire.id <= lastId
          /\ inFlight.wire.id > forgotten => inFlight.line = line
    /\ state # "running" => kept = NothingKept /\ keptItems = None /\ inFlight = None

\* What LineInv speaks of is left alone.
lineVars == <<state, lastId, inFlight, kept, keptItems, forgotten, line>>

\* A step that leaves all of it alone keeps it.
LEMMA LineInvStutter == LineInv /\ UNCHANGED lineVars => LineInv'
  BY DEF LineInv, KeptFromThisLine, lineVars

\* A server discarded has nothing kept and nothing in flight.
LEMMA LineInvDiscard ==
  ASSUME NEW to \in {"undefined", "notStarted", "off"}, Discard(to)
  PROVE  LineInv'
  <1>1. /\ state' = to /\ lastId' = 0 /\ inFlight' = None /\ forgotten' = 0
        /\ kept' = NothingKept /\ keptItems' = None
    BY DEF Discard, FreshRunning
  <1> QED
    BY <1>1 DEF LineInv, KeptFromThisLine, NothingKept

\* Nor has one turned off.
LEMMA LineInvTurnOff ==
  ASSUME NEW why, TurnOff(why) PROVE LineInv'
  BY LineInvDiscard DEF TurnOff

\* Nor has a shell that just started.
LEMMA LineInvInit == Init => LineInv
  BY DEF Init, LineInv, KeptFromThisLine, NothingKept

\* A reply that is kept was asked for on this line.
LEMMA LineInvReply == Typing /\ LineInv /\ ReplyWhole => LineInv'
  <1> SUFFICES ASSUME Typing, LineInv, ReplyWhole PROVE LineInv'
    OBVIOUS
  <1>1. inFlight \in Sent /\ inFlight # None
    BY DEF ReplyWhole, Reading, Typing, TypeOK
  <1>2. PICK i \in DOMAIN buf : inFlight' = None /\ Keep(buf[i].ans)
    BY DEF ReplyWhole
  <1>3. UNCHANGED <<state, lastId, forgotten, line>> /\ state = "running"
    BY DEF ReplyWhole, server
  <1>4. KeptFromThisLine'
    <2>1. CASE UNCHANGED memo
      BY <1>3, <2>1 DEF LineInv, KeptFromThisLine, memo
    <2>2. CASE inFlight.wire.id > forgotten /\ KeepAlways(buf[i].ans)
      <3>1. inFlight.line = line
        BY <1>1, <2>2 DEF LineInv
      <3>2. \A r \in Requests : kept'[r] # None => kept'[r].line = line
        BY <1>3, <2>2, <3>1
           DEF KeepAlways, KeepAs, LineInv, KeptFromThisLine, Typing, TypeOK
      <3>3. keptItems' # None => keptItems'.line = line
        BY <1>3, <2>2, <3>1 DEF KeepAlways, KeepAs, LineInv, KeptFromThisLine
      <3> QED
        BY <1>3, <3>2, <3>3 DEF KeptFromThisLine
    <2> QED
      BY <1>2, <2>1, <2>2 DEF Keep
  <1> QED
    BY <1>2, <1>3, <1>4 DEF LineInv

\* A call on its way keeps LineInv.
LEMMA LineInvRunning == Typing /\ LineInv /\ Running => LineInv'
  <1> SUFFICES ASSUME Typing, LineInv, Running PROVE LineInv'
    OBVIOUS
  <1>1. CASE \/ TakeIncomplete \/ TakeNone \/ AllAnswered \/ AwaitReply \/ IndentTooLate
             \/ FillSome \/ FillNothing \/ FillTooLate \/ WaitReady \/ WaitOver
    <2>1. UNCHANGED lineVars
      BY <1>1 DEF TakeIncomplete, TakeNone, AllAnswered, AwaitReply, IndentTooLate,
                  FillSome, FillNothing, FillTooLate, WaitReady, WaitOver,
                  lineVars, server, running, memo
    <2> QED
      BY <2>1, LineInvStutter
  <1>2. CASE \/ TakeTooMuch \/ FirstLineBad \/ ReplyBad \/ SendInterrupted \/ SendTimesOut
             \/ SendFails \/ FillLost \/ FillEnd
    BY <1>2, LineInvTurnOff
       DEF TakeTooMuch, FirstLineBad, ReplyBad, SendInterrupted, SendTimesOut,
           SendFails, FillLost, FillEnd
  <1>3. CASE FirstLineGood
    <2>1. /\ lastId' = 0 /\ inFlight' = None /\ forgotten' = 0
          /\ kept' = NothingKept /\ keptItems' = None /\ state' = "running"
      BY <1>3 DEF FirstLineGood, FreshRunning
    <2> QED
      BY <2>1 DEF LineInv, KeptFromThisLine, NothingKept
  <1>4. CASE ReplyWhole
    BY <1>4, LineInvReply
  <1>5. CASE Send
    <2>1. /\ lastId' = lastId + 1 /\ inFlight'.wire.id = lastId + 1 /\ inFlight'.line = line
          /\ UNCHANGED <<state, kept, keptItems, forgotten, line>>
      BY <1>5 DEF Send, server, memo
    <2>2. state = "running"
      BY <1>5 DEF Send, Sending
    <2>3. lastId \in Nat /\ forgotten \in Nat
      BY DEF Typing, TypeOK
    <2> QED
      BY <2>1, <2>2, <2>3 DEF LineInv, KeptFromThisLine
  <1> QED
    BY <1>1, <1>2, <1>3, <1>4, <1>5 DEF Running

\* So does the start of one, a new line among them.
LEMMA LineInvCalls == Typing /\ LineInv /\ Calls => LineInv'
  <1> SUFFICES ASSUME Typing, LineInv, Calls PROVE LineInv'
    OBVIOUS
  <1>1. ASSUME NEW same \in BOOLEAN, Define(same) PROVE LineInv'
    BY <1>1, LineInvDiscard DEF Define, Anew
  <1>2. CASE Remove
    BY <1>2, LineInvDiscard DEF Remove, Anew
  <1>3. CASE NewLine
    <2>1. kept' = NothingKept /\ keptItems' = None
      BY <1>3 DEF NewLine, ForgetReplies, LineInv, memo
    <2>2. UNCHANGED <<state, lastId, inFlight>>
      BY <1>3 DEF NewLine, server
    <2>3. CASE state = "running"
      <3>1. forgotten' = lastId /\ lastId \in Nat
        BY <1>3, <2>3 DEF NewLine, ForgetReplies, Typing, TypeOK
      <3>2. inFlight # None => inFlight.wire.id \in Nat /\ inFlight.wire.id <= lastId
        BY DEF LineInv, Typing, TypeOK, Sent, Wire
      <3>3. inFlight # None => ~(inFlight.wire.id > lastId)
        BY <3>1, <3>2
      <3> QED
        BY <2>1, <2>2, <2>3, <3>1, <3>2, <3>3 DEF LineInv, KeptFromThisLine, NothingKept
    <2>4. CASE state # "running"
      <3>1. forgotten' = forgotten /\ inFlight = None
        BY <1>3, <2>4 DEF NewLine, LineInv
      <3> QED
        BY <2>1, <2>2, <2>4, <3>1 DEF LineInv, KeptFromThisLine, NothingKept
    <2> QED
      BY <2>3, <2>4
  <1>4. CASE TakeNotices \/ ReadWaiting \/ \E spot \in Spot : Indent(spot)
    <2>1. UNCHANGED lineVars
      BY <1>4 DEF TakeNotices, ReadWaiting, Indent, lineVars, server, running, memo
    <2> QED
      BY <2>1, LineInvStutter
  <1>5. ASSUME NEW asks \in AskLists, NEW spot \in Spot \cup {None}, Draw(asks, spot)
        PROVE  LineInv'
    <2>1. CASE /\ state = "notStarted" /\ Started /\ UNCHANGED running
      BY <2>1 DEF Started, LineInv, KeptFromThisLine, running, memo
    <2>2. CASE TurnOff("cannot start")
      BY <2>2, LineInvTurnOff
    <2>3. CASE /\ kept' = IF state = "running" THEN Retained(asks) ELSE kept
               /\ UNCHANGED <<server, lastId, inFlight, keptItems, forgotten, line>>
      BY <2>3 DEF LineInv, KeptFromThisLine, Retained, server
    <2> QED
      BY <1>5, <2>1, <2>2, <2>3 DEF Draw
  <1> QED
    BY <1>1, <1>2, <1>3, <1>4, <1>5 DEF Calls

\* So every step does.
LEMMA LineInvStep == Typing /\ LineInv /\ [Next]_vars => LineInv'
  <1>1. Program => UNCHANGED lineVars
    BY DEF Program, ProgramHello, ProgramReads, ProgramSays, ProgramReplies, ProgramExits,
           ProgramStrays, ProgramStopsReading, OfProgram, lineVars, server, running, memo
  <1>2. ShellTakesDescriptor => UNCHANGED lineVars
    BY DEF ShellTakesDescriptor, lineVars, server, running, memo
  <1>3. UNCHANGED vars => UNCHANGED lineVars
    BY DEF vars, lineVars, server, running, memo
  <1> QED
    BY <1>1, <1>2, <1>3, LineInvStutter, LineInvRunning, LineInvCalls DEF Next

\* No redraw ever uses a reply to a request of an earlier line.
THEOREM NothingKeptFromEarlierLine == Spec => []KeptFromThisLine
  <1>1. Typing /\ LineInv /\ [Next]_vars => (Typing /\ LineInv)'
    BY StepTyping, LineInvStep
  <1>2. Init => Typing /\ LineInv
    BY InitTyping, LineInvInit
  <1>3. Typing /\ LineInv => KeptFromThisLine
    BY DEF LineInv
  <1> QED
    BY <1>1, <1>2, <1>3, PTL DEF Spec

-----------------------------------------------------------------------------
(***************************************************************************)
(* OnlyNamedRequests needs that nothing is under way to a server whose     *)
(* first line has not been read, as `features' changes there, and that a   *)
(* call of indent goes on only on a server that named it.                  *)
(***************************************************************************)
NamedInv ==
    /\ OnlyNamedRequests
    /\ state # "running" => toServer = <<>>
    /\ state = "running" /\ call.op = "indent" => "indent" \in features

\* Nothing is on its way to a server discarded.
LEMMA NamedInvDiscard ==
  ASSUME NEW to \in {"undefined", "notStarted", "off"}, Discard(to)
  PROVE  NamedInv'
  <1>1. state' = to /\ toServer' = <<>>
    BY DEF Discard, FreshProcess
  <1> QED
    BY <1>1 DEF NamedInv, OnlyNamedRequests

\* Nor to one turned off.
LEMMA NamedInvTurnOff ==
  ASSUME NEW why, TurnOff(why) PROVE NamedInv'
  BY NamedInvDiscard DEF TurnOff

\* A call goes on: what it is for does not change, or it is over.
LEMMA NamedInvGoesOn ==
  ASSUME Typing, NamedInv, UNCHANGED <<state, features, toServer>>,
         call'.op \in {call.op, "idle", "replies", "read_waiting"}
  PROVE  NamedInv'
  BY DEF NamedInv, OnlyNamedRequests

\* A call that goes on is the same call.
LEMMA OpOfContinue ==
  ASSUME Typing, NEW pc, Continue(pc) PROVE call'.op = call.op
  BY DEF Typing, TypeOK, Frame, Continue

\* One that returns is none.
LEMMA OpOfReturn ==
  ASSUME NEW answer, Return(answer) PROVE call'.op = "idle"
  BY DEF Return, Idle

\* A call on its way sends only what is named.
LEMMA NamedInvRunning == Typing /\ NamedInv /\ Running => NamedInv'
  <1> SUFFICES ASSUME Typing, NamedInv, Running PROVE NamedInv'
    OBVIOUS
  <1>1. CASE \/ TakeTooMuch \/ FirstLineBad \/ ReplyBad \/ SendInterrupted \/ SendTimesOut
             \/ SendFails \/ FillLost \/ FillEnd
    BY <1>1, NamedInvTurnOff
       DEF TakeTooMuch, FirstLineBad, ReplyBad, SendInterrupted, SendTimesOut,
           SendFails, FillLost, FillEnd
  <1>2. CASE \/ TakeIncomplete \/ TakeNone \/ AllAnswered \/ AwaitReply \/ IndentTooLate
             \/ FillSome \/ FillNothing \/ FillTooLate \/ WaitReady \/ WaitOver
    <2>1. UNCHANGED <<state, features, toServer>>
      BY <1>2 DEF TakeIncomplete, TakeNone, AllAnswered, AwaitReply, IndentTooLate,
                  FillSome, FillNothing, FillTooLate, WaitReady, WaitOver,
                  server, running, pipes
    <2>2. CASE TakeIncomplete \/ TakeNone \/ AwaitReply
      <3>1. call'.op = call.op
        <4>1. \E pc \in {"next", "fill"} : Continue(pc)
          BY <2>2 DEF TakeIncomplete, TakeNone, AwaitReply, AfterTakeEmpty
        <4> QED
          BY <4>1, OpOfContinue
      <3> QED
        BY <2>1, <3>1, NamedInvGoesOn
    <2>3. CASE AllAnswered \/ IndentTooLate \/ FillTooLate \/ WaitOver
      <3>1. call'.op = "idle"
        BY <2>3, OpOfReturn DEF AllAnswered, IndentTooLate, FillTooLate, WaitOver
      <3> QED
        BY <2>1, <3>1, NamedInvGoesOn
    <2>4. CASE FillNothing
      <3>1. call'.op \in {call.op, "idle"}
        BY <2>4, OpOfContinue, OpOfReturn DEF FillNothing
      <3> QED
        BY <2>1, <3>1, NamedInvGoesOn
    <2>5. CASE FillSome \/ WaitReady
      <3>1. call'.op = call.op
        BY <2>5 DEF FillSome, WaitReady, Typing, TypeOK, Frame
      <3> QED
        BY <2>1, <3>1, NamedInvGoesOn
    <2> QED
      BY <1>2, <2>2, <2>3, <2>4, <2>5
  <1>3. CASE FirstLineGood
    <2>1. toServer = <<>> /\ toServer' = toServer /\ state' = "running" /\ features' = offers
      BY <1>3 DEF FirstLineGood, NamedInv, pipes
    <2>2. call'.op = "indent" => "indent" \in offers
      BY <1>3, OpOfContinue, OpOfReturn DEF FirstLineGood
    <2> QED
      BY <2>1, <2>2 DEF NamedInv, OnlyNamedRequests
  <1>4. CASE ReplyWhole
    <2>1. UNCHANGED <<state, features, toServer>>
      BY <1>4 DEF ReplyWhole, server, pipes
    <2>2. call'.op \in {call.op, "idle"}
      BY <1>4, OpOfContinue, OpOfReturn DEF ReplyWhole
    <2> QED
      BY <2>1, <2>2, NamedInvGoesOn
  <1>5. CASE Send
    <2>1. state = "running" /\ UNCHANGED <<state, features>>
      BY <1>5 DEF Send, Sending, server
    <2>2. PICK w \in Wanted :
            /\ toServer' = Append(toServer, [id |-> lastId + 1, kind |-> w.kind,
                                             req |-> w.req, at |-> w.at])
            /\ call'.op = call.op
      BY <1>5 DEF Send, Typing, TypeOK, Frame
    <2>3. w.kind = "colors" \/ w.kind \in features
      <3>1. CASE call.op = "indent"
        BY <2>1, <3>1 DEF Wanted, NamedInv
      <3>2. CASE call.op # "indent"
        BY <3>2 DEF Wanted, WantsItems, Named
      <3> QED
        BY <3>1, <3>2
    <2>4. OnlyNamedRequests'
      <3>1. toServer \in Seq(Wire)
        BY DEF Typing, TypeOK
      <3>2. ASSUME NEW i \in DOMAIN toServer'
            PROVE  toServer'[i].kind = "colors" \/ toServer'[i].kind \in features
        <4>1. CASE i \in DOMAIN toServer
          BY <2>2, <3>1, <4>1 DEF NamedInv, OnlyNamedRequests
        <4>2. CASE i = Len(toServer) + 1
          BY <2>2, <2>3, <3>1, <4>2
        <4> QED
          BY <2>2, <3>1, <3>2, <4>1, <4>2
      <3> QED
        BY <2>1, <3>2 DEF OnlyNamedRequests
    <2> QED
      BY <2>1, <2>2, <2>4 DEF NamedInv
  <1> QED
    BY <1>1, <1>2, <1>3, <1>4, <1>5 DEF Running

\* The start of a call keeps NamedInv.
LEMMA NamedInvCalls == Typing /\ NamedInv /\ Calls => NamedInv'
  <1> SUFFICES ASSUME Typing, NamedInv, Calls PROVE NamedInv'
    OBVIOUS
  <1>1. ASSUME NEW same \in BOOLEAN, Define(same) PROVE NamedInv'
    BY <1>1, NamedInvDiscard DEF Define, Anew
  <1>2. CASE Remove
    BY <1>2, NamedInvDiscard DEF Remove, Anew
  <1>3. CASE NewLine \/ TakeNotices
    <2>1. UNCHANGED <<state, features, toServer, call>>
      BY <1>3 DEF NewLine, TakeNotices, server, running, pipes
    <2> QED
      BY <2>1, NamedInvGoesOn
  <1>4. CASE ReadWaiting
    <2>1. UNCHANGED <<state, features, toServer>>
      BY <1>4 DEF ReadWaiting, server, running, pipes
    <2>2. call'.op = "read_waiting"
      BY <1>4 DEF ReadWaiting, Call, Idle
    <2> QED
      BY <2>1, <2>2, NamedInvGoesOn
  <1>5. ASSUME NEW spot \in Spot, Indent(spot) PROVE NamedInv'
    <2>1. UNCHANGED <<state, features, toServer>>
      BY <1>5 DEF Indent, server, running, pipes
    <2>2. state = "running" => "indent" \in features
      BY <1>5 DEF Indent
    <2> QED
      BY <2>1, <2>2 DEF NamedInv, OnlyNamedRequests
  <1>6. ASSUME NEW asks \in AskLists, NEW spot \in Spot \cup {None}, Draw(asks, spot)
        PROVE  NamedInv'
    <2>1. CASE Started /\ Call("replies", asks, spot) /\ UNCHANGED running
      <3>1. toServer' = <<>> /\ state' = "starting"
        BY <2>1 DEF Started, FreshProcess
      <3> QED
        BY <3>1 DEF NamedInv, OnlyNamedRequests
    <2>2. CASE TurnOff("cannot start")
      BY <2>2, NamedInvTurnOff
    <2>3. CASE /\ IF asks # <<>> THEN Call("replies", asks, spot)
                                 ELSE UNCHANGED <<call, depths>>
               /\ UNCHANGED <<server, features, pipes>>
      <3>1. call'.op \in {call.op, "replies"}
        BY <2>3 DEF Call, Idle
      <3> QED
        BY <2>3, <3>1, NamedInvGoesOn DEF server, pipes
    <2> QED
      BY <1>6, <2>1, <2>2, <2>3 DEF Draw
  <1> QED
    BY <1>1, <1>2, <1>3, <1>4, <1>5, <1>6 DEF Calls

\* So every step does.
LEMMA NamedInvStep == Typing /\ NamedInv /\ [Next]_vars => NamedInv'
  <1> SUFFICES ASSUME Typing, NamedInv, [Next]_vars PROVE NamedInv'
    OBVIOUS
  <1>1. CASE ProgramReads
    <2>1. UNCHANGED <<state, features, call>> /\ toServer # <<>> /\ toServer' = Tail(toServer)
      BY <1>1 DEF ProgramReads, OfProgram, server, running
    <2>2. toServer \in Seq(Wire)
      BY DEF Typing, TypeOK
    <2>3. OnlyNamedRequests'
      BY <2>1, <2>2 DEF NamedInv, OnlyNamedRequests
    <2> QED
      BY <2>1, <2>3 DEF NamedInv
  <1>2. CASE \/ ProgramHello \/ ProgramSays \/ ProgramReplies \/ ProgramExits
             \/ ProgramStrays \/ ProgramStopsReading
             \/ ShellTakesDescriptor \/ UNCHANGED vars
    <2>1. UNCHANGED <<state, features, toServer, call>>
      BY <1>2 DEF ProgramHello, ProgramSays, ProgramReplies, ProgramExits, ProgramStrays,
                  ProgramStopsReading, ShellTakesDescriptor, OfProgram,
                  vars, server, running, pipes
    <2> QED
      BY <2>1, NamedInvGoesOn
  <1> QED
    BY <1>1, <1>2, NamedInvRunning, NamedInvCalls DEF Next, Program

\* No server is ever sent a kind of request its first line did not name.
THEOREM OnlyNamedRequestsSent == Spec => []OnlyNamedRequests
  <1>1. Typing /\ NamedInv /\ [Next]_vars => (Typing /\ NamedInv)'
    BY StepTyping, NamedInvStep
  <1>2. Init => Typing /\ NamedInv
    <2>1. Init => NamedInv
      BY DEF Init, NamedInv, OnlyNamedRequests
    <2> QED
      BY <2>1, InitTyping
  <1>3. Typing /\ NamedInv => OnlyNamedRequests
    BY DEF NamedInv
  <1> QED
    BY <1>1, <1>2, <1>3, PTL DEF Spec

-----------------------------------------------------------------------------
(***************************************************************************)
(* What a program that keeps the protocol says, from its first line on, is *)
(* known from where inkline is: what it said that is not read yet, in the  *)
(* buffer and in the socket, is a Stream that is empty, or part of what it *)
(* is to say, or all of it, and ends there.  What inkline owes it, and     *)
(* what it is turned off for, follows.                                     *)
(***************************************************************************)
Stream == buf \o fromServer

AllData == \A i \in 1 .. Len(Stream) : Stream[i].t = "data"
EndedBy(last) ==
    /\ Stream # <<>> /\ Stream[Len(Stream)] \in last
    /\ \A i \in 1 .. Len(Stream) - 1 : Stream[i].t = "data"

FirstLines == {[t |-> "hello", id |-> 0, ans |-> None]}
Answers(w) ==
    {[t |-> "end", id |-> w.id, ans |-> a] :
        a \in {w} \cup (IF w.kind = "indent" THEN {None} ELSE {})}

Greets ==
    /\ toServer = <<>> /\ serving = None
    /\ \/ ~greeted /\ AllData /\ Len(Stream) <= said
       \/ greeted /\ EndedBy(FirstLines) /\ Len(Stream) <= MostUnread + 1
Quiet == toServer = <<>> /\ serving = None /\ Stream = <<>>
\* The request `w' is on its way, or being answered, or answered.
Asking(w) ==
    \/ toServer = <<w>> /\ serving = None /\ Stream = <<>>
    \/ toServer = <<>> /\ serving = w /\ AllData /\ Len(Stream) <= said
    \/ toServer = <<>> /\ serving = None /\ EndedBy(Answers(w)) /\ Len(Stream) <= MostUnread + 1

Conversation ==
    faults = {} /\ HasProcess =>
        /\ said <= MostUnread
        /\ state = "starting" => Greets
        /\ state = "running" =>
              greeted /\ (IF inFlight = None THEN Quiet ELSE Asking(inFlight.wire))

talkVars == <<state, inFlight, toServer, serving, buf, fromServer, greeted, said, faults>>

\* Where what is unread stands.
LEMMA StreamIs ==
  ASSUME Typing
  PROVE  /\ Stream \in Seq(Token) /\ Len(Stream) = Len(buf) + Len(fromServer)
         /\ \A i \in 1 .. Len(buf) : Stream[i] = buf[i]
         /\ \A i \in 1 .. Len(fromServer) : Stream[Len(buf) + i] = fromServer[i]
  <1>1. buf \in Seq(Token) /\ fromServer \in Seq(Token)
    BY DEF Typing, TypeOK
  <1> QED
    BY <1>1, ConcatProperties DEF Stream

\* A part of a sequence moved to the end of the one before it.
LEMMA MovedOver ==
  ASSUME NEW S, NEW b \in Seq(S), NEW f \in Seq(S), NEW n \in 1 .. Len(f)
  PROVE  (b \o SubSeq(f, 1, n)) \o SubSeq(f, n + 1, Len(f)) = b \o f
  <1> DEFINE c == b \o SubSeq(f, 1, n)
             g == SubSeq(f, n + 1, Len(f))
  <1>c. /\ c \in Seq(S) /\ Len(c) = Len(b) + n
        /\ \A i \in 1 .. Len(b) : c[i] = b[i]
        /\ \A i \in 1 .. n : c[Len(b) + i] = f[i]
    OBVIOUS
  <1>g. /\ g \in Seq(S) /\ Len(g) = Len(f) - n
        /\ \A i \in 1 .. Len(g) : g[i] = f[n + i]
    OBVIOUS
  <1> HIDE DEF c, g
  <1>0. /\ Len(b) \in Nat /\ Len(f) \in Nat /\ n \in Nat /\ n <= Len(f)
        /\ Len(c) = Len(b) + n /\ Len(g) = Len(f) - n
    BY <1>c, <1>g, LenProperties
  <1>a. c \o g \in Seq(S) /\ Len(c \o g) = Len(c) + Len(g)
    BY <1>c, <1>g, ConcatProperties
  <1>b. b \o f \in Seq(S) /\ Len(b \o f) = Len(b) + Len(f)
    BY ConcatProperties
  <1>1. /\ c \o g \in Seq(S) /\ b \o f \in Seq(S)
        /\ Len(c \o g) = Len(b) + Len(f) /\ Len(b \o f) = Len(b) + Len(f)
    BY <1>0, <1>a, <1>b
  <1>2. ASSUME NEW i \in 1 .. Len(b) + Len(f) PROVE (c \o g)[i] = (b \o f)[i]
    <2>1. CASE i <= Len(b)
      BY <1>c, <1>g, <1>0, <1>1, <2>1
    <2>2. CASE Len(b) < i /\ i <= Len(c)
      <3>1. (c \o g)[i] = c[i]
        BY <1>c, <1>g, <1>0, <1>1, <2>2
      <3>2. (b \o f)[i] = f[i - Len(b)]
        BY <1>c, <1>g, <1>0, <1>1, <2>2
      <3>3. c[Len(b) + (i - Len(b))] = f[i - Len(b)]
        BY <1>c, <1>g, <1>0, <1>1, <2>2
      <3> QED
        BY <1>c, <1>g, <1>0, <1>1, <3>1, <3>2, <3>3
    <2>3. CASE Len(c) < i
      <3>1. (c \o g)[i] = g[i - Len(c)]
        BY <1>c, <1>g, <1>0, <1>1, <2>3
      <3>2. (b \o f)[i] = f[i - Len(b)]
        BY <1>c, <1>g, <1>0, <1>1, <2>3
      <3>3. g[i - Len(c)] = f[n + (i - Len(c))]
        <4>1. i - Len(c) \in 1 .. Len(g)
          BY <1>g, <1>0, <2>3
        <4> QED
          BY <1>g, <4>1
      <3> QED
        BY <1>c, <1>g, <1>0, <1>1, <3>1, <3>2, <3>3
    <2> QED
      BY SMTT(30), <1>c, <1>g, <1>0, <1>1, <2>1, <2>2, <2>3
  <1>3. Len(c \o g) = Len(b \o f)
    BY <1>1
  <1>4. ASSUME NEW i \in 1 .. Len(c \o g) PROVE (c \o g)[i] = (b \o f)[i]
    BY <1>1, <1>2
  <1>5. c \o g = b \o f
    BY <1>1, <1>3, <1>4, SeqEqual
  <1> QED
    BY <1>5 DEF c, g

\* Reading some of the socket moves it, and no more.
LEMMA StreamFilled ==
  ASSUME Typing, NEW n \in 1 .. Len(fromServer),
         buf' = buf \o SubSeq(fromServer, 1, n),
         fromServer' = SubSeq(fromServer, n + 1, Len(fromServer))
  PROVE  Stream' = Stream
  <1>1. buf \in Seq(Token) /\ fromServer \in Seq(Token)
    BY DEF Typing, TypeOK
  <1>2. buf' \o fromServer' = buf \o fromServer
    BY <1>1, MovedOver
  <1> QED
    BY <1>2 DEF Stream

\* What the program writes is at its end.
LEMMA StreamWritten ==
  ASSUME Typing, NEW token \in Token, Write(token), buf' = buf
  PROVE  /\ Len(Stream') = Len(Stream) + 1 /\ Stream'[Len(Stream) + 1] = token
         /\ \A i \in 1 .. Len(Stream) : Stream'[i] = Stream[i]
         /\ Stream' # <<>>
  <1>1. /\ buf \in Seq(Token) /\ fromServer \in Seq(Token)
        /\ fromServer' = Append(fromServer, token)
    BY DEF Typing, TypeOK, Write
  <1>2. Stream' = Append(Stream, token) /\ Stream \in Seq(Token)
    <2>1. buf \o Append(fromServer, token) = Append(buf \o fromServer, token)
      BY <1>1, ConcatProperties, AppendProperties, SeqEqual
    <2> QED
      BY <1>1, <2>1 DEF Stream
  <1> QED
    BY <1>2, AppendProperties

\* All of it is read when it ends in the buffer.
LEMMA StreamRead ==
  ASSUME Typing, NEW i \in DOMAIN buf, i = Len(Stream), Drain(i), fromServer' = fromServer
  PROVE  Stream' = <<>>
  <1>1. /\ buf \in Seq(Token) /\ fromServer \in Seq(Token)
        /\ i \in 1 .. Len(buf) /\ i = Len(buf) + Len(fromServer)
    BY StreamIs DEF Typing, TypeOK
  <1>2. fromServer = <<>> /\ i = Len(buf)
    BY <1>1
  <1>3. buf' = <<>>
    BY <1>1, <1>2 DEF Drain
  <1> QED
    BY <1>2, <1>3 DEF Stream

\* A step that leaves the talk alone leaves it as it was.
LEMMA ConversationGoesOn == Conversation /\ UNCHANGED talkVars => Conversation'
  BY DEF Conversation, talkVars, HasProcess, Greets, Quiet, Asking, AllData, EndedBy, Stream

\* A server with no process, or whose process is new, has said nothing.
LEMMA ConversationOver ==
  ASSUME NEW to \in {"undefined", "notStarted", "off"}, Discard(to) PROVE Conversation'
  BY DEF Discard, Conversation, HasProcess

\* So has one turned off.
LEMMA ConversationTurnOff ==
  ASSUME NEW why, TurnOff(why) PROVE Conversation'
  BY ConversationOver DEF TurnOff

\* The line read_version looks for is its last word, and a good one.
LEMMA HonestFirstLine ==
  ASSUME Typing, Conversation, faults = {}, state = "starting",
         NEW i \in DOMAIN buf, FirstLine(i)
  PROVE  /\ buf[i].t = "hello" /\ i = Len(Stream)
         /\ greeted /\ toServer = <<>> /\ serving = None
  <1>1. Greets /\ i \in 1 .. Len(buf) /\ Stream[i] = buf[i]
    BY StreamIs DEF Conversation, HasProcess, Typing, TypeOK
  <1>2. i \in 1 .. Len(Stream) /\ Stream[i].t # "data" /\ Len(Stream) \in Nat
    BY <1>1, StreamIs DEF FirstLine, Typing, TypeOK
  <1>3. EndedBy(FirstLines) /\ greeted /\ toServer = <<>> /\ serving = None
    BY <1>1, <1>2 DEF Greets, AllData
  <1>4. i = Len(Stream)
    BY <1>2, <1>3 DEF EndedBy
  <1> QED
    BY <1>1, <1>3, <1>4 DEF EndedBy, FirstLines

\* The line read_reply looks for is its last, and ends the reply asked for.
LEMMA HonestReply ==
  ASSUME Typing, Conversation, faults = {}, state = "running", inFlight # None,
         NEW i \in DOMAIN buf, Settles(i)
  PROVE  /\ buf[i] \in Answers(inFlight.wire) /\ i = Len(Stream)
         /\ toServer = <<>> /\ serving = None
         /\ WellFormed(i, inFlight.wire.id)
  <1>1. Asking(inFlight.wire) /\ i \in 1 .. Len(buf) /\ Stream[i] = buf[i]
    BY StreamIs DEF Conversation, HasProcess, Typing, TypeOK
  <1>2. i \in 1 .. Len(Stream) /\ Stream[i].t # "data" /\ Len(Stream) \in Nat
        /\ Len(buf) \in Nat /\ Len(buf) <= Len(Stream)
    BY <1>1, StreamIs DEF Settles, Settling, Typing, TypeOK
  <1>3. toServer = <<>> /\ serving = None /\ EndedBy(Answers(inFlight.wire))
    <2>1. Stream # <<>>
      BY <1>2
    <2>2. ~AllData
      BY <1>2 DEF AllData
    <2> QED
      BY <1>1, <2>1, <2>2 DEF Asking
  <1>4. i = Len(Stream)
    BY <1>2, <1>3 DEF EndedBy
  <1>5. buf[i] \in Answers(inFlight.wire)
    BY <1>1, <1>3, <1>4 DEF EndedBy
  <1>6. \A j \in 1 .. i - 1 : buf[j].t = "data"
    <2>1. \A j \in 1 .. i - 1 : Stream[j] = buf[j]
      BY <1>1, <1>2, StreamIs
    <2> QED
      BY <1>2, <1>3, <1>4, <2>1 DEF EndedBy
  <1> QED
    BY <1>3, <1>4, <1>5, <1>6 DEF WellFormed, Answers

\* What it has said before its line or its reply ends is not too much.
LEMMA HonestUnread ==
  ASSUME Typing, Conversation, faults = {}, Reading, HasProcess, Incomplete
  PROVE  Len(buf) <= MostUnread
  <1>0. /\ Len(buf) \in Nat /\ Len(fromServer) \in Nat /\ Len(Stream) = Len(buf) + Len(fromServer)
        /\ MostUnread \in Nat /\ said \in Nat /\ said <= MostUnread
    BY StreamIs, ConstantsOK DEF Conversation, Typing, TypeOK
  <1>1. CASE Len(Stream) <= said
    BY <1>0, <1>1
  <1>2. ASSUME NEW last, EndedBy(last), Len(Stream) <= MostUnread + 1,
               \A x \in last : x.t \in {"hello", "end"},
               fromServer = <<>> => FALSE
        PROVE  Len(buf) <= MostUnread
    BY <1>0, <1>2 DEF Typing, TypeOK
  <1>3. ASSUME NEW last, EndedBy(last), fromServer = <<>>
        PROVE  /\ Len(buf) \in DOMAIN buf /\ buf[Len(buf)] \in last
               /\ \A j \in 1 .. Len(buf) - 1 : buf[j].t = "data"
    <2>1. buf \in Seq(Token) /\ Stream = buf
      BY <1>3 DEF Stream, Typing, TypeOK
    <2> QED
      BY <1>0, <1>3, <2>1 DEF EndedBy
  <1>4. CASE state = "starting"
    <2>1. CASE EndedBy(FirstLines) /\ Len(Stream) <= MostUnread + 1
      <3>1. fromServer # <<>>
        <4> SUFFICES ASSUME fromServer = <<>> PROVE FALSE
          OBVIOUS
        <4>1. Len(buf) \in DOMAIN buf /\ FirstLine(Len(buf))
          BY <1>3, <2>1 DEF FirstLine, FirstLines
        <4> QED
          BY <1>4, <4>1 DEF Incomplete
      <3> QED
        BY <1>2, <2>1, <3>1 DEF FirstLines
    <2> QED
      BY <1>1, <1>4, <2>1 DEF Conversation, Greets
  <1>5. CASE state = "running"
    <2>1. Asking(inFlight.wire)
      BY <1>5 DEF Conversation, Reading
    <2>2. CASE EndedBy(Answers(inFlight.wire)) /\ Len(Stream) <= MostUnread + 1
      <3>1. fromServer # <<>>
        <4> SUFFICES ASSUME fromServer = <<>> PROVE FALSE
          OBVIOUS
        <4>1. Len(buf) \in DOMAIN buf /\ Settles(Len(buf))
          BY <1>3, <2>2 DEF Settles, Settling, Unsettled, Answers
        <4> QED
          BY <1>5, <4>1 DEF Incomplete
      <3> QED
        BY <1>2, <2>2, <3>1 DEF Answers
    <2>3. CASE Stream = <<>>
      BY <1>0, <2>3
    <2> QED
      BY <1>1, <2>1, <2>2, <2>3 DEF Asking
  <1> QED
    BY <1>4, <1>5 DEF HasProcess

\* What the program does, as long as it keeps the protocol, goes on with it.
LEMMA ConversationProgram == Typing /\ Conversation /\ Program => Conversation'
  <1> SUFFICES ASSUME Typing, Conversation, Program, faults' = {}, HasProcess'
               PROVE  Conversation'
    BY DEF Conversation
  <1> USE DEF OfProgram, server, running, HasProcess
  <1>0. /\ UNCHANGED <<state, inFlight, buf>> /\ faults = {} /\ HasProcess
        /\ said \in Nat /\ MostUnread \in Nat /\ said <= MostUnread
        /\ Stream \in Seq(Token) /\ Len(Stream) \in Nat
    <2>1. UNCHANGED <<state, inFlight, buf>> /\ faults = {}
      BY DEF Program, ProgramHello, ProgramReads, ProgramSays, ProgramReplies, ProgramExits,
             ProgramStrays, ProgramStopsReading
    <2>2. Stream \in Seq(Token)
      BY StreamIs
    <2> QED
      BY <2>1, <2>2, ConstantsOK DEF Conversation, Typing, TypeOK
  <1>a. /\ state = "starting" => Greets
        /\ state = "running" /\ inFlight = None => greeted /\ Quiet
        /\ state = "running" /\ inFlight # None => greeted /\ Asking(inFlight.wire)
    BY <1>0 DEF Conversation
  <1>1. CASE ProgramHello
    <2> DEFINE token == [t |-> "hello", id |-> 0, ans |-> None]
    <2>1. Write(token) /\ token \in Token /\ ~greeted /\ greeted' /\ said' = 0
          /\ UNCHANGED <<serving, toServer>>
      BY <1>1 DEF ProgramHello, Token, Settling
    <2>2. state = "starting" /\ serving = None /\ AllData /\ Len(Stream) <= said
      BY <1>0, <1>a, <2>1 DEF Greets
    <2>3. /\ Len(Stream') = Len(Stream) + 1 /\ Stream'[Len(Stream) + 1] = token
          /\ \A i \in 1 .. Len(Stream) : Stream'[i] = Stream[i]
          /\ Stream' # <<>>
      BY <1>0, <2>1, StreamWritten
    <2>4. EndedBy(FirstLines)' /\ Len(Stream') <= MostUnread + 1
      BY <1>0, <2>2, <2>3 DEF EndedBy, FirstLines, AllData
    <2> QED
      BY <1>0, <2>1, <2>2, <2>4 DEF Conversation, Greets
  <1>2. CASE ProgramReads
    <2>1. /\ greeted /\ serving = None /\ toServer # <<>> /\ serving' = Head(toServer)
          /\ toServer' = Tail(toServer) /\ UNCHANGED <<fromServer, greeted, said>>
      BY <1>2 DEF ProgramReads
    <2>2. Stream' = Stream
      BY <1>0, <2>1 DEF Stream
    <2>3. CASE state = "starting"
      BY <1>0, <1>a, <2>1, <2>2, <2>3
      DEF Conversation, Greets
    <2>4. CASE state = "running"
      <3>1. inFlight # None /\ toServer = <<inFlight.wire>> /\ Stream = <<>>
        BY <1>a, <2>1, <2>4 DEF Quiet, Asking
      <3>2. serving' = inFlight.wire /\ toServer' = <<>> /\ AllData' /\ Len(Stream') = 0
        BY <2>1, <2>2, <3>1 DEF AllData
      <3> QED
        BY <1>0, <1>a, <2>1, <2>4, <3>1, <3>2 DEF Conversation, Asking
    <2> QED
      BY <1>0, <2>3, <2>4
  <1>3. CASE ProgramSays
    <2> DEFINE token == [t |-> "data", id |-> 0, ans |-> None]
    <2>1. Write(token) /\ token \in Token /\ said < MostUnread /\ said' = said + 1
          /\ (~greeted \/ serving # None) /\ UNCHANGED <<serving, toServer, greeted>>
      BY <1>3 DEF ProgramSays, Token, Settling, Unsettled
    <2>2. /\ Len(Stream') = Len(Stream) + 1 /\ Stream'[Len(Stream) + 1] = token
          /\ \A i \in 1 .. Len(Stream) : Stream'[i] = Stream[i]
      BY <1>0, <2>1, StreamWritten
    <2>3. AllData /\ Len(Stream) <= said => AllData' /\ Len(Stream') <= said'
      BY <1>0, <2>1, <2>2 DEF AllData
    <2>4. said' <= MostUnread
      BY <1>0, <2>1
    <2>5. CASE state = "starting"
      BY <1>0, <1>a, <2>1, <2>3, <2>4, <2>5 DEF Conversation, Greets
    <2>6. CASE state = "running"
      <3>1. inFlight # None /\ toServer = <<>> /\ serving = inFlight.wire
            /\ AllData /\ Len(Stream) <= said
        BY <1>a, <2>1, <2>6 DEF Quiet, Asking
      <3> QED
        BY <1>0, <1>a, <2>1, <2>3, <2>4, <2>6, <3>1 DEF Conversation, Asking
    <2> QED
      BY <1>0, <2>5, <2>6
  <1>4. CASE ProgramReplies
    <2>1. /\ serving # None /\ serving' = None /\ said' = 0 /\ UNCHANGED <<greeted, toServer>>
          /\ serving \in Wire
      BY <1>4 DEF ProgramReplies, Typing, TypeOK
    <2>2. PICK ans \in {serving} \cup (IF serving.kind = "indent" THEN {None} ELSE {}) :
            Write([t |-> "end", id |-> serving.id, ans |-> ans])
      BY <1>4 DEF ProgramReplies
    <2> DEFINE token == [t |-> "end", id |-> serving.id, ans |-> ans]
    <2>3. token \in Token /\ token \in Answers(serving)
      BY <2>1, <2>2 DEF Token, Settling, Wire, Answers
    <2>4. /\ Len(Stream') = Len(Stream) + 1 /\ Stream'[Len(Stream) + 1] = token
          /\ \A i \in 1 .. Len(Stream) : Stream'[i] = Stream[i]
          /\ Stream' # <<>>
      BY <1>0, <2>2, <2>3, StreamWritten
    <2>5. state = "running" /\ inFlight # None /\ toServer = <<>> /\ serving = inFlight.wire
          /\ AllData /\ Len(Stream) <= said
      BY <1>0, <1>a, <2>1 DEF Greets, Quiet, Asking
    <2> HIDE DEF token
    <2>6. Stream' # <<>> /\ Stream'[Len(Stream')] \in Answers(inFlight.wire)
          /\ \A i \in 1 .. Len(Stream') - 1 : Stream'[i].t = "data"
      BY <1>0, <2>3, <2>4, <2>5 DEF AllData
    <2>7. Asking(inFlight.wire)'
      BY <1>0, <2>1, <2>4, <2>5, <2>6 DEF Asking, EndedBy, Answers
    <2> QED
      BY <1>0, <1>a, <2>1, <2>5, <2>7 DEF Conversation
  <1>5. CASE ProgramExits
    <2>1. UNCHANGED talkVars
      BY <1>0, <1>5 DEF ProgramExits, pipes, talkVars
    <2> QED
      BY <2>1, ConversationGoesOn
  <1>6. CASE ProgramStrays \/ ProgramStopsReading
    BY <1>6 DEF ProgramStrays, ProgramStopsReading
  <1> QED
    BY <1>1, <1>2, <1>3, <1>4, <1>5, <1>6 DEF Program

\* So does a call on its way: it takes the last word or none, and asks when
\* all is quiet.
LEMMA ConversationRunning ==
  Typing /\ LineInv /\ Conversation /\ Running => Conversation'
  <1> SUFFICES ASSUME Typing, LineInv, Conversation, Running PROVE Conversation'
    OBVIOUS
  <1>1. CASE \/ TakeIncomplete \/ TakeNone \/ AllAnswered \/ AwaitReply \/ IndentTooLate
             \/ FillNothing \/ FillTooLate \/ WaitReady \/ WaitOver
    <2>1. UNCHANGED talkVars
      BY <1>1 DEF TakeIncomplete, TakeNone, AllAnswered, AwaitReply, IndentTooLate,
                  FillNothing, FillTooLate, WaitReady, WaitOver,
                  talkVars, server, running, program, pipes
    <2> QED
      BY <2>1, ConversationGoesOn
  <1>2. CASE \/ TakeTooMuch \/ FirstLineBad \/ ReplyBad \/ SendInterrupted \/ SendTimesOut
             \/ SendFails \/ FillLost \/ FillEnd
    BY <1>2, ConversationTurnOff
       DEF TakeTooMuch, FirstLineBad, ReplyBad, SendInterrupted, SendTimesOut,
           SendFails, FillLost, FillEnd
  <1>3. CASE FirstLineGood
    <2>1. SUFFICES ASSUME faults = {} PROVE Conversation'
      BY <1>3 DEF FirstLineGood, Conversation, program
    <2>2. PICK i \in DOMAIN buf : FirstLine(i) /\ Drain(i)
      BY <1>3 DEF FirstLineGood
    <2>3. state = "starting" /\ state' = "running" /\ inFlight' = None
          /\ UNCHANGED <<greeted, serving, said, toServer, fromServer>>
      BY <1>3 DEF FirstLineGood, FreshRunning, program, pipes
    <2>4. i = Len(Stream) /\ greeted /\ toServer = <<>> /\ serving = None
      BY <2>1, <2>2, <2>3, HonestFirstLine
    <2>5. Stream' = <<>>
      BY <2>2, <2>3, <2>4, StreamRead
    <2>6. said <= MostUnread
      BY <2>1, <2>3 DEF Conversation, HasProcess
    <2> QED
      BY <2>3, <2>4, <2>5, <2>6 DEF Conversation, Quiet
  <1>4. CASE ReplyWhole
    <2>1. SUFFICES ASSUME faults = {} PROVE Conversation'
      BY <1>4 DEF ReplyWhole, Conversation, program
    <2>2. PICK i \in DOMAIN buf : Settles(i) /\ Drain(i)
      BY <1>4 DEF ReplyWhole
    <2>3. state = "running" /\ state' = "running" /\ inFlight # None /\ inFlight' = None
          /\ UNCHANGED <<greeted, serving, said, toServer, fromServer>>
      BY <1>4 DEF ReplyWhole, Reading, server, program, pipes
    <2>4. i = Len(Stream) /\ toServer = <<>> /\ serving = None
      BY <2>1, <2>2, <2>3, HonestReply
    <2>5. Stream' = <<>>
      BY <2>2, <2>3, <2>4, StreamRead
    <2>6. said <= MostUnread /\ greeted
      BY <2>1, <2>3 DEF Conversation, HasProcess
    <2> QED
      BY <2>3, <2>4, <2>5, <2>6 DEF Conversation, Quiet
  <1>5. CASE Send
    <2>1. SUFFICES ASSUME faults = {} PROVE Conversation'
      BY <1>5 DEF Send, Conversation, program
    <2>2. /\ state = "running" /\ inFlight = None
          /\ UNCHANGED <<state, buf, greeted, serving, said, fromServer>>
      BY <1>5 DEF Send, Sending, MaySend, server, program
    <2>3. Quiet /\ greeted /\ said <= MostUnread
      BY <2>1, <2>2 DEF Conversation, HasProcess
    <2>4. PICK wire : /\ wire \in Wire /\ toServer' = Append(toServer, wire)
                      /\ inFlight' = [wire |-> wire, line |-> line]
      <3>1. PICK w \in Wanted :
              LET wire == [id |-> lastId + 1, kind |-> w.kind, req |-> w.req, at |-> w.at] IN
              toServer' = Append(toServer, wire) /\ inFlight' = [wire |-> wire, line |-> line]
        BY <1>5 DEF Send
      <3>2. [id |-> lastId + 1, kind |-> w.kind, req |-> w.req, at |-> w.at] \in Wire
        BY <1>5, WantedTyping DEF Send, Sending, InCall, Wire, Typing, TypeOK
      <3> QED
        BY <3>1, <3>2
    <2>5. toServer' = <<wire>> /\ Stream' = Stream
      BY <2>2, <2>3, <2>4 DEF Quiet, Stream
    <2>6. inFlight' # None /\ inFlight'.wire = wire
      <3>1. inFlight' \in Sent \cup {None} /\ inFlight' \in Sent
        BY <2>4 DEF Sent, Typing, TypeOK
      <3> QED
        BY <2>4, <3>1, NoneIsNoRecord
    <2> QED
      BY <2>2, <2>3, <2>5, <2>6 DEF Conversation, Quiet, Asking
  <1>6. CASE FillSome
    <2>1. Stream' = Stream
      BY <1>6, StreamFilled DEF FillSome
    <2>2. UNCHANGED <<state, inFlight, toServer, serving, greeted, said, faults>>
      BY <1>6 DEF FillSome, server, running, program
    <2> QED
      BY <2>1, <2>2 DEF Conversation, HasProcess, Greets, Quiet, Asking, AllData, EndedBy
  <1> QED
    BY <1>1, <1>2, <1>3, <1>4, <1>5, <1>6 DEF Running

\* The start of a call says nothing; a program that starts has not spoken.
LEMMA ConversationCalls ==
  Typing /\ LineInv /\ Conversation /\ Calls => Conversation'
  <1> SUFFICES ASSUME Typing, LineInv, Conversation, Calls PROVE Conversation'
    OBVIOUS
  <1>1. ASSUME NEW same \in BOOLEAN, Define(same) PROVE Conversation'
    BY <1>1, ConversationOver DEF Define, Anew
  <1>2. CASE Remove
    BY <1>2, ConversationOver DEF Remove, Anew
  <1>3. CASE NewLine \/ TakeNotices \/ ReadWaiting \/ \E spot \in Spot : Indent(spot)
    <2>1. UNCHANGED talkVars
      BY <1>3 DEF NewLine, TakeNotices, ReadWaiting, Indent,
                  talkVars, server, running, program, pipes
    <2> QED
      BY <2>1, ConversationGoesOn
  <1>4. ASSUME NEW asks \in AskLists, NEW spot \in Spot \cup {None}, Draw(asks, spot)
        PROVE  Conversation'
    <2>1. CASE Started
      <3>1. /\ state' = "starting" /\ ~greeted' /\ said' = 0 /\ serving' = None
            /\ toServer' = <<>> /\ buf' = <<>> /\ fromServer' = <<>>
        BY <2>1 DEF Started, FreshProcess
      <3>2. Stream' = <<>>
        BY <3>1 DEF Stream
      <3>3. AllData' /\ Len(Stream') <= said'
        BY <3>1, <3>2 DEF AllData
      <3>4. said' <= MostUnread
        BY <3>1, ConstantsOK
      <3> QED
        BY <3>1, <3>3, <3>4 DEF Conversation, Greets
    <2>2. CASE TurnOff("cannot start")
      BY <2>2, ConversationTurnOff
    <2>3. CASE UNCHANGED <<server, inFlight, buf, program, pipes>>
      <3>1. UNCHANGED talkVars
        BY <2>3 DEF talkVars, server, program, pipes
      <3> QED
        BY <3>1, ConversationGoesOn
    <2> QED
      BY <1>4, <2>1, <2>2, <2>3 DEF Draw
  <1> QED
    BY <1>1, <1>2, <1>3, <1>4 DEF Calls

\* So every step goes on with the conversation.
LEMMA ConversationStep ==
  Typing /\ LineInv /\ Conversation /\ [Next]_vars => Conversation'
  <1>1. ShellTakesDescriptor \/ UNCHANGED vars => UNCHANGED talkVars
    BY DEF ShellTakesDescriptor, vars, talkVars, server, running, program, pipes
  <1> QED
    BY <1>1, ConversationGoesOn, ConversationRunning, ConversationCalls, ConversationProgram
    DEF Next

\* It has not begun before a mode is defined.
LEMMA ConversationInit == Init => Conversation
  BY DEF Init, Conversation, HasProcess

\* Nothing ends in what settles nothing, and one reply in what ends there.
LEMMA EndsOf ==
  ASSUME Typing
  PROVE  /\ AllData => Ends(buf) = {} /\ Ends(fromServer) = {}
         /\ \A last : EndedBy(last) /\ (\A x \in last : x.t = "end")
               => Cardinality(Ends(fromServer)) + Cardinality(Ends(buf)) = 1
         /\ EndedBy(FirstLines) => Ends(buf) = {} /\ Ends(fromServer) = {}
  <1>1. /\ Len(buf) \in Nat /\ Len(fromServer) \in Nat /\ Len(Stream) = Len(buf) + Len(fromServer)
        /\ DOMAIN buf = 1 .. Len(buf) /\ DOMAIN fromServer = 1 .. Len(fromServer)
        /\ \A i \in 1 .. Len(buf) : Stream[i] = buf[i]
        /\ \A i \in 1 .. Len(fromServer) : Stream[Len(buf) + i] = fromServer[i]
        /\ Stream # <<>> => Len(Stream) > 0
    BY StreamIs DEF Typing, TypeOK
  <1>2. ASSUME AllData PROVE Ends(buf) = {} /\ Ends(fromServer) = {}
    BY <1>1, <1>2 DEF AllData, Ends
  <1>3. ASSUME EndedBy(FirstLines) PROVE Ends(buf) = {} /\ Ends(fromServer) = {}
    <2>1. /\ Len(Stream) > 0 /\ Stream[Len(Stream)].t = "hello"
          /\ \A i \in 1 .. Len(Stream) - 1 : Stream[i].t = "data"
      BY <1>1, <1>3 DEF EndedBy, FirstLines
    <2>2. \A i \in 1 .. Len(Stream) : Stream[i].t # "end"
      BY <1>1, <2>1
    <2> QED
      BY <1>1, <2>2 DEF Ends
  <1>4. ASSUME NEW last, EndedBy(last), \A x \in last : x.t = "end"
        PROVE  Cardinality(Ends(fromServer)) + Cardinality(Ends(buf)) = 1
    <2>1. Len(Stream) > 0 /\ Stream[Len(Stream)].t = "end"
          /\ \A i \in 1 .. Len(Stream) - 1 : Stream[i].t # "end"
      BY <1>1, <1>4 DEF EndedBy
    <2>2. CASE fromServer = <<>>
      <3>1. Ends(fromServer) = {}
        BY <2>2 DEF Ends
      <3>2. Ends(buf) = {Len(buf)}
        BY <1>1, <2>1, <2>2 DEF Ends
      <3>3. Cardinality({}) = 0 /\ Cardinality({Len(buf)}) = 1
        BY FS_EmptySet, FS_Singleton
      <3> QED
        BY <3>1, <3>2, <3>3
    <2>3. CASE fromServer # <<>>
      <3>0. Len(fromServer) > 0
        BY <1>1, <2>3 DEF Typing, TypeOK
      <3>1. Ends(buf) = {}
        BY <1>1, <2>1, <3>0 DEF Ends
      <3>2. Ends(fromServer) = {Len(fromServer)}
        BY <1>1, <2>1, <3>0 DEF Ends
      <3>3. Cardinality({}) = 0 /\ Cardinality({Len(fromServer)}) = 1
        BY FS_EmptySet, FS_Singleton
      <3> QED
        BY <3>1, <3>2, <3>3
    <2> QED
      BY <2>2, <2>3
  <1> QED
    BY <1>2, <1>3, <1>4

\* A conversation has one request at a time.
LEMMA OneAtATime == Typing /\ LineInv /\ Conversation => OneRequestAtATime
  <1> SUFFICES ASSUME Typing, LineInv, Conversation, faults = {}, HasProcess
               PROVE  Busy + Cardinality(Ends(fromServer)) + Cardinality(Ends(buf))
                        = (IF inFlight = None THEN 0 ELSE 1)
    BY DEF OneRequestAtATime
  <1>1. Cardinality({}) = 0
    BY FS_EmptySet
  <1>2. CASE state = "starting"
    <2>1. inFlight = None /\ Greets
      BY <1>2 DEF LineInv, Conversation
    <2>2. Ends(buf) = {} /\ Ends(fromServer) = {}
      BY <2>1, EndsOf DEF Greets
    <2> QED
      BY <1>1, <2>1, <2>2 DEF Greets, Busy
  <1>3. CASE state = "running" /\ inFlight = None
    <2>1. Quiet
      BY <1>3 DEF Conversation
    <2>2. AllData
      BY <2>1 DEF Quiet, AllData
    <2>3. Ends(buf) = {} /\ Ends(fromServer) = {}
      BY <2>2, EndsOf
    <2> QED
      BY <1>1, <1>3, <2>1, <2>3 DEF Quiet, Busy
  <1>4. CASE state = "running" /\ inFlight # None
    <2>1. Asking(inFlight.wire) /\ inFlight.wire \in Wire
      BY <1>4 DEF Conversation, Typing, TypeOK, Sent
    <2>2. CASE toServer = <<inFlight.wire>> /\ serving = None /\ Stream = <<>>
      <3>1. AllData
        BY <2>2 DEF AllData
      <3>2. Ends(buf) = {} /\ Ends(fromServer) = {}
        BY <3>1, EndsOf
      <3> QED
        BY <1>1, <1>4, <2>2, <3>2 DEF Busy
    <2>3. CASE toServer = <<>> /\ serving = inFlight.wire /\ AllData
      <3>1. Ends(buf) = {} /\ Ends(fromServer) = {} /\ serving # None
        BY <2>1, <2>3, EndsOf, NoneIsNoRecord
      <3> QED
        BY <1>1, <1>4, <2>3, <3>1 DEF Busy
    <2>4. CASE toServer = <<>> /\ serving = None /\ EndedBy(Answers(inFlight.wire))
      <3>1. Cardinality(Ends(fromServer)) + Cardinality(Ends(buf)) = 1
        BY <2>4, EndsOf DEF Answers
      <3>2. Busy = 0
        BY <2>4 DEF Busy
      <3>3. Cardinality(Ends(fromServer)) \in Nat /\ Cardinality(Ends(buf)) \in Nat
        <4>1. buf \in Seq(Token) /\ fromServer \in Seq(Token)
          BY DEF Typing, TypeOK
        <4>2. Ends(buf) \subseteq 1 .. Len(buf) /\ Ends(fromServer) \subseteq 1 .. Len(fromServer)
          BY <4>1 DEF Ends
        <4>3. Len(buf) \in Nat /\ Len(fromServer) \in Nat
          BY <4>1
        <4>4. IsFiniteSet(1 .. Len(buf)) /\ IsFiniteSet(1 .. Len(fromServer))
          BY <4>3, FS_Interval
        <4> QED
          BY <4>2, <4>4, FS_Subset, FS_CardinalityType
      <3> QED
        BY <1>4, <3>1, <3>2, <3>3
    <2> QED
      BY <2>1, <2>2, <2>3, <2>4 DEF Asking
  <1> QED
    BY <1>2, <1>3, <1>4 DEF HasProcess

-----------------------------------------------------------------------------
\* A call past its look at the buffer left nothing there that settles the
\* reply it waits for.
LooksFirst ==
    faults = {} /\ inFlight # None /\ call.op # "idle" /\ call.pc # "take"
        => \A i \in DOMAIN buf : ~Settles(i)

\* Steps that take no token up and start no wait.
LEMMA LooksFirstGoesOn ==
  ASSUME LooksFirst, faults' = faults, UNCHANGED <<inFlight, buf>>,
         \/ UNCHANGED call \/ call'.op = "idle" \/ call'.pc = "take"
         \/ inFlight = None \/ (call.op # "idle" /\ call.pc # "take")
  PROVE  LooksFirst'
  BY DEF LooksFirst, Settles

\* There is no such call over nothing in flight.
LEMMA LooksFirstOver == inFlight' = None => LooksFirst'
  BY DEF LooksFirst

\* Every step keeps it.
LEMMA LooksFirstStep ==
  Typing /\ LineInv /\ Conversation /\ LooksFirst /\ [Next]_vars => LooksFirst'
  <1> SUFFICES ASSUME Typing, LineInv, Conversation, LooksFirst, [Next]_vars PROVE LooksFirst'
    OBVIOUS
  <1>0. ASSUME NEW why, TurnOff(why) PROVE LooksFirst'
    BY <1>0, LooksFirstOver DEF TurnOff, Discard, FreshRunning
  <1>1. CASE TakeIncomplete
    <2>1. /\ faults' = faults /\ UNCHANGED <<inFlight, buf>> /\ Incomplete
      BY <1>1 DEF TakeIncomplete, running, program
    <2>2. inFlight # None => state = "running"
      BY <1>1 DEF LineInv
    <2>3. state = "running" => \A i \in DOMAIN buf : ~Settles(i)
      BY <2>1 DEF Incomplete
    <2> QED
      BY <2>1, <2>2, <2>3 DEF LooksFirst, Settles
  <1>2. CASE \/ TakeNone \/ AllAnswered \/ AwaitReply \/ IndentTooLate
             \/ FillNothing \/ FillTooLate \/ WaitReady \/ WaitOver
    <2>1. faults' = faults /\ UNCHANGED <<inFlight, buf>>
      BY <1>2 DEF TakeNone, AllAnswered, AwaitReply, IndentTooLate,
                  FillNothing, FillTooLate, WaitReady, WaitOver, running, program
    <2>2. inFlight = None \/ InCall("next") \/ InCall("fill") \/ InCall("wait")
      BY <1>2 DEF TakeNone, AllAnswered, AwaitReply, IndentTooLate,
                  FillNothing, FillTooLate, WaitReady, WaitOver, Filling
    <2>3. inFlight = None \/ (call.op # "idle" /\ call.pc # "take")
      BY <2>2 DEF InCall
    <2> QED
      BY <2>1, <2>3, LooksFirstGoesOn
  <1>3. CASE \/ TakeTooMuch \/ FirstLineBad \/ ReplyBad \/ SendInterrupted \/ SendTimesOut
             \/ SendFails \/ FillLost \/ FillEnd
    BY <1>0, <1>3
       DEF TakeTooMuch, FirstLineBad, ReplyBad, SendInterrupted, SendTimesOut,
           SendFails, FillLost, FillEnd
  <1>4. CASE FirstLineGood \/ ReplyWhole
    BY <1>4, LooksFirstOver DEF FirstLineGood, FreshRunning, ReplyWhole
  <1>5. CASE Send
    <2>1. SUFFICES ASSUME faults = {} PROVE LooksFirst'
      BY <1>5 DEF Send, LooksFirst, program
    <2>2. state = "running" /\ inFlight = None /\ buf' = buf
      BY <1>5 DEF Send, Sending, MaySend
    <2>3. Stream = <<>>
      BY <2>1, <2>2 DEF Conversation, HasProcess, Quiet
    <2>4. buf = <<>>
      <3>1. Len(buf) \in Nat /\ Len(fromServer) \in Nat /\ 0 = Len(buf) + Len(fromServer)
            /\ buf \in Seq(Token)
        BY <2>3, StreamIs DEF Typing, TypeOK
      <3> QED
        BY <3>1
    <2> QED
      BY <2>2, <2>4 DEF LooksFirst
  <1>6. CASE FillSome
    <2>1. call'.pc = "take"
      BY <1>6 DEF FillSome, Typing, TypeOK, Frame
    <2> QED
      BY <2>1 DEF LooksFirst
  <1>7. ASSUME NEW same \in BOOLEAN, Define(same) PROVE LooksFirst'
    BY <1>7, LooksFirstOver DEF Define, Anew, Discard, FreshRunning
  <1>8. CASE Remove
    BY <1>8, LooksFirstOver DEF Remove, Anew, Discard, FreshRunning
  <1>9. CASE NewLine \/ TakeNotices \/ ShellTakesDescriptor \/ UNCHANGED vars
    <2>1. faults' = faults /\ UNCHANGED <<inFlight, buf, call>>
      BY <1>9 DEF NewLine, TakeNotices, ShellTakesDescriptor, vars, running, program
    <2> QED
      BY <2>1, LooksFirstGoesOn
  <1>10. CASE ReadWaiting \/ \E spot \in Spot : Indent(spot)
    <2>1. call'.pc = "take"
      BY <1>10 DEF ReadWaiting, Indent, Call, Idle
    <2> QED
      BY <2>1 DEF LooksFirst
  <1>11. ASSUME NEW asks \in AskLists, NEW spot \in Spot \cup {None}, Draw(asks, spot)
         PROVE  LooksFirst'
    <2>1. CASE Call("replies", asks, spot)
      <3>1. call'.pc = "take"
        BY <2>1 DEF Call, Idle
      <3> QED
        BY <3>1 DEF LooksFirst
    <2>2. CASE TurnOff("cannot start")
      BY <1>0, <2>2
    <2>3. CASE UNCHANGED <<call, inFlight, buf, program>>
      <3>1. faults' = faults
        BY <2>3 DEF program
      <3> QED
        BY <2>3, <3>1, LooksFirstGoesOn
    <2> QED
      BY <1>11, <2>1, <2>2, <2>3 DEF Draw
  <1>12. CASE Program
    <2>1. UNCHANGED <<inFlight, buf, call>> /\ (faults' = {} => faults = {})
      BY <1>12 DEF Program, ProgramHello, ProgramReads, ProgramSays, ProgramReplies,
                   ProgramExits, ProgramStrays, ProgramStopsReading, OfProgram, running
    <2> QED
      BY <2>1 DEF LooksFirst, Settles
  <1> QED
    BY <1>1, <1>2, <1>3, <1>4, <1>5, <1>6, <1>7, <1>8, <1>9, <1>10, <1>11, <1>12
    DEF Next, Running, Calls

\* What inkline owes a server that keeps the protocol: one request at a time,
\* of a kind its first line named, and no wait on a reply that is all there.
THEOREM KeepsTheProtocol == Spec => []ProtocolKept
  <1> DEFINE Inv == Typing /\ LineInv /\ Conversation /\ LooksFirst
  <1>1. Inv /\ [Next]_vars => Inv'
    BY StepTyping, LineInvStep, ConversationStep, LooksFirstStep
  <1>2. Init => Inv
    <2>1. Init => LooksFirst
      BY DEF Init, LooksFirst
    <2> QED
      BY <2>1, InitTyping, LineInvInit, ConversationInit
  <1>3. Inv => OneRequestAtATime
    BY OneAtATime
  <1>4. Inv => NoWholeReplyWaits
    BY DEF LooksFirst, NoWholeReplyWaits, InCall, HasWhole
  <1>5. OneRequestAtATime /\ OnlyNamedRequests /\ NoWholeReplyWaits => ProtocolKept
    BY DEF ProtocolKept
  <1> HIDE DEF Inv
  <1> QED
    BY <1>1, <1>2, <1>3, <1>4, <1>5, OnlyNamedRequestsSent, PTL DEF Spec

-----------------------------------------------------------------------------
(***************************************************************************)
(* That answers are their requests' needs no program that keeps the        *)
(* protocol where depths are concerned: they outlive the server they came  *)
(* from.  What is under way or read is a request that was sent, or the     *)
(* reply to one, and the request in flight is told from the others by its  *)
(* ID.                                                                     *)
(***************************************************************************)
IsSent(w) == w.id <= lastId /\ (inFlight # None /\ w.id = inFlight.wire.id => w = inFlight.wire)
TokenTrue(x) ==
    x.ans # None =>
        /\ x.t = "end" /\ x.id = x.ans.id /\ IsSent(x.ans)
        /\ state = "running"
OnlySent ==
    /\ \A w \in Elements(toServer) : IsSent(w) /\ state = "running"
    /\ serving # None => IsSent(serving) /\ state = "running"
    /\ \A x \in Elements(buf) : TokenTrue(x)
    /\ \A x \in Elements(fromServer) : TokenTrue(x)

sentVars == <<state, lastId, inFlight, serving, toServer, buf, fromServer>>

\* An empty sequence holds nothing.
LEMMA ElementsEmpty == Elements(<<>>) = {}
  BY DEF Elements

\* One with an element more at its end holds that too.
LEMMA ElementsAppend ==
  ASSUME NEW S, NEW s \in Seq(S), NEW x \in S
  PROVE  Elements(Append(s, x)) = Elements(s) \cup {x}
  <1> DEFINE t == Append(s, x)
  <1>1. /\ t \in Seq(S) /\ Len(t) = Len(s) + 1 /\ Len(s) \in Nat
        /\ DOMAIN s = 1 .. Len(s) /\ DOMAIN t = 1 .. Len(s) + 1
        /\ \A i \in 1 .. Len(s) : t[i] = s[i]
        /\ t[Len(s) + 1] = x
    BY AppendProperties
  <1> HIDE DEF t
  <1>2. ASSUME NEW e \in Elements(t) PROVE e \in Elements(s) \cup {x}
    <2>1. PICK i \in 1 .. Len(s) + 1 : e = t[i]
      BY <1>1, <1>2 DEF Elements
    <2>2. CASE i = Len(s) + 1
      BY <1>1, <2>1, <2>2
    <2>3. CASE i \in 1 .. Len(s)
      BY <1>1, <2>1, <2>3 DEF Elements
    <2> QED
      BY <1>1, <2>1, <2>2, <2>3
  <1>3. ASSUME NEW e \in Elements(s) PROVE e \in Elements(t)
    <2>1. PICK i \in 1 .. Len(s) : e = s[i]
      BY <1>1, <1>3 DEF Elements
    <2>2. i \in DOMAIN t /\ e = t[i]
      BY <1>1, <2>1
    <2> QED
      BY <2>2 DEF Elements
  <1>4. x \in Elements(t)
    <2>1. Len(s) + 1 \in DOMAIN t
      BY <1>1
    <2> QED
      BY <1>1, <2>1 DEF Elements
  <1>5. Elements(t) = Elements(s) \cup {x}
    BY <1>2, <1>3, <1>4
  <1> QED
    BY <1>5 DEF t

\* Two sequences joined hold what they held.
LEMMA ElementsBoth ==
  ASSUME NEW S, NEW s \in Seq(S), NEW t \in Seq(S)
  PROVE  Elements(s \o t) \subseteq Elements(s) \cup Elements(t)
  <1> DEFINE u == s \o t
  <1>1. /\ Len(s) \in Nat /\ Len(t) \in Nat /\ DOMAIN u = 1 .. Len(s) + Len(t)
        /\ DOMAIN s = 1 .. Len(s) /\ DOMAIN t = 1 .. Len(t)
        /\ \A i \in 1 .. Len(s) : u[i] = s[i]
        /\ \A i \in 1 .. Len(t) : u[Len(s) + i] = t[i]
    BY ConcatProperties
  <1> HIDE DEF u
  <1>2. ASSUME NEW e \in Elements(u) PROVE e \in Elements(s) \cup Elements(t)
    <2>1. PICK i \in 1 .. Len(s) + Len(t) : e = u[i]
      BY <1>1, <1>2 DEF Elements
    <2>2. CASE i \in 1 .. Len(s)
      BY <1>1, <2>1, <2>2 DEF Elements
    <2>3. CASE i - Len(s) \in 1 .. Len(t)
      <3>1. u[Len(s) + (i - Len(s))] = t[i - Len(s)] /\ Len(s) + (i - Len(s)) = i
        BY <1>1, <2>1, <2>3
      <3>2. e = t[i - Len(s)] /\ i - Len(s) \in DOMAIN t
        BY <1>1, <2>1, <2>3, <3>1
      <3> QED
        BY <3>2 DEF Elements
    <2> QED
      BY <1>1, <2>1, <2>2, <2>3
  <1> QED
    BY <1>2 DEF u

\* So does a part of one.
LEMMA ElementsPart ==
  ASSUME NEW S, NEW s \in Seq(S), NEW m \in 1 .. Len(s) + 1, NEW n \in 0 .. Len(s)
  PROVE  Elements(SubSeq(s, m, n)) \subseteq Elements(s)
  <1> DEFINE u == SubSeq(s, m, n)
  <1>1. /\ Len(s) \in Nat /\ DOMAIN s = 1 .. Len(s)
        /\ \A i \in DOMAIN u : m + i - 1 \in 1 .. Len(s) /\ u[i] = s[m + i - 1]
    OBVIOUS
  <1> HIDE DEF u
  <1>2. ASSUME NEW e \in Elements(u) PROVE e \in Elements(s)
    <2>1. PICK i \in DOMAIN u : e = u[i]
      BY <1>2 DEF Elements
    <2>2. m + i - 1 \in DOMAIN s /\ e = s[m + i - 1]
      BY <1>1, <2>1
    <2> QED
      BY <2>2 DEF Elements
  <1> QED
    BY <1>2 DEF u

\* A step that leaves all of it alone keeps it.
LEMMA OnlySentStutter == OnlySent /\ UNCHANGED sentVars => OnlySent'
  BY DEF OnlySent, sentVars, IsSent, TokenTrue, Elements

\* Nothing is under way to or from a new process, or none.
LEMMA OnlySentFresh == FreshProcess => OnlySent'
  <1> SUFFICES ASSUME FreshProcess PROVE OnlySent'
    OBVIOUS
  <1>1. buf' = <<>> /\ toServer' = <<>> /\ fromServer' = <<>> /\ serving' = None
    BY DEF FreshProcess
  <1>2. Elements(buf') = {} /\ Elements(toServer') = {} /\ Elements(fromServer') = {}
    BY <1>1, ElementsEmpty
  <1> QED
    BY <1>1, <1>2 DEF OnlySent

\* A server turned off or defined anew has no process.
LEMMA OnlySentDiscard == ASSUME NEW to, Discard(to) PROVE OnlySent'
  BY OnlySentFresh DEF Discard

\* What is left in the buffer after a line or a reply was in it.
LEMMA Drained ==
  ASSUME Typing, NEW i \in DOMAIN buf, Drain(i) PROVE Elements(buf') \subseteq Elements(buf)
  <1>1. buf \in Seq(Token) /\ i + 1 \in 1 .. Len(buf) + 1 /\ Len(buf) \in 0 .. Len(buf)
    BY DEF Typing, TypeOK
  <1>2. Elements(SubSeq(buf, i + 1, Len(buf))) \subseteq Elements(buf)
    BY <1>1, ElementsPart
  <1> QED
    BY <1>2 DEF Drain

\* What is moved from the socket to the buffer is in the one or the other.
LEMMA Filled ==
  ASSUME Typing, NEW n \in 1 .. Len(fromServer),
         buf' = buf \o SubSeq(fromServer, 1, n),
         fromServer' = SubSeq(fromServer, n + 1, Len(fromServer))
  PROVE  /\ Elements(buf') \subseteq Elements(buf) \cup Elements(fromServer)
         /\ Elements(fromServer') \subseteq Elements(fromServer)
  <1>1. /\ buf \in Seq(Token) /\ fromServer \in Seq(Token)
        /\ n + 1 \in 1 .. Len(fromServer) + 1 /\ Len(fromServer) \in 0 .. Len(fromServer)
        /\ 1 \in 1 .. Len(fromServer) + 1 /\ n \in 0 .. Len(fromServer)
        /\ SubSeq(fromServer, 1, n) \in Seq(Token)
    BY DEF Typing, TypeOK
  <1>2. Elements(SubSeq(fromServer, n + 1, Len(fromServer))) \subseteq Elements(fromServer)
    BY <1>1, ElementsPart
  <1>3. Elements(SubSeq(fromServer, 1, n)) \subseteq Elements(fromServer)
    BY <1>1, ElementsPart
  <1>4. Elements(buf \o SubSeq(fromServer, 1, n))
          \subseteq Elements(buf) \cup Elements(SubSeq(fromServer, 1, n))
    BY <1>1, ElementsBoth
  <1> QED
    BY <1>2, <1>3, <1>4

\* Reading a line or a reply takes tokens up, and writing a request sends it.
LEMMA OnlySentRunning == Typing /\ LineInv /\ OnlySent /\ Running => OnlySent'
  <1> SUFFICES ASSUME Typing, LineInv, OnlySent, Running PROVE OnlySent'
    OBVIOUS
  <1>0. /\ buf \in Seq(Token) /\ fromServer \in Seq(Token) /\ toServer \in Seq(Wire)
        /\ lastId \in Nat
    BY DEF Typing, TypeOK
  <1>1. CASE \/ TakeIncomplete \/ TakeNone \/ AllAnswered \/ AwaitReply \/ IndentTooLate
             \/ FillNothing \/ FillTooLate \/ WaitReady \/ WaitOver
    <2>1. UNCHANGED sentVars
      BY <1>1 DEF TakeIncomplete, TakeNone, AllAnswered, AwaitReply, IndentTooLate,
                  FillNothing, FillTooLate, WaitReady, WaitOver,
                  sentVars, server, running, program, pipes
    <2> QED
      BY <2>1, OnlySentStutter
  <1>2. CASE \/ TakeTooMuch \/ FirstLineBad \/ ReplyBad \/ SendInterrupted \/ SendTimesOut
             \/ SendFails \/ FillLost \/ FillEnd
    BY <1>2, OnlySentDiscard
       DEF TakeTooMuch, FirstLineBad, ReplyBad, SendInterrupted, SendTimesOut,
           SendFails, FillLost, FillEnd, TurnOff
  <1>3. CASE FirstLineGood
    <2>1. /\ state = "starting" /\ UNCHANGED <<toServer, serving, fromServer>>
      BY <1>3 DEF FirstLineGood, pipes, program
    <2>2. Elements(buf') \subseteq Elements(buf)
      BY <1>3, Drained DEF FirstLineGood
    <2>3. \A x \in Elements(buf) \cup Elements(fromServer) : x.ans = None
      BY <2>1 DEF OnlySent, TokenTrue
    <2>4. Elements(toServer) = {} /\ serving = None
      BY <2>1 DEF OnlySent
    <2> HIDE DEF Elements
    <2>5. /\ \A x \in Elements(buf') : x.ans = None
          /\ \A x \in Elements(fromServer') : x.ans = None
          /\ Elements(toServer') = {} /\ serving' = None
      BY <2>1, <2>2, <2>3, <2>4
    <2> QED
      BY <2>5 DEF OnlySent, TokenTrue
  <1>4. CASE ReplyWhole
    <2>1. /\ inFlight' = None
          /\ UNCHANGED <<state, lastId, toServer, serving, fromServer>>
      BY <1>4 DEF ReplyWhole, server, pipes, program
    <2>2. Elements(buf') \subseteq Elements(buf)
      BY <1>4, Drained DEF ReplyWhole
    <2>3. Elements(toServer') = Elements(toServer) /\ Elements(fromServer') = Elements(fromServer)
      BY <2>1
    <2> QED
      BY <2>1, <2>2, <2>3 DEF OnlySent, IsSent, TokenTrue
  <1>5. CASE Send
    <2>1. PICK w \in Wanted :
            LET wire == [id |-> lastId + 1, kind |-> w.kind, req |-> w.req, at |-> w.at] IN
            toServer' = Append(toServer, wire) /\ inFlight' = [wire |-> wire, line |-> line]
      BY <1>5 DEF Send
    <2>2. PICK wire \in Wire :
            wire.id = lastId + 1 /\ toServer' = Append(toServer, wire) /\ inFlight'.wire = wire
      <3>1. [id |-> lastId + 1, kind |-> w.kind, req |-> w.req, at |-> w.at] \in Wire
        BY <1>0, WantedTyping DEF Wire
      <3> QED
        BY <2>1, <3>1
    <2>3. /\ state = "running" /\ lastId' = lastId + 1
          /\ UNCHANGED <<state, buf, fromServer, serving>>
      BY <1>5, <2>1 DEF Send, Sending, MaySend, server, program
    <2>5. Elements(toServer') = Elements(toServer) \cup {wire}
      BY <1>0, <2>2, ElementsAppend
    <2>6. ASSUME NEW v \in Wire, IsSent(v) PROVE IsSent(v)'
      <3>1. v.id \in Nat /\ v.id <= lastId
        BY <2>6 DEF Wire, IsSent
      <3> QED
        BY <1>0, <2>2, <2>3, <3>1 DEF IsSent
    <2>7. IsSent(wire)'
      BY <1>0, <2>2, <2>3 DEF IsSent
    <2>8. ASSUME NEW x \in Token, TokenTrue(x) PROVE TokenTrue(x)'
      <3>1. x.ans # None => x.ans \in Wire
        BY DEF Token
      <3> QED
        BY <2>3, <2>6, <2>8, <3>1 DEF TokenTrue
    <2>9. /\ Elements(buf) \subseteq Token /\ Elements(fromServer) \subseteq Token
          /\ Elements(toServer) \subseteq Wire /\ serving \in Wire \cup {None}
      BY <1>0 DEF Elements, Typing, TypeOK
    <2>10. Elements(buf') = Elements(buf) /\ Elements(fromServer') = Elements(fromServer)
      BY <2>3
    <2>11. \A v \in Elements(toServer') : IsSent(v)' /\ state' = "running"
      BY <2>3, <2>5, <2>6, <2>7, <2>9 DEF OnlySent
    <2>12. serving' # None => IsSent(serving)' /\ state' = "running"
      BY <2>3, <2>6, <2>9 DEF OnlySent, IsSent
    <2>13. /\ \A x \in Elements(buf') : TokenTrue(x)'
           /\ \A x \in Elements(fromServer') : TokenTrue(x)'
      BY <2>8, <2>9, <2>10 DEF OnlySent
    <2> QED
      BY <2>11, <2>12, <2>13 DEF OnlySent
  <1>6. CASE FillSome
    <2>1. /\ Elements(buf') \subseteq Elements(buf) \cup Elements(fromServer)
          /\ Elements(fromServer') \subseteq Elements(fromServer)
      BY <1>6, Filled DEF FillSome
    <2>2. UNCHANGED <<state, lastId, inFlight, serving, toServer>>
      BY <1>6 DEF FillSome, server, running, program
    <2>3. Elements(toServer') = Elements(toServer)
      BY <2>2
    <2> QED
      BY <2>1, <2>2, <2>3 DEF OnlySent, IsSent, TokenTrue
  <1> QED
    BY <1>1, <1>2, <1>3, <1>4, <1>5, <1>6 DEF Running

\* Nor does the start of a call send anything.
LEMMA OnlySentCalls == Typing /\ OnlySent /\ Calls => OnlySent'
  <1> SUFFICES ASSUME Typing, OnlySent, Calls PROVE OnlySent'
    OBVIOUS
  <1>1. ASSUME NEW same \in BOOLEAN, Define(same) PROVE OnlySent'
    BY <1>1, OnlySentDiscard DEF Define, Anew
  <1>2. CASE Remove
    BY <1>2, OnlySentDiscard DEF Remove, Anew
  <1>3. CASE NewLine \/ TakeNotices \/ ReadWaiting \/ \E spot \in Spot : Indent(spot)
    <2>1. UNCHANGED sentVars
      BY <1>3 DEF NewLine, TakeNotices, ReadWaiting, Indent,
                  sentVars, server, running, program, pipes
    <2> QED
      BY <2>1, OnlySentStutter
  <1>4. ASSUME NEW asks \in AskLists, NEW spot \in Spot \cup {None}, Draw(asks, spot)
        PROVE  OnlySent'
    <2>1. CASE Started
      BY <2>1, OnlySentFresh DEF Started
    <2>2. CASE TurnOff("cannot start")
      BY <2>2, OnlySentDiscard DEF TurnOff
    <2>3. CASE UNCHANGED <<server, lastId, inFlight, buf, program, pipes>>
      <3>1. UNCHANGED sentVars
        BY <2>3 DEF sentVars, server, program, pipes
      <3> QED
        BY <3>1, OnlySentStutter
    <2> QED
      BY <1>4, <2>1, <2>2, <2>3 DEF Draw
  <1> QED
    BY <1>1, <1>2, <1>3, <1>4 DEF Calls

\* The program reads what was sent, and replies to that; what it writes out
\* of place answers nothing.
LEMMA OnlySentProgram == Typing /\ OnlySent /\ Program => OnlySent'
  <1> SUFFICES ASSUME Typing, OnlySent, Program PROVE OnlySent'
    OBVIOUS
  <1> USE DEF OfProgram, server, running
  <1>0. /\ fromServer \in Seq(Token) /\ toServer \in Seq(Wire)
        /\ UNCHANGED <<state, lastId, inFlight, buf>> /\ lastId \in Nat
    BY DEF Typing, TypeOK, Program, ProgramHello, ProgramReads, ProgramSays, ProgramReplies,
           ProgramExits, ProgramStrays, ProgramStopsReading
  <1>a. ASSUME NEW token \in Token, TokenTrue(token), Write(token), toServer' = toServer,
               serving' \in {serving, None}
        PROVE  OnlySent'
    <2>1. Elements(fromServer') = Elements(fromServer) \cup {token}
      BY <1>0, <1>a, ElementsAppend DEF Write
    <2>2. Elements(toServer') = Elements(toServer) /\ Elements(buf') = Elements(buf)
      BY <1>0, <1>a
    <2> QED
      BY <1>0, <1>a, <2>1, <2>2 DEF OnlySent, IsSent, TokenTrue
  <1>1. CASE ProgramHello
    <2> DEFINE token == [t |-> "hello", id |-> 0, ans |-> None]
    <2>1. token \in Token /\ token.ans = None
      BY DEF Token, Settling
    <2>2. Write(token) /\ toServer' = toServer /\ serving' = serving
      BY <1>1 DEF ProgramHello
    <2> HIDE DEF token
    <2> QED
      BY <1>a, <2>1, <2>2 DEF TokenTrue
  <1>2. CASE ProgramReads
    <2>1. /\ toServer # <<>> /\ serving' = Head(toServer) /\ toServer' = Tail(toServer)
          /\ fromServer' = fromServer
      BY <1>2 DEF ProgramReads
    <2>2. Head(toServer) \in Elements(toServer)
      BY <1>0, <2>1 DEF Elements
    <2>3. Elements(toServer') \subseteq Elements(toServer)
      <3>1. Tail(toServer) = SubSeq(toServer, 2, Len(toServer))
        BY <1>0, <2>1
      <3>2. 2 \in 1 .. Len(toServer) + 1 /\ Len(toServer) \in 0 .. Len(toServer)
        BY <1>0, <2>1
      <3> QED
        BY <1>0, <2>1, <3>1, <3>2, ElementsPart
    <2>4. Elements(fromServer') = Elements(fromServer) /\ Elements(buf') = Elements(buf)
      BY <1>0, <2>1
    <2> QED
      BY <1>0, <2>1, <2>2, <2>3, <2>4 DEF OnlySent, IsSent, TokenTrue
  <1>3. CASE ProgramSays
    <2> DEFINE token == [t |-> "data", id |-> 0, ans |-> None]
    <2>1. token \in Token /\ token.ans = None
      BY DEF Token, Unsettled
    <2>2. Write(token) /\ toServer' = toServer /\ serving' = serving
      BY <1>3 DEF ProgramSays
    <2> HIDE DEF token
    <2> QED
      BY <1>a, <2>1, <2>2 DEF TokenTrue
  <1>4. CASE ProgramReplies
    <2>1. /\ serving # None /\ serving' = None /\ toServer' = toServer /\ serving \in Wire
          /\ IsSent(serving) /\ state = "running"
      BY <1>4 DEF ProgramReplies, OnlySent, Typing, TypeOK
    <2>2. PICK ans \in {serving, None} : Write([t |-> "end", id |-> serving.id, ans |-> ans])
      BY <1>4 DEF ProgramReplies
    <2> DEFINE token == [t |-> "end", id |-> serving.id, ans |-> ans]
    <2>3. token \in Token /\ token.t = "end" /\ token.id = serving.id /\ token.ans = ans
      BY <2>1 DEF Token, Settling, Wire
    <2>4. Write(token)
      BY <2>2
    <2> HIDE DEF token
    <2>5. TokenTrue(token)
      BY <2>1, <2>3 DEF TokenTrue
    <2> QED
      BY <1>a, <2>1, <2>3, <2>4, <2>5
  <1>5. CASE ProgramExits \/ ProgramStopsReading
    <2>1. UNCHANGED sentVars
      BY <1>0, <1>5 DEF ProgramExits, ProgramStopsReading, pipes, sentVars
    <2> QED
      BY <2>1, OnlySentStutter
  <1>6. CASE ProgramStrays
    <2>1. PICK t \in Settling \cup Unsettled, id \in 0 .. lastId + 1 :
            Write([t |-> t, id |-> id, ans |-> None])
      BY <1>6 DEF ProgramStrays
    <2> DEFINE token == [t |-> t, id |-> id, ans |-> None]
    <2>2. token \in Token /\ token.ans = None
      BY <1>0, <2>1 DEF Token
    <2>3. Write(token) /\ toServer' = toServer /\ serving' = serving
      BY <1>6, <2>1 DEF ProgramStrays
    <2> HIDE DEF token
    <2> QED
      BY <1>a, <2>2, <2>3 DEF TokenTrue
  <1> QED
    BY <1>1, <1>2, <1>3, <1>4, <1>5, <1>6 DEF Program

\* So every step keeps it.
LEMMA OnlySentStep == Typing /\ LineInv /\ OnlySent /\ [Next]_vars => OnlySent'
  <1>1. ShellTakesDescriptor \/ UNCHANGED vars => UNCHANGED sentVars
    BY DEF ShellTakesDescriptor, vars, sentVars, server, running, program, pipes
  <1> QED
    BY <1>1, OnlySentStutter, OnlySentRunning, OnlySentCalls, OnlySentProgram DEF Next

\* A call of indent that sent its request waits for that one.
OwnInFlight ==
    call.op = "indent" /\ call.own # 0
        => inFlight # None /\ inFlight.wire.id = call.own /\ inFlight.wire.kind = "indent"

\* A call that goes on, or returns, waits for no other.
LEMMA OwnGoesOn ==
  ASSUME OwnInFlight, inFlight' = inFlight,
         call'.op = "idle" \/ (call'.op = call.op /\ call'.own = call.own)
  PROVE  OwnInFlight'
  BY DEF OwnInFlight

\* One that starts has sent none.
LEMMA OwnStarts ==
  ASSUME NEW op, NEW asks, NEW spot, Call(op, asks, spot) PROVE OwnInFlight'
  BY DEF Call, Idle, OwnInFlight

\* What goes on in a call is the same call.
LEMMA OwnOfContinue ==
  ASSUME Typing, NEW pc, Continue(pc) PROVE call'.op = call.op /\ call'.own = call.own
  BY DEF Typing, TypeOK, Frame, Continue

\* Every step keeps it.
LEMMA OwnStep == Typing /\ LineInv /\ OwnInFlight /\ [Next]_vars => OwnInFlight'
  <1> SUFFICES ASSUME Typing, LineInv, OwnInFlight, [Next]_vars PROVE OwnInFlight'
    OBVIOUS
  <1>a. ASSUME call' = Idle PROVE OwnInFlight'
    BY <1>a DEF Idle, OwnInFlight
  <1>1. CASE TakeIncomplete \/ TakeNone \/ AwaitReply
    <2>1. inFlight' = inFlight /\ \E pc \in {"next", "fill"} : Continue(pc)
      BY <1>1 DEF TakeIncomplete, TakeNone, AwaitReply, AfterTakeEmpty, running
    <2> QED
      BY <2>1, OwnOfContinue, OwnGoesOn
  <1>2. CASE AllAnswered \/ IndentTooLate \/ FillTooLate \/ WaitOver
    BY <1>a, <1>2 DEF AllAnswered, IndentTooLate, FillTooLate, WaitOver, Return
  <1>3. CASE FillNothing
    <2>1. inFlight' = inFlight /\ (Continue("wait") \/ Return(None))
      BY <1>3 DEF FillNothing, running
    <2> QED
      BY <1>a, <2>1, OwnOfContinue, OwnGoesOn DEF Return
  <1>4. CASE FillSome \/ WaitReady
    <2>1. inFlight' = inFlight /\ call'.op = call.op /\ call'.own = call.own
      BY <1>4 DEF FillSome, WaitReady, running, Typing, TypeOK, Frame
    <2> QED
      BY <2>1, OwnGoesOn
  <1>5. CASE \/ TakeTooMuch \/ FirstLineBad \/ ReplyBad \/ SendInterrupted \/ SendTimesOut
             \/ SendFails \/ FillLost \/ FillEnd
    BY <1>a, <1>5
       DEF TakeTooMuch, FirstLineBad, ReplyBad, SendInterrupted, SendTimesOut,
           SendFails, FillLost, FillEnd, TurnOff
  <1>6. CASE FirstLineGood
    <2>1. inFlight = None /\ inFlight' = None
      BY <1>6 DEF FirstLineGood, FreshRunning, LineInv
    <2>2. Continue("take") \/ Return(None)
      BY <1>6 DEF FirstLineGood
    <2> QED
      BY <1>a, <2>1, <2>2, OwnOfContinue, OwnGoesOn DEF Return
  <1>7. CASE ReplyWhole
    <2>1. CASE call.op = "indent" /\ call.own # 0
      BY <1>a, <1>7, <2>1 DEF ReplyWhole, Return
    <2>2. CASE ~(call.op = "indent" /\ call.own # 0)
      <3>1. Return(None) \/ Continue("next")
        BY <1>7, <2>2 DEF ReplyWhole
      <3> QED
        BY <1>a, <2>2, <3>1, OwnOfContinue DEF OwnInFlight, Return
    <2> QED
      BY <2>1, <2>2
  <1>8. CASE Send
    <2>1. PICK w \in Wanted :
            LET wire == [id |-> lastId + 1, kind |-> w.kind, req |-> w.req, at |-> w.at] IN
            /\ inFlight' = [wire |-> wire, line |-> line]
            /\ call' = IF call.op = "indent"
                         THEN [call EXCEPT !.pc = "take", !.own = wire.id]
                         ELSE [call EXCEPT !.pc = "fill"]
      BY <1>8 DEF Send
    <2>2. CASE call.op = "indent"
      <3>1. w.kind = "indent"
        BY <2>2 DEF Wanted
      <3>2. call'.own = lastId + 1 /\ inFlight'.wire.id = lastId + 1
            /\ inFlight'.wire.kind = "indent"
        BY <2>1, <2>2, <3>1 DEF Typing, TypeOK, Frame
      <3>3. inFlight' # None
        <4>1. [id |-> lastId + 1, kind |-> w.kind, req |-> w.req, at |-> w.at] \in Wire
          BY WantedTyping DEF Wire, Typing, TypeOK
        <4>2. inFlight' \in Sent
          BY <2>1, <4>1 DEF Sent, Typing, TypeOK
        <4> QED
          BY <4>2, NoneIsNoRecord
      <3> QED
        BY <3>2, <3>3 DEF OwnInFlight
    <2>3. CASE call.op # "indent"
      <3>1. call'.op = call.op
        BY <2>1, <2>3 DEF Typing, TypeOK, Frame
      <3> QED
        BY <2>3, <3>1 DEF OwnInFlight
    <2> QED
      BY <2>2, <2>3
  <1>9. CASE (\E same \in BOOLEAN : Define(same)) \/ Remove
    <2>1. call' = Idle
      BY <1>9 DEF Define, Remove
    <2> QED
      BY <1>a, <2>1
  <1>10. CASE NewLine \/ TakeNotices \/ ShellTakesDescriptor
    <2>1. call' = Idle
      BY <1>10 DEF NewLine, TakeNotices, ShellTakesDescriptor
    <2> QED
      BY <1>a, <2>1
  <1>11. CASE ReadWaiting \/ \E spot \in Spot : Indent(spot)
    BY <1>11, OwnStarts DEF ReadWaiting, Indent
  <1>12. ASSUME NEW asks \in AskLists, NEW spot \in Spot \cup {None}, Draw(asks, spot)
         PROVE  OwnInFlight'
    <2>1. CASE Call("replies", asks, spot)
      BY <2>1, OwnStarts
    <2>2. CASE TurnOff("cannot start")
      BY <1>a, <2>2 DEF TurnOff
    <2>3. CASE call = Idle /\ call' = call
      BY <1>a, <2>3
    <2> QED
      BY <1>12, <2>1, <2>2, <2>3 DEF Draw
  <1>13. CASE Program \/ UNCHANGED vars
    <2>1. inFlight' = inFlight /\ call' = call
      BY <1>13 DEF Program, ProgramHello, ProgramReads, ProgramSays, ProgramReplies,
                   ProgramExits, ProgramStrays, ProgramStopsReading, OfProgram, running, vars
    <2> QED
      BY <2>1 DEF OwnInFlight
  <1> QED
    BY <1>1, <1>2, <1>3, <1>4, <1>5, <1>6, <1>7, <1>8, <1>9, <1>10, <1>11, <1>12, <1>13
    DEF Next, Running, Calls

\* The depths a new line gets are the answer to its own request, whatever
\* programs wrote before.
DepthsTrue == depths # None /\ depths.ans # None =>
    depths.ans.id = depths.own /\ depths.ans.kind = "indent"

\* Every step keeps it: a reply taken has its request's ID, and an answer is
\* told by that.
LEMMA DepthsStep ==
  Typing /\ OwnInFlight /\ OnlySent /\ DepthsTrue /\ [Next]_vars => DepthsTrue'
  <1> SUFFICES ASSUME Typing, OwnInFlight, OnlySent, DepthsTrue, [Next]_vars PROVE DepthsTrue'
    OBVIOUS
  <1>a. ASSUME depths' = None \/ depths' = depths PROVE DepthsTrue'
    BY <1>a DEF DepthsTrue
  <1>1. CASE ReplyWhole
    <2>1. PICK i \in DOMAIN buf :
            /\ Settles(i) /\ WellFormed(i, inFlight.wire.id)
            /\ LET answer == NoteDepths(buf[i].ans) IN
               IF call.op = "indent" /\ call.own # 0
                 THEN Return([own |-> call.own, ans |-> answer])
                 ELSE IF call.op = "read_waiting" THEN Return(None) ELSE Continue("next")
      BY <1>1 DEF ReplyWhole
    <2>2. CASE call.op = "indent" /\ call.own # 0
      <3>1. depths' = [own |-> call.own, ans |-> buf[i].ans]
            /\ inFlight # None /\ inFlight.wire.id = call.own /\ inFlight.wire.kind = "indent"
        BY <2>1, <2>2 DEF OwnInFlight, NoteDepths, Return
      <3>2. buf[i] \in Elements(buf)
        BY DEF Elements
      <3>3. buf[i].ans # None => buf[i].id = buf[i].ans.id /\ IsSent(buf[i].ans)
        BY <3>2 DEF OnlySent, TokenTrue
      <3>4. buf[i].id = inFlight.wire.id
        BY <2>1 DEF WellFormed
      <3>5. buf[i].ans # None => buf[i].ans = inFlight.wire
        BY <3>1, <3>3, <3>4 DEF IsSent
      <3> QED
        BY <3>1, <3>5 DEF DepthsTrue
    <2>3. CASE ~(call.op = "indent" /\ call.own # 0)
      BY <1>a, <2>1, <2>3 DEF Return, Continue
    <2> QED
      BY <2>2, <2>3
  <1>2. CASE \/ TakeIncomplete \/ TakeNone \/ AllAnswered \/ AwaitReply \/ IndentTooLate
             \/ Send \/ FirstLineGood
             \/ FillSome \/ FillNothing \/ FillTooLate \/ WaitReady \/ WaitOver
    BY <1>a, <1>2
       DEF TakeIncomplete, TakeNone, AllAnswered, AwaitReply, IndentTooLate, Send,
           FirstLineGood, AfterTakeEmpty, FillSome, FillNothing, FillTooLate, WaitReady,
           WaitOver, Return, Continue
  <1>3. CASE \/ TakeTooMuch \/ FirstLineBad \/ ReplyBad \/ SendInterrupted \/ SendTimesOut
             \/ SendFails \/ FillLost \/ FillEnd
    BY <1>a, <1>3
       DEF TakeTooMuch, FirstLineBad, ReplyBad, SendInterrupted, SendTimesOut,
           SendFails, FillLost, FillEnd, TurnOff
  <1>4. CASE Calls
    <2>1. ASSUME NEW asks, NEW spot, Draw(asks, spot) PROVE DepthsTrue'
      BY <1>a, <2>1 DEF Draw, Call, TurnOff
    <2> QED
      BY <1>a, <1>4, <2>1
      DEF Calls, Define, Remove, NewLine, TakeNotices, ReadWaiting, Indent, Call
  <1>5. CASE Program \/ ShellTakesDescriptor \/ UNCHANGED vars
    <2>1. depths' = depths
      BY <1>5 DEF Program, ProgramHello, ProgramReads, ProgramSays, ProgramReplies,
                  ProgramExits, ProgramStrays, ProgramStopsReading, OfProgram,
                  ShellTakesDescriptor, vars
    <2> QED
      BY <1>a, <2>1
  <1> QED
    BY <1>1, <1>2, <1>3, <1>4, <1>5 DEF Next, Running

\* What is kept of an honest program's replies answers what it is kept for.
LEMMA KeptStep ==
  Typing /\ LineInv /\ Conversation /\ KeptAnswersItsRequest /\ [Next]_vars
    => KeptAnswersItsRequest'
  <1> SUFFICES ASSUME Typing, LineInv, Conversation, KeptAnswersItsRequest, [Next]_vars
               PROVE  KeptAnswersItsRequest'
    OBVIOUS
  <1>a. ASSUME kept' = NothingKept /\ keptItems' = None PROVE KeptAnswersItsRequest'
    BY <1>a DEF KeptAnswersItsRequest, NothingKept
  <1>b. ASSUME UNCHANGED memo, faults' = {} => faults = {} PROVE KeptAnswersItsRequest'
    BY <1>b DEF KeptAnswersItsRequest, memo
  <1>c. ASSUME NEW to, Discard(to) PROVE KeptAnswersItsRequest'
    BY <1>a, <1>c DEF Discard, FreshRunning
  <1>1. CASE ReplyWhole
    <2>1. SUFFICES ASSUME faults = {} PROVE KeptAnswersItsRequest'
      BY <1>1 DEF ReplyWhole, KeptAnswersItsRequest, program
    <2>2. PICK i \in DOMAIN buf : Settles(i) /\ Keep(buf[i].ans)
      BY <1>1 DEF ReplyWhole
    <2>3. state = "running" /\ inFlight # None /\ inFlight \in Sent
      BY <1>1 DEF ReplyWhole, Reading, Typing, TypeOK
    <2> DEFINE w == inFlight.wire
    <2>4. w.kind # "indent" => buf[i].ans = w
      BY <2>1, <2>2, <2>3, HonestReply DEF Answers
    <2>5. w \in Wire /\ w # None
      BY <2>3, NoneIsNoRecord DEF Sent
    <2>6. CASE UNCHANGED memo
      BY <2>1, <2>6 DEF KeptAnswersItsRequest, memo
    <2>7. CASE KeepAlways(buf[i].ans)
      <3>1. /\ kept' = IF w.kind = "colors"
                         THEN [kept EXCEPT ![w.req] = [ans |-> buf[i].ans, line |-> inFlight.line]]
                         ELSE kept
            /\ keptItems' = IF w.kind = "complete"
                              THEN [req |-> w.req, at |-> w.at, ans |-> buf[i].ans,
                                    line |-> inFlight.line]
                              ELSE keptItems
        BY <2>7 DEF KeepAlways, KeepAs
      <3> HIDE DEF w
      <3>2. \A r \in Requests : kept'[r] # None =>
               kept'[r].ans # None /\ kept'[r].ans.kind = "colors" /\ kept'[r].ans.req = r
        <4>1. \A r \in Requests : kept[r] # None =>
                 kept[r].ans # None /\ kept[r].ans.kind = "colors" /\ kept[r].ans.req = r
          BY <2>1 DEF KeptAnswersItsRequest
        <4>2. kept \in [Requests -> Kept \cup {None}]
          BY DEF Typing, TypeOK
        <4>3. CASE w.kind = "colors"
          <5>1. buf[i].ans = w
            BY <2>4, <4>3
          <5> QED
            BY <2>5, <3>1, <4>1, <4>2, <4>3, <5>1
        <4> QED
          BY <3>1, <4>1, <4>3
      <3>3. keptItems' # None =>
              /\ keptItems'.ans # None /\ keptItems'.ans.kind = "complete"
              /\ keptItems'.ans.req = keptItems'.req /\ keptItems'.ans.at = keptItems'.at
        <4>1. CASE w.kind = "complete"
          <5>1. buf[i].ans = w
            BY <2>4, <4>1
          <5> QED
            BY <2>5, <3>1, <4>1, <5>1
        <4>2. CASE w.kind # "complete"
          BY <2>1, <3>1, <4>2 DEF KeptAnswersItsRequest
        <4> QED
          BY <4>1, <4>2
      <3> QED
        BY <3>2, <3>3 DEF KeptAnswersItsRequest
    <2> QED
      BY <2>2, <2>6, <2>7 DEF Keep
  <1>2. CASE \/ TakeIncomplete \/ TakeNone \/ AllAnswered \/ AwaitReply \/ IndentTooLate \/ Send
             \/ FillSome \/ FillNothing \/ FillTooLate \/ WaitReady \/ WaitOver
    <2>1. UNCHANGED memo /\ faults' = faults
      BY <1>2 DEF TakeIncomplete, TakeNone, AllAnswered, AwaitReply, IndentTooLate, Send,
                  FillSome, FillNothing, FillTooLate, WaitReady, WaitOver, running, program
    <2> QED
      BY <1>b, <2>1
  <1>3. CASE \/ TakeTooMuch \/ FirstLineBad \/ ReplyBad \/ SendInterrupted \/ SendTimesOut
             \/ SendFails \/ FillLost \/ FillEnd
    BY <1>c, <1>3
       DEF TakeTooMuch, FirstLineBad, ReplyBad, SendInterrupted, SendTimesOut,
           SendFails, FillLost, FillEnd, TurnOff
  <1>4. CASE FirstLineGood
    BY <1>a, <1>4 DEF FirstLineGood, FreshRunning
  <1>5. CASE (\E same \in BOOLEAN : Define(same)) \/ Remove
    BY <1>c, <1>5 DEF Define, Remove, Anew
  <1>6. CASE NewLine
    <2>1. CASE state = "running"
      BY <1>a, <1>6, <2>1 DEF NewLine, ForgetReplies
    <2>2. CASE state # "running"
      BY <1>b, <1>6, <2>2 DEF NewLine, program
    <2> QED
      BY <2>1, <2>2
  <1>7. CASE TakeNotices \/ ReadWaiting \/ (\E spot \in Spot : Indent(spot))
             \/ ShellTakesDescriptor \/ UNCHANGED vars
    <2>1. UNCHANGED memo /\ faults' = faults
      BY <1>7 DEF TakeNotices, ReadWaiting, Indent, ShellTakesDescriptor, running, program, vars
    <2> QED
      BY <1>b, <2>1
  <1>8. ASSUME NEW asks \in AskLists, NEW spot \in Spot \cup {None}, Draw(asks, spot)
        PROVE  KeptAnswersItsRequest'
    <2>1. CASE state = "notStarted" /\ UNCHANGED running
      <3>1. kept' = NothingKept /\ keptItems' = None
        BY <2>1 DEF LineInv, running, memo
      <3> QED
        BY <1>a, <3>1
    <2>2. CASE TurnOff("cannot start")
      BY <1>c, <2>2 DEF TurnOff
    <2>3. CASE /\ kept' = IF state = "running" THEN Retained(asks) ELSE kept
               /\ UNCHANGED <<keptItems, program>>
      <3>1. faults' = faults /\ keptItems' = keptItems
        BY <2>3 DEF program
      <3>2. \A r \in Requests : kept'[r] = kept[r] \/ kept'[r] = None
        BY <2>3 DEF Retained
      <3> QED
        BY <3>1, <3>2 DEF KeptAnswersItsRequest
    <2> QED
      BY <1>8, <2>1, <2>2, <2>3 DEF Draw
  <1>9. CASE Program
    <2>1. UNCHANGED memo /\ (faults' = {} => faults = {})
      BY <1>9 DEF Program, ProgramHello, ProgramReads, ProgramSays, ProgramReplies,
                  ProgramExits, ProgramStrays, ProgramStopsReading, OfProgram, running
    <2> QED
      BY <1>b, <2>1
  <1> QED
    BY <1>1, <1>2, <1>3, <1>4, <1>5, <1>6, <1>7, <1>8, <1>9 DEF Next, Running, Calls

\* Every answer that is used is that to the request it is used for, kept for a
\* line (Running::keep, kept_items) or indenting a new one (ask_indent).
THEOREM AnswersAreTheirRequests == Spec => []AnswersAreOwn
  <1> DEFINE Inv == /\ Typing /\ LineInv /\ Conversation /\ OnlySent
                    /\ OwnInFlight /\ DepthsTrue /\ KeptAnswersItsRequest
  <1>1. Inv /\ [Next]_vars => Inv'
    BY StepTyping, LineInvStep, ConversationStep, OnlySentStep, OwnStep, DepthsStep, KeptStep
  <1>2. Init => Inv
    <2>1. Init => OnlySent
      BY ElementsEmpty DEF Init, OnlySent
    <2>2. Init => OwnInFlight /\ DepthsTrue /\ KeptAnswersItsRequest
      BY DEF Init, Idle, OwnInFlight, DepthsTrue, KeptAnswersItsRequest, NothingKept
    <2> QED
      BY <2>1, <2>2, InitTyping, LineInvInit, ConversationInit
  <1>3. Inv => AnswersAreOwn
    BY DEF DepthsTrue, DepthsAreOwn, AnswersAreOwn
  <1> HIDE DEF Inv
  <1> QED
    BY <1>1, <1>2, <1>3, PTL DEF Spec

-----------------------------------------------------------------------------
(***************************************************************************)
(* What a server that keeps the protocol is turned off for: each step that *)
(* turns one off has a cause.  A C-c while a request longer than the       *)
(* socket holds is written is one, though the server reads; the deadline   *)
(* of that write is not, as nothing is owed by either when it begins.      *)
(***************************************************************************)
Cause(why) ==
    \/ why = "cannot start" /\ state = "notStarted"
    \/ why = "connection lost" /\ slot # "socket"
    \/ why = "exited" /\ slot = "socket" /\ ~alive
    \/ why = "request not read" /\ SendInterrupted /\ ~SendTimesOut /\ \E w \in Wanted : w.req \in Large
ForACause == faults = {} /\ state # "off" /\ state' = "off" => Cause(reason')

\* A step that turns it off for a cause.
LEMMA TurnedOffFor ==
  ASSUME NEW why, TurnOff(why), faults = {} => Cause(why) PROVE ForACause
  <1>1. reason' = why
    BY DEF TurnOff
  <1> QED
    BY <1>1 DEF ForACause

\* Whatever is to be sent to a server that keeps the protocol, there is room.
LEMMA HonestRoom ==
  ASSUME Typing, Conversation, Sending, faults = {}, NEW req PROVE Room(req)
  <1>1. Quiet /\ greeted
    BY DEF Sending, MaySend, Conversation, HasProcess
  <1>2. Len(toServer) = 0 /\ SendCap \in Nat \ {0}
    BY <1>1, ConstantsOK DEF Quiet
  <1> QED
    BY <1>1, <1>2 DEF Room, Listening, Quiet

\* Every step that turns a server off has one.
LEMMA EachForACause ==
  Typing /\ LineInv /\ Conversation /\ [Next]_vars => ForACause
  <1> SUFFICES ASSUME Typing, LineInv, Conversation, [Next]_vars PROVE ForACause
    OBVIOUS
  <1>a. ASSUME state' = state \/ state' # "off" PROVE ForACause
    BY <1>a DEF ForACause
  <1>1. CASE TakeTooMuch
    <2>1. Reading /\ Incomplete /\ TurnOff("too much output")
      BY <1>1 DEF TakeTooMuch
    <2>0. Len(buf) > MostUnread
      BY <1>1 DEF TakeTooMuch
    <2>2. HasProcess
      BY <2>1 DEF Reading, LineInv, HasProcess
    <2>3. faults = {} => Len(buf) <= MostUnread
      BY <2>1, <2>2, HonestUnread
    <2>4. Len(buf) \in Nat /\ MostUnread \in Nat
      BY ConstantsOK DEF Typing, TypeOK
    <2>5. ~(Len(buf) <= MostUnread)
      BY <2>0, <2>4
    <2>7. faults # {}
      BY <2>3, <2>5
    <2> QED
      BY <2>1, <2>7, TurnedOffFor
  <1>2. CASE FirstLineBad
    <2>1. PICK i \in DOMAIN buf : FirstLine(i) /\ buf[i].t # "hello"
      BY <1>2 DEF FirstLineBad
    <2>2. state = "starting" /\ TurnOff("not a mode server")
      BY <1>2 DEF FirstLineBad
    <2>3. faults # {}
      BY <2>1, <2>2, HonestFirstLine
    <2> QED
      BY <2>2, <2>3, TurnedOffFor
  <1>3. CASE ReplyBad
    <2>1. PICK i \in DOMAIN buf : Settles(i) /\ ~WellFormed(i, inFlight.wire.id)
      BY <1>3 DEF ReplyBad
    <2>2. state = "running" /\ inFlight # None /\ TurnOff("bad reply")
      BY <1>3 DEF ReplyBad, Reading
    <2>3. faults # {}
      BY <2>1, <2>2, HonestReply
    <2> QED
      BY <2>2, <2>3, TurnedOffFor
  <1>4. CASE SendInterrupted
    <2>1. Sending /\ TurnOff("request not read")
          /\ \E w \in Wanted : w.req \in Large \/ ~Room(w.req)
      BY <1>4 DEF SendInterrupted
    <2>2. SUFFICES ASSUME faults = {} PROVE Cause("request not read")
      BY <2>1, TurnedOffFor
    <2>3. \A req : Room(req)
      BY <2>1, <2>2, HonestRoom
    <2>4. ~SendTimesOut /\ \E w \in Wanted : w.req \in Large
      BY <2>1, <2>3 DEF SendTimesOut
    <2> QED
      BY <1>4, <2>4 DEF Cause
  <1>5. CASE SendTimesOut
    <2>1. Sending /\ TurnOff("request not read") /\ \E w \in Wanted : ~Room(w.req)
      BY <1>5 DEF SendTimesOut
    <2>2. faults # {}
      BY <2>1, HonestRoom
    <2> QED
      BY <2>1, <2>2, TurnedOffFor
  <1>6. CASE SendFails
    <2>1. PICK why \in {"connection lost", "exited"} :
            TurnOff(why) /\ (IF slot # "socket" THEN why = "connection lost"
                                                ELSE why = "exited" /\ ~alive)
      BY <1>6 DEF SendFails
    <2>2. Cause(why)
      BY <2>1 DEF Cause
    <2> QED
      BY <2>1, <2>2, TurnedOffFor
  <1>7. CASE FillLost \/ FillEnd
    <2>1. PICK why \in {"connection lost", "exited"} :
            TurnOff(why) /\ (IF slot # "socket" THEN why = "connection lost"
                                                ELSE why = "exited" /\ ~alive)
      BY <1>7 DEF FillLost, FillEnd
    <2>2. Cause(why)
      BY <2>1 DEF Cause
    <2> QED
      BY <2>1, <2>2, TurnedOffFor
  <1>8. CASE FirstLineGood
    BY <1>8, <1>a DEF FirstLineGood
  <1>9. CASE \/ TakeIncomplete \/ TakeNone \/ ReplyWhole \/ AllAnswered \/ AwaitReply
             \/ IndentTooLate \/ Send \/ FillSome \/ FillNothing \/ FillTooLate
             \/ WaitReady \/ WaitOver
    <2>1. state' = state
      BY <1>9 DEF TakeIncomplete, TakeNone, ReplyWhole, AllAnswered, AwaitReply, IndentTooLate,
                  Send, FillSome, FillNothing, FillTooLate, WaitReady, WaitOver, server, program
    <2> QED
      BY <1>a, <2>1
  <1>10. CASE (\E same \in BOOLEAN : Define(same)) \/ Remove
    <2>1. state' # "off"
      BY <1>10 DEF Define, Remove, Anew, Discard
    <2> QED
      BY <1>a, <2>1
  <1>11. CASE NewLine \/ TakeNotices \/ ReadWaiting \/ (\E spot \in Spot : Indent(spot))
              \/ ShellTakesDescriptor \/ UNCHANGED vars
    <2>1. state' = state
      BY <1>11 DEF NewLine, TakeNotices, ReadWaiting, Indent, ShellTakesDescriptor,
                   server, program, vars
    <2> QED
      BY <1>a, <2>1
  <1>12. ASSUME NEW asks \in AskLists, NEW spot \in Spot \cup {None}, Draw(asks, spot)
         PROVE  ForACause
    <2>1. CASE Started
      BY <1>a, <2>1 DEF Started
    <2>2. CASE state = "notStarted" /\ TurnOff("cannot start")
      <3>1. Cause("cannot start")
        BY <2>2 DEF Cause
      <3> QED
        BY <2>2, <3>1, TurnedOffFor
    <2>3. CASE UNCHANGED <<server, program>>
      BY <1>a, <2>3 DEF server, program
    <2> QED
      BY <1>12, <2>1, <2>2, <2>3 DEF Draw
  <1>13. CASE Program
    <2>1. HasProcess /\ state' = state
      BY <1>13 DEF Program, ProgramHello, ProgramReads, ProgramSays, ProgramReplies,
                   ProgramExits, ProgramStrays, ProgramStopsReading, OfProgram, Talks, server
    <2> QED
      BY <1>a, <2>1
  <1> QED
    BY <1>1, <1>2, <1>3, <1>4, <1>5, <1>6, <1>7, <1>8, <1>9, <1>10, <1>11, <1>12, <1>13
    DEF Next, Running, Calls

\* A server that keeps the protocol is turned off only where it could not be
\* started, its socket was lost or it exited, or by a C-c while a request longer
\* than the socket holds is written (docs/mode-protocol.md, Process::send).
THEOREM HonestServerStaysOn == Spec => TurnedOffJustly
  <1>1. Typing /\ LineInv /\ Conversation /\ [Next]_vars => (Typing /\ LineInv /\ Conversation)'
    BY StepTyping, LineInvStep, ConversationStep
  <1>2. Init => Typing /\ LineInv /\ Conversation
    BY InitTyping, LineInvInit, ConversationInit
  <1>3. Typing /\ LineInv /\ Conversation /\ [Next]_vars => ForACause
    BY EachForACause
  <1>4. ForACause =>
          (faults = {} /\ state # "off" /\ state' = "off" =>
             \/ reason' = "cannot start" /\ state = "notStarted"
             \/ reason' = "connection lost" /\ slot # "socket"
             \/ reason' = "exited" /\ slot = "socket" /\ ~alive
             \/ /\ reason' = "request not read" /\ SendInterrupted /\ ~SendTimesOut
                /\ \E w \in Wanted : w.req \in Large)
    BY DEF ForACause, Cause
  <1> QED
    BY <1>1, <1>2, <1>3, <1>4, PTL DEF Spec, TurnedOffJustly

-----------------------------------------------------------------------------
(* The descriptor that the shell took. *)

\* Nothing is read, sent or closed through it.
Untouched == Len(buf') <= Len(buf) /\ lastId' <= lastId /\ slot' = slot

\* So it is where a server is discarded.
LEMMA DiscardLeaves ==
  ASSUME Typing, NEW to, Discard(to), slot # "socket" PROVE Untouched
  <1>1. buf' = <<>> /\ lastId' = 0 /\ slot' = slot
    BY DEF Discard, Drop, FreshProcess, FreshRunning
  <1>2. lastId \in Nat /\ Len(buf) \in Nat
    BY DEF Typing, TypeOK
  <1> QED
    BY <1>1, <1>2 DEF Untouched

\* And where a line or a reply is taken from the buffer.
LEMMA DrainLeaves ==
  ASSUME Typing, NEW i \in DOMAIN buf, Drain(i) PROVE Len(buf') <= Len(buf)
  <1>1. buf \in Seq(Token) /\ i \in 1 .. Len(buf)
    BY DEF Typing, TypeOK
  <1> QED
    BY <1>1 DEF Drain

\* So it is by every step of a server whose descriptor was taken.
LEMMA TakenUntouched ==
  ASSUME Typing, [Next]_vars, HasProcess, slot # "socket" PROVE Untouched
  <1>1. lastId \in Nat /\ Len(buf) \in Nat
    BY DEF Typing, TypeOK
  <1>a. ASSUME UNCHANGED <<buf, lastId, slot>> PROVE Untouched
    BY <1>1, <1>a DEF Untouched
  <1>b. ASSUME NEW why, TurnOff(why) PROVE Untouched
    BY <1>b, DiscardLeaves DEF TurnOff
  <1>2. CASE TakeTooMuch \/ FirstLineBad \/ ReplyBad \/ SendInterrupted \/ SendTimesOut
             \/ SendFails \/ FillLost \/ FillEnd
    BY <1>2, <1>b DEF TakeTooMuch, FirstLineBad, ReplyBad, SendInterrupted, SendTimesOut,
                      SendFails, FillLost, FillEnd
  <1>3. CASE FirstLineGood
    <2>1. Len(buf') <= Len(buf)
      BY <1>3, DrainLeaves DEF FirstLineGood
    <2>2. lastId' = 0 /\ slot' = slot
      BY <1>3 DEF FirstLineGood, FreshRunning
    <2> QED
      BY <1>1, <2>1, <2>2 DEF Untouched
  <1>4. CASE ReplyWhole
    <2>1. Len(buf') <= Len(buf)
      BY <1>4, DrainLeaves DEF ReplyWhole
    <2>2. lastId' = lastId /\ slot' = slot
      BY <1>4 DEF ReplyWhole
    <2> QED
      BY <1>1, <2>1, <2>2 DEF Untouched
  <1>5. CASE Send \/ FillSome \/ ShellTakesDescriptor
    BY <1>5 DEF Send, FillSome, ShellTakesDescriptor
  <1>6. CASE \/ TakeIncomplete \/ TakeNone \/ AllAnswered \/ AwaitReply
             \/ IndentTooLate \/ FillNothing \/ FillTooLate \/ WaitReady \/ WaitOver
    BY <1>6, <1>a DEF TakeIncomplete, TakeNone, AllAnswered, AwaitReply, IndentTooLate,
                      FillNothing, FillTooLate, WaitReady, WaitOver, running
  <1>7. CASE (\E same \in BOOLEAN : Define(same)) \/ Remove
    BY <1>7, DiscardLeaves DEF Define, Remove, Anew
  <1>8. CASE NewLine \/ TakeNotices \/ ReadWaiting \/ (\E spot \in Spot : Indent(spot))
             \/ UNCHANGED vars
    BY <1>8, <1>a DEF NewLine, TakeNotices, ReadWaiting, Indent, running, vars
  <1>9. ASSUME NEW asks \in AskLists, NEW spot \in Spot \cup {None}, Draw(asks, spot)
        PROVE  Untouched
    BY <1>9, <1>a DEF Draw, HasProcess
  <1>10. CASE Program
    BY <1>10, <1>a DEF Program, ProgramHello, ProgramReads, ProgramSays, ProgramReplies,
                       ProgramExits, ProgramStrays, ProgramStopsReading, OfProgram, running
  <1> QED
    BY <1>2, <1>3, <1>4, <1>5, <1>6, <1>7, <1>8, <1>9, <1>10 DEF Next, Running, Calls

\* A descriptor the shell took is not read, written or closed by inkline any
\* more, whatever it holds now, and a server that kept the protocol is then
\* turned off as one whose connection was lost, for no other reason
\* (Process::socket, Drop for Process).
THEOREM TakenIsGivenUpAlways == Spec => TakenIsGivenUp
  <1> DEFINE Inv == Typing /\ LineInv /\ Conversation
             GivenUp == HasProcess /\ slot # "socket" =>
                          /\ Len(buf') <= Len(buf) /\ lastId' <= lastId /\ slot' = slot
                          /\ faults = {} /\ state' = "off" => reason' = "connection lost"
  <1>1. Inv /\ [Next]_vars => Inv'
    BY StepTyping, LineInvStep, ConversationStep
  <1>2. Init => Inv
    BY InitTyping, LineInvInit, ConversationInit
  <1>3. Inv /\ [Next]_vars => GivenUp
    <2> SUFFICES ASSUME Inv, [Next]_vars, HasProcess, slot # "socket"
                 PROVE  /\ Untouched
                        /\ faults = {} /\ state' = "off" => reason' = "connection lost"
      BY DEF Untouched
    <2>1. Untouched
      BY TakenUntouched
    <2>2. ForACause
      BY EachForACause
    <2>3. ~SendInterrupted
      BY DEF SendInterrupted
    <2>4. faults = {} /\ state' = "off" => reason' = "connection lost"
      BY <2>2, <2>3 DEF ForACause, Cause, HasProcess
    <2> QED
      BY <2>1, <2>4
  <1> HIDE DEF Inv
  <1> QED
    BY <1>1, <1>2, <1>3, PTL DEF Spec, TakenIsGivenUp
=============================================================================
