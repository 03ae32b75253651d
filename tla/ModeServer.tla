----------------------------- MODULE ModeServer -----------------------------
(***************************************************************************)
(* One command mode: inkline's side of its mode server (one entry of       *)
(* SERVERS in mode_server.rs), the server program, and the socket between  *)
(* them.  inkline has one thread: `call' is the function of mode_server.rs *)
(* it is inside, and the program runs between that function's steps.       *)
(*                                                                         *)
(* Bytes are abstracted to what decides control.  A token of output is     *)
(*   "hello"      a good first line;                                       *)
(*   "data"       output that settles nothing: a `:' line the reply may    *)
(*                hold, or the first bytes of the line the next token ends;*)
(*   "malformed"  a `:' line whose fields do not parse;                    *)
(*   "stray"      a line that does not start with `:';                     *)
(*   "end"        `:end ID', and in `ans' the request it was written for.  *)
(* Time is abstracted to choice: a deadline may pass at any step that      *)
(* looks at it.  `line' counts the lines the prompt has read, and `faults' *)
(* the rules of docs/mode-protocol.md the program has broken; both are     *)
(* history that no decision of inkline reads.                              *)
(***************************************************************************)
EXTENDS Naturals, Sequences, FiniteSets

CONSTANTS
    Requests,    \* what a request holds: a directory and arguments
    Large,       \* the requests longer than the socket can hold
    Places,      \* cursor places: an argument and an offset in it
    AskLists,    \* the commands of this mode that a drawn line may hold
    None,        \* Rust's None
    SendCap,     \* requests the socket holds before a write would block
    MostUnread,  \* MOST_UNREAD, in tokens
    MaxId,       \* bound: requests one process is sent
    MaxLine,     \* bound: lines read at the prompt
    MaxFaults    \* bound: rules of the protocol one process breaks

ASSUME ConstantsOK ==
    /\ Large \subseteq Requests
    /\ AskLists \subseteq Seq(Requests)
    /\ None \notin Requests \cup Places
    /\ SendCap \in Nat \ {0} /\ MostUnread \in Nat
    /\ MaxId \in Nat /\ MaxLine \in Nat /\ MaxFaults \in Nat

VARIABLES
    \* struct Server
    state, reason, notice,
    \* struct Running
    features, lastId, inFlight, kept, keptItems, forgotten, indentAnswer,
    \* struct Process: what its descriptor holds, and its buffer
    slot, buf,
    \* the program, and what is under way in the socket
    alive, offers, greeted, serving, said, toServer, fromServer, faults, broken,
    \* the function that runs, and the depths `indent' returned last
    call, depths,
    \* how many lines the prompt has read
    line

server  == <<state, reason, notice>>
memo    == <<kept, keptItems>>
running == <<features, lastId, inFlight, forgotten, indentAnswer, memo>>
program == <<alive, offers, greeted, serving, said, faults, broken>>
pipes   == <<toServer, fromServer>>
vars    == <<server, running, slot, buf, program, pipes, call, depths, line>>

Extra  == {"indent", "complete"}           \* EXTRA_REQUESTS
Kinds  == {"colors"} \cup Extra            \* enum Asked
Settling  == {"hello", "stray", "end"}     \* protocol.rs: settled
Unsettled == {"data", "malformed"}

\* A request as the program reads it.
Wire == [id : Nat \ {0}, kind : Kinds, req : Requests, at : Places \cup {None}]
\* The request in flight, and the line it was sent for.
Sent == [wire : Wire, line : Nat]
Token == [t : Settling \cup Unsettled, id : Nat, ans : Wire \cup {None}]
Kept == [ans : Wire \cup {None}, line : Nat]
KeptItems == [req : Requests, at : Places, ans : Wire \cup {None}, line : Nat]
Spot == [req : Requests, at : Places]

\* The strings turn_off is given.  "bad reply" is `bad reply: "LINE"'.
Reasons == {"cannot start", "not a mode server", "bad reply", "too much output",
            "request not read", "exited", "connection lost"}

\* A call: what it was given, and how far it is; `own' is the ID of the
\* request ask_indent sent, and `readSome' is advance's read_some.
Frame == [op : {"idle", "replies", "indent", "read_waiting"},
          pc : {"take", "next", "fill", "wait"},
          asks : Seq(Requests), spot : Spot \cup {None},
          own : Nat, readSome : BOOLEAN]
\* What indent returned, and the request it was to answer.
Depths == [own : Nat, ans : Wire \cup {None}]

\* What an Option of these holds is never None.
ASSUME NoneIsNoRecord ==
    /\ None \notin Wire /\ None \notin Sent /\ None \notin Kept
    /\ None \notin KeptItems /\ None \notin Depths

Idle == [op |-> "idle", pc |-> "take", asks |-> <<>>, spot |-> None,
         own |-> 0, readSome |-> FALSE]

NothingKept == [r \in Requests |-> None]
Elements(s) == {s[i] : i \in DOMAIN s}
HasProcess == state \in {"starting", "running"}
InCall(pc) == call.op # "idle" /\ call.pc = pc

-----------------------------------------------------------------------------
(* What becomes of the parts of a server. *)

\* A process nothing has been heard of or said to.
FreshProcess ==
    /\ buf' = <<>> /\ toServer' = <<>> /\ fromServer' = <<>>
    /\ greeted' = FALSE /\ serving' = None /\ said' = 0

\* Running { last_id: 0, in_flight: None, ... }; also: no Running at all.
FreshRunning ==
    /\ lastId' = 0 /\ inFlight' = None /\ forgotten' = 0 /\ indentAnswer' = None
    /\ kept' = NothingKept /\ keptItems' = None

\* Drop for Process: closes the socket, and nothing else that its
\* descriptor has come to hold.
DropClosesAny == slot' = "free"
Drop == slot' = IF slot = "socket" THEN "free" ELSE slot

\* The Server's state becomes `to', and its process is dropped if it had one.
Discard(to) ==
    /\ state' = to
    /\ FreshRunning /\ FreshProcess /\ features' = {}
    /\ IF HasProcess THEN Drop ELSE UNCHANGED slot

\* turn_off, and the return of the function that called it.
TurnOff(why) ==
    /\ Discard("off")
    /\ reason' = why /\ notice' = TRUE
    /\ call' = Idle /\ depths' = None
    /\ UNCHANGED <<alive, offers, faults, broken, line>>

Return(answer) == call' = Idle /\ depths' = answer
Continue(pc) == call' = [call EXCEPT !.pc = pc] /\ UNCHANGED depths

-----------------------------------------------------------------------------
(* Calls that do their work at once. *)

\* A server with no past: Server::new, or none at all.
Anew(to) ==
    /\ Discard(to)
    /\ reason' = None /\ notice' = FALSE
    /\ alive' = FALSE /\ offers' = {} /\ faults' = {} /\ broken' = 0

\* define with a program.  The same program again keeps a server that is
\* not off: only the mode's colours change, which is no step here.
Define(same) ==
    /\ call = Idle
    /\ ~(same /\ state \notin {"undefined", "off"})
    /\ Anew("notStarted")
    /\ UNCHANGED <<call, depths, line>>

\* define without a program, or stop_all.
Remove ==
    /\ call = Idle /\ state # "undefined"
    /\ Anew("undefined")
    /\ UNCHANGED <<call, depths, line>>

\* forget_replies, which a new line at the prompt calls.
ForgetReplies == kept' = NothingKept /\ keptItems' = None /\ forgotten' = lastId
NewLine ==
    /\ call = Idle /\ line < MaxLine
    /\ line' = line + 1
    /\ IF state = "running" THEN ForgetReplies ELSE UNCHANGED <<memo, forgotten>>
    /\ UNCHANGED <<server, features, lastId, inFlight, indentAnswer, slot, buf,
                   program, pipes, call, depths>>

\* take_notices.
TakeNotices ==
    /\ call = Idle /\ notice
    /\ notice' = FALSE
    /\ UNCHANGED <<state, reason, running, slot, buf, program, pipes, call, depths, line>>

-----------------------------------------------------------------------------
(* The start of a call that may wait. *)

Call(op, asks, spot) ==
    /\ call' = [Idle EXCEPT !.op = op, !.asks = asks, !.spot = spot]
    /\ depths' = None

\* process::start in Server::prepare: the program runs on a new descriptor.
Started ==
    /\ state' = "starting" /\ alive' = TRUE /\ slot' = "socket"
    /\ FreshProcess
    /\ \E words \in SUBSET Extra : offers' = words
    /\ faults' = {} /\ broken' = 0
    /\ UNCHANGED <<reason, notice, line>>

Retained(asks) == [r \in Requests |-> IF r \in Elements(asks) THEN kept[r] ELSE None]
Unanswered(asks) == {r \in Elements(asks) : kept[r] = None}

\* ask_mode_servers, prepare and the start of replies: a redraw of a line
\* with the commands `asks' of this mode, and perhaps a place to complete at.
\* A line with other modes' commands only drops what is kept.
Draw(asks, spot) ==
    /\ call = Idle
    /\ spot # None => spot.req \in Elements(asks)
    /\ lastId + Cardinality(Unanswered(asks)) + 1 <= MaxId
    /\ \/ /\ state = "notStarted" /\ asks # <<>>
          /\ Started /\ Call("replies", asks, spot)
          /\ UNCHANGED running
       \/ /\ state = "notStarted" /\ asks # <<>>
          /\ TurnOff("cannot start")
       \/ /\ HasProcess
          /\ kept' = IF state = "running" THEN Retained(asks) ELSE kept
          /\ IF asks # <<>> THEN Call("replies", asks, spot) ELSE UNCHANGED <<call, depths>>
          /\ UNCHANGED <<server, features, lastId, inFlight, keptItems, forgotten,
                         indentAnswer, slot, buf, program, pipes, line>>

\* indent, for a server that may have named it.
Indent(spot) ==
    /\ call = Idle /\ lastId < MaxId
    /\ state = "starting" \/ (state = "running" /\ "indent" \in features)
    /\ Call("indent", <<>>, spot)
    /\ UNCHANGED <<server, running, slot, buf, program, pipes, line>>

\* waiting_fds, and the call of read_waiting when one of them is ready.
OwesFirstLine == state = "starting"
Owes == state = "starting" \/ inFlight # None
ReadWaiting ==
    /\ call = Idle /\ Owes
    /\ Call("read_waiting", <<>>, None)
    /\ UNCHANGED <<server, running, slot, buf, program, pipes, line>>

-----------------------------------------------------------------------------
(* Reading what is in the buffer: read_version and take_reply. *)

\* The first line in the buffer ends with its i-th token.
FirstLine(i) == buf[i].t # "data" /\ \A j \in 1 .. i - 1 : buf[j].t = "data"
\* protocol.rs, settled: the i-th token is the line that settles the reply.
Settles(i) == buf[i].t \in Settling /\ \A j \in 1 .. i - 1 : buf[j].t \in Unsettled
\* reply, indent_reply and items_reply, of the lines up to that one.
WellFormed(i, id) ==
    /\ buf[i].t = "end" /\ buf[i].id = id
    /\ \A j \in 1 .. i - 1 : buf[j].t # "malformed"
Incomplete ==
    IF state = "starting" THEN \A i \in DOMAIN buf : ~FirstLine(i)
                          ELSE \A i \in DOMAIN buf : ~Settles(i)
Drain(i) == buf' = SubSeq(buf, i + 1, Len(buf))
Reading == InCall("take") /\ (state = "starting" \/ inFlight # None)

\* check_unread
TakeTooMuchUnparsed == Reading /\ Len(buf) > MostUnread /\ TurnOff("too much output")
TakeTooMuch ==
    /\ Reading /\ Incomplete /\ Len(buf) > MostUnread
    /\ TurnOff("too much output")

\* The buffer ends before what is read does: read_version and read_reply
\* fill it; advance and ask_indent look at what they want first.
AfterTakeEmpty ==
    Continue(IF state = "running" /\ call.op \in {"replies", "indent"} THEN "next" ELSE "fill")
TakeIncomplete ==
    /\ Reading /\ Incomplete /\ Len(buf) <= MostUnread
    /\ AfterTakeEmpty
    /\ UNCHANGED <<server, running, slot, buf, program, pipes, line>>

\* take_reply with no request in flight.
TakeNone ==
    /\ InCall("take") /\ state = "running" /\ inFlight = None
    /\ AfterTakeEmpty
    /\ UNCHANGED <<server, running, slot, buf, program, pipes, line>>

FirstLineBad ==
    /\ InCall("take") /\ state = "starting"
    /\ \E i \in DOMAIN buf : FirstLine(i) /\ buf[i].t # "hello"
    /\ TurnOff("not a mode server")

\* read_first_line with a good first line: the server runs, and the caller
\* goes on to its replies, but for read_waiting and an indent not named.
FirstLineGood ==
    /\ InCall("take") /\ state = "starting"
    /\ \E i \in DOMAIN buf : FirstLine(i) /\ buf[i].t = "hello" /\ Drain(i)
    /\ state' = "running" /\ features' = offers
    /\ FreshRunning
    /\ IF call.op = "replies" \/ (call.op = "indent" /\ "indent" \in offers)
         THEN Continue("take")
         ELSE Return(None)
    /\ UNCHANGED <<reason, notice, slot, program, pipes, line>>

ReplyBad ==
    /\ Reading /\ state = "running"
    /\ \E i \in DOMAIN buf : Settles(i) /\ ~WellFormed(i, inFlight.wire.id)
    /\ TurnOff("bad reply")

\* Running::keep and kept_items, for a reply that is not forgotten.
KeepAs(kind, req, ans) ==
    LET w == inFlight.wire IN
    /\ kept' = IF kind = "colors"
                 THEN [kept EXCEPT ![req] = [ans |-> ans, line |-> inFlight.line]]
                 ELSE kept
    /\ keptItems' = IF kind = "complete"
                      THEN [req |-> req, at |-> w.at, ans |-> ans, line |-> inFlight.line]
                      ELSE keptItems
KeepAlways(ans) == KeepAs(inFlight.wire.kind, inFlight.wire.req, ans)
KeepForFirstAsk(ans) ==
    KeepAs(inFlight.wire.kind, IF call.asks # <<>> THEN Head(call.asks) ELSE inFlight.wire.req, ans)
Keep(ans) == IF inFlight.wire.id > forgotten THEN KeepAlways(ans) ELSE UNCHANGED memo

\* The depths of an indent reply, None for `:end' alone.
NoteDepthsIfAny(ans) ==
    IF inFlight.wire.kind = "indent" /\ ans # None THEN ans ELSE indentAnswer
NoteDepths(ans) == IF inFlight.wire.kind = "indent" THEN ans ELSE indentAnswer

\* take_reply with a whole reply.  advance looks for what to ask next, a
\* read_waiting has what it came for; ask_indent returns the depths if the
\* reply is to its own request, and else goes on to send that.
ReplyWhole ==
    /\ Reading /\ state = "running"
    /\ \E i \in DOMAIN buf :
         /\ Settles(i) /\ WellFormed(i, inFlight.wire.id)
         /\ Drain(i)
         /\ inFlight' = None
         /\ Keep(buf[i].ans)
         /\ LET answer == NoteDepths(buf[i].ans) IN
            IF call.op = "indent" /\ call.own # 0
              THEN Return([own |-> call.own, ans |-> answer]) /\ indentAnswer' = None
              ELSE /\ indentAnswer' = answer
                   /\ IF call.op = "read_waiting" THEN Return(None) ELSE Continue("next")
    /\ UNCHANGED <<server, features, lastId, forgotten, slot, program, pipes, line>>

-----------------------------------------------------------------------------
(* What to ask next, and sending it. *)

Named(kind) == kind = "colors" \/ kind \in features
HasItems(spot) == keptItems # None /\ keptItems.req = spot.req /\ keptItems.at = spot.at

\* Running::advance: what is unanswered, the colours in order before the items.
WantsItemsUnnamed == call.spot # None /\ ~HasItems(call.spot)
WantsItems == call.spot # None /\ Named("complete") /\ ~HasItems(call.spot)
Colours(i) == /\ kept[call.asks[i]] = None
              /\ \A j \in 1 .. i - 1 : kept[call.asks[j]] # None
Wanted ==
    IF call.op = "indent"
      THEN {[kind |-> "indent", req |-> call.spot.req, at |-> call.spot.at]}
      ELSE IF Unanswered(call.asks) # {}
        THEN {[kind |-> "colors", req |-> call.asks[i], at |-> None] :
                i \in {j \in DOMAIN call.asks : Colours(j)}}
        ELSE IF WantsItems
          THEN {[kind |-> "complete", req |-> call.spot.req, at |-> call.spot.at]}
          ELSE {}

AllAnswered ==
    /\ InCall("next") /\ Wanted = {}
    /\ Return(None)
    /\ UNCHANGED <<server, running, slot, buf, program, pipes, line>>

\* One request at a time.
MaySend == inFlight = None

AwaitReply ==
    /\ InCall("next") /\ Wanted # {} /\ inFlight # None
    /\ Continue("fill")
    /\ UNCHANGED <<server, running, slot, buf, program, pipes, line>>

\* ask_indent sends nothing once its wait is over or after a C-c.
IndentTooLate ==
    /\ InCall("next") /\ call.op = "indent" /\ inFlight = None
    /\ Return(None)
    /\ UNCHANGED <<server, running, slot, buf, program, pipes, line>>

Sending == InCall("next") /\ state = "running" /\ Wanted # {} /\ MaySend
\* Process::send: the socket takes all of a request at once, or the program
\* reads while the rest of a large one is written.
Listening == greeted /\ serving = None /\ toServer = <<>> /\ "input" \notin faults
Room(req) == IF req \in Large THEN Listening ELSE Len(toServer) < SendCap

Send ==
    /\ Sending /\ slot = "socket" /\ alive
    /\ \E w \in Wanted :
         LET wire == [id |-> lastId + 1, kind |-> w.kind, req |-> w.req, at |-> w.at] IN
         /\ Room(w.req)
         /\ toServer' = Append(toServer, wire)
         /\ lastId' = wire.id
         /\ inFlight' = [wire |-> wire, line |-> line]
         /\ call' = IF call.op = "indent"
                      THEN [call EXCEPT !.pc = "take", !.own = wire.id]
                      ELSE [call EXCEPT !.pc = "fill"]
    /\ UNCHANGED <<server, features, memo, forgotten, indentAnswer, slot, buf,
                   program, fromServer, depths, line>>

\* A C-c while some of the request is not written (`interrupted').
SendInterrupted ==
    /\ Sending /\ slot = "socket" /\ alive
    /\ \E w \in Wanted : w.req \in Large \/ ~Room(w.req)
    /\ TurnOff("request not read")

\* SEND_WAIT over, and no room yet.
SendTimesOutReading ==
    /\ Sending /\ slot = "socket" /\ alive
    /\ \E w \in Wanted : w.req \in Large \/ ~Room(w.req)
    /\ TurnOff("request not read")
SendTimesOut ==
    /\ Sending /\ slot = "socket" /\ alive
    /\ \E w \in Wanted : ~Room(w.req)
    /\ TurnOff("request not read")

SendFails ==
    /\ Sending
    /\ slot # "socket" \/ ~alive
    /\ TurnOff(IF slot # "socket" THEN "connection lost" ELSE "exited")

-----------------------------------------------------------------------------
(* Process::fill, and the wait of replies. *)

Filling == InCall("fill")

FillLost ==
    /\ Filling /\ slot # "socket"
    /\ TurnOff("connection lost")

\* The end of the output, once all before it is in the buffer.
FillEnd ==
    /\ Filling /\ slot = "socket" /\ fromServer = <<>> /\ ~alive
    /\ TurnOff("exited")

FillSomeUnchecked ==
    /\ Filling
    /\ \E n \in 1 .. Len(fromServer) :
         /\ buf' = buf \o SubSeq(fromServer, 1, n)
         /\ fromServer' = SubSeq(fromServer, n + 1, Len(fromServer))
    /\ call' = [call EXCEPT !.pc = "take", !.readSome = TRUE]
    /\ UNCHANGED <<server, running, slot, program, toServer, depths, line>>
FillSome ==
    /\ Filling /\ slot = "socket"
    /\ \E n \in 1 .. Len(fromServer) :
         /\ buf' = buf \o SubSeq(fromServer, 1, n)
         /\ fromServer' = SubSeq(fromServer, n + 1, Len(fromServer))
    /\ call' = [call EXCEPT !.pc = "take", !.readSome = TRUE]
    /\ UNCHANGED <<server, running, slot, program, toServer, depths, line>>

\* Nothing to read yet: replies waits, read_waiting returns, and so does
\* indent when the first line is not there.
FillNothing ==
    /\ Filling /\ slot = "socket" /\ fromServer = <<>> /\ alive
    /\ \/ call.op = "replies" /\ Continue("wait")
       \/ call.op = "read_waiting" /\ Return(None)
       \/ call.op = "indent" /\ state = "starting" /\ Return(None)
    /\ UNCHANGED <<server, running, slot, buf, program, pipes, line>>

\* advance when its deadline passes while the program keeps writing, and
\* wait_more at its deadline or a C-c.
FillTooLateForRedraw ==
    /\ Filling /\ state = "running" /\ call.op = "replies" /\ call.readSome
    /\ Return(None)
    /\ UNCHANGED <<server, running, slot, buf, program, pipes, line>>
FillTooLate ==
    /\ Filling /\ state = "running"
    /\ (call.op = "replies" /\ call.readSome) \/ call.op = "indent"
    /\ Return(None)
    /\ UNCHANGED <<server, running, slot, buf, program, pipes, line>>

WaitReady ==
    /\ InCall("wait")
    /\ fromServer # <<>> \/ ~alive
    /\ call' = [call EXCEPT !.pc = "take", !.readSome = FALSE]
    /\ UNCHANGED <<server, running, slot, buf, program, pipes, depths, line>>

\* The deadline, or a signal.
WaitOver ==
    /\ InCall("wait")
    /\ Return(None)
    /\ UNCHANGED <<server, running, slot, buf, program, pipes, line>>

-----------------------------------------------------------------------------
(* The shell and the program. *)

\* A command closes inkline's descriptor (`exec N>&-'), and may open a file
\* of its own there.
ShellTakesDescriptor ==
    /\ call = Idle /\ HasProcess
    /\ \E to \in {"free", "shell"} : slot' = to
    /\ slot = "socket"
    /\ UNCHANGED <<server, running, buf, program, pipes, call, depths, line>>

\* A program that follows docs/mode-protocol.md: its first line, then one
\* reply to each request it reads.  It may stop at any time.
Talks == HasProcess /\ alive
Write(token) == fromServer' = Append(fromServer, token)
OfProgram == UNCHANGED <<server, running, slot, buf, offers, call, depths, line>>

ProgramHello ==
    /\ Talks /\ ~greeted
    /\ greeted' = TRUE /\ said' = 0
    /\ Write([t |-> "hello", id |-> 0, ans |-> None])
    /\ OfProgram /\ UNCHANGED <<alive, serving, toServer, faults, broken>>

ProgramReads ==
    /\ Talks /\ greeted /\ serving = None /\ toServer # <<>> /\ "input" \notin faults
    /\ serving' = Head(toServer) /\ toServer' = Tail(toServer)
    /\ OfProgram /\ UNCHANGED <<alive, greeted, said, fromServer, faults, broken>>

\* Part of what it writes, no more than MOST_UNREAD of it before the end.
ProgramSays ==
    /\ Talks /\ (~greeted \/ serving # None) /\ said < MostUnread
    /\ said' = said + 1
    /\ Write([t |-> "data", id |-> 0, ans |-> None])
    /\ OfProgram /\ UNCHANGED <<alive, greeted, serving, toServer, faults, broken>>

\* An indent reply may hold no depths.
ProgramReplies ==
    /\ Talks /\ serving # None
    /\ \E ans \in {serving} \cup (IF serving.kind = "indent" THEN {None} ELSE {}) :
         Write([t |-> "end", id |-> serving.id, ans |-> ans])
    /\ serving' = None /\ said' = 0
    /\ OfProgram /\ UNCHANGED <<alive, greeted, toServer, faults, broken>>

ProgramExits ==
    /\ Talks
    /\ alive' = FALSE
    /\ OfProgram /\ UNCHANGED <<greeted, serving, said, pipes, faults, broken>>

\* A program that does not: output out of place, or requests left unread.
ProgramStrays ==
    /\ Talks /\ broken < MaxFaults
    /\ broken' = broken + 1 /\ faults' = faults \cup {"output"}
    /\ \E t \in Settling \cup Unsettled, id \in 0 .. lastId + 1 :
         /\ id # 0 <=> t = "end"
         /\ Write([t |-> t, id |-> id, ans |-> None])
    /\ OfProgram /\ UNCHANGED <<alive, greeted, serving, said, toServer>>

ProgramStopsReading ==
    /\ Talks /\ broken < MaxFaults
    /\ broken' = broken + 1 /\ faults' = faults \cup {"input"}
    /\ OfProgram /\ UNCHANGED <<alive, greeted, serving, said, pipes>>

-----------------------------------------------------------------------------
Init ==
    /\ state = "undefined" /\ reason = None /\ notice = FALSE
    /\ features = {} /\ lastId = 0 /\ inFlight = None
    /\ kept = NothingKept /\ keptItems = None /\ forgotten = 0 /\ indentAnswer = None
    /\ slot = "free" /\ buf = <<>>
    /\ alive = FALSE /\ offers = {} /\ greeted = FALSE /\ serving = None /\ said = 0
    /\ toServer = <<>> /\ fromServer = <<>> /\ faults = {} /\ broken = 0
    /\ call = Idle /\ depths = None /\ line = 0

\* A function of mode_server.rs on its way to its return.
Running ==
    \/ TakeTooMuch \/ TakeIncomplete \/ TakeNone
    \/ FirstLineBad \/ FirstLineGood \/ ReplyBad \/ ReplyWhole
    \/ AllAnswered \/ AwaitReply \/ IndentTooLate
    \/ Send \/ SendInterrupted \/ SendTimesOut \/ SendFails
    \/ FillLost \/ FillEnd \/ FillSome \/ FillNothing \/ FillTooLate
    \/ WaitReady \/ WaitOver

Calls ==
    \/ \E same \in BOOLEAN : Define(same)
    \/ Remove \/ NewLine \/ TakeNotices \/ ReadWaiting
    \/ \E asks \in AskLists, spot \in Spot \cup {None} : Draw(asks, spot)
    \/ \E spot \in Spot : Indent(spot)

Program ==
    \/ ProgramHello \/ ProgramReads \/ ProgramSays \/ ProgramReplies
    \/ ProgramExits \/ ProgramStrays \/ ProgramStopsReading

Next == Running \/ Calls \/ ShellTakesDescriptor \/ Program

Spec == Init /\ [][Next]_vars

\* A call runs on by itself; the program is given the processor, and while
\* it keeps the protocol it says hello, reads and replies.  Each wait for a
\* key polls the sockets that owe something: only a key that is already
\* there goes first, and the user pauses again and again.  A descriptor that is
\* closed is ready at once; a file of the shell's there may never be.
Readable == slot = "free" \/ (slot = "socket" /\ (fromServer # <<>> \/ ~alive))
CallFairness == WF_vars(Running)
ProgramFairness == WF_vars(ProgramHello) /\ WF_vars(ProgramReads) /\ WF_vars(ProgramReplies)
KeyLoopFairness == SF_vars(Readable /\ ReadWaiting)
LiveSpec == Spec /\ CallFairness /\ ProgramFairness /\ KeyLoopFairness

-----------------------------------------------------------------------------
(* Properties. *)

\* Every variable of the server, the program and the call has its type.
TypeOK ==
    /\ state \in {"undefined", "notStarted", "starting", "running", "off"}
    /\ reason \in Reasons \cup {None} /\ notice \in BOOLEAN
    /\ features \subseteq Extra /\ lastId \in Nat /\ forgotten \in Nat
    /\ inFlight \in Sent \cup {None}
    /\ kept \in [Requests -> Kept \cup {None}] /\ keptItems \in KeptItems \cup {None}
    /\ indentAnswer \in Wire \cup {None}
    /\ slot \in {"free", "socket", "shell"} /\ buf \in Seq(Token)
    /\ alive \in BOOLEAN /\ offers \subseteq Extra /\ greeted \in BOOLEAN
    /\ serving \in Wire \cup {None} /\ said \in Nat
    /\ toServer \in Seq(Wire) /\ fromServer \in Seq(Token)
    /\ faults \subseteq {"output", "input"} /\ broken \in Nat
    /\ call \in Frame /\ depths \in Depths \cup {None}
    /\ line \in Nat

\* What is kept answers a request sent since the prompt began this line, so
\* a file changed by the last command is never shown as it was before: also
\* when the reply to a request of the last line comes late, whatever the
\* program writes (forget_replies, take_reply).
KeptFromThisLine ==
    /\ \A r \in Requests : kept[r] # None => kept[r].line = line
    /\ keptItems # None => keptItems.line = line

\* A program that keeps the protocol has its replies kept as the answers to
\* the requests it made them for: none is taken for another's, however
\* requests of the three kinds follow each other and calls give up waiting.
KeptAnswersItsRequest ==
    faults = {} =>
        /\ \A r \in Requests : kept[r] # None =>
              kept[r].ans # None /\ kept[r].ans.kind = "colors" /\ kept[r].ans.req = r
        /\ keptItems # None =>
              /\ keptItems.ans # None /\ keptItems.ans.kind = "complete"
              /\ keptItems.ans.req = keptItems.req /\ keptItems.ans.at = keptItems.at

\* A server that keeps the protocol is turned off only because it could not be
\* started, its socket was lost or it exited, or by a C-c, and not the deadline,
\* while a request longer than the socket holds is written to it: never for
\* what it wrote, late or early, nor as one that let a second pass unreading.
TurnedOffJustly ==
    [][faults = {} /\ state # "off" /\ state' = "off" =>
         \/ reason' = "cannot start" /\ state = "notStarted"
         \/ reason' = "connection lost" /\ slot # "socket"
         \/ reason' = "exited" /\ slot = "socket" /\ ~alive
         \/ /\ reason' = "request not read" /\ SendInterrupted /\ ~SendTimesOut
            /\ \E w \in Wanted : w.req \in Large]_vars

\* "the server stopped reading its input, and a request could not be written
\* within a second" (docs/mode-protocol.md): it broke a rule if that is said.
HonestServerNotAccused == state = "off" /\ reason = "request not read" => faults # {}

Ends(s) == {i \in DOMAIN s : s[i].t = "end"}
Busy == (IF serving = None THEN 0 ELSE 1) + Len(toServer)

\* "A server never has more than one request to answer at a time"
\* (docs/mode-protocol.md), and inkline counts it as in flight.
OneRequestAtATime ==
    faults = {} /\ HasProcess =>
        Busy + Cardinality(Ends(fromServer)) + Cardinality(Ends(buf))
          = (IF inFlight = None THEN 0 ELSE 1)

\* A server is sent only the kinds of request its first line named.
OnlyNamedRequests ==
    \A i \in DOMAIN toServer : toServer[i].kind = "colors" \/ toServer[i].kind \in features

\* The depths a new line gets answer the request that line sent, not one a
\* call before gave up waiting for (ask_indent, indent_answer).
DepthsAreOwn ==
    faults = {} /\ depths # None /\ depths.ans # None =>
        depths.ans.id = depths.own /\ depths.ans.kind = "indent"

HasWhole == inFlight # None /\ \E i \in DOMAIN buf : Settles(i)

\* replies never waits on the socket with a whole reply in the buffer (the
\* comment on Running::advance), as far as the program keeps the protocol.
NoWholeReplyWaits == faults = {} => ~(InCall("wait") /\ HasWhole)

\* What inkline owes a server that keeps the protocol, over calls that give up
\* and requests of three kinds: one request at a time, of a kind it named, and
\* no wait for more once the reply is there.
ProtocolKept == OneRequestAtATime /\ OnlyNamedRequests /\ NoWholeReplyWaits

\* Every answer that is used is that to the request it is used for, whether it
\* was kept (KeptAnswersItsRequest) or indents a new line (DepthsAreOwn).
AnswersAreOwn == KeptAnswersItsRequest /\ DepthsAreOwn

\* The descriptor the shell took is no longer inkline's, between whichever two
\* calls it was taken.  Whatever it holds now, a file of the shell's or the
\* socket of a server started since, inkline neither reads, nor writes, nor
\* closes it; and a server that kept the protocol is then turned off for that
\* alone, also one that exits as its socket closes (Process::socket, Drop).
TakenIsGivenUp ==
    [][HasProcess /\ slot # "socket" =>
         /\ Len(buf') <= Len(buf) /\ lastId' <= lastId /\ slot' = slot
         /\ faults = {} /\ state' = "off" => reason' = "connection lost"]_vars

\* Every call returns, whatever the program writes or does not: each has a
\* deadline (WAIT, INDENT_WAIT, SEND_WAIT) or does not wait.
CallsReturn == call # Idle ~> call = Idle

\* The reply to a request in flight is taken though no key is pressed and no
\* call waits for it any more: the key loop waits on waiting_fds.  Not so where
\* the shell opened a file on the descriptor, which is polled in its place.
EveryRequestResolved ==
    faults = {} /\ inFlight # None ~> inFlight = None \/ faults # {} \/ slot = "shell"
=============================================================================
