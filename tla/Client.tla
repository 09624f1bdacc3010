------------------------------- MODULE Client -------------------------------
(***************************************************************************)
(* The test client (src/client/main.cpp): login, then one of its           *)
(* scenarios, against a server that sends whole frames, but not always     *)
(* those it is asked for: it may drop a reply, it may send frames that     *)
(* nobody asked for, and it may close at any moment.                       *)
(*                                                                         *)
(*   "echo"     m2 and m3: all frames in one send, exactly as many replies *)
(*   "single"   m1 and m4: one frame, one reply, whatever comes behind it  *)
(*   "refused"  m5 and m6: bytes for which the server closes               *)
(*   "login"    m7: the login alone                                        *)
(*   "receiver" m8, "stalled" m9: hold the connection, reading or not      *)
(*   "sender"   m10: non-blocking, frame by frame, reading in between      *)
(*                                                                         *)
(* Towards the client the stream is modelled in bytes, since drain_frames  *)
(* trusts whatever stands where it expects a header; towards the server    *)
(* only the number of bytes matters.  The server is environment.           *)
(***************************************************************************)
EXTENDS Integers, SequencesExt

CONSTANTS
    Byte,           \* byte values
    WireSize,       \* FrameHeader::wire_size
    BodyLen(_),     \* the body_len of a header
    StatusOk(_),    \* the status of a header is ok
    Chunk,          \* what one recv() takes at most (4096)
    MaxAcc,         \* kMaxAccBytes
    LoginResult,    \* what the server may answer to the login
    Reply,          \* the frames the server sends afterwards
    Modes,          \* scenarios
    Count,          \* frames the client sends
    ReqLen,         \* bytes of one of them
    UpCap,          \* bytes under way to the server that the kernel holds
    MaxForwards,    \* bound: frames the client has not asked for
    Quiet,          \* nobody writes to the client until it has its login result
    InOnePiece      \* one recv() returns all that has arrived of the login result

ASSUME SizesAssumption ==
    /\ {WireSize, Chunk, MaxAcc, Count, ReqLen, UpCap} \subseteq Nat \ {0}
    /\ MaxForwards \in Nat /\ {Quiet, InOnePiece} \subseteq BOOLEAN
    /\ Modes \subseteq {"echo", "single", "refused", "login", "receiver", "stalled", "sender"}
ASSUME FramesAssumption ==
    /\ \A h \in [1..WireSize -> Byte] : BodyLen(h) \in Nat
    /\ LoginResult \cup Reply \subseteq Seq(Byte) /\ Reply # {}
    /\ \A f \in LoginResult \cup Reply :
          /\ Len(f) >= WireSize
          /\ Len(f) = WireSize + BodyLen(SubSeq(f, 1, WireSize))
    (* The result echoes the client's own login, a few dozen bytes. *)
    /\ \A f \in LoginResult : Len(f) <= Chunk
    (* The limit leaves room for part of a frame and one chunk: 65535 and  *)
    (* 4096 bytes of 1 MiB (main.cpp:69-72).                               *)
    /\ \A f \in Reply : Len(f) - 1 + Chunk <= MaxAcc

VARIABLES
    mode,       \* the scenario
    pc,         \* "login", "send", "pump", "recv", "expect", "hold" or "done"
    acc,        \* acc: received and not parsed
    count,      \* count, in_count: complete frames received
    off,        \* bytes sent, all frames together
    result,     \* the verdict, once "done"; "overflow" is a fail by kMaxAccBytes
    down, up,   \* environment: the bytes under way, and their number
    srv,        \* environment: the server's side, "login", "open" or "closed"
    answer,     \* history: what the server answered to the login
    sent,       \* history: how many frames the server sent after that
    missed,     \* history: those of them not received completely
    forwards    \* bound: frames the server may still send unasked

env == <<down, up, srv, answer, sent, missed, forwards>>
vars == <<mode, pc, acc, count, off, result, env>>

(* m5 and m6 make one send, which ends the connection. *)
Frames == IF mode \in {"single", "refused"} THEN 1 ELSE Count

Total == Frames * ReqLen

(* m1 to m6 log in as a fixed user and take the answer for granted. *)
LooksAtStatus == mode \notin {"echo", "single", "refused"}

-----------------------------------------------------------------------------
(* Receiving *)

Header(b) == SubSeq(b, 1, WireSize)
FrameLen(b) == WireSize + BodyLen(Header(b))
Complete(b) == Len(b) >= WireSize /\ Len(b) >= FrameLen(b)
Behind(b) == SubSeq(b, FrameLen(b) + 1, Len(b))

(* Seeded fault: one frame at a time. *)
drain_one[b \in Seq(Byte)] ==
    IF Complete(b) THEN [n |-> 1, rest |-> Behind(b)] ELSE [n |-> 0, rest |-> b]
DrainOne(b) == drain_one[b]

(* Seeded fault: what is left when no frame is complete is thrown away. *)
DrainDropsRest(b) == [n |-> IF Complete(b) THEN 1 ELSE 0, rest |-> <<>>]

drained[b \in Seq(Byte)] ==
    IF Complete(b)
    THEN LET d == drained[Behind(b)] IN [n |-> d.n + 1, rest |-> d.rest]
    ELSE [n |-> 0, rest |-> b]

(* drain_frames(): the complete frames, and what is left. *)
drain_frames(b) == drained[b]

(* recv() and drain_frames(): n bytes more. *)
Receive(n) ==
    LET d == drain_frames(acc \o SubSeq(down, 1, n))
    IN  /\ acc' = d.rest
        /\ count' = count + d.n
        /\ missed' = SubSeq(missed, d.n + 1, Len(missed))
        /\ down' = SubSeq(down, n + 1, Len(down))

RecvSizes == 1..Min({Chunk, Len(down)})

Eof == down = <<>> /\ srv = "closed"

Finish(r) == pc' = "done" /\ result' = r

-----------------------------------------------------------------------------
(* pre_login() and login_as(), and m7 *)

(* What the one recv() returns. *)
AnswerSizes == IF InOnePiece THEN {Min({Chunk, Len(down)})} ELSE RecvSizes

(* A header must be in it, and all of it is dropped. *)
TakeAnswer(n) ==
    /\ pc = "login" /\ down # <<>>
    /\ down' = SubSeq(down, n + 1, Len(down))
    /\ UNCHANGED <<mode, acc, count, off, up, srv, answer, sent, missed, forwards>>

PreLogin ==
    /\ mode # "login"
    /\ \E n \in AnswerSizes :
          /\ TakeAnswer(n)
          /\ IF n < WireSize \/ (LooksAtStatus /\ ~ StatusOk(Header(down)))
             THEN Finish("fail")
             ELSE /\ pc' = IF mode \in {"receiver", "stalled"} THEN "hold" ELSE "send"
                  /\ UNCHANGED result

(* m7 stops here.  The opcode, which it looks at too, is a response's. *)
LoginOnly ==
    /\ mode = "login"
    /\ \E n \in AnswerSizes :
          /\ TakeAnswer(n)
          /\ Finish(IF n >= WireSize /\ StatusOk(Header(down)) THEN "pass" ELSE "fail")

(* The end of the stream, a timeout or an error instead. *)
PreLoginFails ==
    /\ pc = "login" /\ down = <<>>
    /\ Finish("fail")
    /\ UNCHANGED <<mode, acc, count, off, env>>

-----------------------------------------------------------------------------
(* Sending *)

(* The kernel takes n bytes; it may do so after the server has closed. *)
Sent(n) ==
    /\ off' = off + n /\ up' = up + n
    /\ UNCHANGED <<mode, acc, count, result, down, srv, answer, sent, missed, forwards>>

(* send_all(): blocking, all the frames as one. *)
SendAll ==
    /\ pc = "send" /\ mode # "sender"
    /\ \E n \in 1..Min({UpCap - up, Total - off}) : Sent(n)
    /\ pc' = IF off' < Total THEN "send"
             ELSE IF mode = "refused" THEN "expect" ELSE "recv"

(* Where the frame that run_sender() is sending ends. *)
SendEnd == (off \div ReqLen + 1) * ReqLen

(* run_sender(): a frame at a time, reading behind each. *)
SendSome ==
    /\ pc = "send" /\ mode = "sender"
    /\ \E n \in 1..Min({UpCap - up, SendEnd - off}) : Sent(n)
    /\ pc' = IF off' % ReqLen = 0 THEN "pump" ELSE "send"

(* Seeded fault: every error is taken for EAGAIN. *)
SendRetries == FALSE /\ UNCHANGED vars

SendFails ==
    /\ pc = "send" /\ srv = "closed"
    /\ Finish("fail")
    /\ UNCHANGED <<mode, acc, count, off, env>>

(* EAGAIN in run_sender(): first read what has come. *)
SendBlocked ==
    /\ pc = "send" /\ mode = "sender"
    /\ up = UpCap
    /\ pc' = "pump"
    /\ UNCHANGED <<mode, acc, count, off, result, env>>

-----------------------------------------------------------------------------
(* pump_inbound() *)

(* The limit is looked at once the complete frames are taken out. *)
PumpSome ==
    /\ pc = "pump"
    /\ \E n \in RecvSizes : Receive(n)
    /\ IF Len(acc') > MaxAcc THEN Finish("overflow") ELSE UNCHANGED <<pc, result>>
    /\ UNCHANGED <<mode, off, up, srv, answer, sent, forwards>>

(* Seeded fault: back to sending with bytes left to read. *)
PumpStopsEarly == TRUE

PumpedDry == down = <<>> /\ srv # "closed"

(* Nothing is left to read.  In the send loop, poll() follows and returns  *)
(* by an event or its timeout.                                             *)
PumpEnds ==
    /\ pc = "pump" /\ PumpedDry
    /\ pc' = IF off = Total THEN "hold" ELSE "send"
    /\ UNCHANGED <<mode, acc, count, off, result, env>>

(* poll() fails.  (It is called after EAGAIN only; here a pump after EAGAIN *)
(* and one behind a frame are not told apart.)                             *)
SendPollFails ==
    /\ pc = "pump" /\ PumpedDry
    /\ off < Total
    /\ Finish("fail")
    /\ UNCHANGED <<mode, acc, count, off, env>>

PumpFails ==
    /\ pc = "pump" /\ Eof
    /\ Finish("fail")
    /\ UNCHANGED <<mode, acc, count, off, env>>

-----------------------------------------------------------------------------
(* recv_frames(), recv_expect_close() *)

(* Seeded fault: so many frames or more. *)
RecvPassesMore == mode = "single" \/ acc' = <<>>

(* Seeded fault: bytes left behind the frames do not matter. *)
RecvPassesResidue == count' = Frames

(* m1 and m4 look at the number of replies, m2 and m3 also at what is left. *)
RecvPasses == count' = Frames /\ (mode = "single" \/ acc' = <<>>)

(* Here the limit is looked at before the frames are taken out. *)
RecvFrames ==
    /\ pc = "recv"
    /\ \E n \in RecvSizes :
          /\ Receive(n)
          /\ IF Len(acc) + n > MaxAcc THEN Finish("overflow")
             ELSE IF count' < Frames THEN UNCHANGED <<pc, result>>
             ELSE Finish(IF RecvPasses THEN "pass" ELSE "fail")
    /\ UNCHANGED <<mode, off, up, srv, answer, sent, forwards>>

(* The end of the stream, a timeout or an error. *)
RecvFramesFails ==
    /\ pc = "recv" /\ down = <<>>
    /\ Finish("fail")
    /\ UNCHANGED <<mode, acc, count, off, env>>

(* Data before the close is printed and dropped. *)
ExpectCloseDrops ==
    /\ pc = "expect"
    /\ \E n \in RecvSizes : down' = SubSeq(down, n + 1, Len(down))
    /\ UNCHANGED <<mode, pc, acc, count, off, result, up, srv, answer, sent, missed, forwards>>

(* Seeded fault: a timeout passes for a close. *)
AnyEndPasses == "pass"

CloseVerdict == IF srv = "closed" THEN "pass" ELSE "fail"

(* The end of the stream, or a timeout. *)
ExpectCloseEnds ==
    /\ pc = "expect" /\ down = <<>>
    /\ Finish(CloseVerdict)
    /\ UNCHANGED <<mode, acc, count, off, env>>

-----------------------------------------------------------------------------
(* run_receiver(), and the end of run_sender() *)

HoldReads ==
    /\ pc = "hold" /\ mode = "receiver"
    /\ \E n \in RecvSizes : Receive(n)
    /\ IF Len(acc') > MaxAcc THEN Finish("overflow") ELSE UNCHANGED <<pc, result>>
    /\ UNCHANGED <<mode, off, up, srv, answer, sent, forwards>>

HoldFails ==
    /\ pc = "hold" /\ mode = "receiver" /\ Eof
    /\ Finish("fail")
    /\ UNCHANGED <<mode, acc, count, off, env>>

(* The sender is woken by data or by the end of the stream. *)
HoldPumps ==
    /\ pc = "hold" /\ mode = "sender"
    /\ down # <<>> \/ Eof
    /\ pc' = "pump"
    /\ UNCHANGED <<mode, acc, count, off, result, env>>

(* The end of run_receiver(): m8 wants to have received something. *)
ReceiverDeadline ==
    /\ pc = "hold" /\ mode # "sender"
    /\ Finish(IF mode = "receiver" /\ count = 0 THEN "fail" ELSE "pass")
    /\ UNCHANGED <<mode, acc, count, off, env>>

SenderDeadline ==
    /\ pc = "hold" /\ mode = "sender"
    /\ Finish("pass")
    /\ UNCHANGED <<mode, acc, count, off, env>>

HoldPollFails ==
    /\ pc = "hold" /\ mode = "sender"
    /\ Finish("fail")
    /\ UNCHANGED <<mode, acc, count, off, env>>

-----------------------------------------------------------------------------
(* The server (environment), for as long as the client has the connection *)

ServerAnswersLogin ==
    /\ srv = "login" /\ pc # "done"
    /\ answer' \in LoginResult
    /\ down' = down \o answer'
    /\ srv' = "open"
    /\ UNCHANGED <<mode, pc, acc, count, off, result, up, sent, missed, forwards>>

Open == srv = "open" /\ pc # "done"

ServerSends(f) ==
    /\ down' = down \o f
    /\ sent' = sent + 1
    /\ missed' = Append(missed, f)

ServerReplies ==
    /\ Open /\ mode # "refused"
    /\ up >= ReqLen
    /\ up' = up - ReqLen
    /\ \E f \in Reply : ServerSends(f)
    /\ UNCHANGED <<mode, pc, acc, count, off, result, srv, answer, forwards>>

(* A reply that does not encode is dropped (core.cpp:240-244). *)
ServerSwallows ==
    /\ Open /\ mode # "refused"
    /\ up >= ReqLen
    /\ up' = up - ReqLen
    /\ UNCHANGED <<mode, pc, acc, count, off, result, down, srv, answer, sent, missed, forwards>>

(* Another user writes to this one; a reply sent twice looks the same. *)
ServerForwards ==
    /\ Open
    /\ Quiet => pc # "login"
    /\ forwards > 0
    /\ forwards' = forwards - 1
    /\ \E f \in Reply : ServerSends(f)
    /\ UNCHANGED <<mode, pc, acc, count, off, result, up, srv, answer>>

(* What a server that closes had sent may be cut off. *)
Close ==
    /\ srv' = "closed"
    /\ \E n \in 0..Len(down) : down' = SubSeq(down, 1, n)
    /\ UNCHANGED <<mode, pc, acc, count, off, result, up, answer, sent, missed, forwards>>

ServerRefuses ==
    /\ Open /\ mode = "refused"
    /\ up >= ReqLen
    /\ Close

(* It may also close for a reason of its own, or crash. *)
ServerCloses == srv # "closed" /\ pc # "done" /\ Close

Init ==
    /\ mode \in Modes
    /\ pc = "login" /\ result = "none"
    /\ acc = <<>> /\ count = 0 /\ off = 0
    /\ down = <<>> /\ up = 0 /\ srv = "login"
    /\ answer = <<>> /\ sent = 0 /\ missed = <<>> /\ forwards = MaxForwards

ClientStep ==
    \/ PreLogin \/ LoginOnly \/ PreLoginFails
    \/ SendAll \/ SendSome \/ SendBlocked \/ SendFails
    \/ PumpSome \/ PumpEnds \/ SendPollFails \/ PumpFails
    \/ RecvFrames \/ RecvFramesFails
    \/ ExpectCloseDrops \/ ExpectCloseEnds
    \/ HoldReads \/ HoldFails \/ HoldPumps
    \/ ReceiverDeadline \/ SenderDeadline \/ HoldPollFails

Next ==
    \/ ClientStep
    \/ ServerAnswersLogin \/ ServerReplies \/ ServerSwallows \/ ServerRefuses
    \/ ServerForwards \/ ServerCloses

Spec == Init /\ [][Next]_vars

(* The client runs whenever it can; the server reads what it has got.      *)
(* Timeouts and the deadlines are steps of the client.                     *)
FairSpec ==
    /\ Spec
    /\ WF_vars(ClientStep)
    /\ WF_vars(ServerReplies \/ ServerSwallows \/ ServerRefuses)

-----------------------------------------------------------------------------
(* Properties *)

(* b begins where the first frame that was missed begins. *)
Aligned(b) ==
    IF srv = "closed" THEN IsPrefix(b, FlattenSeq(missed)) ELSE b = FlattenSeq(missed)

(* From login on the client reads the stream from the start of a frame:    *)
(* what it holds and what is under way are the frames it has not counted   *)
(* (main.cpp:123: it consumes the one frame of the response).              *)
InStep == pc \notin {"login", "done"} /\ mode # "refused" => Aligned(acc \o down)

(* kMaxAccBytes fails no run against a server that sends only frames: what *)
(* is left when a recv begins is less than one frame, in every loop        *)
(* (main.cpp:69-72, 224-226).                                              *)
LimitNeverStrikes == result # "overflow"

(* What a PASS says of the other side.  m1 to m4: all was sent, and as     *)
(* many frames as requests have come, whole; for m2 and m3 no byte of      *)
(* another frame has (main.cpp:709-713).  m5 and m6: all was sent and the  *)
(* server did close (769).  m8: a frame has come (384).  m10: all was sent *)
(* (516).  m7 to m10: the server accepted the login (821-823).             *)
PassIsTrue ==
    result = "pass" =>
        /\ LooksAtStatus => StatusOk(Header(answer))
        /\ mode \in {"echo", "single", "refused", "sender"} => off = Total
        /\ mode \in {"echo", "single"} => sent - Len(missed) = Frames
        /\ mode = "echo" => Aligned(down)
        /\ mode = "refused" => srv = "closed"
        /\ mode = "receiver" => sent > Len(missed)

(* "Anything unexpected, more frames than the one echo among it, is not 0" *)
(* (main.cpp:12); m4 prints "exactly one echo, stream in sync" (741).      *)
OneEchoOnly == result = "pass" /\ mode = "single" => acc = <<>>

(* The sender's own replies cannot pile up at the server: never more are   *)
(* unread than requests fit into the kernel's buffers, and one             *)
(* (main.cpp:388-390).                                                     *)
UnreadBounded ==
    mode = "sender" /\ pc # "done" =>
        Len(missed) <= UpCap \div ReqLen + 1 + (MaxForwards - forwards)

(* Every scenario comes to a verdict, as long as the server reads or       *)
(* closes: a connection that is gone is noticed in every loop.             *)
ClientEnds == <>(pc = "done")
=============================================================================
