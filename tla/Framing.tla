------------------------------ MODULE Framing ------------------------------
(***************************************************************************)
(* The read side of one connection, byte by byte: Connections::on_readable *)
(* (src/server/core/connections.cpp), Decoder::decode                      *)
(* (src/common/decoder.h) and the drain loop of Core::handle_client        *)
(* (src/server/core/core.cpp) over read_buf_.  The peer sends frames and   *)
(* junk; the stream may be cut anywhere, so one read may end in the middle *)
(* of a header and the next bring several frames.                          *)
(***************************************************************************)
EXTENDS Integers, Sequences

CONSTANTS
    Byte,           \* byte values
    WireSize,       \* FrameHeader::wire_size (6)
    MaxBody,        \* max_message_body_length (65530)
    SoftCap,        \* kReadSoftCap (65536)
    Chunk,          \* what one read() takes at most (4096)
    Known(_),       \* the opcode and status of a header are known
    BodyLen(_),     \* the body_len of a header
    Parses(_),      \* a body is a valid Message
    Item,           \* the byte strings a peer sends: frames, and junk that
                    \* decode refuses by its own bytes
    MaxItems        \* bound: how many of them

ASSUME LimitsAssumption ==
    /\ {WireSize, MaxBody, Chunk} \subseteq Nat \ {0}
    /\ SoftCap \in Nat
    /\ MaxItems \in Nat
ASSUME BytesAssumption ==
    /\ Item \subseteq Seq(Byte)
    /\ \A h \in [1..WireSize -> Byte] : BodyLen(h) \in Nat

(* What is left when the drain loop ends is shorter than one frame; that   *)
(* it is below the soft cap too is what core.cpp:177-181 counts on.        *)
ASSUME CapAssumption == WireSize + MaxBody <= SoftCap

VARIABLES
    net,        \* environment: sent by the peer and not read yet
    eof,        \* environment: the peer sends no more
    read_buf,   \* read_buf_
    pc,         \* "idle", in on_readable ("read"), in the drain loop, or the end
    rst,        \* what on_readable returned
    handed,     \* the frame last given to the message handler
    unhandled,  \* history: the items sent and not handed over yet
    items       \* bound: items the peer may still send

vars == <<net, eof, read_buf, pc, rst, handed, unhandled, items>>

-----------------------------------------------------------------------------
(* Decoder::decode *)

Header(in) == SubSeq(in, 1, WireSize)

FrameLen(in) == WireSize + BodyLen(Header(in))

Body(in) == SubSeq(in, WireSize + 1, FrameLen(in))

(* Seeded fault: the length is checked once the body is complete. *)
DecodeChecksLate(in) ==
    IF Len(in) < WireSize THEN "incomplete"
    ELSE IF ~ Known(Header(in)) THEN "error"
    ELSE IF Len(in) < FrameLen(in) THEN "incomplete"
    ELSE IF BodyLen(Header(in)) > MaxBody THEN "frame_too_long"
    ELSE IF Parses(Body(in)) THEN "ok" ELSE "error"

(* The checks in their order: a header that is complete is judged before   *)
(* the body is, the body's length before its completeness.                 *)
decode(in) ==
    IF Len(in) < WireSize THEN "incomplete"
    ELSE IF ~ Known(Header(in)) THEN "error"
    ELSE IF BodyLen(Header(in)) > MaxBody THEN "frame_too_long"
    ELSE IF Len(in) < FrameLen(in) THEN "incomplete"
    ELSE IF Parses(Body(in)) THEN "ok" ELSE "error"

(* A peer's items are whole frames, or are refused by their own bytes. *)
ASSUME ItemsAssumption ==
    \A item \in Item :
        \/ decode(item) \in {"error", "frame_too_long"}
        \/ decode(item) = "ok" /\ Len(item) = FrameLen(item)

-----------------------------------------------------------------------------
(* on_readable() *)

(* An EPOLLIN event.  None comes once the end of the stream was seen.      *)
Readable ==
    /\ pc = "idle"
    /\ net # <<>> \/ eof
    /\ pc' = "read"
    /\ UNCHANGED <<net, eof, read_buf, rst, handed, unhandled, items>>

(* One read(): up to a chunk of what has arrived; at the soft cap it ends. *)
ReadSome ==
    /\ pc = "read"
    /\ \E n \in 1..Len(net) :
          /\ n <= Chunk
          /\ read_buf' = read_buf \o SubSeq(net, 1, n)
          /\ net' = SubSeq(net, n + 1, Len(net))
    /\ \/ /\ Len(read_buf') >= SoftCap
          /\ rst' = "ok"
          /\ pc' = "drain"
       \/ /\ Len(read_buf') < SoftCap
          /\ UNCHANGED <<rst, pc>>
    /\ UNCHANGED <<eof, handed, unhandled, items>>

(* A read() that brings nothing: no more has arrived, the end of the       *)
(* stream, or a failure.                                                   *)
ReadNothing ==
    /\ pc = "read"
    /\ rst' \in {"would_block", "error"} \cup (IF eof /\ net = <<>> THEN {"closed"} ELSE {})
    /\ pc' = "drain"
    /\ UNCHANGED <<net, eof, read_buf, handed, unhandled, items>>

-----------------------------------------------------------------------------
(* The drain loop *)

(* Seeded fault: only the body is erased. *)
EraseBody(n) == read_buf' = SubSeq(read_buf, n - WireSize + 1, Len(read_buf))

(* The frame is erased before it is handed over. *)
Erase(n) == read_buf' = SubSeq(read_buf, n + 1, Len(read_buf))

(* Sending the answers may fail and end the connection (core.cpp:278). *)
DrainFrame ==
    /\ pc = "drain"
    /\ decode(read_buf) = "ok"
    /\ handed' = SubSeq(read_buf, 1, FrameLen(read_buf))
    /\ Erase(FrameLen(read_buf))
    /\ unhandled' = SubSeq(unhandled, 2, Len(unhandled))
    /\ pc' \in {"drain", "over"}
    /\ UNCHANGED <<net, eof, rst, items>>

DrainRefuses ==
    /\ pc = "drain"
    /\ decode(read_buf) \in {"error", "frame_too_long"}
    /\ pc' = "refused"
    /\ UNCHANGED <<net, eof, read_buf, rst, handed, unhandled, items>>

(* Seeded fault: one frame per event, the rest waits for the next. *)
DrainedOnce == pc = "drain"

Drained == pc = "drain" /\ decode(read_buf) = "incomplete"

(* No more reading after the end of the stream: the connection is closed,  *)
(* at the latest when its output is sent.                                  *)
DrainEnds ==
    /\ Drained
    /\ pc' = IF rst \in {"closed", "error"} THEN "over" ELSE "idle"
    /\ UNCHANGED <<net, eof, read_buf, rst, handed, unhandled, items>>

(* A hang-up, or a failed write to it, dooms the connection between events. *)
Doomed ==
    /\ pc = "idle"
    /\ pc' = "over"
    /\ UNCHANGED <<net, eof, read_buf, rst, handed, unhandled, items>>

-----------------------------------------------------------------------------
(* The peer (environment) *)

PeerSends(item) ==
    /\ ~ eof
    /\ items > 0
    /\ net' = net \o item
    /\ unhandled' = Append(unhandled, item)
    /\ items' = items - 1
    /\ UNCHANGED <<eof, read_buf, pc, rst, handed>>

(* It shuts down or crashes; what it has sent may be cut off anywhere. *)
PeerEnds ==
    /\ ~ eof
    /\ eof' = TRUE
    /\ \E n \in 0..Len(net) : net' = SubSeq(net, 1, n)
    /\ UNCHANGED <<read_buf, pc, rst, handed, unhandled, items>>

Init ==
    /\ net = <<>>
    /\ eof = FALSE
    /\ read_buf = <<>>
    /\ pc = "idle"
    /\ rst = "ok"
    /\ handed = <<>>
    /\ unhandled = <<>>
    /\ items = MaxItems

Next ==
    \/ Readable \/ ReadSome \/ ReadNothing
    \/ DrainFrame \/ DrainRefuses \/ DrainEnds \/ Doomed
    \/ \E item \in Item : PeerSends(item)
    \/ PeerEnds

Spec == Init /\ [][Next]_vars

(* The server's thread goes on, and level-triggered epoll reports a socket *)
(* with something to read until it is read.  Some reads find less than was *)
(* sent, or nothing yet; what was sent, and the end of the stream behind   *)
(* it, arrives in the end.                                                 *)
Fairness ==
    /\ WF_vars(Readable)
    /\ WF_vars(ReadSome \/ ReadNothing)
    /\ WF_vars(DrainFrame \/ DrainRefuses \/ DrainEnds)
    /\ SF_vars(ReadSome)
    /\ SF_vars(ReadNothing /\ rst' = "closed")

FairSpec == Spec /\ Fairness

-----------------------------------------------------------------------------
(* Properties *)

TypeOK ==
    /\ net \in Seq(Byte)
    /\ eof \in BOOLEAN
    /\ read_buf \in Seq(Byte)
    /\ pc \in {"idle", "read", "drain", "refused", "over"}
    /\ rst \in {"ok", "would_block", "closed", "error"}
    /\ handed \in Seq(Byte) /\ Len(handed) <= WireSize + MaxBody
    /\ unhandled \in Seq(Item)
    /\ items \in Nat

(* read_buf_ has no limit of its own, and needs none: it never holds more  *)
(* than the soft cap less one byte and one read (core.cpp:177-181: 69631). *)
ReadBufferBounded == Len(read_buf) <= SoftCap - 1 + Chunk

(* Every frame that was sent is handed over, or its connection ends, with  *)
(* not a byte more from the peer: a frame the drain loop left in read_buf_ *)
(* would wait for an event that the peer, waiting for its answer, does not *)
(* cause (core.cpp:154-157).                                               *)
FramesServed == unhandled # <<>> ~> unhandled = <<>> \/ pc \in {"refused", "over"}

(* Frames are handed over as the peer sent them, whole and in order,       *)
(* however the stream is cut, and only junk is refused.                    *)
Frame == {item \in Item : decode(item) = "ok" /\ Len(item) = FrameLen(item)}

F == INSTANCE FrameQueue WITH
        Junk <- Item \ Frame,
        queue <- unhandled,
        state <- IF pc \in {"refused", "over"} THEN pc ELSE "open"

ImplementsFrameQueue == F!Spec
=============================================================================
