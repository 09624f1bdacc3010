------------------------------- MODULE Codec -------------------------------
(***************************************************************************)
(* What becomes of a message between the decoder that accepted it and the  *)
(* decoder of its receiver: Decoder::decode (src/common/decoder.h) with    *)
(* the conversions of its Message, the packs that the controller makes of  *)
(* it, Encoder::encode (src/common/encoder.h) step by step over the one    *)
(* encode_buf_ that the server uses for all frames, and decode again.      *)
(*                                                                         *)
(* A buffer is a sequence of cells: three for a header (opcode, status and *)
(* the four bytes of body_len), one for each byte of a body, which says    *)
(* which message's text it is from and where in it.  Of a text, the        *)
(* lengths count, and the two numbers that become enums.  What the parser  *)
(* and the serializer do to strings is in JsonString.                      *)
(***************************************************************************)
EXTENDS Integers, Sequences

CONSTANTS
    MaxBody,        \* max_message_body_length (65530)
    Skeleton,       \* length of a body without its enums and its content (at least 93)
    Number,         \* what a body may have for an enum: a number, truncated, its
                    \* length in the text, and whether the parser takes it for a float
    Undefined,      \* what a conversion that is undefined may come to
    Content,        \* contents: length in the text, in the string and dumped
    Padding,        \* how much longer a text is than it need be
    MaxFrames       \* bound: frames that come in

ASSUME LengthsAssumption ==
    /\ {MaxBody, Skeleton} \subseteq Nat \ {0} /\ Padding \subseteq Nat /\ MaxFrames \in Nat
    /\ Undefined \subseteq 0..255
    /\ \A c \in Content : /\ {c.held, c.dumped, c.text} \subseteq Nat \ {0}
                          /\ c.held <= c.dumped /\ c.dumped <= c.text

(* A number takes a byte for each digit, the sign, a point or an exponent. *)
ASSUME NumberAssumption ==
    \A n \in Number :
        /\ n.float \in BOOLEAN /\ n.value \in Int /\ n.len \in Nat \ {0}
        /\ n.value < 0 \/ n.value >= 10 => n.len >= 2
        /\ n.float \/ n.value >= 100 => n.len >= 3

VARIABLES
    out_queue,      \* the packs to be sent, all to one receiver
    pc,             \* where encode() is: "start", "resize", "write", "return"
    serialized,     \* its local variable
    est,            \* what it returns
    out_len,        \* its third parameter
    encode_buf,     \* encode_buf_
    read_buf,       \* of the receiver
    before,         \* history: buffer and pack when encode() was called
    unread,         \* history: the packs sent and not yet read
    agree,          \* history: what was read is what was sent
    dropped,        \* history: the last pack refused for its length
    frames          \* bound

vars == <<out_queue, pc, serialized, est, out_len, encode_buf, read_buf,
          before, unread, agree, dropped, frames>>

-----------------------------------------------------------------------------
(* Numbers and lengths *)

(* The digits of an enum, which has 8 bits. *)
Digits(n) == IF n < 10 THEN 1 ELSE IF n < 100 THEN 2 ELSE 3

(* A number is cast to an enum of 8 bits: integers modulo 256, others are  *)
(* truncated, and what is out of range then is undefined.                  *)
Cast(number) ==
    IF ~ number.float THEN {number.value % 256}
    ELSE IF number.value \in 0..255 THEN {number.value} ELSE Undefined

_init_ == 255

(* A body as it comes in. *)
Text == [chat : Number, type : Number, content : Content, padding : Padding]

TextLen(text) ==
    Skeleton + text.chat.len + text.type.len + text.content.text + text.padding

(* A Message; of its content, the length and the length dumped. *)
Message(chat, type, content) ==
    [chat_type |-> chat, msg_type |-> type, held |-> content.held, dumped |-> content.dumped]

is_valid(msg) == msg.chat_type # _init_ /\ msg.msg_type # _init_

(* Seeded fault: the numbers are looked at before they are cast. *)
AcceptedUncast(text) ==
    IF TextLen(text) > MaxBody \/ text.chat.value = _init_ \/ text.type.value = _init_ THEN {}
    ELSE {Message(c, t, text.content) : c \in Cast(text.chat), t \in Cast(text.type)}

(* The messages decode() may make of text; none when it refuses it. *)
Accepted(text) ==
    IF TextLen(text) > MaxBody THEN {}
    ELSE {msg \in {Message(c, t, text.content) : c \in Cast(text.chat), t \in Cast(text.type)} :
            is_valid(msg)}

-----------------------------------------------------------------------------
(* The server: packs *)

Pack(op, st, len, msg) == [opcode |-> op, status |-> st, body_len |-> len, msg |-> msg]

(* assemble_ack() puts one byte 0x01 into the content: \u0001 in JSON. *)
Acknowledged(in) == [in EXCEPT !.msg.held = 1, !.msg.dumped = 6]

(* What process() queues for a frame of a user to itself (the most a frame *)
(* brings): copies of the pack that came in, its body_len included.        *)
Queued(in) ==
    CASE in.opcode = "request" ->
            <<in, [in EXCEPT !.opcode = "response", !.status = "ok"]>>
      [] in.opcode = "login" ->
            <<[in EXCEPT !.opcode = "response", !.status = "fail"]>>
      [] in.opcode = "ack" -> <<Acknowledged(in)>>

Handle ==
    /\ out_queue = <<>> /\ frames > 0
    /\ \E text \in Text, op \in {"login", "request", "ack"} :
          \E msg \in Accepted(text) :
              out_queue' = Queued(Pack(op, "ok", TextLen(text), msg))
    /\ frames' = frames - 1
    /\ UNCHANGED <<pc, serialized, est, out_len, encode_buf, read_buf,
                   before, unread, agree, dropped>>

-----------------------------------------------------------------------------
(* Encoder::encode *)

WireSize == 3

Cell(kind, value) == [kind |-> kind, value |-> value]
Zero == Cell("zero", 0)

DumpLen(msg) == Skeleton + Digits(msg.chat_type) + Digits(msg.msg_type) + msg.dumped

body_serializer(msg) == [i \in 1..DumpLen(msg) |-> Cell("text", [of |-> msg, at |-> i])]

header(pack) ==
    <<Cell("opcode", pack.opcode), Cell("status", pack.status), Cell("body_len", pack.body_len)>>

(* Puts cells into buf from a place on; the rest stays as it is. *)
Overwritten(buf, from, cells) ==
    [i \in 1..Len(buf) |->
        IF i - from \in 1..Len(cells) THEN cells[i - from] ELSE buf[i]]

pack == Head(out_queue)

Return(status) ==
    /\ est' = status
    /\ pc' = "return"

(* Seeded fault: the limit is meant for the frame with its header. *)
TooLongAsFrame(n) == n + WireSize > MaxBody

TooLong(n) == n > MaxBody

(* Seeded fault: the buffer has grown before the length is checked. *)
GrowsFirst(n) ==
    encode_buf' = encode_buf \o [i \in 1..(IF WireSize + n > Len(encode_buf)
                                           THEN WireSize + n - Len(encode_buf) ELSE 0) |-> Zero]

(* The buffer is not touched while the text is made and measured. *)
Untouched(n) == UNCHANGED encode_buf

(* The check of the content alone, which comes first, refuses nothing that *)
(* is shorter: a content that was parsed is within the limit.  The memory  *)
(* for the JSON value or its text may be exhausted.                        *)
Serialize ==
    /\ out_queue # <<>> /\ pc = "start"
    /\ before' = [buf |-> encode_buf, pack |-> pack]
    /\ out_len' = 0
    /\ \/ Return("error") /\ UNCHANGED <<serialized, encode_buf>>
       \/ /\ serialized' = body_serializer(pack.msg)
          /\ Untouched(Len(serialized'))
          /\ IF TooLong(pack.msg.held) \/ TooLong(Len(serialized'))
             THEN Return("frame_too_long")
             ELSE pc' = "resize" /\ UNCHANGED est
    /\ UNCHANGED <<out_queue, read_buf, unread, agree, dropped, frames>>

(* Seeded fault: body_len_ is written before the buffer has grown. *)
WritesBackEarly == out_queue' = [out_queue EXCEPT ![1].body_len = Len(serialized)]

ResizeFails == UNCHANGED out_queue

(* The buffer only grows.  When there is no memory, resize() throws and    *)
(* leaves it alone.                                                        *)
Resize ==
    /\ pc = "resize"
    /\ LET need == WireSize + Len(serialized)
           missing == need - Len(encode_buf)
       IN  IF missing <= 0 THEN pc' = "write" /\ UNCHANGED <<est, out_queue, encode_buf>>
           ELSE \/ /\ encode_buf' = encode_buf \o [i \in 1..missing |-> Zero]
                   /\ pc' = "write" /\ UNCHANGED <<est, out_queue>>
                \/ /\ ResizeFails /\ UNCHANGED encode_buf
                   /\ Return("error")
    /\ UNCHANGED <<serialized, out_len, read_buf, before, unread, agree, dropped, frames>>

(* Seeded fault: the pack keeps the body_len of the frame that came in. *)
KeptBodyLen(old, new) == old

BodyLenFor(old, new) == new

Write ==
    /\ pc = "write"
    /\ LET len == Len(serialized)
           full == [pack EXCEPT !.body_len = BodyLenFor(@, len)]
       IN  /\ out_queue' = [out_queue EXCEPT ![1] = full]
           /\ encode_buf' = Overwritten(Overwritten(encode_buf, WireSize, serialized),
                                        0, header(full))
           /\ out_len' = WireSize + len
    /\ Return("ok")
    /\ UNCHANGED <<serialized, read_buf, before, unread, agree, dropped, frames>>

-----------------------------------------------------------------------------
(* handle_client: what was encoded is sent, what failed is dropped *)

(* Seeded fault: the whole buffer is sent. *)
WholeBuffer == encode_buf

ValidPart == SubSeq(encode_buf, 1, out_len)

Send ==
    /\ pc = "return"
    /\ IF est = "ok"
       THEN /\ read_buf' = read_buf \o ValidPart
            /\ unread' = Append(unread, pack)
            /\ UNCHANGED dropped
       ELSE /\ dropped' = IF est = "frame_too_long" THEN <<pack>> ELSE dropped
            /\ UNCHANGED <<read_buf, unread>>
    /\ out_queue' = Tail(out_queue)
    /\ pc' = "start" /\ serialized' = <<>>
    /\ UNCHANGED <<est, out_len, encode_buf, before, agree, frames>>

-----------------------------------------------------------------------------
(* The receiver *)

BodyLen(in) == in[3].value

(* A body parses when it is the whole text of one message, and becomes a   *)
(* Message when that is valid.                                             *)
Parses(body) ==
    body # <<>> /\ body[1].kind = "text" /\ body = body_serializer(body[1].value.of)

decode(in) ==
    IF Len(in) < WireSize THEN "incomplete"
    ELSE IF in[1].kind # "opcode" \/ in[2].kind # "status" \/ in[3].kind # "body_len" THEN "error"
    ELSE IF BodyLen(in) > MaxBody THEN "frame_too_long"
    ELSE IF Len(in) - WireSize < BodyLen(in) THEN "incomplete"
    ELSE LET body == SubSeq(in, WireSize + 1, WireSize + BodyLen(in))
         IN  IF Parses(body) /\ is_valid(body[1].value.of) THEN "ok" ELSE "error"

PeerReads ==
    /\ decode(read_buf) = "ok"
    /\ LET len == BodyLen(read_buf)
           msg == read_buf[WireSize + 1].value.of
       IN  /\ agree' = (Pack(read_buf[1].value, read_buf[2].value, len, msg) = Head(unread))
           /\ read_buf' = SubSeq(read_buf, WireSize + len + 1, Len(read_buf))
    /\ unread' = Tail(unread)
    /\ UNCHANGED <<out_queue, pc, serialized, est, out_len, encode_buf, before, dropped, frames>>

Init ==
    /\ out_queue = <<>> /\ pc = "start" /\ serialized = <<>>
    /\ est = "ok" /\ out_len = 0
    /\ encode_buf = <<>> /\ read_buf = <<>>
    /\ before = [buf |-> <<>>, pack |-> Pack("ack", "ok", 0, <<>>)]
    /\ unread = <<>> /\ agree = TRUE /\ dropped = <<>>
    /\ frames = MaxFrames

Next == Handle \/ Serialize \/ Resize \/ Write \/ Send \/ PeerReads

Spec == Init /\ [][Next]_vars

-----------------------------------------------------------------------------
(* Properties *)

(* The receiver reads what was sent, frame by frame: its decoder accepts   *)
(* every frame, gets the header and the message that were encoded, and     *)
(* nothing is left when the last is read.  Bytes of an earlier, longer     *)
(* frame never get out (core.cpp:211-212).                                 *)
StreamInSync ==
    /\ agree
    /\ decode(read_buf) \in {"ok", "incomplete"}
    /\ decode(read_buf) = "incomplete" => read_buf = <<>> /\ unread = <<>>

(* A message the server accepted is passed on, too, unless its body was    *)
(* within two bytes of the limit (its enums may take one more each), or    *)
(* seven for an ack (and its content five more).                           *)
DroppedOnlyNearLimit ==
    \A i \in DOMAIN dropped :
        dropped[i].body_len > MaxBody - (IF dropped[i].opcode = "ack" THEN 7 ELSE 2)

(* When encode() fails, the buffer and the pack are as they were, and no   *)
(* length is reported (encoder.h:67-69): the buffer does not grow for a    *)
(* text that is too long, either (encoder.h:91-94).                        *)
FailureLeavesNoTrace ==
    pc = "return" /\ est # "ok" =>
        encode_buf = before.buf /\ pack = before.pack /\ out_len = 0
=============================================================================
