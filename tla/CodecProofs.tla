---------------------------- MODULE CodecProofs ----------------------------
(***************************************************************************)
(* Proofs about Codec: the receiver's decoder reads the frames that were   *)
(* encoded, one by one, from a buffer that is used again and again; only   *)
(* messages near the limit are dropped; and an encode() that fails leaves  *)
(* no trace, for every limit, every length and every number a body brings. *)
(***************************************************************************)
EXTENDS Codec, SequenceTheorems, TLAPS

-----------------------------------------------------------------------------
(* Lengths *)

LEMMA DigitsBounds ==
    ASSUME NEW n \in Int
    PROVE  /\ Digits(n) \in 1..3
           /\ n < 10 => Digits(n) = 1
           /\ n < 100 => Digits(n) <= 2
BY DEF Digits

LEMMA Mod256 ==
    ASSUME NEW n \in Int
    PROVE  n % 256 \in 0..255 /\ (n \in 0..255 => n % 256 = n)
OBVIOUS

(* What a conversion makes of a number has one digit more at most. *)
LEMMA CastLen ==
    ASSUME NEW number \in Number, NEW c \in Cast(number)
    PROVE  c \in 0..255 /\ number.len \in Nat \ {0} /\ Digits(c) <= number.len + 1
<1> DEFINE n == number.value
<1>1. /\ n \in Int /\ number.len \in Nat \ {0}
      /\ n < 0 \/ n >= 10 => number.len >= 2
      /\ number.float \/ n >= 100 => number.len >= 3
  BY NumberAssumption
<1>2. n % 256 \in 0..255 /\ (n \in 0..255 => n % 256 = n)
  BY <1>1, Mod256
<1>3. c \in 0..255 /\ (~ number.float /\ n \in 0..255 => c = n)
  BY <1>2, LengthsAssumption DEF Cast
<1>4. Digits(c) \in 1..3 /\ (c < 10 => Digits(c) = 1) /\ (c < 100 => Digits(c) <= 2)
  BY <1>3, DigitsBounds
<1>5. CASE number.float \/ n < 0 \/ n > 255
  BY <1>1, <1>3, <1>4, <1>5
<1>6. CASE ~ number.float /\ n \in 0..255
  BY <1>1, <1>3, <1>4, <1>6
<1> QED
  BY <1>1, <1>5, <1>6

(* The messages and packs there are. *)
Ops == {"login", "request", "ack", "response"}
Statuses == {"ok", "fail"}
Messages ==
    {m \in [chat_type : 0..254, msg_type : 0..254, held : Nat \ {0}, dumped : Nat \ {0}] :
        m.held <= m.dumped}

(* A text is at most this much longer than the body its message came in. *)
Slack(op) == IF op = "ack" THEN 7 ELSE 2

Packs ==
    {p \in [opcode : Ops, status : Statuses, body_len : 0..MaxBody, msg : Messages] :
        DumpLen(p.msg) <= p.body_len + Slack(p.opcode)}

LEMMA DumpLenType ==
    ASSUME NEW m \in Messages
    PROVE  DumpLen(m) \in Nat \ {0} /\ m.held \in Nat /\ m.held <= DumpLen(m)
<1>1. /\ m.chat_type \in Int /\ m.msg_type \in Int /\ m.held \in Nat /\ m.dumped \in Nat
      /\ m.held <= m.dumped /\ Skeleton \in Nat \ {0}
  BY LengthsAssumption DEF Messages
<1>2. Digits(m.chat_type) \in 1..3 /\ Digits(m.msg_type) \in 1..3
  BY <1>1, DigitsBounds
<1> QED
  BY <1>1, <1>2 DEF DumpLen

(* A message that decode() accepted, in a pack of any opcode. *)
LEMMA AcceptedPack ==
    ASSUME NEW text \in Text, NEW msg \in Accepted(text), NEW op \in {"login", "request", "ack"}
    PROVE  Queued(Pack(op, "ok", TextLen(text), msg)) \in Seq(Packs)
<1>1. PICK c \in Cast(text.chat), t \in Cast(text.type) :
        msg = Message(c, t, text.content) /\ is_valid(msg)
  BY DEF Accepted
<1> DEFINE k == text.content
           n == TextLen(text)
<1>2. text.chat \in Number /\ text.type \in Number /\ k \in Content /\ text.padding \in Padding
  BY DEF Text
<1>3. /\ c \in 0..255 /\ text.chat.len \in Nat \ {0} /\ Digits(c) <= text.chat.len + 1
      /\ t \in 0..255 /\ text.type.len \in Nat \ {0} /\ Digits(t) <= text.type.len + 1
  BY <1>2, CastLen
<1>4. /\ k.held \in Nat \ {0} /\ k.dumped \in Nat \ {0} /\ k.text \in Nat \ {0}
      /\ k.held <= k.dumped /\ k.dumped <= k.text /\ text.padding \in Nat
      /\ Skeleton \in Nat /\ MaxBody \in Nat
  BY <1>2, LengthsAssumption
<1>5. msg.chat_type = c /\ msg.msg_type = t /\ msg.held = k.held /\ msg.dumped = k.dumped
  BY <1>1 DEF Message
<1>6. c \in 0..254 /\ t \in 0..254
  BY <1>1, <1>3, <1>5 DEF is_valid, _init_
<1>7. msg \in Messages
  BY <1>1, <1>4, <1>6 DEF Messages, Message
<1>8. n \in 0..MaxBody
  <2>1. ~ (n > MaxBody)
    BY DEF Accepted
  <2>2. n \in Nat
    BY <1>3, <1>4 DEF TextLen
  <2> QED
    BY <1>4, <2>1, <2>2
<1>9. Digits(c) \in Nat /\ Digits(t) \in Nat
  BY <1>3, DigitsBounds
<1>10. DumpLen(msg) <= n + 2 /\ Skeleton + Digits(c) + Digits(t) + 6 <= n + 7
  BY <1>3, <1>4, <1>5, <1>9 DEF DumpLen, TextLen
<1> DEFINE in == Pack(op, "ok", n, msg)
<1> HIDE DEF n
<1>11. /\ in \in [opcode : Ops, status : Statuses, body_len : 0..MaxBody, msg : Messages]
       /\ in.opcode = op /\ in.status = "ok" /\ in.body_len = n /\ in.msg = msg
  BY <1>7, <1>8 DEF Pack, Ops, Statuses
<1> HIDE DEF in
<1>12. CASE op = "request"
  <2> DEFINE out == [in EXCEPT !.opcode = "response", !.status = "ok"]
  <2>1. /\ out \in [opcode : Ops, status : Statuses, body_len : 0..MaxBody, msg : Messages]
        /\ out.opcode = "response" /\ out.body_len = n /\ out.msg = msg
    BY <1>11 DEF Ops, Statuses
  <2>2. Queued(in) = <<in, out>>
    BY <1>11, <1>12 DEF Queued
  <2> HIDE DEF out
  <2>3. in \in Packs /\ out \in Packs
    BY <1>8, <1>10, <1>11, <1>12, <2>1 DEF Packs, Slack
  <2>4. <<in, out>> \in Seq(Packs)
    BY <2>3
  <2> QED
    BY <2>2, <2>4 DEF in, n
<1>13. CASE op = "login"
  <2> DEFINE out == [in EXCEPT !.opcode = "response", !.status = "fail"]
  <2>1. /\ out \in [opcode : Ops, status : Statuses, body_len : 0..MaxBody, msg : Messages]
        /\ out.opcode = "response" /\ out.body_len = n /\ out.msg = msg
    BY <1>11 DEF Ops, Statuses
  <2>2. Queued(in) = <<out>>
    BY <1>11, <1>13 DEF Queued
  <2> HIDE DEF out
  <2>3. out \in Packs
    BY <1>8, <1>10, <2>1 DEF Packs, Slack
  <2>4. <<out>> \in Seq(Packs)
    BY <2>3
  <2> QED
    BY <2>2, <2>4 DEF in, n
<1>14. CASE op = "ack"
  <2> DEFINE out == Acknowledged(in)
             new == [msg EXCEPT !.held = 1, !.dumped = 6]
  <2>1. /\ new \in Messages
        /\ new.chat_type = c /\ new.msg_type = t /\ new.dumped = 6
    <3>1. msg \in [chat_type : 0..254, msg_type : 0..254, held : Nat \ {0}, dumped : Nat \ {0}]
      BY <1>7 DEF Messages
    <3>2. 1 \in Nat \ {0} /\ 6 \in Nat \ {0} /\ 1 <= 6
      OBVIOUS
    <3>3. /\ new \in [chat_type : 0..254, msg_type : 0..254, held : Nat \ {0}, dumped : Nat \ {0}]
          /\ new.held = 1 /\ new.dumped = 6
          /\ new.chat_type = msg.chat_type /\ new.msg_type = msg.msg_type
      BY <3>1, <3>2
    <3> HIDE DEF new
    <3> QED
      BY <1>5, <3>2, <3>3 DEF Messages
  <2>2. /\ out \in [opcode : Ops, status : Statuses, body_len : 0..MaxBody, msg : Messages]
        /\ out.opcode = "ack" /\ out.body_len = n /\ out.msg = new
    BY <1>11, <1>14, <2>1 DEF Acknowledged, Ops, Statuses
  <2>3. Queued(in) = <<out>>
    BY <1>11, <1>14 DEF Queued
  <2> HIDE DEF out, new
  <2>4. DumpLen(new) <= n + 7
    BY <1>10, <2>1 DEF DumpLen
  <2>5. out \in Packs
    BY <2>2, <2>4 DEF Packs, Slack
  <2>6. <<out>> \in Seq(Packs)
    BY <2>5
  <2> QED
    BY <2>3, <2>6 DEF in, n
<1> QED
  BY <1>12, <1>13, <1>14

-----------------------------------------------------------------------------
(* Sequences *)

(* s \o t.  Its definition stays hidden: the provers unfold \o wherever    *)
(* they see it, and lose the law they were to apply.                       *)
Cat(s, t) == s \o t

LEMMA CatIs ==
    ASSUME NEW S, NEW s, NEW t, s \in Seq(S), t \in Seq(S)
    PROVE  /\ Cat(s, t) \in Seq(S) /\ Len(Cat(s, t)) = Len(s) + Len(t)
           /\ Len(s) \in Nat /\ Len(t) \in Nat
           /\ \A i \in 1..Len(s) : Cat(s, t)[i] = s[i]
           /\ \A i \in 1..Len(t) : Cat(s, t)[Len(s) + i] = t[i]
<1>1. /\ Cat(s, t) \in Seq(S) /\ Len(Cat(s, t)) = Len(s) + Len(t)
      /\ \A i \in 1..Len(s) + Len(t) : Cat(s, t)[i] = IF i <= Len(s) THEN s[i] ELSE t[i - Len(s)]
  BY ConcatProperties DEF Cat
<1>2. Len(s) \in Nat /\ Len(t) \in Nat
  OBVIOUS
<1>3. ASSUME NEW i \in 1..Len(t) PROVE Cat(s, t)[Len(s) + i] = t[i]
  <2>1. Len(s) + i \in 1..Len(s) + Len(t) /\ ~ (Len(s) + i <= Len(s)) /\ (Len(s) + i) - Len(s) = i
    BY <1>2
  <2> QED
    BY <1>1, <2>1
<1> QED
  BY <1>1, <1>2, <1>3

LEMMA CatEmpty ==
    ASSUME NEW S, NEW s, s \in Seq(S)
    PROVE  Cat(s, <<>>) = s /\ Cat(<<>>, s) = s
BY ConcatEmptySeq DEF Cat

LEMMA Regroup ==
    ASSUME NEW S, NEW s, NEW t, NEW u, s \in Seq(S), t \in Seq(S), u \in Seq(S)
    PROVE  Cat(Cat(s, t), u) = Cat(s, Cat(t, u))
BY ConcatAssociative DEF Cat

LEMMA TailIs ==
    ASSUME NEW S, NEW s, s \in Seq(S), s # <<>>
    PROVE  /\ Tail(s) \in Seq(S) /\ Len(Tail(s)) = Len(s) - 1 /\ Len(s) \in Nat \ {0}
           /\ Head(s) = s[1] /\ s[1] \in S
           /\ \A i \in 1..Len(Tail(s)) : Tail(s)[i] = s[i + 1]
BY HeadTailProperties, EmptySeq

(* What is behind the first of two parts, and the second part itself. *)
LEMMA BehindFirst ==
    ASSUME NEW S, NEW s, NEW t, s \in Seq(S), t \in Seq(S)
    PROVE  SubSeq(Cat(s, t), Len(s) + 1, Len(Cat(s, t))) = t
<1> DEFINE b == Cat(s, t)
           r == SubSeq(b, Len(s) + 1, Len(b))
<1>1. /\ b \in Seq(S) /\ Len(b) = Len(s) + Len(t)
      /\ Len(s) \in Nat /\ Len(t) \in Nat
      /\ \A i \in 1..Len(t) : b[Len(s) + i] = t[i]
  BY CatIs
<1> HIDE DEF b
<1>2. \A i \in Len(s) + 1..Len(b) : b[i] \in S
  BY <1>1
<1>3. r \in Seq(S)
  BY <1>1, <1>2, SubSeqProperties
<1>4. Len(r) = Len(t)
  BY <1>1, <1>2, SubSeqProperties
<1>5. \A i \in 1..Len(b) - (Len(s) + 1) + 1 : r[i] = b[(Len(s) + 1) + i - 1]
  BY <1>1, <1>2, SubSeqProperties
<1>6. ASSUME NEW i \in 1..Len(t) PROVE r[i] = t[i]
  <2>1. i \in 1..Len(b) - (Len(s) + 1) + 1 /\ (Len(s) + 1) + i - 1 = Len(s) + i
    BY <1>1
  <2> QED
    BY <1>1, <1>5, <2>1
<1> HIDE DEF r
<1>7. r = t
  BY <1>3, <1>4, <1>6, SeqEqual
<1> QED
  BY <1>7 DEF b, r

(* A part of a sequence that is, place by place, another sequence. *)
LEMMA PartIs ==
    ASSUME NEW S, NEW s, s \in Seq(S), NEW t, t \in Seq(S), NEW n \in Nat,
           n + Len(t) <= Len(s), \A i \in 1..Len(t) : s[n + i] = t[i]
    PROVE  SubSeq(s, n + 1, n + Len(t)) = t
<1> DEFINE r == SubSeq(s, n + 1, n + Len(t))
<1>1. Len(s) \in Nat /\ Len(t) \in Nat
  OBVIOUS
<1>2. \A i \in n + 1..n + Len(t) : s[i] \in S
  BY <1>1
<1>3. r \in Seq(S)
  BY <1>1, <1>2, SubSeqProperties
<1>4. Len(r) = Len(t)
  BY <1>1, <1>2, SubSeqProperties
<1>5. \A i \in 1..(n + Len(t)) - (n + 1) + 1 : r[i] = s[(n + 1) + i - 1]
  BY <1>1, <1>2, SubSeqProperties
<1>6. ASSUME NEW i \in 1..Len(t) PROVE r[i] = t[i]
  <2>1. i \in 1..(n + Len(t)) - (n + 1) + 1 /\ (n + 1) + i - 1 = n + i
    BY <1>1
  <2> QED
    BY <1>5, <2>1
<1> HIDE DEF r
<1>7. r = t
  BY <1>3, <1>4, <1>6, SeqEqual
<1> QED
  BY <1>7 DEF r

-----------------------------------------------------------------------------
(* Frames *)

Cells ==
    [kind : {"opcode", "status", "body_len", "text", "zero"},
     value : Ops \cup Statuses \cup Nat \cup [of : Messages, at : Nat]]

(* The packs as they are sent: body_len is the length of the body. *)
Sent == {p \in Packs : p.body_len = DumpLen(p.msg)}

FrameOf(p) == Cat(header(p), body_serializer(p.msg))

LEMMA BodyType ==
    ASSUME NEW m \in Messages
    PROVE  /\ body_serializer(m) \in Seq(Cells) /\ Len(body_serializer(m)) = DumpLen(m)
           /\ \A i \in 1..DumpLen(m) :
                 body_serializer(m)[i] = Cell("text", [of |-> m, at |-> i])
<1> DEFINE n == DumpLen(m)
           b == body_serializer(m)
<1>1. n \in Nat
  BY DumpLenType
<1>2. b = [i \in 1..n |-> Cell("text", [of |-> m, at |-> i])]
  BY DEF body_serializer
<1> HIDE DEF n, b
<1>3. ASSUME NEW i \in 1..n PROVE Cell("text", [of |-> m, at |-> i]) \in Cells
  <2>1. [of |-> m, at |-> i] \in [of : Messages, at : Nat]
    BY <1>1
  <2> QED
    BY <2>1 DEF Cell, Cells
<1>4. \A i \in 1..n : b[i] = Cell("text", [of |-> m, at |-> i])
  BY <1>2
<1>5. b \in [1..n -> Cells]
  BY <1>2, <1>3
<1>6. b \in Seq(Cells) /\ Len(b) = n
  BY <1>1, <1>5, SeqDef
<1> QED
  BY <1>4, <1>6 DEF n, b

LEMMA HeaderType ==
    ASSUME NEW p \in Packs
    PROVE  /\ header(p) \in Seq(Cells) /\ Len(header(p)) = WireSize
           /\ header(p)[1] = Cell("opcode", p.opcode)
           /\ header(p)[2] = Cell("status", p.status)
           /\ header(p)[3] = Cell("body_len", p.body_len)
<1>1. p.opcode \in Ops /\ p.status \in Statuses /\ p.body_len \in Nat
  BY LengthsAssumption DEF Packs
<1>2. /\ Cell("opcode", p.opcode) \in Cells /\ Cell("status", p.status) \in Cells
      /\ Cell("body_len", p.body_len) \in Cells
  BY <1>1 DEF Cell, Cells
<1> QED
  BY <1>2 DEF header, WireSize

LEMMA FrameType ==
    ASSUME NEW p \in Sent
    PROVE  /\ FrameOf(p) \in Seq(Cells) /\ Len(FrameOf(p)) = WireSize + p.body_len
           /\ p.msg \in Messages /\ p.body_len \in 1..MaxBody /\ p.body_len = DumpLen(p.msg)
           /\ FrameOf(p)[1] = Cell("opcode", p.opcode)
           /\ FrameOf(p)[2] = Cell("status", p.status)
           /\ FrameOf(p)[3] = Cell("body_len", p.body_len)
           /\ \A i \in 1..p.body_len : FrameOf(p)[WireSize + i] = body_serializer(p.msg)[i]
<1>1. p \in Packs /\ p.body_len = DumpLen(p.msg) /\ p.msg \in Messages /\ p.body_len \in 0..MaxBody
  BY DEF Sent, Packs
<1>2. p.body_len \in 1..MaxBody
  BY <1>1, DumpLenType, LengthsAssumption
<1>3. /\ header(p) \in Seq(Cells) /\ Len(header(p)) = WireSize
      /\ header(p)[1] = Cell("opcode", p.opcode)
      /\ header(p)[2] = Cell("status", p.status)
      /\ header(p)[3] = Cell("body_len", p.body_len)
  BY <1>1, HeaderType
<1>4. body_serializer(p.msg) \in Seq(Cells) /\ Len(body_serializer(p.msg)) = p.body_len
  BY <1>1, BodyType
<1>5. /\ FrameOf(p) \in Seq(Cells) /\ Len(FrameOf(p)) = WireSize + p.body_len
      /\ \A i \in 1..WireSize : FrameOf(p)[i] = header(p)[i]
      /\ \A i \in 1..p.body_len : FrameOf(p)[WireSize + i] = body_serializer(p.msg)[i]
  <2> DEFINE h == header(p)
             s == body_serializer(p.msg)
             n == p.body_len
  <2>1. h \in Seq(Cells) /\ Len(h) = WireSize /\ s \in Seq(Cells) /\ Len(s) = n
    BY <1>3, <1>4
  <2> HIDE DEF h, s, n
  <2>2. /\ Cat(h, s) \in Seq(Cells) /\ Len(Cat(h, s)) = WireSize + n
        /\ \A i \in 1..WireSize : Cat(h, s)[i] = h[i]
        /\ \A i \in 1..n : Cat(h, s)[WireSize + i] = s[i]
    <3>1. Cat(h, s) \in Seq(Cells) /\ Len(Cat(h, s)) = Len(h) + Len(s)
      BY <2>1, CatIs
    <3>2. \A i \in 1..Len(h) : Cat(h, s)[i] = h[i]
      BY <2>1, CatIs
    <3>3. \A i \in 1..Len(s) : Cat(h, s)[Len(h) + i] = s[i]
      BY <2>1, CatIs
    <3> QED
      BY <2>1, <3>1, <3>2, <3>3
  <2> QED
    BY <2>2 DEF FrameOf, h, s, n
<1>6. 1 \in 1..WireSize /\ 2 \in 1..WireSize /\ 3 \in 1..WireSize
  BY DEF WireSize
<1> QED
  BY <1>1, <1>2, <1>3, <1>5, <1>6

(* A decoder with a frame at the head of its buffer reads the frame, and   *)
(* no more.                                                                *)
LEMMA ReadsFrame ==
    ASSUME NEW p \in Sent, NEW r, r \in Seq(Cells), NEW in, in = Cat(FrameOf(p), r)
    PROVE  /\ decode(in) = "ok" /\ BodyLen(in) = p.body_len
           /\ Pack(in[1].value, in[2].value, p.body_len, in[WireSize + 1].value.of) = p
           /\ SubSeq(in, WireSize + p.body_len + 1, Len(in)) = r
<1> DEFINE f == FrameOf(p)
           n == p.body_len
           s == body_serializer(p.msg)
<1>1. /\ f \in Seq(Cells) /\ Len(f) = WireSize + n
      /\ p.msg \in Messages /\ n \in 1..MaxBody /\ n = DumpLen(p.msg)
      /\ f[1] = Cell("opcode", p.opcode) /\ f[2] = Cell("status", p.status)
      /\ f[3] = Cell("body_len", n)
      /\ \A i \in 1..n : f[WireSize + i] = s[i]
  BY FrameType
<1>2. /\ s \in Seq(Cells) /\ Len(s) = n
      /\ \A i \in 1..n : s[i] = Cell("text", [of |-> p.msg, at |-> i])
  BY <1>1, BodyType
<1> HIDE DEF f, s, n
<1>3. /\ in \in Seq(Cells) /\ Len(in) = WireSize + n + Len(r) /\ Len(r) \in Nat
      /\ \A i \in 1..WireSize + n : in[i] = f[i]
  BY <1>1, CatIs DEF f
<1>4. /\ in[1] = Cell("opcode", p.opcode) /\ in[2] = Cell("status", p.status)
      /\ in[3] = Cell("body_len", n)
  <2>1. 1 \in 1..WireSize + n /\ 2 \in 1..WireSize + n /\ 3 \in 1..WireSize + n
    BY <1>1 DEF WireSize
  <2> QED
    BY <1>1, <1>3, <2>1
<1>5. ASSUME NEW i \in 1..n PROVE in[WireSize + i] = s[i]
  <2>1. WireSize + i \in 1..WireSize + n
    BY <1>1 DEF WireSize
  <2> QED
    BY <1>1, <1>3, <2>1
<1>6. BodyLen(in) = n
  BY <1>4 DEF BodyLen, Cell
<1>7. SubSeq(in, WireSize + 1, WireSize + n) = s
  <2>1. WireSize \in Nat /\ WireSize + Len(s) <= Len(in) /\ Len(s) = n
    BY <1>1, <1>2, <1>3 DEF WireSize
  <2>2. \A i \in 1..Len(s) : in[WireSize + i] = s[i]
    BY <1>5, <2>1
  <2>3. SubSeq(in, WireSize + 1, WireSize + Len(s)) = s
    <3>1. s \in Seq(Cells) /\ in \in Seq(Cells)
      BY <1>2, <1>3
    <3> QED
      BY <2>1, <2>2, <3>1, PartIs
  <2> QED
    BY <2>1, <2>3
<1>8. 1 \in 1..n /\ s # <<>> /\ s[1] = Cell("text", [of |-> p.msg, at |-> 1])
  BY <1>1, <1>2
<1>9. Parses(s) /\ is_valid(s[1].value.of)
  <2>1. s[1].kind = "text" /\ s[1].value.of = p.msg
    BY <1>8 DEF Cell
  <2>2. s = body_serializer(s[1].value.of)
    BY <2>1 DEF s
  <2>3. is_valid(p.msg)
    <3>1. p.msg \in [chat_type : 0..254, msg_type : 0..254, held : Nat \ {0}, dumped : Nat \ {0}]
      BY <1>1 DEF Messages
    <3>2. p.msg.chat_type \in 0..254 /\ p.msg.msg_type \in 0..254
      BY <3>1
    <3> QED
      <4>1. \A x \in 0..254 : x # 255
        OBVIOUS
      <4> QED
        BY <3>2, <4>1, Zenon DEF is_valid, _init_
  <2> QED
    BY <1>8, <2>1, <2>2, <2>3 DEF Parses
<1>10. decode(in) = "ok"
  <2>1. ~ (Len(in) < WireSize) /\ ~ (n > MaxBody) /\ ~ (Len(in) - WireSize < n)
    BY <1>1, <1>3, LengthsAssumption DEF WireSize
  <2>2. in[1].kind = "opcode" /\ in[2].kind = "status" /\ in[3].kind = "body_len"
    BY <1>4 DEF Cell
  <2> QED
    BY <1>6, <1>7, <1>9, <2>1, <2>2 DEF decode
<1>11. Pack(in[1].value, in[2].value, n, in[WireSize + 1].value.of) = p
  <2>1. in[WireSize + 1].value.of = p.msg
    BY <1>5, <1>8 DEF Cell
  <2>2. in[1].value = p.opcode /\ in[2].value = p.status
    BY <1>4 DEF Cell
  <2>3. p = [opcode |-> p.opcode, status |-> p.status, body_len |-> p.body_len, msg |-> p.msg]
    BY DEF Sent, Packs
  <2> QED
    BY <2>1, <2>2, <2>3 DEF Pack, n
<1>12. SubSeq(in, WireSize + n + 1, Len(in)) = r
  BY <1>1, BehindFirst DEF f
<1> QED
  BY <1>6, <1>10, <1>11, <1>12 DEF n

(* What is put over the old contents of a buffer that is long enough is    *)
(* the new frame, whatever the buffer held.                                *)
LEMMA WrittenOver ==
    ASSUME NEW buf, buf \in Seq(Cells), NEW h, h \in Seq(Cells), NEW s, s \in Seq(Cells),
           Len(h) = WireSize, WireSize + Len(s) <= Len(buf)
    PROVE  LET new == Overwritten(Overwritten(buf, WireSize, s), 0, h)
           IN  new \in Seq(Cells) /\ SubSeq(new, 1, WireSize + Len(s)) = Cat(h, s)
<1> DEFINE mid == Overwritten(buf, WireSize, s)
           new == Overwritten(mid, 0, h)
           n == Len(buf)
           k == Len(s)
<1>1. /\ n \in Nat /\ k \in Nat /\ WireSize \in Nat /\ WireSize + k <= n
      /\ \A i \in 1..n : buf[i] \in Cells
      /\ \A i \in 1..k : s[i] \in Cells
      /\ \A i \in 1..WireSize : h[i] \in Cells
  <2>1. WireSize \in Nat
    BY DEF WireSize
  <2>2. n \in Nat /\ k \in Nat /\ WireSize + k <= n
    OBVIOUS
  <2>3. \A i \in 1..Len(h) : h[i] \in Cells
    BY ElementOfSeq
  <2>4. /\ \A i \in 1..n : buf[i] \in Cells
        /\ \A i \in 1..k : s[i] \in Cells
    BY ElementOfSeq
  <2> QED
    BY <2>1, <2>2, <2>3, <2>4
<1>2. mid = [i \in 1..n |-> IF i - WireSize \in 1..k THEN s[i - WireSize] ELSE buf[i]]
  BY DEF Overwritten
<1> HIDE DEF mid, n, k
<1>3. mid \in [1..n -> Cells]
  BY <1>1, <1>2
<1>4. mid \in Seq(Cells) /\ Len(mid) = n
  BY <1>1, <1>3, SeqDef
<1>5. new = [i \in 1..n |-> IF i - 0 \in 1..WireSize THEN h[i - 0] ELSE mid[i]]
  BY <1>4 DEF Overwritten
<1> HIDE DEF new
<1>6. \A i \in 1..n : new[i] = IF i \in 1..WireSize THEN h[i] ELSE mid[i]
  BY <1>1, <1>5
<1>7. new \in [1..n -> Cells]
  <2>1. \A i \in 1..n : (IF i - 0 \in 1..WireSize THEN h[i - 0] ELSE mid[i]) \in Cells
    BY <1>1, <1>3
  <2> QED
    BY <1>5, <2>1
<1>8. new \in Seq(Cells) /\ Len(new) = n
  BY <1>1, <1>7, SeqDef
<1>9. /\ Cat(h, s) \in Seq(Cells) /\ Len(Cat(h, s)) = WireSize + k
      /\ \A i \in 1..WireSize : Cat(h, s)[i] = h[i]
      /\ \A i \in 1..k : Cat(h, s)[Len(h) + i] = s[i]
  <2>1. Len(s) = k
    BY DEF k
  <2>2. Cat(h, s) \in Seq(Cells) /\ Len(Cat(h, s)) = Len(h) + Len(s)
    BY CatIs
  <2>3. \A i \in 1..Len(h) : Cat(h, s)[i] = h[i]
    BY CatIs
  <2>4. \A i \in 1..Len(s) : Cat(h, s)[Len(h) + i] = s[i]
    BY CatIs
  <2> QED
    BY <2>1, <2>2, <2>3, <2>4
<1>10. ASSUME NEW i \in 1..WireSize + k PROVE new[0 + i] = Cat(h, s)[i]
  <2>1. i \in 1..n /\ 0 + i = i
    BY <1>1
  <2>2. CASE i \in 1..WireSize
    BY <1>6, <1>9, <2>1, <2>2
  <2>3. CASE i \notin 1..WireSize
    <3>1. i - WireSize \in 1..k /\ Len(h) + (i - WireSize) = i
      BY <1>1, <2>3
    <3>2. new[i] = s[i - WireSize]
      BY <1>2, <1>6, <2>1, <2>3, <3>1
    <3> QED
      BY <1>9, <2>1, <3>1, <3>2
  <2> QED
    BY <2>2, <2>3
<1>11. SubSeq(new, 0 + 1, 0 + (WireSize + k)) = Cat(h, s)
  <2>1. 0 \in Nat /\ 0 + Len(Cat(h, s)) <= Len(new)
    BY <1>1, <1>8, <1>9
  <2>2. \A i \in 1..Len(Cat(h, s)) : new[0 + i] = Cat(h, s)[i]
    BY <1>9, <1>10
  <2> QED
    BY <1>8, <1>9, <2>1, <2>2, PartIs
<1>12. 0 + 1 = 1 /\ 0 + (WireSize + k) = WireSize + k
  BY <1>1
<1> QED
  BY <1>8, <1>11, <1>12 DEF new, mid, k

-----------------------------------------------------------------------------
(* Frames strung together *)

(* b is the frames of the packs q, one behind the other: rest[i] is what   *)
(* remains behind the first i.                                             *)
Strung(b, q) ==
    \E rest \in [0..Len(q) -> Seq(Cells)] :
        /\ rest[0] = b /\ rest[Len(q)] = <<>>
        /\ \A i \in 1..Len(q) : rest[i - 1] = Cat(FrameOf(q[i]), rest[i])

LEMMA StrungEmpty == Strung(<<>>, <<>>)
<1> DEFINE rest == [i \in 0..0 |-> <<>>]
<1>1. Len(<<>>) = 0 /\ <<>> \in Seq(Cells)
  OBVIOUS
<1>2. rest \in [0..0 -> Seq(Cells)] /\ rest[0] = <<>>
  BY <1>1
<1> HIDE DEF rest
<1>3. \A i \in 1..0 : rest[i - 1] = Cat(FrameOf((<<>>)[i]), rest[i])
  OBVIOUS
<1> QED
  BY <1>1, <1>2, <1>3 DEF Strung

LEMMA StrungHead ==
    ASSUME NEW b, NEW q, q \in Seq(Sent), Strung(b, q)
    PROVE  /\ b \in Seq(Cells)
           /\ q = <<>> => b = <<>>
           /\ q # <<>> => \E r \in Seq(Cells) : b = Cat(FrameOf(q[1]), r) /\ Strung(r, Tail(q))
<1> DEFINE n == Len(q)
<1>1. PICK rest \in [0..n -> Seq(Cells)] :
        /\ rest[0] = b /\ rest[n] = <<>>
        /\ \A i \in 1..n : rest[i - 1] = Cat(FrameOf(q[i]), rest[i])
  BY DEF Strung
<1>2. n \in Nat
  OBVIOUS
<1>3. b \in Seq(Cells)
  BY <1>1, <1>2
<1>4. CASE q = <<>>
  BY <1>1, <1>3, <1>4
<1>5. CASE q # <<>>
  <2> DEFINE t == Tail(q)
             r == rest[1]
             behind == [i \in 0..n - 1 |-> rest[i + 1]]
  <2>1. /\ t \in Seq(Sent) /\ Len(t) = n - 1 /\ n \in Nat \ {0}
        /\ \A i \in 1..Len(t) : t[i] = q[i + 1]
    BY <1>5, TailIs
  <2>2. r \in Seq(Cells) /\ b = Cat(FrameOf(q[1]), r)
    <3>1. 1 \in 1..n /\ 1 \in 0..n /\ 1 - 1 = 0
      BY <2>1
    <3>2. rest[1 - 1] = Cat(FrameOf(q[1]), rest[1])
      BY <1>1, <3>1
    <3> QED
      BY <1>1, <3>1, <3>2
  <2> HIDE DEF n, t
  <2>3. behind \in [0..Len(t) -> Seq(Cells)]
    BY <1>1, <2>1
  <2>4. behind[0] = r /\ behind[Len(t)] = <<>>
    <3>1. 0 \in 0..n - 1 /\ Len(t) \in 0..n - 1 /\ 0 + 1 = 1 /\ Len(t) + 1 = n
      BY <2>1
    <3>2. behind[0] = rest[0 + 1] /\ behind[Len(t)] = rest[Len(t) + 1]
      BY <3>1
    <3> QED
      BY <1>1, <3>1, <3>2
  <2>5. ASSUME NEW i \in 1..Len(t) PROVE behind[i - 1] = Cat(FrameOf(t[i]), behind[i])
    <3>1. /\ i - 1 \in 0..n - 1 /\ i \in 0..n - 1 /\ i + 1 \in 1..n
          /\ (i - 1) + 1 = i /\ (i + 1) - 1 = i
      BY <2>1
    <3>2. behind[i - 1] = rest[i] /\ behind[i] = rest[i + 1]
      BY <3>1
    <3>3. rest[(i + 1) - 1] = Cat(FrameOf(q[i + 1]), rest[i + 1])
      BY <1>1, <3>1
    <3>4. t[i] = q[i + 1]
      BY <2>1
    <3> HIDE DEF behind
    <3> QED
      BY <3>1, <3>2, <3>3, <3>4
  <2> HIDE DEF behind, r
  <2>6. Strung(r, t)
    BY <2>3, <2>4, <2>5 DEF Strung
  <2> QED
    BY <1>3, <1>5, <2>2, <2>6 DEF t
<1> QED
  BY <1>4, <1>5

LEMMA StrungAppend ==
    ASSUME NEW b, NEW q, q \in Seq(Sent), Strung(b, q), NEW p \in Sent
    PROVE  Strung(Cat(b, FrameOf(p)), Append(q, p))
<1> DEFINE n == Len(q)
           f == FrameOf(p)
           new == Append(q, p)
<1>1. PICK rest \in [0..n -> Seq(Cells)] :
        /\ rest[0] = b /\ rest[n] = <<>>
        /\ \A i \in 1..n : rest[i - 1] = Cat(FrameOf(q[i]), rest[i])
  BY DEF Strung
<1>2. n \in Nat /\ Len(new) = n + 1 /\ new[n + 1] = p /\ \A i \in 1..n : new[i] = q[i] /\ q[i] \in Sent
  OBVIOUS
<1>3. f \in Seq(Cells)
  BY FrameType
<1> DEFINE more == [i \in 0..n + 1 |-> IF i <= n THEN Cat(rest[i], f) ELSE <<>>]
<1> HIDE DEF n, f, new
<1>4. ASSUME NEW i \in 0..n PROVE rest[i] \in Seq(Cells) /\ Cat(rest[i], f) \in Seq(Cells)
  BY <1>1, <1>3, CatIs
<1>5. more \in [0..Len(new) -> Seq(Cells)]
  <2>1. <<>> \in Seq(Cells)
    OBVIOUS
  <2>2. \A i \in 0..n + 1 : i <= n => i \in 0..n
    BY <1>2
  <2>3. \A i \in 0..n + 1 : (IF i <= n THEN Cat(rest[i], f) ELSE <<>>) \in Seq(Cells)
    BY <1>4, <2>1, <2>2
  <2> QED
    BY <1>2, <2>3
<1>6. more[0] = Cat(b, f) /\ more[n] = Cat(<<>>, f) /\ more[n + 1] = <<>>
  <2>1. 0 \in 0..n + 1 /\ n \in 0..n + 1 /\ n + 1 \in 0..n + 1 /\ 0 <= n /\ n <= n /\ ~ (n + 1 <= n)
    BY <1>2
  <2> QED
    BY <1>1, <2>1
<1>7. ASSUME NEW i \in 1..Len(new) PROVE more[i - 1] = Cat(FrameOf(new[i]), more[i])
  <2>1. CASE i = n + 1
    <3>1. (n + 1) - 1 = n
      BY <1>2
    <3>2. Cat(<<>>, f) = f /\ Cat(f, <<>>) = f
      BY <1>3, CatEmpty
    <3> HIDE DEF more
    <3> QED
      BY <1>2, <1>6, <2>1, <3>1, <3>2 DEF f
  <2>2. CASE i \in 1..n
    <3>1. /\ i - 1 \in 0..n /\ i - 1 \in 0..n + 1 /\ i - 1 <= n
          /\ i \in 0..n /\ i \in 0..n + 1 /\ i <= n
      BY <1>2, <2>2
    <3>2. more[i - 1] = Cat(rest[i - 1], f) /\ more[i] = Cat(rest[i], f)
      BY <3>1
    <3> HIDE DEF more
    <3>3. rest[i - 1] = Cat(FrameOf(q[i]), rest[i]) /\ new[i] = q[i] /\ q[i] \in Sent
      BY <1>1, <1>2, <2>2
    <3>4. FrameOf(q[i]) \in Seq(Cells) /\ rest[i] \in Seq(Cells)
      BY <1>4, <3>1, <3>3, FrameType
    <3>5. Cat(Cat(FrameOf(q[i]), rest[i]), f) = Cat(FrameOf(q[i]), Cat(rest[i], f))
      BY <1>3, <3>4, Regroup
    <3> QED
      BY <3>2, <3>3, <3>5
  <2>3. i = n + 1 \/ i \in 1..n
    BY <1>2
  <2> QED
    BY <2>1, <2>2, <2>3
<1> HIDE DEF more
<1>8. more[Len(new)] = <<>>
  BY <1>2, <1>6
<1> QED
  BY <1>5, <1>6, <1>7, <1>8 DEF Strung, f, new

(* The receiver's buffer and what it has not read of it are in step.       *)
LEMMA StrungInSync ==
    ASSUME unread \in Seq(Sent), Strung(read_buf, unread)
    PROVE  /\ decode(read_buf) \in {"ok", "incomplete"}
           /\ decode(read_buf) = "incomplete" => read_buf = <<>> /\ unread = <<>>
<1>1. CASE unread = <<>>
  <2>1. read_buf = <<>>
    BY <1>1, StrungHead
  <2>2. Len(read_buf) < WireSize
    BY <2>1 DEF WireSize
  <2> QED
    BY <1>1, <2>1, <2>2 DEF decode
<1>2. CASE unread # <<>>
  <2>1. PICK r \in Seq(Cells) : read_buf = Cat(FrameOf(unread[1]), r)
    BY <1>2, StrungHead
  <2>2. unread[1] \in Sent
    BY <1>2, TailIs
  <2>3. decode(read_buf) = "ok"
    BY <2>1, <2>2, ReadsFrame
  <2> QED
    BY <2>3
<1> QED
  BY <1>1, <1>2

-----------------------------------------------------------------------------
(* The invariant *)

Types ==
    /\ out_queue \in Seq(Packs) /\ unread \in Seq(Sent)
    /\ encode_buf \in Seq(Cells)
    /\ pc \in {"start", "resize", "write", "return"}
    /\ est \in {"ok", "frame_too_long", "error"}

(* What encode() works on stays in the queue.                              *)
Working == pc # "start" => out_queue # <<>>

(* The text is that of the pack, within the limit, and nothing is reported *)
(* yet; until the buffer has grown, it is as it was.                       *)
Texted ==
    pc \in {"resize", "write"} =>
        /\ serialized = body_serializer(pack.msg) /\ DumpLen(pack.msg) <= MaxBody
        /\ before.pack = pack /\ out_len = 0
        /\ pc = "resize" => before.buf = encode_buf

Grown == pc = "write" => WireSize + DumpLen(pack.msg) <= Len(encode_buf)

(* What is reported valid is the frame of the pack, as it is sent.         *)
Encoded == pc = "return" /\ est = "ok" => pack \in Sent /\ ValidPart = FrameOf(pack)

Refused == pc = "return" /\ est = "frame_too_long" => DumpLen(pack.msg) > MaxBody

(* What the receiver holds is the frames it has not read.                  *)
Stream == agree /\ Strung(read_buf, unread)

CodecIInv ==
    /\ Types /\ Working /\ Texted /\ Grown /\ Encoded /\ Refused
    /\ Stream /\ DroppedOnlyNearLimit /\ FailureLeavesNoTrace

(* While encode() is at work, its pack is one of those there are.          *)
LEMMA PackIs ==
    ASSUME Types, Working, pc # "start"
    PROVE  /\ pack \in Packs /\ pack = out_queue[1] /\ Len(out_queue) \in Nat \ {0}
           /\ pack.msg \in Messages /\ DumpLen(pack.msg) \in Nat \ {0}
<1>1. out_queue \in Seq(Packs) /\ out_queue # <<>>
  BY DEF Types, Working
<1>2. pack \in Packs /\ pack = out_queue[1] /\ Len(out_queue) \in Nat \ {0}
  BY <1>1, TailIs DEF pack
<1>3. pack.msg \in Messages
  BY <1>2 DEF Packs
<1> QED
  BY <1>2, <1>3, DumpLenType

LEMMA InitHolds ==
    ASSUME Init
    PROVE  CodecIInv
<1>1. Strung(read_buf, unread)
  BY StrungEmpty DEF Init
<1>2. out_queue \in Seq(Packs) /\ unread \in Seq(Sent) /\ encode_buf \in Seq(Cells)
  BY DEF Init
<1>3. DroppedOnlyNearLimit
  <2>1. dropped = <<>>
    BY DEF Init
  <2> QED
    BY <2>1 DEF DroppedOnlyNearLimit
<1> QED
  BY <1>1, <1>2, <1>3
  DEF Init, CodecIInv, Types, Working, Texted, Grown, Encoded, Refused, Stream, FailureLeavesNoTrace

LEMMA HandleKeeps ==
    ASSUME CodecIInv, Handle
    PROVE  CodecIInv'
<1>1. pc = "start"
  BY DEF CodecIInv, Working, Handle
<1>2. PICK text \in Text, op \in {"login", "request", "ack"} :
        \E msg \in Accepted(text) : out_queue' = Queued(Pack(op, "ok", TextLen(text), msg))
  BY DEF Handle
<1>3. out_queue' \in Seq(Packs)
  BY <1>2, AcceptedPack
<1>4. UNCHANGED <<pc, serialized, est, out_len, encode_buf, read_buf,
                  before, unread, agree, dropped>>
  BY DEF Handle
<1>5. Types'
  BY <1>3, <1>4 DEF CodecIInv, Types
<1>6. (Working /\ Texted /\ Grown /\ Encoded /\ Refused /\ FailureLeavesNoTrace)'
  BY <1>1, <1>4 DEF Working, Texted, Grown, Encoded, Refused, FailureLeavesNoTrace
<1>7. Stream' /\ DroppedOnlyNearLimit'
  BY <1>4 DEF CodecIInv, Stream, DroppedOnlyNearLimit
<1> QED
  BY <1>5, <1>6, <1>7 DEF CodecIInv

LEMMA SerializeKeeps ==
    ASSUME CodecIInv, Serialize
    PROVE  CodecIInv'
<1>1. /\ out_queue # <<>> /\ pc = "start"
      /\ before' = [buf |-> encode_buf, pack |-> pack] /\ out_len' = 0
      /\ UNCHANGED <<out_queue, encode_buf, read_buf, unread, agree, dropped, frames>>
  BY DEF Serialize, Untouched
<1>2. before'.buf = encode_buf' /\ before'.pack = pack' /\ pack' = pack
  BY <1>1 DEF pack
<1>3. pack \in Packs /\ pack.msg \in Messages
  <2>1. out_queue \in Seq(Packs)
    BY DEF CodecIInv, Types
  <2>2. pack \in Packs
    BY <1>1, <2>1, TailIs DEF pack
  <2> QED
    BY <2>2 DEF Packs
<1>4. DumpLen(pack.msg) \in Nat \ {0} /\ pack.msg.held \in Nat /\ pack.msg.held <= DumpLen(pack.msg)
  BY <1>3, DumpLenType
<1>5. /\ DumpLen(pack.msg) = Len(body_serializer(pack.msg)) /\ MaxBody \in Nat
  BY <1>3, BodyType, LengthsAssumption
<1>6. \/ pc' = "return" /\ est' = "error"
      \/ pc' = "return" /\ est' = "frame_too_long" /\ DumpLen(pack.msg) > MaxBody
      \/ /\ pc' = "resize" /\ est' = est
         /\ serialized' = body_serializer(pack.msg) /\ DumpLen(pack.msg) <= MaxBody
  <2>1. CASE Return("error")
    BY <2>1 DEF Return
  <2>2. CASE /\ serialized' = body_serializer(pack.msg)
             /\ IF TooLong(pack.msg.held) \/ TooLong(Len(serialized'))
                THEN Return("frame_too_long")
                ELSE pc' = "resize" /\ UNCHANGED est
    <3> DEFINE n == DumpLen(pack.msg)
               k == pack.msg.held
    <3>1. Len(serialized') = n
      BY <1>5, <2>2
    <3>2. n \in Nat /\ k \in Nat /\ k <= n /\ MaxBody \in Nat
      BY <1>4, <1>5
    <3> HIDE DEF n, k
    <3>3. CASE TooLong(k) \/ TooLong(n)
      <4>1. n > MaxBody
        BY <3>2, <3>3 DEF TooLong
      <4> QED
        BY <2>2, <3>1, <3>3, <4>1 DEF Return, n, k
    <3>4. CASE ~ (TooLong(k) \/ TooLong(n))
      <4>1. n <= MaxBody
        BY <3>2, <3>4 DEF TooLong
      <4> QED
        BY <2>2, <3>1, <3>4, <4>1 DEF n, k
    <3> QED
      BY <3>3, <3>4
  <2> QED
    BY <2>1, <2>2 DEF Serialize
<1>7. Types'
  BY <1>1, <1>6 DEF CodecIInv, Types
<1>8. Working'
  BY <1>1 DEF Working
<1>9. Texted'
  BY <1>1, <1>2, <1>6 DEF Texted
<1>10. Grown' /\ Encoded'
  BY <1>6 DEF Grown, Encoded
<1>11. Refused'
  BY <1>2, <1>6 DEF Refused
<1>12. FailureLeavesNoTrace'
  BY <1>1, <1>2 DEF FailureLeavesNoTrace
<1>13. Stream' /\ DroppedOnlyNearLimit'
  BY <1>1 DEF CodecIInv, Stream, DroppedOnlyNearLimit
<1> QED
  BY <1>7, <1>8, <1>9, <1>10, <1>11, <1>12, <1>13 DEF CodecIInv

(* What resize() appends. *)
Zeros(k) == [i \in 1..k |-> Zero]

LEMMA ResizeIs ==
    ASSUME Resize
    PROVE  LET m == (WireSize + Len(serialized)) - Len(encode_buf)
           IN  IF m <= 0 THEN pc' = "write" /\ UNCHANGED <<est, out_queue, encode_buf>>
               ELSE \/ /\ encode_buf' = Cat(encode_buf, Zeros(m))
                       /\ pc' = "write" /\ UNCHANGED <<est, out_queue>>
                    \/ /\ UNCHANGED out_queue /\ UNCHANGED encode_buf
                       /\ est' = "error" /\ pc' = "return"
BY Zenon DEF Resize, ResizeFails, Return, Cat, Zeros

LEMMA ResizeKeeps ==
    ASSUME CodecIInv, Resize
    PROVE  CodecIInv'
<1>1. /\ pc = "resize"
      /\ UNCHANGED <<out_queue, serialized, out_len, read_buf, before, unread, agree, dropped, frames>>
  BY DEF Resize, ResizeFails
<1>2. /\ serialized = body_serializer(pack.msg) /\ DumpLen(pack.msg) <= MaxBody
      /\ before.pack = pack /\ out_len = 0 /\ before.buf = encode_buf
  BY <1>1 DEF CodecIInv, Texted
<1>3. pack \in Packs /\ pack.msg \in Messages /\ DumpLen(pack.msg) \in Nat \ {0} /\ pack' = pack
  BY <1>1, PackIs DEF CodecIInv, pack
<1>4. Len(serialized) = DumpLen(pack.msg)
  BY <1>2, <1>3, BodyType
<1>5. encode_buf \in Seq(Cells)
  BY DEF CodecIInv, Types
<1> DEFINE n == DumpLen(pack.msg)
           missing == (WireSize + n) - Len(encode_buf)
<1>6. n \in Nat /\ Len(encode_buf) \in Nat /\ missing \in Int
  BY <1>3, <1>5 DEF WireSize
<1>7. LET m == (WireSize + Len(serialized)) - Len(encode_buf)
      IN  IF m <= 0 THEN pc' = "write" /\ UNCHANGED <<est, out_queue, encode_buf>>
          ELSE \/ /\ encode_buf' = Cat(encode_buf, Zeros(m))
                  /\ pc' = "write" /\ UNCHANGED <<est, out_queue>>
               \/ /\ UNCHANGED out_queue /\ UNCHANGED encode_buf
                  /\ est' = "error" /\ pc' = "return"
  BY ResizeIs
<1>8. IF missing <= 0 THEN pc' = "write" /\ est' = est /\ encode_buf' = encode_buf
      ELSE \/ encode_buf' = Cat(encode_buf, Zeros(missing)) /\ pc' = "write" /\ est' = est
           \/ encode_buf' = encode_buf /\ pc' = "return" /\ est' = "error"
  BY <1>4, <1>7
<1>9. \/ /\ pc' = "write" /\ est' = est /\ encode_buf' \in Seq(Cells)
         /\ WireSize + n <= Len(encode_buf')
      \/ pc' = "return" /\ est' = "error" /\ encode_buf' = encode_buf
  <2>1. CASE missing <= 0
    <3>1. pc' = "write" /\ est' = est /\ encode_buf' = encode_buf
      BY <1>8, <2>1
    <3>2. WireSize + n <= Len(encode_buf)
      BY <1>6, <2>1 DEF WireSize
    <3> QED
      BY <1>5, <3>1, <3>2
  <2>2. CASE ~ (missing <= 0)
    <3> DEFINE zeros == Zeros(missing)
    <3>1. Zero \in Cells
      BY DEF Zero, Cell, Cells
    <3>2. missing \in Nat /\ Len(encode_buf) + missing = WireSize + n
      BY <1>6, <2>2 DEF WireSize
    <3>3. zeros \in Seq(Cells) /\ Len(zeros) = missing
      <4> HIDE DEF missing
      <4>1. zeros \in [1..missing -> Cells]
        BY <3>1 DEF Zeros
      <4> QED
        BY <3>2, <4>1, SeqDef
    <3>4. \/ encode_buf' = Cat(encode_buf, zeros) /\ pc' = "write" /\ est' = est
          \/ encode_buf' = encode_buf /\ pc' = "return" /\ est' = "error"
      BY <1>8, <2>2
    <3> HIDE DEF zeros, missing, n
    <3>5. Cat(encode_buf, zeros) \in Seq(Cells) /\ Len(Cat(encode_buf, zeros)) = Len(encode_buf) + Len(zeros)
      BY <1>5, <3>3, CatIs
    <3>6. CASE encode_buf' = Cat(encode_buf, zeros) /\ pc' = "write" /\ est' = est
      <4>1. encode_buf' \in Seq(Cells) /\ Len(encode_buf') = WireSize + n
        BY <3>2, <3>3, <3>5, <3>6
      <4>2. WireSize + n <= Len(encode_buf')
        BY <1>6, <4>1 DEF WireSize
      <4> QED
        BY <3>6, <4>1, <4>2
    <3> QED
      BY <3>4, <3>6
  <2> QED
    BY <2>1, <2>2
<1> HIDE DEF missing
<1>10. Types'
  BY <1>1, <1>5, <1>9 DEF CodecIInv, Types
<1>11. Working'
  BY <1>1 DEF CodecIInv, Working
<1>12. Texted'
  BY <1>1, <1>2, <1>3, <1>9 DEF Texted
<1>13. Grown'
  BY <1>3, <1>9 DEF Grown
<1>14. Encoded' /\ Refused'
  BY <1>9 DEF Encoded, Refused
<1>15. FailureLeavesNoTrace'
  BY <1>1, <1>2, <1>3, <1>9 DEF FailureLeavesNoTrace
<1>16. Stream' /\ DroppedOnlyNearLimit'
  BY <1>1 DEF CodecIInv, Stream, DroppedOnlyNearLimit
<1> QED
  BY <1>10, <1>11, <1>12, <1>13, <1>14, <1>15, <1>16 DEF CodecIInv

LEMMA WriteKeeps ==
    ASSUME CodecIInv, Write
    PROVE  CodecIInv'
<1> DEFINE n == DumpLen(pack.msg)
           full == [pack EXCEPT !.body_len = n]
<1>1. /\ pc = "write" /\ pc' = "return" /\ est' = "ok"
      /\ UNCHANGED <<serialized, read_buf, before, unread, agree, dropped, frames>>
  BY DEF Write, Return
<1>2. serialized = body_serializer(pack.msg) /\ n <= MaxBody
  BY <1>1 DEF CodecIInv, Texted
<1>3. /\ pack \in Packs /\ pack.msg \in Messages /\ n \in Nat \ {0}
      /\ pack = out_queue[1] /\ Len(out_queue) \in Nat \ {0}
  BY <1>1, PackIs DEF CodecIInv
<1>4. serialized \in Seq(Cells) /\ Len(serialized) = n
  BY <1>2, <1>3, BodyType
<1>5. WireSize + n <= Len(encode_buf) /\ encode_buf \in Seq(Cells) /\ out_queue \in Seq(Packs)
  BY <1>1 DEF CodecIInv, Grown, Types
<1>6. full \in Sent /\ full.msg = pack.msg
  <2>1. pack \in [opcode : Ops, status : Statuses, body_len : 0..MaxBody, msg : Messages]
    BY <1>3 DEF Packs
  <2>2. n \in 0..MaxBody /\ n <= n + Slack(pack.opcode)
    BY <1>2, <1>3, LengthsAssumption DEF Slack
  <2> HIDE DEF n
  <2>3. /\ full \in [opcode : Ops, status : Statuses, body_len : 0..MaxBody, msg : Messages]
        /\ full.body_len = n /\ full.opcode = pack.opcode /\ full.msg = pack.msg
    BY <2>1, <2>2
  <2> HIDE DEF full
  <2>4. DumpLen(full.msg) = n
    BY <2>3 DEF n
  <2> QED
    BY <2>2, <2>3, <2>4 DEF Sent, Packs
<1>7. full \in Packs
  BY <1>6 DEF Sent
<1>8. /\ out_queue' = [out_queue EXCEPT ![1] = full] /\ out_len' = WireSize + n
      /\ encode_buf' = Overwritten(Overwritten(encode_buf, WireSize, serialized), 0, header(full))
  BY <1>4 DEF Write, BodyLenFor
<1> HIDE DEF n, full
<1>9. out_queue' \in Seq(Packs) /\ out_queue' # <<>> /\ pack' = full
  <2>1. 1 \in 1..Len(out_queue)
    BY <1>3
  <2>2. /\ out_queue' \in Seq(Packs) /\ Len(out_queue') = Len(out_queue)
        /\ out_queue'[1] = full
    BY <1>5, <1>7, <1>8, <2>1, ExceptSeq
  <2>3. out_queue' # <<>>
    BY <1>3, <2>2
  <2> QED
    BY <2>2, <2>3, TailIs DEF pack
<1>10. header(full) \in Seq(Cells) /\ Len(header(full)) = WireSize
  BY <1>7, HeaderType
<1>11. /\ encode_buf' \in Seq(Cells)
       /\ SubSeq(encode_buf', 1, WireSize + n) = Cat(header(full), serialized)
  <2>1. WireSize + Len(serialized) <= Len(encode_buf)
    BY <1>4, <1>5
  <2>2. LET new == Overwritten(Overwritten(encode_buf, WireSize, serialized), 0, header(full))
        IN  new \in Seq(Cells)
            /\ SubSeq(new, 1, WireSize + Len(serialized)) = Cat(header(full), serialized)
    BY <1>4, <1>5, <1>10, <2>1, WrittenOver
  <2> QED
    BY <1>4, <1>8, <2>2
<1>12. Encoded'
  <2>1. FrameOf(full) = Cat(header(full), serialized)
    BY <1>2, <1>6 DEF FrameOf
  <2>2. ValidPart' = FrameOf(full)
    BY <1>8, <1>11, <2>1 DEF ValidPart
  <2>3. FrameOf(pack)' = FrameOf(full)
    BY <1>9 DEF FrameOf, header, body_serializer
  <2> QED
    BY <1>6, <1>9, <2>2, <2>3 DEF Encoded
<1>13. Types' /\ Working'
  BY <1>1, <1>9, <1>11 DEF CodecIInv, Types, Working
<1>14. (Texted /\ Grown /\ Refused /\ FailureLeavesNoTrace)'
  BY <1>1 DEF Texted, Grown, Refused, FailureLeavesNoTrace
<1>15. Stream' /\ DroppedOnlyNearLimit'
  BY <1>1 DEF CodecIInv, Stream, DroppedOnlyNearLimit
<1> QED
  BY <1>12, <1>13, <1>14, <1>15 DEF CodecIInv

LEMMA SendKeeps ==
    ASSUME CodecIInv, Send
    PROVE  CodecIInv'
<1>1. /\ pc = "return" /\ pc' = "start" /\ out_queue' = Tail(out_queue)
      /\ UNCHANGED <<est, out_len, encode_buf, before, agree, frames>>
  BY DEF Send
<1>2. pack \in Packs /\ pack.msg \in Messages /\ DumpLen(pack.msg) \in Nat \ {0}
  BY <1>1, PackIs DEF CodecIInv
<1>3. out_queue' \in Seq(Packs)
  BY <1>1, TailIs DEF CodecIInv, Types, Working
<1>4. unread \in Seq(Sent) /\ Strung(read_buf, unread) /\ agree
  BY DEF CodecIInv, Types, Stream
<1>5. unread' \in Seq(Sent) /\ Strung(read_buf', unread')
  <2>1. CASE est = "ok"
    <3>1. pack \in Sent /\ ValidPart = FrameOf(pack)
      BY <1>1, <2>1 DEF CodecIInv, Encoded
    <3>2. read_buf' = Cat(read_buf, FrameOf(pack)) /\ unread' = Append(unread, pack)
      BY <2>1, <3>1, Zenon DEF Send, Cat
    <3>3. unread' \in Seq(Sent)
      BY <1>4, <3>1, <3>2
    <3>4. Strung(Cat(read_buf, FrameOf(pack)), Append(unread, pack))
      BY <1>4, <3>1, StrungAppend
    <3> QED
      BY <3>2, <3>3, <3>4
  <2>2. CASE est # "ok"
    BY <1>4, <2>2 DEF Send
  <2> QED
    BY <2>1, <2>2
<1>6. DroppedOnlyNearLimit'
  <2>1. CASE est = "frame_too_long"
    <3>1. dropped' = <<pack>>
      BY <2>1 DEF Send
    <3>2. DumpLen(pack.msg) > MaxBody
      BY <1>1, <2>1 DEF CodecIInv, Refused
    <3>3. DumpLen(pack.msg) <= pack.body_len + Slack(pack.opcode) /\ pack.body_len \in 0..MaxBody
      BY <1>2 DEF Packs
    <3>4. pack.body_len > MaxBody - (IF pack.opcode = "ack" THEN 7 ELSE 2)
      BY <1>2, <3>2, <3>3, LengthsAssumption DEF Slack
    <3>5. DOMAIN dropped' = {1} /\ dropped'[1] = pack
      BY <3>1
    <3> QED
      BY <3>4, <3>5 DEF DroppedOnlyNearLimit
  <2>2. CASE est # "frame_too_long"
    <3>1. dropped' = dropped
      BY <2>2 DEF Send
    <3> QED
      BY <3>1 DEF CodecIInv, DroppedOnlyNearLimit
  <2> QED
    BY <2>1, <2>2
<1>7. Types' /\ Stream'
  BY <1>1, <1>3, <1>4, <1>5 DEF CodecIInv, Types, Stream
<1>8. (Working /\ Texted /\ Grown /\ Encoded /\ Refused /\ FailureLeavesNoTrace)'
  BY <1>1 DEF Working, Texted, Grown, Encoded, Refused, FailureLeavesNoTrace
<1> QED
  BY <1>6, <1>7, <1>8 DEF CodecIInv

LEMMA PeerReadsKeeps ==
    ASSUME CodecIInv, PeerReads
    PROVE  CodecIInv'
<1>1. /\ decode(read_buf) = "ok" /\ unread' = Tail(unread)
      /\ read_buf' = SubSeq(read_buf, WireSize + BodyLen(read_buf) + 1, Len(read_buf))
      /\ agree' = (Pack(read_buf[1].value, read_buf[2].value, BodyLen(read_buf),
                        read_buf[WireSize + 1].value.of) = Head(unread))
      /\ UNCHANGED <<out_queue, pc, serialized, est, out_len, encode_buf, before, dropped, frames>>
  BY DEF PeerReads
<1>2. unread \in Seq(Sent) /\ Strung(read_buf, unread)
  BY DEF CodecIInv, Types, Stream
<1>3. unread # <<>>
  <2>1. SUFFICES ASSUME unread = <<>> PROVE FALSE
    OBVIOUS
  <2>2. read_buf = <<>>
    BY <1>2, <2>1, StrungHead
  <2>3. Len(read_buf) < WireSize
    BY <2>2 DEF WireSize
  <2> QED
    BY <1>1, <2>3 DEF decode
<1>4. PICK r \in Seq(Cells) : read_buf = Cat(FrameOf(unread[1]), r) /\ Strung(r, Tail(unread))
  BY <1>2, <1>3, StrungHead
<1>5. unread[1] \in Sent /\ Tail(unread) \in Seq(Sent) /\ Head(unread) = unread[1]
  BY <1>2, <1>3, TailIs
<1>6. /\ BodyLen(read_buf) = unread[1].body_len
      /\ Pack(read_buf[1].value, read_buf[2].value, unread[1].body_len,
              read_buf[WireSize + 1].value.of) = unread[1]
      /\ SubSeq(read_buf, WireSize + unread[1].body_len + 1, Len(read_buf)) = r
  BY <1>4, <1>5, ReadsFrame
<1>7. agree' /\ read_buf' = r
  BY <1>1, <1>5, <1>6
<1>8. Types' /\ Stream'
  BY <1>1, <1>4, <1>5, <1>7 DEF CodecIInv, Types, Stream
<1>9. pack' = pack /\ ValidPart' = ValidPart
  BY <1>1 DEF pack, ValidPart
<1>10. (Working /\ Texted /\ Grown /\ Encoded /\ Refused /\ FailureLeavesNoTrace
        /\ DroppedOnlyNearLimit)'
  BY <1>1, <1>9 DEF CodecIInv, Working, Texted, Grown, Encoded, Refused, FailureLeavesNoTrace,
     DroppedOnlyNearLimit
<1> QED
  BY <1>8, <1>10 DEF CodecIInv

(* The invariant the three properties rest on: at each step of encode(),   *)
(* what the buffer, the pack and the length are worth; and the frames sent *)
(* and not yet read, strung together in the receiver's buffer.             *)
THEOREM CodecInv == Spec => []CodecIInv
<1>1. ASSUME CodecIInv, [Next]_vars PROVE CodecIInv'
  <2>1. CASE Next
    BY <1>1, <2>1, HandleKeeps, SerializeKeeps, ResizeKeeps, WriteKeeps, SendKeeps, PeerReadsKeeps
    DEF Next
  <2>2. CASE UNCHANGED vars
    <3>1. pack' = pack /\ ValidPart' = ValidPart
      BY <2>2 DEF vars, pack, ValidPart
    <3> QED
      BY <1>1, <2>2, <3>1
      DEF vars, CodecIInv, Types, Working, Texted, Grown, Encoded, Refused, Stream,
          FailureLeavesNoTrace, DroppedOnlyNearLimit
  <2> QED
    BY <1>1, <2>1, <2>2
<1> QED
  BY <1>1, InitHolds, PTL DEF Spec

(* The receiver reads what was sent, frame by frame, and its decoder never *)
(* refuses one, whatever encode_buf_ held before (encoder.h:64-66).        *)
THEOREM ReceiverInSync == Spec => []StreamInSync
<1>1. ASSUME CodecIInv PROVE StreamInSync
  BY <1>1, StrungInSync DEF CodecIInv, Types, Stream, StreamInSync
<1> QED
  BY <1>1, CodecInv, PTL

(* What the decoder accepted is sent on unless its body was within two     *)
(* bytes of the limit, seven for an ack, for every limit and every number  *)
(* a body can have for an enum.                                            *)
THEOREM OnlyNearLimit == Spec => []DroppedOnlyNearLimit
<1>1. CodecIInv => DroppedOnlyNearLimit
  BY DEF CodecIInv
<1> QED
  BY <1>1, CodecInv, PTL

(* An encode() that fails leaves the buffer and the pack as they were and  *)
(* reports no length (encoder.h:67-69).                                    *)
THEOREM NoTrace == Spec => []FailureLeavesNoTrace
<1>1. CodecIInv => FailureLeavesNoTrace
  BY DEF CodecIInv
<1> QED
  BY <1>1, CodecInv, PTL
=============================================================================
