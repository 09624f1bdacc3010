--------------------------- MODULE FramingProofs ---------------------------
(***************************************************************************)
(* Proofs about Framing for any limits, bytes and meaning of a header.     *)
(* The bound of read_buf_ follows from where the thread is: what the drain *)
(* loop leaves is less than one frame (Residue), so it is below the soft   *)
(* cap when reading starts, and every further read starts below it too.    *)
(* That frames keep their order follows from what buffer and wire hold     *)
(* together: the items not handed over yet, one after the other, the last  *)
(* perhaps cut (InOrder).                                                  *)
(***************************************************************************)
EXTENDS Framing, SequenceTheorems, TLAPS

(* A read() is only started below the soft cap. *)
ReadsBelowCap == pc = "read" => Len(read_buf) < SoftCap

(* The connection goes back to waiting with less than a frame in read_buf_. *)
NothingLeftBehind == pc = "idle" => decode(read_buf) = "incomplete"

Inv == TypeOK /\ ReadBufferBounded /\ NothingLeftBehind /\ ReadsBelowCap

(* A complete header has a length. *)
LEMMA HeaderHasLength ==
    ASSUME NEW in \in Seq(Byte), Len(in) >= WireSize
    PROVE  BodyLen(Header(in)) \in Nat
<1>1. Header(in) \in Seq(Byte) /\ Len(Header(in)) = WireSize
  BY SubSeqProperties, LimitsAssumption DEF Header
<1>2. Header(in) \in [1..WireSize -> Byte]
  BY <1>1, LenProperties
<1> QED
  BY <1>2, BytesAssumption

(* What decode calls incomplete is shorter than the longest frame. *)
LEMMA Residue ==
    ASSUME NEW in \in Seq(Byte), decode(in) = "incomplete"
    PROVE  Len(in) < WireSize + MaxBody
<1> USE LimitsAssumption
<1>0. Len(in) \in Nat
  OBVIOUS
<1>1. CASE Len(in) < WireSize
  BY <1>0, <1>1
<1>2. CASE ~ (Len(in) < WireSize)
  <2>1. BodyLen(Header(in)) \in Nat
    BY <1>0, <1>2, HeaderHasLength
  <2>2. ~ (BodyLen(Header(in)) > MaxBody) /\ Len(in) < WireSize + BodyLen(Header(in))
    BY <1>2 DEF decode, FrameLen
  <2> QED
    BY <1>0, <2>1, <2>2
<1> QED
  BY <1>1, <1>2

(* What decode accepts is there, and within the limit. *)
LEMMA Accepted ==
    ASSUME NEW in \in Seq(Byte), decode(in) = "ok"
    PROVE  /\ FrameLen(in) \in WireSize..Len(in)
           /\ FrameLen(in) <= WireSize + MaxBody
<1> USE LimitsAssumption
<1>0. Len(in) \in Nat
  OBVIOUS
<1>1. ~ (Len(in) < WireSize) /\ ~ (BodyLen(Header(in)) > MaxBody) /\ ~ (Len(in) < FrameLen(in))
  BY DEF decode
<1>2. BodyLen(Header(in)) \in Nat
  BY <1>0, <1>1, HeaderHasLength
<1> QED
  BY <1>0, <1>1, <1>2 DEF FrameLen

LEMMA InitInv == Init => Inv
<1> SUFFICES ASSUME Init PROVE Inv
  OBVIOUS
<1> USE LimitsAssumption DEF Init
<1>0. <<>> \in Seq(Byte) /\ <<>> \in Seq(Item) /\ Len(<<>>) = 0
  OBVIOUS
<1>1. TypeOK
  <2>1. items \in Nat /\ 0 <= WireSize + MaxBody
    BY LimitsAssumption
  <2> QED
    BY <1>0, <2>1 DEF TypeOK
<1>2. ReadBufferBounded
  BY <1>0 DEF ReadBufferBounded
<1>3. NothingLeftBehind
  BY <1>0 DEF NothingLeftBehind, decode
<1> QED
  BY <1>1, <1>2, <1>3 DEF Inv, ReadsBelowCap

(* One read() keeps the invariant. *)
LEMMA ReadSomeInv == Inv /\ ReadSome => Inv'
<1> SUFFICES ASSUME Inv, ReadSome PROVE Inv'
  OBVIOUS
<1> USE LimitsAssumption
<1>1. PICK n \in 1..Len(net) :
         /\ n <= Chunk
         /\ read_buf' = read_buf \o SubSeq(net, 1, n)
         /\ net' = SubSeq(net, n + 1, Len(net))
  BY DEF ReadSome
<1>2. /\ SubSeq(net, 1, n) \in Seq(Byte) /\ Len(SubSeq(net, 1, n)) = n
      /\ net' \in Seq(Byte)
  <2>1. net \in Seq(Byte) /\ Len(net) \in Nat /\ \A i \in 1..Len(net) : net[i] \in Byte
    BY DEF Inv, TypeOK
  <2>2. SubSeq(net, 1, n) \in Seq(Byte) /\ Len(SubSeq(net, 1, n)) = n
    BY <2>1, SubSeqProperties
  <2>3. net' \in Seq(Byte)
    BY <1>1, <2>1, SubSeqProperties
  <2> QED
    BY <2>2, <2>3
<1>3. read_buf' \in Seq(Byte) /\ Len(read_buf') = Len(read_buf) + n
  BY <1>1, <1>2, ConcatProperties DEF Inv, TypeOK
<1>4. Len(read_buf) < SoftCap /\ Len(read_buf) \in Nat
  BY DEF Inv, TypeOK, ReadsBelowCap, ReadSome
<1>5. TypeOK'
  BY <1>2, <1>3 DEF Inv, TypeOK, ReadSome
<1>6. ReadBufferBounded'
  BY <1>1, <1>3, <1>4 DEF ReadBufferBounded
<1>7. NothingLeftBehind' /\ ReadsBelowCap'
  BY DEF ReadSome, NothingLeftBehind, ReadsBelowCap
<1> QED
  BY <1>5, <1>6, <1>7 DEF Inv

(* Handing over one frame keeps the invariant: the buffer gets shorter. *)
LEMMA DrainFrameInv == Inv /\ DrainFrame => Inv'
<1> SUFFICES ASSUME Inv, DrainFrame PROVE Inv'
  OBVIOUS
<1> USE LimitsAssumption
<1> DEFINE n == FrameLen(read_buf)
<1>1. n \in WireSize..Len(read_buf) /\ n <= WireSize + MaxBody
  BY Accepted DEF Inv, TypeOK, DrainFrame
<1>2. handed' = SubSeq(read_buf, 1, n) /\ read_buf' = SubSeq(read_buf, n + 1, Len(read_buf))
  BY DEF DrainFrame, Erase
<1> HIDE DEF n
<1>3. /\ handed' \in Seq(Byte) /\ Len(handed') = n
      /\ read_buf' \in Seq(Byte) /\ Len(read_buf') = Len(read_buf) - n
  <2>1. /\ read_buf \in Seq(Byte) /\ Len(read_buf) \in Nat /\ n \in Nat
        /\ \A i \in 1..Len(read_buf) : read_buf[i] \in Byte
    BY <1>1 DEF Inv, TypeOK
  <2>2. handed' \in Seq(Byte) /\ Len(handed') = n
    BY <1>1, <1>2, <2>1, SubSeqProperties
  <2>3. read_buf' \in Seq(Byte) /\ Len(read_buf') = Len(read_buf) - n
    BY <1>1, <1>2, <2>1, SubSeqProperties
  <2> QED
    BY <2>2, <2>3
<1>4. unhandled' \in Seq(Item)
  <2>1. unhandled \in Seq(Item) /\ unhandled' = SubSeq(unhandled, 2, Len(unhandled))
    BY DEF Inv, TypeOK, DrainFrame
  <2>2. CASE Len(unhandled) = 0
    BY <2>1, <2>2, SubSeqEmpty
  <2>3. CASE Len(unhandled) # 0
    BY <2>1, <2>3, SubSeqProperties
  <2> QED
    BY <2>2, <2>3
<1>5. TypeOK'
  BY <1>1, <1>3, <1>4 DEF Inv, TypeOK, DrainFrame
<1>6. ReadBufferBounded'
  BY <1>1, <1>3 DEF Inv, TypeOK, ReadBufferBounded
<1>7. NothingLeftBehind' /\ ReadsBelowCap'
  BY DEF DrainFrame, NothingLeftBehind, ReadsBelowCap
<1> QED
  BY <1>5, <1>6, <1>7 DEF Inv

LEMMA NextInv == Inv /\ [Next]_vars => Inv'
<1> SUFFICES ASSUME Inv, [Next]_vars PROVE Inv'
  OBVIOUS
<1> USE LimitsAssumption
<1> USE DEF Inv, TypeOK, ReadBufferBounded, NothingLeftBehind, ReadsBelowCap
<1>1. CASE Readable
  <2>1. Len(read_buf) < SoftCap
    BY <1>1, Residue, CapAssumption DEF Readable
  <2> QED
    BY <1>1, <2>1 DEF Readable
<1>2. CASE ReadSome
  BY <1>2, ReadSomeInv
<1>3. CASE ReadNothing
  BY <1>3 DEF ReadNothing
<1>4. CASE DrainFrame
  BY <1>4, DrainFrameInv
<1>5. CASE DrainRefuses
  BY <1>5 DEF DrainRefuses
<1>6. CASE DrainEnds
  BY <1>6 DEF DrainEnds, Drained
<1>7. CASE Doomed
  BY <1>7 DEF Doomed
<1>8. ASSUME NEW item \in Item, PeerSends(item) PROVE Inv'
  <2>1. item \in Seq(Byte)
    BY BytesAssumption
  <2>2. net' \in Seq(Byte) /\ unhandled' \in Seq(Item) /\ items' \in Nat
    BY <1>8, <2>1, ConcatProperties, AppendProperties DEF PeerSends
  <2> QED
    BY <1>8, <2>2 DEF PeerSends
<1>9. CASE PeerEnds
  <2>1. PICK n \in 0..Len(net) : net' = SubSeq(net, 1, n)
    BY <1>9 DEF PeerEnds
  <2>2. net' \in Seq(Byte)
    BY <2>1, SubSeqProperties
  <2> QED
    BY <1>9, <2>2 DEF PeerEnds
<1>10. CASE UNCHANGED vars
  BY <1>10 DEF vars
<1> QED
  BY <1>1, <1>2, <1>3, <1>4, <1>5, <1>6, <1>7, <1>8, <1>9, <1>10 DEF Next

(* Types are kept; a frame handed over is never longer than the limit. *)
THEOREM TypeCorrect == Spec => []TypeOK
  BY InitInv, NextInv, PTL DEF Spec, Inv

(* read_buf_ never holds more than the soft cap less one byte and one      *)
(* read: 69631 bytes with the limits of the code (core.cpp:177-181).       *)
THEOREM ReadBufferStaysBounded == Spec => []ReadBufferBounded
  BY InitInv, NextInv, PTL DEF Spec, Inv

-----------------------------------------------------------------------------
(* Frames in order.  What stands in the read buffer and on the wire spells *)
(* the items that were sent and not handed over yet, up to a place where   *)
(* the stream is cut, so the verdict of decode on the buffer is one on the *)
(* first of them.                                                          *)

(* ends[i] is where the i-th item of q ends when they are strung together. *)
Ends(q, ends) ==
    /\ ends[0] = 0
    /\ \A i \in 1..Len(q) : ends[i] = ends[i - 1] + Len(q[i])
    /\ \A i, j \in 0..Len(q) : i <= j => ends[i] <= ends[j]

Matches(q, ends, s) ==
    /\ Len(s) <= ends[Len(q)]
    /\ \A i \in 1..Len(q) : \A j \in 1..Len(q[i]) :
          ends[i - 1] + j <= Len(s) => s[ends[i - 1] + j] = q[i][j]

Spelled(q, s, all) ==
    \E ends \in [0..Len(q) -> Nat] :
        Ends(q, ends) /\ Matches(q, ends, s) /\ (all => Len(s) = ends[Len(q)])

(* While the peer goes on sending, nothing is cut off. *)
InOrder == Spelled(unhandled, read_buf \o net, ~ eof)

QInv == Inv /\ InOrder

LEMMA ItemsAreBytes ==
    ASSUME NEW q \in Seq(Item), NEW i \in 1..Len(q)
    PROVE  q[i] \in Item /\ q[i] \in Seq(Byte) /\ Len(q[i]) \in Nat
<1>1. q[i] \in Item
  OBVIOUS
<1>2. q[i] \in Seq(Byte)
  BY <1>1, BytesAssumption
<1> QED
  BY <1>1, <1>2

(* A place in an item is one in the stream. *)
LEMMA PlaceBefore ==
    ASSUME NEW start \in Nat, NEW len \in Nat, NEW j \in 1..len,
           NEW end \in Nat, start + len <= end, NEW k \in Nat
    PROVE  start + j <= end /\ start + j \in 1..end + k
OBVIOUS

LEMMA SpelledNothing == \A all : Spelled(<<>>, <<>>, all)
<1>1. Ends(<<>>, [i \in 0..0 |-> 0]) /\ Matches(<<>>, [i \in 0..0 |-> 0], <<>>)
  BY DEF Ends, Matches
<1>2. [i \in 0..0 |-> 0] \in [0..Len(<<>>) -> Nat] /\ [i \in 0..0 |-> 0][Len(<<>>)] = 0
  OBVIOUS
<1> QED
  BY <1>1, <1>2 DEF Spelled

(* A stream may be cut anywhere. *)
LEMMA SpelledCut ==
    ASSUME NEW q \in Seq(Item), NEW s \in Seq(Byte), NEW all, Spelled(q, s, all),
           NEW t \in Seq(Byte), Len(t) <= Len(s), \A i \in 1..Len(t) : t[i] = s[i]
    PROVE  Spelled(q, t, FALSE)
<1>1. PICK ends \in [0..Len(q) -> Nat] : Ends(q, ends) /\ Matches(q, ends, s)
  BY DEF Spelled
<1>2. Matches(q, ends, t)
  <2>1. Len(t) <= ends[Len(q)]
    BY <1>1 DEF Matches
  <2>2. ASSUME NEW i \in 1..Len(q), NEW j \in 1..Len(q[i]), ends[i - 1] + j <= Len(t)
        PROVE  t[ends[i - 1] + j] = q[i][j]
    <3>1. i - 1 \in 0..Len(q) /\ Len(q) \in Nat
      OBVIOUS
    <3>2. ends[i - 1] \in Nat /\ Len(q[i]) \in Nat
      BY <3>1, ItemsAreBytes
    <3>3. ends[i - 1] + j \in 1..Len(t) /\ ends[i - 1] + j <= Len(s)
      BY <2>2, <3>2
    <3>4. s[ends[i - 1] + j] = q[i][j]
      BY <1>1, <3>3 DEF Matches
    <3> QED
      BY <3>3, <3>4
  <2> QED
    BY <2>1, <2>2 DEF Matches
<1> QED
  BY <1>1, <1>2 DEF Spelled

(* The peer sends one item more. *)
LEMMA SpelledMore ==
    ASSUME NEW q \in Seq(Item), NEW s \in Seq(Byte), Spelled(q, s, TRUE), NEW item \in Item
    PROVE  Spelled(Append(q, item), s \o item, TRUE)
<1> DEFINE n == Len(q)
           r == Append(q, item)
<1>0. item \in Seq(Byte) /\ Len(item) \in Nat
  BY BytesAssumption
<1>1. PICK ends \in [0..n -> Nat] :
         Ends(q, ends) /\ Matches(q, ends, s) /\ Len(s) = ends[n]
  BY DEF Spelled
<1>2. /\ r \in Seq(Item) /\ Len(r) = n + 1 /\ n \in Nat
      /\ r[n + 1] = item /\ \A i \in 1..n : r[i] = q[i]
  BY AppendProperties
<1> DEFINE more == [i \in 0..n + 1 |-> IF i <= n THEN ends[i] ELSE ends[n] + Len(item)]
<1>3. /\ s \o item \in Seq(Byte) /\ Len(s \o item) = Len(s) + Len(item)
      /\ \A i \in 1..Len(s) + Len(item) :
            (s \o item)[i] = IF i <= Len(s) THEN s[i] ELSE item[i - Len(s)]
  BY <1>0, ConcatProperties
<1> HIDE DEF r
<1>4. more \in [0..Len(r) -> Nat] /\ more[n + 1] = ends[n] + Len(item)
      /\ \A i \in 0..n : more[i] = ends[i]
  BY <1>0, <1>1, <1>2
<1> HIDE DEF more, n
<1>5. Ends(r, more)
  <2>1. more[0] = 0
    BY <1>1, <1>2, <1>4 DEF Ends
  <2>2. ASSUME NEW i \in 1..Len(r) PROVE more[i] = more[i - 1] + Len(r[i])
    <3>1. CASE i = n + 1
      BY <1>2, <1>4, <3>1
    <3>2. CASE i # n + 1
      <4>1. i \in 1..n /\ i \in 0..n /\ i - 1 \in 0..n
        BY <1>2, <3>2
      <4>2. ends[i] = ends[i - 1] + Len(q[i])
        BY <1>1, <4>1 DEF Ends, n
      <4> QED
        BY <1>2, <1>4, <4>1, <4>2
    <3> QED
      BY <3>1, <3>2
  <2>3. ASSUME NEW i \in 0..Len(r), NEW j \in 0..Len(r), i <= j PROVE more[i] <= more[j]
    <3>1. CASE j = n + 1
      <4>1. CASE i = n + 1
        BY <1>0, <1>1, <1>2, <1>4, <3>1, <4>1
      <4>2. CASE i # n + 1
        <5>1. i \in 0..n /\ n \in 0..n
          BY <1>2, <4>2
        <5>2. ends[i] \in Nat /\ ends[n] \in Nat
          BY <1>1, <5>1
        <5>3. i <= n
          BY <1>2, <5>1
        <5>4. ends[i] <= ends[n]
          BY <1>1, <5>1, <5>3 DEF Ends, n
        <5> QED
          BY <1>0, <1>4, <3>1, <5>1, <5>2, <5>4
      <4> QED
        BY <4>1, <4>2
    <3>2. CASE j # n + 1
      <4>1. i \in 0..n /\ j \in 0..n
        BY <1>2, <2>3, <3>2
      <4>2. ends[i] <= ends[j]
        BY <1>1, <2>3, <4>1 DEF Ends, n
      <4> QED
        BY <1>4, <4>1, <4>2
    <3> QED
      BY <3>1, <3>2
  <2> QED
    BY <2>1, <2>2, <2>3 DEF Ends
<1>6. Len(s \o item) = more[Len(r)]
  BY <1>1, <1>2, <1>3, <1>4
<1>7. Matches(r, more, s \o item)
  <2>0. more[Len(r)] \in Nat
    BY <1>2, <1>4
  <2>1. Len(s \o item) <= more[Len(r)]
    BY <1>6, <2>0
  <2>2. ASSUME NEW i \in 1..Len(r), NEW j \in 1..Len(r[i])
        PROVE  (s \o item)[more[i - 1] + j] = r[i][j]
    <3>1. CASE i = n + 1
      <4>1. more[i - 1] = Len(s) /\ r[i] = item
        BY <1>1, <1>2, <1>4, <3>1
      <4>2. Len(s) + j \in 1..Len(s) + Len(item) /\ ~ (Len(s) + j <= Len(s)) /\ (Len(s) + j) - Len(s) = j
        BY <1>0, <4>1
      <4> QED
        BY <1>3, <4>1, <4>2
    <3>2. CASE i # n + 1
      <4>1. i \in 1..n /\ i \in 0..n /\ i - 1 \in 0..n /\ n \in 0..n
        BY <1>2, <3>2
      <4>2. r[i] = q[i] /\ more[i - 1] = ends[i - 1] /\ ends[i - 1] \in Nat /\ Len(q[i]) \in Nat
        BY <1>1, <1>2, <1>4, <4>1, ItemsAreBytes DEF n
      <4>3. ends[i] <= ends[n] /\ ends[i] = ends[i - 1] + Len(q[i])
        BY <1>1, <4>1 DEF Ends, n
      <4>4. ends[i - 1] + j <= Len(s) /\ ends[i - 1] + j \in 1..Len(s) + Len(item)
        <5>1. ends[i] \in Nat /\ ends[n] \in Nat /\ j \in 1..Len(q[i])
          BY <1>1, <4>1, <4>2
        <5>2. Len(s) = ends[n]
          BY <1>1
        <5>3. ends[i - 1] + Len(q[i]) <= Len(s) /\ Len(s) \in Nat
          BY <4>3, <5>2
        <5> QED
          BY <1>0, <4>2, <5>1, <5>3, PlaceBefore
      <4>5. s[ends[i - 1] + j] = q[i][j]
        BY <1>1, <4>1, <4>2, <4>4 DEF Matches, n
      <4> QED
        BY <1>3, <4>2, <4>4, <4>5
    <3> QED
      BY <3>1, <3>2
  <2> QED
    BY <2>1, <2>2 DEF Matches
<1> QED
  BY <1>2, <1>4, <1>5, <1>6, <1>7 DEF Spelled, r

(* A stream starts with the first item. *)
LEMMA SpelledHead ==
    ASSUME NEW q \in Seq(Item), NEW s \in Seq(Byte), NEW all, Spelled(q, s, all), Len(s) > 0
    PROVE  /\ q # <<>> /\ Len(q) >= 1
           /\ \A j \in 1..Len(q[1]) : j <= Len(s) => s[j] = q[1][j]
<1>1. PICK ends \in [0..Len(q) -> Nat] : Ends(q, ends) /\ Matches(q, ends, s)
  BY DEF Spelled
<1>2. Len(q) >= 1
  <2> SUFFICES ASSUME Len(q) = 0 PROVE FALSE
    OBVIOUS
  <2> QED
    BY <1>1 DEF Ends, Matches
<1>3. 1 \in 1..Len(q) /\ ends[1 - 1] = 0
  BY <1>1, <1>2 DEF Ends
<1>4. Len(q[1]) \in Nat
  BY <1>3, ItemsAreBytes
<1>5. ASSUME NEW j \in 1..Len(q[1]), j <= Len(s) PROVE s[j] = q[1][j]
  <2>1. ends[1 - 1] + j = j
    BY <1>3, <1>4
  <2> QED
    BY <1>1, <1>3, <1>5, <2>1 DEF Matches
<1> QED
  BY <1>2, <1>5

(* t is s without the first m of its bytes. *)
Behind(t, s, m) ==
    Len(t) = Len(s) - m /\ \A i \in 1..Len(t) : t[i] = s[m + i]

(* Without it the stream spells the others. *)
LEMMA SpelledRest ==
    ASSUME NEW q \in Seq(Item), NEW s \in Seq(Byte), NEW all, Spelled(q, s, all),
           q # <<>>, NEW m \in Nat, m = Len(q[1]), m <= Len(s),
           NEW t \in Seq(Byte), Behind(t, s, m)
    PROVE  Spelled(Tail(q), t, all)
<1> DEFINE r == Tail(q)
<1>1. PICK ends \in [0..Len(q) -> Nat] :
         Ends(q, ends) /\ Matches(q, ends, s) /\ (all => Len(s) = ends[Len(q)])
  BY DEF Spelled
<1>2. /\ r \in Seq(Item) /\ Len(r) = Len(q) - 1 /\ Len(q) \in Nat /\ Len(q) >= 1
      /\ \A i \in 1..Len(r) : r[i] = q[i + 1]
  BY HeadTailProperties
<1>3. m = ends[1]
  <2>1. 1 \in 1..Len(q) /\ 1 - 1 = 0
    BY <1>2
  <2>2. ends[1] = ends[0] + Len(q[1]) /\ ends[0] = 0
    BY <1>1, <2>1 DEF Ends
  <2> QED
    BY <2>2
<1> DEFINE less == [i \in 0..Len(r) |-> ends[i + 1] - m]
<1> HIDE DEF r
<1>4. \A i \in 0..Len(r) : i + 1 \in 0..Len(q) /\ ends[i + 1] \in Nat /\ ends[i + 1] >= m
  <2> SUFFICES ASSUME NEW i \in 0..Len(r)
               PROVE  i + 1 \in 0..Len(q) /\ ends[i + 1] \in Nat /\ ends[i + 1] >= m
    OBVIOUS
  <2>1. i + 1 \in 0..Len(q) /\ 1 \in 0..Len(q) /\ 1 <= i + 1
    BY <1>2
  <2>2. ends[1] <= ends[i + 1] /\ ends[i + 1] \in Nat
    BY <1>1, <2>1 DEF Ends
  <2> QED
    BY <1>3, <2>1, <2>2
<1>5. less \in [0..Len(r) -> Nat] /\ \A i \in 0..Len(r) : less[i] = ends[i + 1] - m
  BY <1>3, <1>4
<1> HIDE DEF less
<1>6. Ends(r, less)
  <2>1. less[0] = 0
    <3>1. 0 \in 0..Len(r) /\ 0 + 1 = 1
      BY <1>2
    <3> QED
      BY <1>3, <1>5, <3>1
  <2>2. ASSUME NEW i \in 1..Len(r) PROVE less[i] = less[i - 1] + Len(r[i])
    <3>1. i \in 0..Len(r) /\ i - 1 \in 0..Len(r) /\ i + 1 \in 1..Len(q) /\ (i + 1) - 1 = i /\ (i - 1) + 1 = i
      BY <1>2
    <3>2. ends[i + 1] = ends[i] + Len(q[i + 1])
      BY <1>1, <3>1 DEF Ends
    <3>3. r[i] = q[i + 1] /\ Len(q[i + 1]) \in Nat /\ ends[i] \in Nat
      <4>1. r[i] = q[i + 1]
        BY <1>2
      <4>2. Len(q[i + 1]) \in Nat
        BY <3>1, ItemsAreBytes
      <4>3. i \in 0..Len(q)
        BY <1>2
      <4> QED
        BY <1>1, <4>1, <4>2, <4>3
    <3>4. less[i] = ends[i + 1] - m /\ less[i - 1] = ends[i] - m
      BY <1>5, <3>1
    <3> QED
      BY <1>3, <3>2, <3>3, <3>4
  <2>3. ASSUME NEW i \in 0..Len(r), NEW j \in 0..Len(r), i <= j PROVE less[i] <= less[j]
    <3>1. i + 1 \in 0..Len(q) /\ j + 1 \in 0..Len(q) /\ i + 1 <= j + 1
      BY <1>2, <2>3
    <3>2. ends[i + 1] <= ends[j + 1] /\ ends[i + 1] \in Nat /\ ends[j + 1] \in Nat
      BY <1>1, <3>1 DEF Ends
    <3> QED
      BY <1>3, <1>5, <3>2
  <2> QED
    BY <2>1, <2>2, <2>3 DEF Ends
<1>7. Len(r) \in 0..Len(r) /\ less[Len(r)] = ends[Len(q)] - m /\ ends[Len(q)] \in Nat
  BY <1>1, <1>2, <1>5
<1>8. Len(t) = Len(s) - m /\ Len(s) \in Nat /\ \A i \in 1..Len(t) : t[i] = s[m + i]
  BY DEF Behind
<1>9. Matches(r, less, t)
  <2>1. Len(t) <= less[Len(r)]
    <3>1. Len(s) <= ends[Len(q)]
      BY <1>1 DEF Matches
    <3> QED
      BY <1>3, <1>7, <1>8, <3>1
  <2>2. ASSUME NEW i \in 1..Len(r), NEW j \in 1..Len(r[i]), less[i - 1] + j <= Len(t)
        PROVE  t[less[i - 1] + j] = r[i][j]
    <3>0. i \in Nat /\ i >= 1 /\ i <= Len(r) /\ Len(r) = Len(q) - 1 /\ Len(q) \in Nat
      BY <1>2
    <3>1. i + 1 \in 1..Len(q) /\ i - 1 \in 0..Len(r) /\ (i + 1) - 1 = i /\ (i - 1) + 1 = i /\ i \in 0..Len(q)
      BY <3>0
    <3>2. r[i] = q[i + 1] /\ Len(q[i + 1]) \in Nat /\ ends[i] \in Nat
      <4>1. r[i] = q[i + 1]
        BY <1>2
      <4>2. Len(q[i + 1]) \in Nat
        BY <3>1, ItemsAreBytes
      <4> QED
        BY <1>1, <3>1, <4>1, <4>2
    <3>3. less[i - 1] = ends[i] - m /\ less[i - 1] \in Nat
      BY <1>5, <3>1
    <3>4. /\ less[i - 1] + j \in 1..Len(t) /\ m + (less[i - 1] + j) = ends[i] + j
          /\ ends[i] + j <= Len(s) /\ j \in 1..Len(q[i + 1])
      <4>1. j \in 1..Len(q[i + 1])
        BY <3>2
      <4>2. less[i - 1] + j <= Len(t) /\ Len(t) = Len(s) - m /\ Len(s) \in Nat /\ m \in Nat
        BY <1>3, <1>8, <2>2
      <4>3. PICK moved \in Nat : moved = less[i - 1]
        BY <3>3
      <4>4. PICK start \in Nat : start = ends[i]
        BY <3>2
      <4>5. moved = start - m /\ moved + j <= Len(t)
        BY <3>3, <4>2, <4>3, <4>4
      <4>6. j \in Nat /\ j >= 1
        BY <3>2, <4>1
      <4>7. moved + j \in 1..Len(t) /\ m + (moved + j) = start + j /\ start + j <= Len(s)
        BY <4>2, <4>5, <4>6
      <4> QED
        BY <4>1, <4>3, <4>4, <4>7
    <3>5. s[ends[i] + j] = q[i + 1][j]
      BY <1>1, <3>1, <3>4 DEF Matches
    <3> QED
      BY <1>8, <3>2, <3>4, <3>5
  <2> QED
    BY <2>1, <2>2 DEF Matches
<1>10. all => Len(t) = less[Len(r)]
  BY <1>1, <1>7, <1>8
<1> QED
  BY <1>5, <1>6, <1>9, <1>10 DEF Spelled, r

(* decode judges a buffer that starts with an item as it judges the item. *)
LEMMA SameVerdict ==
    ASSUME NEW x \in Item, NEW b \in Seq(Byte),
           \A j \in 1..Len(x) : j <= Len(b) => b[j] = x[j],
           decode(b) # "incomplete"
    PROVE  /\ decode(b) = "ok" =>
                x \in Frame /\ FrameLen(b) = Len(x) /\ SubSeq(b, 1, FrameLen(b)) = x
           /\ decode(b) # "ok" => x \notin Frame
<1> USE LimitsAssumption
<1>0. x \in Seq(Byte) /\ Len(x) \in Nat /\ Len(b) \in Nat /\ WireSize \in Nat \ {0}
  BY BytesAssumption
<1>1. decode(x) # "incomplete" /\ (decode(x) = "ok" => Len(x) = FrameLen(x))
  BY ItemsAssumption
<1>2. Len(b) >= WireSize /\ Len(x) >= WireSize
  BY <1>0, <1>1 DEF decode
<1>3. Header(b) = Header(x)
  <2>1. Header(b) \in Seq(Byte) /\ Len(Header(b)) = WireSize
        /\ \A i \in 1..WireSize : Header(b)[i] = b[i]
    BY <1>0, <1>2, SubSeqProperties DEF Header
  <2>2. Header(x) \in Seq(Byte) /\ Len(Header(x)) = WireSize
        /\ \A i \in 1..WireSize : Header(x)[i] = x[i]
    BY <1>0, <1>2, SubSeqProperties DEF Header
  <2>3. \A i \in 1..WireSize : b[i] = x[i]
    BY <1>0, <1>2
  <2> QED
    BY <2>1, <2>2, <2>3, SeqEqual
<1>4. FrameLen(b) = FrameLen(x) /\ BodyLen(Header(x)) \in Nat
  BY <1>0, <1>2, <1>3, HeaderHasLength DEF FrameLen
<1>5. FrameLen(x) \in Nat /\ FrameLen(x) >= WireSize
  BY <1>0, <1>4 DEF FrameLen
<1>6. ASSUME Len(b) >= FrameLen(x), Len(x) >= FrameLen(x) PROVE Body(b) = Body(x)
  <2> DEFINE k == FrameLen(x)
  <2>1. Body(b) = SubSeq(b, WireSize + 1, k) /\ Body(x) = SubSeq(x, WireSize + 1, k)
    BY <1>4 DEF Body
  <2>2. k \in Nat /\ k >= WireSize /\ k <= Len(b) /\ k <= Len(x)
    BY <1>5, <1>6
  <2> HIDE DEF k
  <2>3. /\ Body(b) \in Seq(Byte) /\ Len(Body(b)) = k - WireSize
        /\ \A i \in 1..k - WireSize : Body(b)[i] = b[WireSize + i]
    <3>1. \A i \in WireSize + 1..k : b[i] \in Byte
      BY <1>0, <2>2
    <3>2. /\ SubSeq(b, WireSize + 1, k) \in Seq(Byte)
          /\ Len(SubSeq(b, WireSize + 1, k)) =
                IF WireSize + 1 <= k THEN k - (WireSize + 1) + 1 ELSE 0
          /\ \A i \in 1..k - (WireSize + 1) + 1 :
                SubSeq(b, WireSize + 1, k)[i] = b[WireSize + 1 + i - 1]
      BY <1>0, <2>2, <3>1, SubSeqProperties
    <3> QED
      BY <1>0, <2>1, <2>2, <3>2
  <2>4. /\ Body(x) \in Seq(Byte) /\ Len(Body(x)) = k - WireSize
        /\ \A i \in 1..k - WireSize : Body(x)[i] = x[WireSize + i]
    <3>1. \A i \in WireSize + 1..k : x[i] \in Byte
      BY <1>0, <2>2
    <3>2. /\ SubSeq(x, WireSize + 1, k) \in Seq(Byte)
          /\ Len(SubSeq(x, WireSize + 1, k)) =
                IF WireSize + 1 <= k THEN k - (WireSize + 1) + 1 ELSE 0
          /\ \A i \in 1..k - (WireSize + 1) + 1 :
                SubSeq(x, WireSize + 1, k)[i] = x[WireSize + 1 + i - 1]
      BY <1>0, <2>2, <3>1, SubSeqProperties
    <3> QED
      BY <1>0, <2>1, <2>2, <3>2
  <2>5. \A i \in 1..k - WireSize : b[WireSize + i] = x[WireSize + i]
    BY <1>0, <2>2
  <2> QED
    BY <2>3, <2>4, <2>5, SeqEqual
<1>7. ASSUME decode(b) = "ok"
      PROVE  x \in Frame /\ FrameLen(b) = Len(x) /\ SubSeq(b, 1, FrameLen(b)) = x
  <2>1. /\ Known(Header(x)) /\ ~ (BodyLen(Header(x)) > MaxBody)
        /\ ~ (Len(b) < FrameLen(x)) /\ Parses(Body(b))
    BY <1>3, <1>4, <1>7 DEF decode
  <2>2. decode(x) = "ok"
    <3>1. ~ (Len(x) < FrameLen(x))
      BY <1>1, <1>2, <2>1, <1>0 DEF decode
    <3>2. Parses(Body(x))
      BY <1>0, <1>5, <1>6, <2>1, <3>1
    <3> QED
      BY <1>0, <1>2, <2>1, <3>1, <3>2 DEF decode
  <2>3. FrameLen(b) = Len(x) /\ x \in Frame
    BY <1>1, <1>4, <2>2 DEF Frame
  <2>4. Len(x) <= Len(b)
    BY <1>0, <1>4, <2>1, <2>3
  <2>5. /\ SubSeq(b, 1, Len(x)) \in Seq(Byte) /\ Len(SubSeq(b, 1, Len(x))) = Len(x)
        /\ \A i \in 1..Len(x) : SubSeq(b, 1, Len(x))[i] = b[i]
    <3>1. \A i \in 1..Len(x) : b[i] \in Byte
      BY <1>0, <2>4
    <3> QED
      BY <1>0, <3>1, SubSeqProperties
  <2>6. \A i \in 1..Len(x) : b[i] = x[i]
    BY <1>0, <2>4
  <2>7. SubSeq(b, 1, Len(x)) = x
    BY <1>0, <2>5, <2>6, SeqEqual
  <2> QED
    BY <2>3, <2>7
<1>8. ASSUME decode(b) # "ok", x \in Frame PROVE FALSE
  <2>1. decode(x) = "ok" /\ Len(x) = FrameLen(x)
    BY <1>8 DEF Frame
  <2>2. Known(Header(x)) /\ ~ (BodyLen(Header(x)) > MaxBody) /\ Parses(Body(x))
    BY <2>1 DEF decode
  <2>3. ~ (Len(b) < FrameLen(x)) /\ ~ Parses(Body(b))
    BY <1>0, <1>2, <1>3, <1>4, <1>8, <2>2 DEF decode
  <2>4. Body(b) = Body(x)
    BY <1>0, <1>5, <1>6, <2>1, <2>3
  <2> QED
    BY <2>2, <2>3, <2>4
<1> QED
  BY <1>7, <1>8

LEMMA InitInOrder == Init => InOrder
<1> SUFFICES ASSUME Init PROVE InOrder
  OBVIOUS
<1>1. <<>> \o <<>> = <<>>
  OBVIOUS
<1> QED
  BY <1>1, SpelledNothing DEF Init, InOrder

(* What decode says of the read buffer is true of the first item. *)
LEMMA FirstItem ==
    ASSUME QInv, decode(read_buf) # "incomplete"
    PROVE  /\ unhandled # <<>> /\ Len(unhandled) >= 1
           /\ unhandled[1] \in Item /\ unhandled[1] \in Seq(Byte) /\ Head(unhandled) = unhandled[1]
           /\ decode(read_buf) = "ok" =>
                /\ unhandled[1] \in Frame
                /\ FrameLen(read_buf) = Len(unhandled[1])
                /\ SubSeq(read_buf, 1, FrameLen(read_buf)) = unhandled[1]
           /\ decode(read_buf) # "ok" => unhandled[1] \notin Frame
<1> DEFINE s == read_buf \o net
<1>1. read_buf \in Seq(Byte) /\ net \in Seq(Byte) /\ unhandled \in Seq(Item)
  BY DEF QInv, Inv, TypeOK
<1>2. /\ s \in Seq(Byte) /\ Len(s) = Len(read_buf) + Len(net)
      /\ \A i \in 1..Len(read_buf) + Len(net) :
            s[i] = IF i <= Len(read_buf) THEN read_buf[i] ELSE net[i - Len(read_buf)]
  BY <1>1, ConcatProperties
<1>3. Spelled(unhandled, s, ~ eof)
  BY DEF QInv, InOrder
<1> HIDE DEF s
<1>4. Len(read_buf) > 0 /\ Len(read_buf) \in Nat /\ Len(net) \in Nat
  BY <1>1, LimitsAssumption DEF decode
<1>5. /\ unhandled # <<>> /\ Len(unhandled) >= 1
      /\ \A j \in 1..Len(unhandled[1]) : j <= Len(s) => s[j] = unhandled[1][j]
  BY <1>1, <1>2, <1>3, <1>4, SpelledHead, SMTT(20)
<1>6. 1 \in 1..Len(unhandled)
  BY <1>1, <1>5
<1>7. unhandled[1] \in Item /\ unhandled[1] \in Seq(Byte) /\ Len(unhandled[1]) \in Nat
  BY <1>1, <1>6, ItemsAreBytes
<1>8. \A j \in 1..Len(unhandled[1]) : j <= Len(read_buf) => read_buf[j] = unhandled[1][j]
  <2> SUFFICES ASSUME NEW j \in 1..Len(unhandled[1]), j <= Len(read_buf)
               PROVE  read_buf[j] = unhandled[1][j]
    OBVIOUS
  <2>1. j \in 1..Len(read_buf) + Len(net)
    BY <1>4, <1>7
  <2>2. s[j] = read_buf[j]
    BY <1>2, <2>1
  <2>3. j <= Len(s)
    BY <1>2, <2>1
  <2> QED
    BY <1>5, <2>2, <2>3
<1>9. Head(unhandled) = unhandled[1]
  BY <1>1, <1>5
<1> QED
  BY <1>1, <1>5, <1>7, <1>8, <1>9, SameVerdict

(* Appending is associative. *)
LEMMA Appended ==
    ASSUME NEW r \in Seq(Byte), NEW a \in Seq(Byte), NEW b \in Seq(Byte)
    PROVE  (r \o a) \o b = r \o (a \o b)
  BY ConcatAssociative

LEMMA ReadSomeInOrder == QInv /\ ReadSome => InOrder'
<1> SUFFICES ASSUME QInv, ReadSome PROVE InOrder'
  OBVIOUS
<1>1. PICK n \in 1..Len(net) :
         /\ read_buf' = read_buf \o SubSeq(net, 1, n)
         /\ net' = SubSeq(net, n + 1, Len(net))
  BY DEF ReadSome
<1>2. read_buf \in Seq(Byte) /\ net \in Seq(Byte) /\ Len(net) \in Nat
  BY DEF QInv, Inv, TypeOK
<1>3. SubSeq(net, 1, n) \o SubSeq(net, n + 1, Len(net)) = net
  <2>1. 1 \in 1..Len(net) + 1 /\ n \in 1 - 1..Len(net) /\ Len(net) \in n..Len(net)
    BY <1>2
  <2>2. SubSeq(net, 1, n) \o SubSeq(net, n + 1, Len(net)) = SubSeq(net, 1, Len(net))
    BY <1>2, <2>1, ConcatAdjacentSubSeq
  <2> QED
    BY <1>2, <2>2, SubSeqFull
<1>4. SubSeq(net, 1, n) \in Seq(Byte) /\ SubSeq(net, n + 1, Len(net)) \in Seq(Byte)
  <2>1. \A i \in 1..Len(net) : net[i] \in Byte
    BY <1>2
  <2> QED
    BY <1>2, <2>1, SubSeqProperties
<1>5. read_buf' \o net' = read_buf \o net
  <2>1. (read_buf \o SubSeq(net, 1, n)) \o SubSeq(net, n + 1, Len(net))
        = read_buf \o (SubSeq(net, 1, n) \o SubSeq(net, n + 1, Len(net)))
    BY <1>2, <1>4, Appended, Zenon
  <2> QED
    BY <1>1, <1>3, <2>1, Zenon
<1>6. UNCHANGED <<unhandled, eof>>
  BY DEF ReadSome
<1> QED
  BY <1>5, <1>6 DEF QInv, InOrder

LEMMA DrainFrameInOrder == QInv /\ DrainFrame => InOrder'
<1> SUFFICES ASSUME QInv, DrainFrame PROVE InOrder'
  OBVIOUS
<1> DEFINE s == read_buf \o net
           t == read_buf' \o net
           m == Len(unhandled[1])
<1>1. /\ decode(read_buf) = "ok" /\ net' = net /\ eof' = eof
      /\ read_buf' = SubSeq(read_buf, FrameLen(read_buf) + 1, Len(read_buf))
      /\ unhandled' = SubSeq(unhandled, 2, Len(unhandled))
  BY DEF DrainFrame, Erase
<1>2. read_buf \in Seq(Byte) /\ net \in Seq(Byte) /\ unhandled \in Seq(Item)
      /\ Len(read_buf) \in Nat /\ Len(net) \in Nat
  BY DEF QInv, Inv, TypeOK
<1>3. unhandled # <<>> /\ FrameLen(read_buf) = m
  BY <1>1, FirstItem
<1>4. m \in Nat /\ m <= Len(read_buf)
  BY <1>1, <1>2, <1>3, Accepted, LimitsAssumption
<1>5. unhandled' = Tail(unhandled)
  BY <1>1, <1>2, <1>3, TailIsSubSeq
<1> HIDE DEF m
<1>6. /\ read_buf' \in Seq(Byte) /\ Len(read_buf') = Len(read_buf) - m
      /\ \A i \in 1..Len(read_buf) - m : read_buf'[i] = read_buf[m + i]
  <2>1. read_buf' = SubSeq(read_buf, m + 1, Len(read_buf))
    BY <1>1, <1>3
  <2>2. \A i \in m + 1..Len(read_buf) : read_buf[i] \in Byte
    BY <1>2, <1>4
  <2>3. /\ SubSeq(read_buf, m + 1, Len(read_buf)) \in Seq(Byte)
        /\ Len(SubSeq(read_buf, m + 1, Len(read_buf))) =
              IF m + 1 <= Len(read_buf) THEN Len(read_buf) - (m + 1) + 1 ELSE 0
        /\ \A i \in 1..Len(read_buf) - (m + 1) + 1 :
              SubSeq(read_buf, m + 1, Len(read_buf))[i] = read_buf[m + 1 + i - 1]
    BY <1>2, <1>4, <2>2, SubSeqProperties
  <2> QED
    BY <1>2, <1>4, <2>1, <2>3
<1>7. /\ s \in Seq(Byte) /\ Len(s) = Len(read_buf) + Len(net)
      /\ \A i \in 1..Len(read_buf) + Len(net) :
            s[i] = IF i <= Len(read_buf) THEN read_buf[i] ELSE net[i - Len(read_buf)]
  BY <1>2, ConcatProperties
<1>8. /\ t \in Seq(Byte) /\ Len(t) = Len(read_buf') + Len(net)
      /\ \A i \in 1..Len(read_buf') + Len(net) :
            t[i] = IF i <= Len(read_buf') THEN read_buf'[i] ELSE net[i - Len(read_buf')]
  BY <1>2, <1>6, ConcatProperties
<1>9. Spelled(unhandled, s, ~ eof)
  BY DEF QInv, InOrder
<1>10. t = read_buf' \o net'
  BY <1>1
<1> HIDE DEF s, t
<1>11. Behind(t, s, m)
  <2>1. Len(t) = Len(s) - m
    BY <1>2, <1>4, <1>6, <1>7, <1>8
  <2>2. ASSUME NEW i \in 1..Len(t) PROVE t[i] = s[m + i]
    <3>1. i \in Nat /\ i >= 1 /\ i <= Len(read_buf) - m + Len(net)
          /\ i \in 1..Len(read_buf') + Len(net)
      BY <1>2, <1>4, <1>6, <1>8
    <3>2. m + i \in 1..Len(read_buf) + Len(net)
      BY <1>2, <1>4, <3>1
    <3>3. CASE i <= Len(read_buf')
      <4>1. i \in 1..Len(read_buf) - m /\ m + i <= Len(read_buf)
        BY <1>2, <1>4, <1>6, <3>1, <3>3
      <4> QED
        BY <1>6, <1>7, <1>8, <3>1, <3>2, <3>3, <4>1
    <3>4. CASE ~ (i <= Len(read_buf'))
      <4>1. ~ (m + i <= Len(read_buf)) /\ (m + i) - Len(read_buf) = i - Len(read_buf')
        BY <1>2, <1>4, <1>6, <3>1, <3>4
      <4> QED
        BY <1>7, <1>8, <3>1, <3>2, <3>4, <4>1
    <3> QED
      BY <3>3, <3>4
  <2> QED
    BY <2>1, <2>2 DEF Behind
<1>12. m = Len(unhandled[1]) /\ m <= Len(s)
  BY <1>2, <1>4, <1>7 DEF m
<1>13. Spelled(Tail(unhandled), t, ~ eof)
  BY <1>2, <1>3, <1>4, <1>7, <1>8, <1>9, <1>11, <1>12, SpelledRest
<1> QED
  BY <1>1, <1>5, <1>10, <1>13 DEF InOrder

LEMMA NextInOrder == QInv /\ [Next]_vars => InOrder'
<1> SUFFICES ASSUME QInv, [Next]_vars PROVE InOrder'
  OBVIOUS
<1>0. read_buf \in Seq(Byte) /\ net \in Seq(Byte) /\ unhandled \in Seq(Item)
  BY DEF QInv, Inv, TypeOK
<1>1. CASE UNCHANGED <<read_buf, net, unhandled, eof>>
  BY <1>1 DEF QInv, InOrder
<1>2. CASE ReadSome
  BY <1>2, ReadSomeInOrder
<1>3. CASE DrainFrame
  BY <1>3, DrainFrameInOrder
<1>4. ASSUME NEW item \in Item, PeerSends(item) PROVE InOrder'
  <2>1. item \in Seq(Byte)
    BY BytesAssumption
  <2>2. /\ ~ eof /\ ~ eof' /\ read_buf' = read_buf /\ net' = net \o item
        /\ unhandled' = Append(unhandled, item)
    BY <1>4 DEF PeerSends
  <2>3. read_buf' \o net' = (read_buf \o net) \o item
    <3>1. (read_buf \o net) \o item = read_buf \o (net \o item)
      BY <1>0, <2>1, Appended, Zenon
    <3> QED
      BY <2>2, <3>1, Zenon
  <2>4. Spelled(unhandled, read_buf \o net, TRUE)
    BY <2>2 DEF QInv, InOrder, Spelled
  <2>5. read_buf \o net \in Seq(Byte)
    BY <1>0, ConcatProperties
  <2>6. Spelled(Append(unhandled, item), (read_buf \o net) \o item, TRUE)
    BY <1>0, <2>4, <2>5, SpelledMore
  <2> QED
    BY <2>2, <2>3, <2>6 DEF InOrder, Spelled
<1>5. CASE PeerEnds
  <2>1. PICK n \in 0..Len(net) : net' = SubSeq(net, 1, n)
    BY <1>5 DEF PeerEnds
  <2>2. eof' = TRUE /\ read_buf' = read_buf /\ unhandled' = unhandled
    BY <1>5 DEF PeerEnds
  <2>3. Len(net) \in Nat /\ Len(read_buf) \in Nat /\ n \in Nat /\ n <= Len(net)
    BY <1>0
  <2>4. /\ net' \in Seq(Byte) /\ Len(net') = n /\ \A i \in 1..n : net'[i] = net[i]
    <3>1. \A i \in 1..n : net[i] \in Byte
      BY <1>0, <2>3
    <3> QED
      BY <2>1, <2>3, <3>1, SubSeqProperties
  <2>5. /\ read_buf \o net \in Seq(Byte) /\ Len(read_buf \o net) = Len(read_buf) + Len(net)
        /\ \A i \in 1..Len(read_buf) + Len(net) : (read_buf \o net)[i] =
              IF i <= Len(read_buf) THEN read_buf[i] ELSE net[i - Len(read_buf)]
    BY <1>0, ConcatProperties
  <2>6. /\ read_buf \o net' \in Seq(Byte) /\ Len(read_buf \o net') = Len(read_buf) + n
        /\ \A i \in 1..Len(read_buf) + n : (read_buf \o net')[i] =
              IF i <= Len(read_buf) THEN read_buf[i] ELSE net'[i - Len(read_buf)]
    BY <1>0, <2>4, ConcatProperties
  <2>7. \A i \in 1..Len(read_buf \o net') : (read_buf \o net')[i] = (read_buf \o net)[i]
    <3> SUFFICES ASSUME NEW i \in 1..Len(read_buf) + n
                 PROVE  (read_buf \o net')[i] = (read_buf \o net)[i]
      BY <2>6
    <3>1. i \in 1..Len(read_buf) + Len(net)
      BY <2>3
    <3>2. CASE i <= Len(read_buf)
      BY <2>5, <2>6, <3>1, <3>2
    <3>3. CASE ~ (i <= Len(read_buf))
      <4>1. i - Len(read_buf) \in 1..n
        BY <2>3, <3>3
      <4> QED
        BY <2>4, <2>5, <2>6, <3>1, <3>3, <4>1
    <3> QED
      BY <3>2, <3>3
  <2>8. Len(read_buf \o net') <= Len(read_buf \o net)
    BY <2>3, <2>5, <2>6
  <2>9. Spelled(unhandled, read_buf \o net', FALSE)
    BY <1>0, <2>5, <2>6, <2>7, <2>8, SpelledCut DEF QInv, InOrder
  <2> QED
    BY <2>2, <2>9 DEF InOrder, Spelled
<1>6. CASE Readable \/ ReadNothing \/ DrainRefuses \/ DrainEnds \/ Doomed \/ UNCHANGED vars
  BY <1>1, <1>6 DEF Readable, ReadNothing, DrainRefuses, DrainEnds, Doomed, vars
<1> QED
  BY <1>2, <1>3, <1>4, <1>5, <1>6 DEF Next

-----------------------------------------------------------------------------
(* The refinement *)

LEMMA InitRefines == Init => F!Init
  BY DEF Init, F!Init

Handing == IF pc \in {"refused", "over"} THEN pc ELSE "open"

LEMMA StepRefines == QInv /\ [Next]_vars => [F!Next]_<<unhandled, handed, Handing>>
<1> SUFFICES ASSUME QInv, [Next]_vars PROVE F!Next \/ UNCHANGED <<unhandled, handed, Handing>>
  OBVIOUS
<1>0. unhandled \in Seq(Item)
  BY DEF QInv, Inv, TypeOK
<1>1. CASE DrainFrame
  <2>1. decode(read_buf) = "ok" /\ pc = "drain" /\ pc' \in {"drain", "over"}
        /\ handed' = SubSeq(read_buf, 1, FrameLen(read_buf))
        /\ unhandled' = SubSeq(unhandled, 2, Len(unhandled))
    BY <1>1 DEF DrainFrame
  <2>2. /\ unhandled # <<>> /\ Head(unhandled) \in Frame /\ handed' = Head(unhandled)
    BY <2>1, FirstItem
  <2>3. unhandled' = Tail(unhandled)
    BY <1>0, <2>1, <2>2, TailIsSubSeq
  <2>4. F!Hand
    BY <2>1, <2>2, <2>3 DEF F!Hand
  <2> QED
    BY <2>4 DEF F!Next
<1>2. CASE DrainRefuses
  <2>1. /\ decode(read_buf) \in {"error", "frame_too_long"} /\ pc = "drain" /\ pc' = "refused"
        /\ UNCHANGED <<handed, unhandled>>
    BY <1>2 DEF DrainRefuses
  <2>2. unhandled # <<>> /\ Head(unhandled) \in Item \ Frame
    BY <2>1, FirstItem
  <2>3. F!Refuse
    BY <2>1, <2>2 DEF F!Refuse
  <2> QED
    BY <2>3 DEF F!Next
<1>3. CASE DrainEnds
  <2>1. pc = "drain" /\ pc' \in {"over", "idle"} /\ UNCHANGED <<handed, unhandled>>
    BY <1>3 DEF DrainEnds, Drained
  <2>2. F!GiveUp \/ UNCHANGED <<unhandled, handed, Handing>>
    BY <2>1 DEF F!GiveUp, Handing
  <2> QED
    BY <2>2 DEF F!Next
<1>4. CASE Doomed
  <2>1. F!GiveUp
    BY <1>4 DEF Doomed, F!GiveUp
  <2> QED
    BY <2>1 DEF F!Next
<1>5. ASSUME NEW item \in Item, PeerSends(item)
      PROVE  F!Next
  <2>1. item \in Frame \cup (Item \ Frame)
    OBVIOUS
  <2>2. F!Send(item)
    BY <1>5, <2>1 DEF PeerSends, F!Send
  <2> QED
    BY <2>1, <2>2 DEF F!Next
<1>6. CASE Readable \/ ReadSome \/ ReadNothing \/ PeerEnds \/ UNCHANGED vars
  BY <1>6 DEF Readable, ReadSome, ReadNothing, PeerEnds, vars, Handing
<1> QED
  BY <1>1, <1>2, <1>3, <1>4, <1>5, <1>6 DEF Next

(* Frames are handed over whole and in order, and only junk is refused,    *)
(* for any bytes and limits and wherever the stream is cut                 *)
(* (core.cpp:188-206).                                                     *)
THEOREM RefinesFrameQueue == Spec => ImplementsFrameQueue
<1>1. Init => QInv
  BY InitInv, InitInOrder DEF QInv
<1>2. QInv /\ [Next]_vars => QInv'
  BY NextInv, NextInOrder DEF QInv
<1>3. QInv /\ [Next]_vars => [F!Next]_<<unhandled, handed, IF pc \in {"refused", "over"} THEN pc ELSE "open">>
  BY StepRefines DEF Handing
<1> QED
  BY <1>1, <1>2, <1>3, InitRefines, PTL DEF Spec, ImplementsFrameQueue, F!Spec
=============================================================================
