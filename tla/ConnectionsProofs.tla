------------------------- MODULE ConnectionsProofs -------------------------
(***************************************************************************)
(* Proofs about Connections for every high-water mark, every compaction    *)
(* threshold below it and every set of frames.                             *)
(* The bound on write_buf needs Compacted: the sent part a call finds is   *)
(* either below the threshold or no larger than the unsent part, so adding *)
(* a frame that fits under the high-water mark cannot reach twice the mark.*)
(***************************************************************************)
EXTENDS Connections, SequenceTheorems, TLAPS

USE DataAssumption, LimitsAssumption

Unsent == SubSeq(write_buf, write_pos + 1, Len(write_buf))

(* Between calls the sent part kept in write_buf is small, or at most as   *)
(* large as the unsent part.                                               *)
Compacted ==
    Usable => write_pos <= CompactThreshold \/ write_pos * 2 <= Len(write_buf)

(* The core calls a connection no more once its write side is shut down.   *)
ShutThenClosed == fin => status = "closed"

Inv ==
    /\ TypeOK
    /\ Compacted
    /\ BufferBounded
    /\ StatusTellsBacklog
    /\ ShutThenClosed

LEMMA InitInv == Init => Inv
<1> SUFFICES ASSUME Init PROVE Inv
  OBVIOUS
<1>1. write_buf = <<>> /\ Len(write_buf) = 0 /\ write_buf \in Seq(Byte)
  BY DEF Init
<1>2. Compacted /\ BufferBounded /\ StatusTellsBacklog
  BY <1>1 DEF Init, Compacted, BufferBounded, StatusTellsBacklog, want_write
<1>3. TypeOK
  <2>1. write_pos \in 0..Len(write_buf) /\ wire \in Seq(Byte)
    BY <1>1 DEF Init
  <2> QED
    BY <1>1, <2>1 DEF Init, TypeOK, IoStatus
<1>4. ShutThenClosed
  BY DEF Init, ShutThenClosed
<1> QED
  BY <1>2, <1>3, <1>4 DEF Inv

(* The part of a buffer behind the first m bytes. *)
LEMMA Suffix ==
    ASSUME NEW buf \in Seq(Byte), NEW m \in 0..Len(buf)
    PROVE  /\ SubSeq(buf, m + 1, Len(buf)) \in Seq(Byte)
           /\ Len(SubSeq(buf, m + 1, Len(buf))) = Len(buf) - m
           /\ \A i \in 1..Len(buf) - m : SubSeq(buf, m + 1, Len(buf))[i] = buf[m + i]
  BY SubSeqProperties

(* compact() neither grows the buffer nor changes how much is unsent, and  *)
(* leaves it compacted.                                                    *)
LEMMA CompactShrinks ==
    ASSUME NEW buf \in Seq(Byte), NEW pos \in 0..Len(buf), compact(buf, pos)
    PROVE  /\ write_buf' \in Seq(Byte)
           /\ write_pos' \in 0..Len(write_buf')
           /\ Len(write_buf') <= Len(buf)
           /\ Len(write_buf') - write_pos' = Len(buf) - pos
           /\ write_pos' <= CompactThreshold \/ write_pos' * 2 <= Len(write_buf')
<1>1. CASE pos > CompactThreshold /\ pos * 2 > Len(buf)
  BY <1>1, Suffix DEF compact
<1>2. CASE ~ (pos > CompactThreshold /\ pos * 2 > Len(buf))
  BY <1>2 DEF compact
<1> QED
  BY <1>1, <1>2

(* flush() from a well-formed buffer below twice the mark. *)
LEMMA FlushInv ==
    ASSUME NEW buf \in Seq(Byte), write_pos \in 0..Len(buf),
           Len(buf) - write_pos <= HighWater, Len(buf) < 2 * HighWater,
           NEW st, flush(buf, st)
    PROVE  /\ write_buf' \in Seq(Byte) /\ write_pos' \in 0..Len(write_buf')
           /\ wire' \in Seq(Byte)
           /\ BufferBounded'
           /\ st \in {"ok", "would_block"} =>
                \/ write_pos' <= CompactThreshold
                \/ write_pos' * 2 <= Len(write_buf')
           /\ st = "would_block" => want_write'
           /\ st = "ok" => ~ want_write'
<1>1. PICK k \in 0..Len(buf) - write_pos :
        /\ wire' = SubSeq(buf, write_pos + 1, write_pos + k)
        /\ \/ /\ write_pos + k = Len(buf)
              /\ write_buf' = <<>>
              /\ write_pos' = 0
              /\ st = "ok"
           \/ /\ write_pos + k < Len(buf)
              /\ compact(buf, write_pos + k)
              /\ st = "would_block"
           \/ /\ write_pos + k < Len(buf)
              /\ write_buf' = buf
              /\ write_pos' = write_pos + k
              /\ st \in {"closed", "error"}
  BY DEF flush
<1>2. wire' \in Seq(Byte)
  BY <1>1, SubSeqProperties, SMTT(20)
<1> USE DEF BufferBounded, want_write
<1>3. CASE write_pos + k = Len(buf) /\ write_buf' = <<>> /\ write_pos' = 0 /\ st = "ok"
  BY <1>2, <1>3
<1>4. CASE write_pos + k < Len(buf) /\ compact(buf, write_pos + k) /\ st = "would_block"
  BY <1>2, <1>4, CompactShrinks
<1>5. CASE /\ write_pos + k < Len(buf) /\ write_buf' = buf
           /\ write_pos' = write_pos + k /\ st \in {"closed", "error"}
  BY <1>2, <1>5
<1> QED
  BY <1>1, <1>3, <1>4, <1>5

LEMMA NextInv == Inv /\ [Next]_vars => Inv'
<1> SUFFICES ASSUME Inv, [Next]_vars PROVE Inv'
  OBVIOUS
<1> USE DEF Inv
<1>1. CASE UNCHANGED vars
  BY <1>1 DEF vars, TypeOK, Compacted, BufferBounded, StatusTellsBacklog,
              ShutThenClosed, want_write, Usable
<1>2. ASSUME NEW data \in Data, send(data) PROVE Inv'
  <2>1. ~ fin
    BY <1>2 DEF send, Usable, ShutThenClosed
  <2>2. ShutThenClosed' /\ peer_closed' \in BOOLEAN /\ fin' \in BOOLEAN
    BY <1>2, <2>1 DEF send, ShutThenClosed, TypeOK
  <2>3. CASE OverHighWater(data)
    <3>1. status' = "error" /\ wire' = <<>> /\ UNCHANGED <<write_buf, write_pos>>
      BY <1>2, <2>3 DEF send
    <3> QED
      BY <2>2, <3>1 DEF TypeOK, IoStatus, Compacted, BufferBounded, StatusTellsBacklog,
                        want_write, Usable
  <2>4. CASE ~ OverHighWater(data)
    <3> DEFINE buf == write_buf \o data
    <3>1. PICK st \in IoStatus : flush(buf, st) /\ status' = st
      BY <1>2, <2>4 DEF send
    <3>2. data \in Seq(Byte) /\ Len(data) >= 1
      BY EmptySeq
    <3>3. buf \in Seq(Byte) /\ Len(buf) = Len(write_buf) + Len(data)
      BY <3>2, ConcatProperties DEF TypeOK
    <3>4. Usable
      BY <1>2 DEF send
    <3> HIDE DEF buf
    <3>5. /\ write_pos \in 0..Len(buf)
          /\ Len(buf) - write_pos <= HighWater
          /\ Len(buf) < 2 * HighWater
      BY <2>4, <3>2, <3>3, <3>4 DEF TypeOK, OverHighWater, Compacted
    <3>6. Compacted' /\ StatusTellsBacklog' /\ BufferBounded'
      BY <3>1, <3>3, <3>5, FlushInv DEF Compacted, StatusTellsBacklog, Usable
    <3>7. TypeOK'
      BY <2>2, <3>1, <3>3, <3>5, FlushInv DEF TypeOK
    <3> QED
      BY <2>2, <3>6, <3>7
  <2> QED
    BY <2>3, <2>4
<1>3. CASE on_writeable
  <2>1. PICK st \in IoStatus :
            /\ flush(write_buf, st)
            /\ IF st = "ok" /\ peer_closed
               THEN fin' = TRUE /\ status' = "closed"
               ELSE UNCHANGED fin /\ status' = st
    BY <1>3 DEF on_writeable
  <2>2. /\ write_buf' \in Seq(Byte) /\ write_pos' \in 0..Len(write_buf')
        /\ wire' \in Seq(Byte)
        /\ BufferBounded'
    BY <2>1, FlushInv DEF TypeOK, BufferBounded
  <2>3. peer_closed' = peer_closed /\ ~ fin
    BY <1>3 DEF on_writeable, Usable, ShutThenClosed
  <2>4. TypeOK'
    BY <2>1, <2>2, <2>3 DEF TypeOK, IoStatus
  <2>5. Compacted' /\ StatusTellsBacklog'
    BY <2>1, FlushInv DEF TypeOK, BufferBounded, Compacted, StatusTellsBacklog, Usable
  <2>6. ShutThenClosed'
    BY <2>1, <2>3 DEF ShutThenClosed
  <2> QED
    BY <2>2, <2>4, <2>5, <2>6
<1>4. CASE on_readable_eof
  BY <1>4 DEF on_readable_eof, TypeOK, Compacted, BufferBounded,
              StatusTellsBacklog, ShutThenClosed, want_write, Usable
<1> QED
  BY <1>1, <1>2, <1>3, <1>4 DEF Next

-----------------------------------------------------------------------------
(* The write side keeps its type. *)
THEOREM TypeCorrect == Spec => []TypeOK
  BY InitInv, NextInv, PTL DEF Spec, Inv

(* What is unsent stays within the high-water mark, and write_buf_ below   *)
(* twice that.                                                             *)
THEOREM WriteBufferBounded == Spec => []BufferBounded
  BY InitInv, NextInv, PTL DEF Spec, Inv

(* What a call returns tells whether bytes are left behind. *)
THEOREM BacklogReported == Spec => []StatusTellsBacklog
  BY InitInv, NextInv, PTL DEF Spec, Inv

-----------------------------------------------------------------------------
(* Refinement of ByteStream *)

(* Taking k more bytes from behind a cursor. *)
LEMMA AdvanceCursor ==
    ASSUME NEW buf \in Seq(Byte), NEW m \in 0..Len(buf), NEW k \in 0..Len(buf) - m
    PROVE  LET rest == SubSeq(buf, m + 1, Len(buf))
           IN  /\ SubSeq(rest, 1, k) = SubSeq(buf, m + 1, m + k)
               /\ SubSeq(rest, k + 1, Len(rest)) = SubSeq(buf, m + k + 1, Len(buf))
<1> DEFINE rest == SubSeq(buf, m + 1, Len(buf))
<1>1. /\ rest \in Seq(Byte) /\ Len(rest) = Len(buf) - m
      /\ \A i \in 1..Len(buf) - m : rest[i] = buf[m + i]
  BY Suffix
<1> HIDE DEF rest
<1>2. SubSeq(rest, 1, k) = SubSeq(buf, m + 1, m + k)
  <2>1. /\ SubSeq(rest, 1, k) \in Seq(Byte) /\ Len(SubSeq(rest, 1, k)) = k
        /\ \A i \in 1..k : SubSeq(rest, 1, k)[i] = rest[i]
    BY <1>1, SubSeqProperties
  <2>2. /\ SubSeq(buf, m + 1, m + k) \in Seq(Byte) /\ Len(SubSeq(buf, m + 1, m + k)) = k
        /\ \A i \in 1..k : SubSeq(buf, m + 1, m + k)[i] = buf[m + i]
    BY SubSeqProperties
  <2> QED
    BY <1>1, <2>1, <2>2, SeqEqual
<1>3. SubSeq(rest, k + 1, Len(rest)) = SubSeq(buf, m + k + 1, Len(buf))
  <2> DEFINE n == Len(buf) - m - k
             u == SubSeq(rest, k + 1, Len(rest))
             v == SubSeq(buf, (m + k) + 1, Len(buf))
  <2>1. u \in Seq(Byte) /\ Len(u) = n /\ \A i \in 1..n : u[i] = rest[k + i]
    BY <1>1, SubSeqProperties
  <2>2. v \in Seq(Byte) /\ Len(v) = n /\ \A i \in 1..n : v[i] = buf[(m + k) + i]
    BY Suffix
  <2>3. \A i \in 1..n : rest[k + i] = buf[(m + k) + i]
    BY <1>1
  <2> HIDE DEF u, v, n
  <2>4. u = v
    BY <2>1, <2>2, <2>3, SeqEqual
  <2> QED
    BY <2>4 DEF u, v
<1> QED
  BY <1>2, <1>3 DEF rest

(* Appending a frame appends it to the unsent part. *)
LEMMA AppendToUnsent ==
    ASSUME NEW buf \in Seq(Byte), NEW m \in 0..Len(buf), NEW data \in Seq(Byte)
    PROVE  SubSeq(buf \o data, m + 1, Len(buf \o data)) = SubSeq(buf, m + 1, Len(buf)) \o data
<1> DEFINE all == buf \o data
           u == SubSeq(all, m + 1, Len(all))
           r == SubSeq(buf, m + 1, Len(buf))
           v == r \o data
<1>1. /\ all \in Seq(Byte) /\ Len(all) = Len(buf) + Len(data)
      /\ \A i \in 1..Len(buf) + Len(data) :
            all[i] = IF i <= Len(buf) THEN buf[i] ELSE data[i - Len(buf)]
  BY ConcatProperties
<1>2. /\ r \in Seq(Byte) /\ Len(r) = Len(buf) - m
      /\ \A i \in 1..Len(buf) - m : r[i] = buf[m + i]
  BY Suffix
<1> HIDE DEF r, all
<1>3. /\ u \in Seq(Byte) /\ Len(u) = Len(all) - m
      /\ \A i \in 1..Len(all) - m : u[i] = all[m + i]
  BY <1>1, Suffix
<1>4. /\ v \in Seq(Byte) /\ Len(v) = Len(r) + Len(data)
      /\ \A i \in 1..Len(r) + Len(data) :
            v[i] = IF i <= Len(r) THEN r[i] ELSE data[i - Len(r)]
  BY <1>2, ConcatProperties
<1> HIDE DEF u, v
<1>5. Len(u) = Len(v)
  BY <1>1, <1>2, <1>3, <1>4
<1>6. ASSUME NEW i \in 1..Len(u) PROVE u[i] = v[i]
  <2>1. u[i] = all[m + i] /\ m + i \in 1..Len(buf) + Len(data)
    BY <1>1, <1>3
  <2>2. CASE i <= Len(r)
    BY <1>1, <1>2, <1>4, <1>5, <2>1, <2>2
  <2>3. CASE ~ (i <= Len(r))
    <3>1. ~ (m + i <= Len(buf)) /\ (m + i) - Len(buf) = i - Len(r)
      BY <1>2, <2>3
    <3> QED
      BY <1>1, <1>4, <1>5, <2>1, <2>3, <3>1
  <2> QED
    BY <2>2, <2>3
<1>7. u = v
  BY <1>3, <1>4, <1>5, <1>6, SeqEqual
<1> QED
  BY <1>7 DEF u, v, r, all

(* flush() hands a prefix of the unsent part to the kernel and keeps the   *)
(* rest, wherever compact() puts it.                                       *)
LEMMA FlushTransfers ==
    ASSUME NEW buf \in Seq(Byte), write_pos \in 0..Len(buf), NEW st, flush(buf, st)
    PROVE  B!Transfer(SubSeq(buf, write_pos + 1, Len(buf)))
<1> DEFINE rest == SubSeq(buf, write_pos + 1, Len(buf))
<1>1. PICK k \in 0..Len(buf) - write_pos :
        /\ wire' = SubSeq(buf, write_pos + 1, write_pos + k)
        /\ \/ /\ write_pos + k = Len(buf)
              /\ write_buf' = <<>>
              /\ write_pos' = 0
           \/ /\ write_pos + k < Len(buf)
              /\ compact(buf, write_pos + k)
           \/ /\ write_pos + k < Len(buf)
              /\ write_buf' = buf
              /\ write_pos' = write_pos + k
  BY DEF flush
<1>2. /\ SubSeq(rest, 1, k) = wire'
      /\ SubSeq(rest, k + 1, Len(rest)) = SubSeq(buf, write_pos + k + 1, Len(buf))
  BY <1>1, AdvanceCursor
<1>3. Unsent' = SubSeq(buf, write_pos + k + 1, Len(buf))
  <2> DEFINE pos == write_pos + k
             kept == SubSeq(buf, pos + 1, Len(buf))
  <2>5. pos \in 0..Len(buf)
    OBVIOUS
  <2>1. kept \in Seq(Byte) /\ Len(kept) = Len(buf) - pos
    <3> HIDE DEF pos
    <3> QED
      BY <2>5, Suffix
  <2>2. CASE pos = Len(buf) /\ write_buf' = <<>> /\ write_pos' = 0
    <3>1. kept = <<>>
      BY <2>1, <2>2, EmptySeq
    <3>2. SubSeq(<<>>, 1, 0) = <<>>
      BY SubSeqEmpty
    <3> QED
      BY <2>2, <3>1, <3>2 DEF Unsent
  <2>3. CASE compact(buf, pos)
    <3>1. CASE write_buf' = buf /\ write_pos' = pos
      BY <3>1 DEF Unsent
    <3>2. CASE write_buf' = kept /\ write_pos' = 0
      BY <2>1, <3>2, SubSeqFull DEF Unsent
    <3> QED
      BY <2>3, <3>1, <3>2 DEF compact
  <2>4. CASE write_buf' = buf /\ write_pos' = pos
    BY <2>4 DEF Unsent
  <2> QED
    BY <1>1, <2>2, <2>3, <2>4
<1>4. Len(rest) = Len(buf) - write_pos
  BY Suffix
<1> QED
  BY <1>2, <1>3, <1>4 DEF B!Transfer, Unsent

(* The cursor, the clearing and the compaction implement a bounded FIFO,   *)
(* and the write side is shut down only behind the last accepted byte.     *)
THEOREM RefinesByteStream == Spec => ImplementsByteStream
<1>1. Init => B!Init
  BY SubSeqEmpty DEF Init, B!Init
<1>2. Inv /\ [Next]_vars => [B!Next]_<<Unsent, wire, fin>>
  <2> SUFFICES ASSUME Inv, [Next]_vars PROVE B!Next \/ UNCHANGED <<Unsent, wire, fin>>
    OBVIOUS
  <2> USE DEF Inv, TypeOK
  <2>1. CASE UNCHANGED vars
    BY <2>1 DEF vars, Unsent
  <2>2. ASSUME NEW data \in Data, send(data) PROVE B!Next
    <3>1. CASE OverHighWater(data)
      <4>1. wire' = <<>> /\ UNCHANGED <<Unsent, fin>>
        BY <2>2, <3>1 DEF send, Unsent
      <4> QED
        BY <4>1 DEF B!Next, B!Idle, Unsent
    <3>2. CASE ~ OverHighWater(data)
      <4>1. data \in Seq(Byte) /\ Len(data) \in Nat
        OBVIOUS
      <4>2. /\ write_buf \o data \in Seq(Byte)
            /\ Len(write_buf \o data) = Len(write_buf) + Len(data)
        BY <4>1, ConcatProperties
      <4>3. \E st \in IoStatus : flush(write_buf \o data, st)
        BY <2>2, <3>2 DEF send
      <4>4. B!Transfer(Unsent \o data)
        <5> DEFINE buf == write_buf \o data
        <5>1. SubSeq(buf, write_pos + 1, Len(buf)) = Unsent \o data
          BY <4>1, AppendToUnsent DEF Unsent
        <5>2. buf \in Seq(Byte) /\ write_pos \in 0..Len(buf)
          BY <4>1, <4>2
        <5>3. B!Transfer(SubSeq(buf, write_pos + 1, Len(buf)))
          <6> HIDE DEF buf
          <6> QED
            BY <4>3, <5>2, FlushTransfers DEF buf
        <5> QED
          BY <5>1, <5>3
      <4>5. Len(Unsent) + Len(data) <= HighWater
        BY <3>2, <4>1, Suffix DEF Unsent, OverHighWater
      <4>6. ~ fin /\ fin' = fin
        BY <2>2 DEF send, Usable, ShutThenClosed
      <4> QED
        BY <4>4, <4>5, <4>6 DEF B!Next, B!Send, Unsent
    <3> QED
      BY <3>1, <3>2
  <2>3. CASE on_writeable
    <3>1. PICK st \in IoStatus :
            /\ flush(write_buf, st)
            /\ IF st = "ok" /\ peer_closed
               THEN fin' = TRUE /\ status' = "closed"
               ELSE UNCHANGED fin /\ status' = st
      BY <2>3 DEF on_writeable
    <3>2. ~ fin
      BY <2>3 DEF on_writeable, Usable, ShutThenClosed
    <3>3. CASE st = "ok" /\ peer_closed
      <4>1. PICK k \in 0..Len(write_buf) - write_pos :
                /\ write_pos + k = Len(write_buf)
                /\ wire' = SubSeq(write_buf, write_pos + 1, write_pos + k)
                /\ write_buf' = <<>> /\ write_pos' = 0
        BY <3>1, <3>3 DEF flush
      <4>2. Unsent' = <<>>
        BY <4>1, SubSeqEmpty DEF Unsent
      <4> QED
        BY <3>1, <3>2, <3>3, <4>1, <4>2 DEF B!Next, B!End, Unsent
    <3>4. CASE ~ (st = "ok" /\ peer_closed)
      BY <3>1, <3>2, <3>4, FlushTransfers DEF B!Next, B!Flush
    <3> QED
      BY <3>3, <3>4
  <2>4. CASE on_readable_eof
    BY <2>4 DEF on_readable_eof, B!Next, B!Idle
  <2> QED
    BY <2>1, <2>2, <2>3, <2>4 DEF Next
<1> QED
  BY <1>1, <1>2, InitInv, NextInv, PTL
     DEF Spec, B!Spec, B!vars, ImplementsByteStream, Unsent
=============================================================================
