---------------------------- MODULE Connections ----------------------------
(***************************************************************************)
(* The write side of core::Connections (src/server/core/connections.cpp):  *)
(* the vector write_buf_ with its cursor write_pos_, flushed to a          *)
(* non-blocking socket, compacted when the socket blocks, refusing what    *)
(* would exceed the high-water mark, and closed gracefully once the peer   *)
(* has closed its side.  One step is one call of the class; how much of it *)
(* the kernel takes, and how it answers when it takes no more, is          *)
(* nondeterministic.                                                       *)
(***************************************************************************)
EXTENDS Integers, Sequences

CONSTANTS
    Byte,               \* byte values
    Data,               \* the frames a caller may send
    HighWater,          \* kWriteHighWater
    CompactThreshold    \* kCompactThreshold

(* A frame has a header, so it is never empty (encoder.h:104-110). *)
ASSUME DataAssumption == Data \subseteq Seq(Byte) \ {<<>>}
ASSUME LimitsAssumption ==
    /\ HighWater \in Nat /\ CompactThreshold \in Nat
    /\ CompactThreshold < HighWater

VARIABLES
    write_buf,      \* write_buf_: bytes sent and not yet dropped, then unsent bytes
    write_pos,      \* write_pos_: how many bytes of write_buf are sent
    peer_closed,    \* peer_closed_: read() has returned end of file
    status,         \* what the last call returned
    wire,           \* what the last call handed to the kernel
    fin             \* shutdown(fd_, SHUT_WR) was called

vars == <<write_buf, write_pos, peer_closed, status, wire, fin>>

IoStatus == {"ok", "would_block", "closed", "error"}

want_write == write_pos < Len(write_buf)

(* The core closes a connection on the first closed or error it gets from  *)
(* the write side (core.cpp:141-144, 262-276) and calls it no more.        *)
Usable == status \in {"ok", "would_block"}

-----------------------------------------------------------------------------
(* Seeded fault: the sent part is erased and the cursor stays. *)
CompactKeepsCursor(buf, pos) ==
    LET worth == pos > CompactThreshold /\ pos * 2 > Len(buf)
    IN  /\ write_buf' = IF worth THEN SubSeq(buf, pos + 1, Len(buf)) ELSE buf
        /\ write_pos' = pos

(* Seeded fault: the cursor is reset and the sent part stays. *)
CompactKeepsBytes(buf, pos) ==
    LET worth == pos > CompactThreshold /\ pos * 2 > Len(buf)
    IN  /\ write_buf' = buf
        /\ write_pos' = IF worth THEN 0 ELSE pos

(* Seeded fault: nothing is compacted while the socket is blocked. *)
CompactNever(buf, pos) == write_buf' = buf /\ write_pos' = pos

(* Drop the sent part when it is past the threshold and more than half. *)
compact(buf, pos) ==
    LET worth == pos > CompactThreshold /\ pos * 2 > Len(buf)
    IN  /\ write_buf' = IF worth THEN SubSeq(buf, pos + 1, Len(buf)) ELSE buf
        /\ write_pos' = IF worth THEN 0 ELSE pos

(* Seeded fault: a short write passes for a complete one. *)
FlushOnce(buf, st) ==
    \E k \in 0..Len(buf) - write_pos :
        /\ wire' = SubSeq(buf, write_pos + 1, write_pos + k)
        /\ compact(buf, write_pos + k)
        /\ st = "ok"

(* The kernel takes k more bytes of buf, and flush returns st. *)
flush(buf, st) ==
    \E k \in 0..Len(buf) - write_pos :
        /\ wire' = SubSeq(buf, write_pos + 1, write_pos + k)
        /\ \/ /\ write_pos + k = Len(buf)
              /\ write_buf' = <<>>
              /\ write_pos' = 0
              /\ st = "ok"
           \/ /\ write_pos + k < Len(buf)
              /\ compact(buf, write_pos + k)
              /\ st = "would_block"
           \/ /\ write_pos + k < Len(buf)
              /\ write_buf' = buf
              /\ write_pos' = write_pos + k
              /\ st \in {"closed", "error"}

-----------------------------------------------------------------------------
Init ==
    /\ write_buf = <<>>
    /\ write_pos = 0
    /\ peer_closed = FALSE
    /\ status = "ok"
    /\ wire = <<>>
    /\ fin = FALSE

(* Seeded fault: the new frame is not counted. *)
OverHighWaterLate(data) == Len(write_buf) - write_pos > HighWater

OverHighWater(data) == Len(write_buf) - write_pos + Len(data) > HighWater

(* send(): refuse what would exceed the high-water mark, else append, flush. *)
send(data) ==
    /\ Usable
    /\ \/ /\ OverHighWater(data)
          /\ status' = "error"
          /\ wire' = <<>>
          /\ UNCHANGED <<write_buf, write_pos>>
       \/ /\ ~ OverHighWater(data)
          /\ \E st \in IoStatus : flush(write_buf \o data, st) /\ status' = st
    /\ UNCHANGED <<peer_closed, fin>>

(* Seeded fault: the write side is shut down whatever flush left behind. *)
OnWriteableHasty ==
    /\ Usable
    /\ \E st \in IoStatus :
        /\ flush(write_buf, st)
        /\ fin' = peer_closed
        /\ status' = IF peer_closed THEN "closed" ELSE st
    /\ UNCHANGED peer_closed

(* on_writeable(): flush; if it reports ok and the peer has closed, shut   *)
(* the write side down and tell the core to close.                         *)
on_writeable ==
    /\ Usable
    /\ \E st \in IoStatus :
        /\ flush(write_buf, st)
        /\ IF st = "ok" /\ peer_closed
           THEN fin' = TRUE /\ status' = "closed"
           ELSE UNCHANGED fin /\ status' = st
    /\ UNCHANGED peer_closed

(* on_readable() reaches end of file.  The core reads no more after that:  *)
(* update_events takes EPOLLIN out of the mask (core.cpp:293).  The bytes  *)
(* it reads go to read_buf_, which the write side does not look at.        *)
on_readable_eof ==
    /\ Usable
    /\ ~ peer_closed
    /\ peer_closed' = TRUE
    /\ wire' = <<>>
    /\ UNCHANGED <<write_buf, write_pos, status, fin>>

Next == (\E data \in Data : send(data)) \/ on_writeable \/ on_readable_eof

Spec == Init /\ [][Next]_vars

-----------------------------------------------------------------------------
(* Properties *)

TypeOK ==
    /\ write_buf \in Seq(Byte)
    /\ write_pos \in 0..Len(write_buf)
    /\ peer_closed \in BOOLEAN
    /\ status \in IoStatus
    /\ wire \in Seq(Byte)
    /\ fin \in BOOLEAN

(* The bytes waiting for the kernel never exceed the high-water mark, and  *)
(* write_buf_, sent part included, stays below twice the mark, however the *)
(* kernel splits the writes: compact() is what bounds it.                  *)
BufferBounded ==
    /\ Len(write_buf) - write_pos <= HighWater
    /\ Len(write_buf) < 2 * HighWater

(* The core arms EPOLLOUT for a connection exactly when a call returned    *)
(* would_block (core.cpp:254), so that answer and want_write must agree:   *)
(* bytes left behind an "ok" would never be sent.                          *)
StatusTellsBacklog ==
    /\ status = "would_block" => want_write
    /\ status = "ok" => ~ want_write

(* Cursor, clearing and compaction implement a bounded FIFO with an end:   *)
(* nothing accepted is lost, repeated or reordered, and the peer gets the  *)
(* end of the stream only behind the last accepted byte.                   *)
B == INSTANCE ByteStream WITH
        Capacity <- HighWater,
        unsent <- SubSeq(write_buf, write_pos + 1, Len(write_buf)),
        ended <- fin

ImplementsByteStream == B!Spec
=============================================================================
