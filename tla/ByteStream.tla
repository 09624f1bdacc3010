----------------------------- MODULE ByteStream -----------------------------
(***************************************************************************)
(* What the write side of a connection promises: a bounded FIFO of bytes   *)
(* with an end.  A send is accepted whole or refused whole; the bytes      *)
(* handed to the kernel are always the oldest accepted ones, each of them  *)
(* once; the stream ends behind the last of them, and nothing follows.     *)
(***************************************************************************)
EXTENDS Integers, Sequences

CONSTANTS
    Data,       \* the byte strings a caller may send
    Capacity    \* how many accepted bytes may wait

VARIABLES
    unsent,     \* accepted and not yet handed to the kernel, oldest first
    wire,       \* what the last operation handed to the kernel
    ended       \* the end of the stream is handed to the kernel

vars == <<unsent, wire, ended>>

(* Hand the first k of the pending bytes to the kernel. *)
Transfer(pending) ==
    \E k \in 0..Len(pending) :
        /\ wire' = SubSeq(pending, 1, k)
        /\ unsent' = SubSeq(pending, k + 1, Len(pending))

Init == unsent = <<>> /\ wire = <<>> /\ ended = FALSE

Send(data) ==
    /\ ~ ended
    /\ Len(unsent) + Len(data) <= Capacity
    /\ Transfer(unsent \o data)
    /\ UNCHANGED ended

Flush == ~ ended /\ Transfer(unsent) /\ UNCHANGED ended

(* All that is left, and the end of the stream behind it. *)
End ==
    /\ ~ ended
    /\ wire' = unsent
    /\ unsent' = <<>>
    /\ ended' = TRUE

(* A refused send, or an operation that does not write. *)
Idle == wire' = <<>> /\ UNCHANGED <<unsent, ended>>

Next == (\E data \in Data : Send(data)) \/ Flush \/ End \/ Idle

Spec == Init /\ [][Next]_vars
=============================================================================
