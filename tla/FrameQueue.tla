----------------------------- MODULE FrameQueue -----------------------------
(***************************************************************************)
(* What the read side of a connection promises: the frames a peer sends    *)
(* are handed over one by one, whole and in order, whatever becomes of the *)
(* bytes on the way.  Junk is handed to nobody and ends the connection.    *)
(***************************************************************************)
EXTENDS Sequences

CONSTANTS
    Frame,  \* the byte strings that are frames
    Junk    \* the byte strings that are not

VARIABLES
    queue,  \* what the peer has sent and nobody has got yet, oldest first
    handed, \* the frame handed over last
    state

Init == queue = <<>> /\ handed = <<>> /\ state = "open"

Send(item) ==
    /\ item \in Frame \cup Junk
    /\ queue' = Append(queue, item)
    /\ UNCHANGED <<handed, state>>

Hand ==
    /\ state = "open"
    /\ queue # <<>> /\ Head(queue) \in Frame
    /\ handed' = Head(queue)
    /\ queue' = Tail(queue)
    /\ state' \in {"open", "over"}

Refuse ==
    /\ state = "open"
    /\ queue # <<>> /\ Head(queue) \in Junk
    /\ state' = "refused"
    /\ UNCHANGED <<queue, handed>>

(* The peer or the connection is gone. *)
GiveUp ==
    /\ state = "open"
    /\ state' = "over"
    /\ UNCHANGED <<queue, handed>>

Next == (\E item \in Frame \cup Junk : Send(item)) \/ Hand \/ Refuse \/ GiveUp

Spec == Init /\ [][Next]_<<queue, handed, state>>
=============================================================================
