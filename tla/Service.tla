------------------------------- MODULE Service -------------------------------
(***************************************************************************)
(* What the server promises to the peers of its connections, without epoll, *)
(* batches, interest masks or deferred destruction.                        *)
(*                                                                         *)
(* The frames of a connection are handled one by one in the order they     *)
(* were sent, and the frames that answer one of them are all delivered or  *)
(* lost before the next is handled, so that any two peers get what others  *)
(* send them in the same order.  A frame is lost only with its connection  *)
(* or because it is too long.  A connection fails for what its own peer    *)
(* did; one whose peer merely stopped sending fails when everything it     *)
(* sent is handled and everything it is to get has left the server.        *)
(***************************************************************************)
EXTENDS Controller

CONSTANTS HighWater     \* frames the server holds for a peer before it fails

VARIABLES
    open,       \* the connections
    failed,     \* those of them that have failed and will be closed
    inbox,      \* per fd: sent by the peer and not handled, oldest first
    todo,       \* per fd: what is still to be delivered for its last frame
    outbox,     \* per fd: accepted for the peer and not read by it
    unsent,     \* per fd: how many of these the server still holds
    eof,        \* peers that have stopped sending
    gone        \* peers that are no longer there

tables == <<uid_to_fd, fd_to_uid>>
vars == <<open, failed, inbox, todo, outbox, unsent, eof, gone, tables>>

working == open \ failed

-----------------------------------------------------------------------------
(* The peers *)

Open(fd) ==
    /\ fd \notin open
    /\ open' = open \cup {fd}
    /\ UNCHANGED <<failed, inbox, todo, outbox, unsent, eof, gone, tables>>

(* Nothing is taken from a connection that has failed. *)
PeerSends(fd) ==
    /\ fd \in open \ (eof \cup gone)
    /\ UNCHANGED <<open, failed, todo, outbox, unsent, eof, gone, tables>>
    /\ \E frame \in Inbound :
          inbox' = [inbox EXCEPT ![fd] = IF fd \in failed THEN @ ELSE Append(@, frame)]

PeerReads(fd) ==
    /\ Len(outbox[fd]) > unsent[fd]
    /\ outbox' = [outbox EXCEPT ![fd] = Tail(@)]
    /\ UNCHANGED <<open, failed, inbox, todo, unsent, eof, gone, tables>>

PeerShutsDown(fd) ==
    /\ fd \in open
    /\ eof' = eof \cup {fd}
    /\ UNCHANGED <<open, failed, inbox, todo, outbox, unsent, gone, tables>>

PeerLost(fd) ==
    /\ fd \in open
    /\ gone' = gone \cup {fd}
    /\ outbox' = [outbox EXCEPT ![fd] = <<>>]
    /\ unsent' = [unsent EXCEPT ![fd] = 0]
    /\ UNCHANGED <<open, failed, inbox, todo, eof, tables>>

-----------------------------------------------------------------------------
(* The service *)

Handle(fd) ==
    /\ fd \in working
    /\ \A f \in Fd : todo[f] = <<>>
    /\ inbox[fd] # <<>> /\ Decodable(Head(inbox[fd]))
    /\ inbox' = [inbox EXCEPT ![fd] = Tail(@)]
    /\ todo' = [todo EXCEPT ![fd] = out_queue(fd, Head(inbox[fd]))]
    /\ process(fd, Head(inbox[fd]))
    /\ UNCHANGED <<open, failed, outbox, unsent, eof, gone>>

(* The oldest frame still to be delivered for fd's request. *)
next(fd) == Head(todo[fd])
Due(fd) == todo[fd] # <<>>
Deliverable(item) == item.to \in working /\ Encodable(item.frame)
Done(fd) == todo' = [todo EXCEPT ![fd] = Tail(@)]

Deliver(fd) ==
    /\ Due(fd) /\ Deliverable(next(fd))
    /\ LET to == next(fd).to
       IN  /\ outbox' = [outbox EXCEPT ![to] = Append(@, next(fd).frame)]
           /\ \E left \in 0..unsent[to] + 1 : unsent' = [unsent EXCEPT ![to] = left]
    /\ Done(fd)
    /\ UNCHANGED <<open, failed, inbox, eof, gone, tables>>

Lose(fd) ==
    /\ Due(fd) /\ ~ Deliverable(next(fd))
    /\ Done(fd)
    /\ UNCHANGED <<open, failed, inbox, outbox, unsent, eof, gone, tables>>

(* The receiver is gone or lets its output pile up: it fails, and nothing  *)
(* else does.  If it is the sender itself, the deliveries end with it.     *)
Refuse(fd) ==
    /\ Due(fd) /\ Deliverable(next(fd))
    /\ LET to == next(fd).to
       IN  /\ to \in gone \/ unsent[to] >= HighWater
           /\ failed' = failed \cup {to}
           /\ inbox' = [inbox EXCEPT ![to] = <<>>]
           /\ todo' = [todo EXCEPT ![fd] = IF to = fd THEN <<>> ELSE Tail(@)]
    /\ UNCHANGED <<open, outbox, unsent, eof, gone, tables>>

(* More of what the server holds for a peer leaves it. *)
Transmit(fd) ==
    /\ fd \in working
    /\ \E left \in 0..unsent[fd] : unsent' = [unsent EXCEPT ![fd] = left]
    /\ UNCHANGED <<open, failed, inbox, todo, outbox, eof, gone, tables>>

(* Why a connection fails: its peer is gone; its next bytes are no frame;  *)
(* or its peer has stopped sending and nothing is left to do for it.       *)
Over(fd) ==
    \/ fd \in gone
    \/ inbox[fd] # <<>> /\ ~ Decodable(Head(inbox[fd]))
    \/ fd \in eof /\ inbox[fd] = <<>> /\ unsent'[fd] = 0

Fail(fd) ==
    /\ fd \in working
    /\ todo[fd] = <<>>
    /\ \E left \in 0..unsent[fd] : unsent' = [unsent EXCEPT ![fd] = left]
    /\ Over(fd)
    /\ failed' = failed \cup {fd}
    /\ inbox' = [inbox EXCEPT ![fd] = <<>>]
    /\ UNCHANGED <<open, todo, outbox, eof, gone, tables>>

(* The connection and its binding go together. *)
Close(fd) ==
    /\ fd \in failed
    /\ open' = open \ {fd}
    /\ failed' = failed \ {fd}
    /\ outbox' = [outbox EXCEPT ![fd] = <<>>]
    /\ unsent' = [unsent EXCEPT ![fd] = 0]
    /\ eof' = eof \ {fd}
    /\ gone' = gone \ {fd}
    /\ delete_fd(fd)
    /\ UNCHANGED <<inbox, todo>>

-----------------------------------------------------------------------------
Init ==
    /\ UG!Init
    /\ open = {} /\ failed = {} /\ eof = {} /\ gone = {}
    /\ inbox = [fd \in Fd |-> <<>>]
    /\ todo = [fd \in Fd |-> <<>>]
    /\ outbox = [fd \in Fd |-> <<>>]
    /\ unsent = [fd \in Fd |-> 0]

Peer(fd) ==
    \/ Open(fd)
    \/ PeerSends(fd)
    \/ PeerReads(fd)
    \/ PeerShutsDown(fd)
    \/ PeerLost(fd)

Serve(fd) ==
    Handle(fd) \/ Deliver(fd) \/ Lose(fd) \/ Refuse(fd) \/ Transmit(fd) \/ Fail(fd) \/ Close(fd)

Next == \E fd \in Fd : Peer(fd) \/ Serve(fd)

Spec == Init /\ [][Next]_vars
=============================================================================
