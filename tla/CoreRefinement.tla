--------------------------- MODULE CoreRefinement ---------------------------
(***************************************************************************)
(* The event loop of Core implements Service.  A connection has failed as  *)
(* soon as it waits in pending_close or is marked fatal; what its peer     *)
(* sent is what the kernel and the read buffer hold of it; what its peer   *)
(* will get is what the kernel and the write buffer hold for it.           *)
(***************************************************************************)
EXTENDS Core

Doomed == ToSet(pending_close) \cup (IF fatal THEN {cur} ELSE {})

Draining(fd) == pc = "drain" /\ fd = cur

Incoming(fd) ==
    IF fd \in Doomed THEN <<>>
    ELSE (IF Draining(fd) THEN read_buf ELSE <<>>) \o sock[fd].rx

(* A peer that is gone gets nothing any more. *)
Held(fd) ==
    IF fd \in DOMAIN conns /\ ~ sock[fd].reset THEN conns[fd].write_buf ELSE <<>>

Inbox  == [fd \in Fd |-> Incoming(fd)]
Todo   == [fd \in Fd |-> IF Draining(fd) THEN send_queue ELSE <<>>]
Outbox == [fd \in Fd |-> sock[fd].tx \o Held(fd)]
Unsent == [fd \in Fd |-> Len(Held(fd))]
Eof    == {fd \in Fd : sock[fd].eof}
Gone   == {fd \in Fd : sock[fd].reset}

S == INSTANCE Service WITH
        open <- DOMAIN conns, failed <- Doomed, inbox <- Inbox, todo <- Todo,
        outbox <- Outbox, unsent <- Unsent, eof <- Eof, gone <- Gone

(* Whatever peers, kernel and the order of events do, each peer gets what  *)
(* Service promises: its frames handled once and in order, their answers   *)
(* delivered in order to every receiver that has not failed itself, and no *)
(* connection failed without a cause of its own (core.cpp:126-289).        *)
ImplementsService == S!Spec
=============================================================================
