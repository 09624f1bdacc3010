------------------------------- MODULE Server -------------------------------
(***************************************************************************)
(* The server process: main (src/server/main.cpp) around the event loop of *)
(* Core, from Core::init through run() to the destructors, with what the   *)
(* loop alone leaves out: system calls of init that fail, an epoll_wait    *)
(* that fails (a signal is enough), and memory that runs out.              *)
(*                                                                         *)
(* An allocation that fails throws out of wherever the thread is.  Only    *)
(* main catches, around run(), so the process ends; what was half done at  *)
(* that moment is never looked at again.                                   *)
(***************************************************************************)
EXTENDS CoreRefinement

VARIABLE phase      \* "init", "running", "unwinding" or "over"

-----------------------------------------------------------------------------
(* Core::init().  Any of its calls may fail, and main returns at once. *)
StartUp ==
    /\ phase = "init"
    /\ phase' \in {"running", "unwinding"}
    /\ UNCHANGED vars

-----------------------------------------------------------------------------
(* run() *)

InLoop(A) == phase = "running" /\ A /\ UNCHANGED phase

Loops == InLoop(Server)

(* The peers do what they like meanwhile. *)
Runs == Loops \/ InLoop(Peers)

(* epoll_wait fails: run() returns. *)
EpollWaitFails ==
    /\ phase = "running" /\ pc = "wait"
    /\ phase' = "unwinding"
    /\ UNCHANGED vars

-----------------------------------------------------------------------------
(* Out of memory, at each place that allocates *)

(* Seeded fault: the exception is caught around handle_client, and the     *)
(* loop goes on with the next event.                                       *)
CaughtInLoop(left) ==
    /\ phase = "running" /\ batch # <<>>
    /\ NextEvent
    /\ read_buf' = <<>> /\ rst' = "ok" /\ fatal' = FALSE /\ send_queue' = <<>> /\ owed' = <<>>
    /\ UNCHANGED <<phase, budget, loginOf, greeting>>

(* An exception leaves run() and is caught in main; left is what is in the *)
(* read buffer by then.                                                    *)
Thrown(left) ==
    /\ phase = "running"
    /\ phase' = "unwinding"
    /\ read_buf' = left
    /\ UNCHANGED <<pc, batch, rst, fatal, send_queue, budget, history>>

(* conns_.try_emplace throws: the fd is accepted and watched already, and  *)
(* no object owns it.                                                      *)
ThrowInAccept ==
    /\ Thrown(read_buf)
    /\ pc = "dispatch" /\ batch # <<>> /\ cur = ListenFd /\ backlog > 0
    /\ \E fd \in Fd \ DOMAIN conns : Watch(fd)
    /\ backlog' = backlog - 1
    /\ UNCHANGED <<conns, pending_close, tables, sock>>

(* The calls of close_client. *)
Closes(fd) ==
    \/ /\ pc = "dispatch" /\ batch # <<>> /\ fd = cur
       /\ fd \in DOMAIN conns \ ToSet(pending_close) /\ "hup" \in events
       /\ UNCHANGED <<conns, sock>>
    \/ /\ pc = "write" /\ fd = cur
       /\ on_writeable(fd).st = "closed"
       /\ Written(fd, on_writeable(fd))
    \/ /\ pc = "drain" /\ send_queue # <<>> /\ fd = Head(send_queue).to /\ fd # cur
       /\ ~ Undeliverable(Head(send_queue))
       /\ send(fd, Head(send_queue).frame).st \in {"closed", "error"}
       /\ Written(fd, send(fd, Head(send_queue).frame))
    \/ /\ pc = "drain" /\ send_queue = <<>> /\ (fatal \/ read_buf = <<>>) /\ fd = cur
       /\ ToBeClosed(conns[fd])
       /\ UNCHANGED <<conns, sock>>

(* pending_close_.push_back throws: the fd is out of epoll already. *)
ThrowInClose ==
    /\ Thrown(read_buf)
    /\ \E fd \in Fd : Closes(fd) /\ epoll' = Restrict(epoll, DOMAIN epoll \ {fd})
    /\ UNCHANGED <<pending_close, tables, backlog>>

(* The message handler throws: before it changes a table, while it binds a *)
(* login, between the two tables, or behind that, when it copies the frame *)
(* or queues the copy.  Its frame is erased by then; nothing is sent.      *)
ThrowInHandler ==
    /\ pc = "drain" /\ send_queue = <<>> /\ ~ fatal
    /\ read_buf # <<>> /\ Decodable(Head(read_buf))
    /\ Thrown(Tail(read_buf))
    /\ LET in == Head(read_buf)
       IN  \/ /\ in.op = "login" /\ auth(in)
              /\ UG!RegisterResult(in.uid, cur) = "Registered"
              /\ fd_to_uid' = [f \in DOMAIN fd_to_uid \cup {cur} |->
                                  IF f = cur THEN in.uid ELSE fd_to_uid[f]]
              /\ UNCHANGED uid_to_fd
           \/ UNCHANGED tables
           \/ process(cur, in)
    /\ UNCHANGED <<conns, epoll, pending_close, sock, backlog>>

(* read_buf_ cannot grow: of the bytes taken from the socket by then, the  *)
(* last read's are lost.                                                   *)
ThrowInRead ==
    /\ pc = "read"
    /\ LET rx == sock[cur].rx
       IN  \E n \in 1..Min({ReadCap, Len(rx)}) : \E kept \in 0..n - 1 :
              /\ Thrown(SubSeq(rx, 1, kept))
              /\ sock' = [sock EXCEPT ![cur].rx = SubSeq(rx, n + 1, Len(rx))]
    /\ UNCHANGED <<conns, epoll, pending_close, tables, backlog>>

(* write_buf_ cannot grow: send has changed nothing. *)
ThrowInSend ==
    /\ pc = "drain" /\ send_queue # <<>>
    /\ ~ Undeliverable(Head(send_queue))
    /\ Len(conns[Head(send_queue).to].write_buf) < HighWater
    /\ Thrown(read_buf)
    /\ UNCHANGED <<conns, epoll, pending_close, tables, sock, backlog>>

(* The disconnect handler throws, before it changes a table.  The          *)
(* connection is gone from conns_, which closed its fd.                    *)
ThrowInDisconnect ==
    /\ pc = "close" /\ pending_close # <<>>
    /\ Thrown(read_buf)
    /\ conns' = Restrict(conns, DOMAIN conns \ {Head(pending_close)})
    /\ UNCHANGED <<epoll, pending_close, tables, sock, backlog>>

OutOfMemory ==
    \/ ThrowInAccept \/ ThrowInClose \/ ThrowInHandler
    \/ ThrowInRead \/ ThrowInSend \/ ThrowInDisconnect

-----------------------------------------------------------------------------
(* The destructors *)

(* conns_ is destroyed with Core, which closes the clients; the disconnect *)
(* handler is not called.  (The sockets ~Core closes itself, listen_fd_    *)
(* and epoll_fd_, are not part of the state.)                              *)
Unwind ==
    /\ phase = "unwinding"
    /\ phase' = "over"
    /\ conns' = [fd \in {} |-> NewConnection]
    /\ epoll' = [fd \in {} |-> {}]
    /\ UNCHANGED <<pending_close, loop, tables, sock, backlog, budget, history>>

-----------------------------------------------------------------------------
ServerInit ==
    /\ Init
    /\ phase = "init"

ServerNext == StartUp \/ Runs \/ EpollWaitFails \/ OutOfMemory \/ Unwind

ServerSpec == ServerInit /\ [][ServerNext]_<<vars, phase>>

(* The thread goes on when it can, and peers that are there read what they *)
(* are sent.  accept() may fail whenever it is called, but it does not     *)
(* fail for ever while a peer is waiting and an fd is free.                *)
FairServerSpec ==
    /\ ServerSpec
    /\ WF_<<vars, phase>>(Loops \/ Unwind)
    /\ SF_<<vars, phase>>(InLoop(Accept))
    /\ \A fd \in Fd : WF_<<vars, phase>>(InLoop(PeerReads(fd)))

-----------------------------------------------------------------------------
(* Properties *)

(* No event is handled after a failure that left something half done: as   *)
(* long as the loop runs, the tables are exact inverses that name only     *)
(* open connections, and every connection is watched or waits to be        *)
(* destroyed (users_group.h:110-113, main.cpp:47-51).                      *)
IntactWhileRunning ==
    phase = "running" =>
        /\ UG!InvariantsOk
        /\ BindingsAreCurrent
        /\ DOMAIN epoll = DOMAIN conns \ ToSet(pending_close)

(* Until the process unwinds it serves as Service promises, wherever memory *)
(* or a system call failed: whatever a peer has seen by then, of a frame   *)
(* handled, answered or refused, came from a step of the loop that was     *)
(* done whole (core.cpp:77-98, main.cpp:47-51).                            *)
ServesUntilUnwinding ==
    [][phase' \notin {"unwinding", "over"} => [S!Next]_(S!vars)]_<<vars, phase>>

(* Out of fds the listening socket stays ready and the loop spins, but it  *)
(* goes on serving: when the peers of all open connections are done, the   *)
(* one that waits is accepted, unless the loop ends (core.cpp:100-108).    *)
PeerDone(fd) == sock[fd].eof \/ sock[fd].reset

BacklogServed ==
    phase = "running" /\ backlog > 0 /\ (\A fd \in DOMAIN conns : PeerDone(fd))
        ~> phase # "running" \/ backlog = 0 \/ \E fd \in DOMAIN conns : ~ PeerDone(fd)
=============================================================================
