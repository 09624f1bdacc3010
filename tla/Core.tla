-------------------------------- MODULE Core --------------------------------
(***************************************************************************)
(* The server: core::Core (src/server/core/core.cpp), one thread around    *)
(* epoll_wait, with its connections, the coordination layer it calls       *)
(* (Controller) and, as environment, the kernel's sockets and the peers.   *)
(*                                                                         *)
(* The thread's place in its loops is pc.  Peers and kernel move between   *)
(* any two of its steps, so an event taken from epoll_wait may be stale    *)
(* when it is handled.  Data is counted in frames: rx and tx are what is   *)
(* under way to and from the server, read_buf and write_buf what the       *)
(* server holds (Connections models the bytes of the write side).          *)
(***************************************************************************)
EXTENDS Controller, FiniteSets

CONSTANTS
    MaxEvents,      \* size of the epoll_wait batch (64)
    ReadCap,        \* frames after which on_readable stops (kReadSoftCap)
    HighWater,      \* frames waiting to be written (kWriteHighWater)
    TxCap,          \* frames the kernel holds towards a peer that does not read
    ListenFd,       \* the listening socket
    NoUser,         \* nobody logged in yet
    PeerFrames,     \* what peers send
    MaxConnects,    \* bound: connections made by peers
    MaxFrames       \* bound: frames sent by peers

ASSUME LimitsAssumption ==
    /\ {MaxEvents, ReadCap, HighWater, TxCap} \subseteq Nat \ {0}
    /\ {MaxConnects, MaxFrames} \subseteq Nat
    /\ PeerFrames \subseteq Inbound
ASSUME FreshAssumption == ListenFd \notin Fd /\ NoUser \notin Uid

VARIABLES
    conns,          \* conns_: the open connections
    epoll,          \* the interest mask of every registered client fd
    pending_close,  \* pending_close_
    pc,             \* where the thread is
    batch,          \* events of this batch, the head being handled
    read_buf,       \* the read buffer of the connection being handled
    rst,            \* what on_readable returned for it
    fatal,          \* it is to be closed
    send_queue,     \* frames to send for its current frame
    sock,           \* environment: the kernel's socket and the peer, per fd
    backlog,        \* environment: connections not accepted yet
    budget,         \* bound: connections and frames the peers may still make
    loginOf,        \* history: the user that logged in on the connection
    greeting,       \* history: the successful login result of the connection
    owed            \* history: the login or request to be answered still, if any

loop == <<pc, batch, read_buf, rst, fatal, send_queue>>
tables == <<uid_to_fd, fd_to_uid>>
history == <<loginOf, greeting, owed>>
vars == <<conns, epoll, pending_close, loop, tables, sock, backlog, budget, history>>

-----------------------------------------------------------------------------
(* The kernel, modelled from how the server uses it *)

NewSocket == [rx |-> <<>>, tx |-> <<>>, eof |-> FALSE, reset |-> FALSE]

(* Events epoll has for a registered fd.  EPOLLHUP and EPOLLERR come       *)
(* whatever the mask; what comes with them is not looked at.               *)
EventsOf(fd) ==
    IF sock[fd].reset THEN {"hup"}
    ELSE epoll[fd] \cap
            ((IF sock[fd].rx # <<>> \/ sock[fd].eof THEN {"in"} ELSE {}) \cup
             (IF Len(sock[fd].tx) < TxCap THEN {"out"} ELSE {}))

Ready ==
    {fd \in DOMAIN epoll : EventsOf(fd) # {}} \cup
    (IF backlog > 0 THEN {ListenFd} ELSE {})

-----------------------------------------------------------------------------
(* Connections *)

NewConnection == [write_buf |-> <<>>, peer_closed |-> FALSE]

want_write(conn) == conn.write_buf # <<>>

(* flush(): what the kernel takes of buf, what stays, and the result. *)
flush(fd, buf) ==
    LET n == IF sock[fd].reset THEN 0 ELSE Min({Len(buf), TxCap - Len(sock[fd].tx)})
    IN  [tx   |-> sock[fd].tx \o SubSeq(buf, 1, n),
         rest |-> SubSeq(buf, n + 1, Len(buf)),
         st   |-> IF n = Len(buf) THEN "ok"
                  ELSE IF sock[fd].reset THEN "closed" ELSE "would_block"]

(* send(): refused above the high-water mark, else appended and flushed. *)
send(fd, frame) ==
    IF Len(conns[fd].write_buf) + 1 > HighWater
    THEN [tx |-> sock[fd].tx, rest |-> conns[fd].write_buf, st |-> "error"]
    ELSE flush(fd, Append(conns[fd].write_buf, frame))

(* on_writeable(): a connection whose peer closed is done when flushed. *)
on_writeable(fd) ==
    LET w == flush(fd, conns[fd].write_buf)
    IN  IF w.st = "ok" /\ conns[fd].peer_closed THEN [w EXCEPT !.st = "closed"] ELSE w

(* The effect of flush, send or on_writeable on the two ends. *)
Written(fd, w) ==
    /\ conns' = [conns EXCEPT ![fd].write_buf = w.rest]
    /\ sock' = [sock EXCEPT ![fd].tx = w.tx]

-----------------------------------------------------------------------------
(* Core: closing and re-arming *)

is_pending_close(fd) == fd \in ToSet(pending_close)

(* Seeded fault: EPOLL_CTL_DEL is forgotten. *)
CloseStaysWatched(fd) ==
    /\ UNCHANGED epoll
    /\ pending_close' = IF is_pending_close(fd) THEN pending_close
                        ELSE Append(pending_close, fd)

(* Seeded fault: the fd is taken out of epoll and never destroyed. *)
CloseForgets(fd) ==
    /\ epoll' = Restrict(epoll, DOMAIN epoll \ {fd})
    /\ UNCHANGED pending_close

(* Idempotent; the connection stays in conns_ until the batch is over. *)
close_client(fd) ==
    /\ epoll' = Restrict(epoll, DOMAIN epoll \ {fd})
    /\ pending_close' = IF is_pending_close(fd) THEN pending_close
                        ELSE Append(pending_close, fd)

MaskOf(conn) ==
    (IF conn.peer_closed THEN {} ELSE {"in"}) \cup
    (IF want_write(conn) THEN {"out"} ELSE {})

(* The mask is computed anew from the connection as the step leaves it. *)
update_events(fd, conn) ==
    IF MaskOf(conn) = {} THEN close_client(fd)
    ELSE /\ epoll' = [epoll EXCEPT ![fd] = MaskOf(conn)]
         /\ UNCHANGED pending_close

-----------------------------------------------------------------------------
(* Core: the thread *)

cur == Head(batch).fd
events == Head(batch).events

(* epoll_wait returns: as many ready fds as fit, in any order. *)
EpollWait ==
    /\ pc = "wait"
    /\ Ready # {}
    /\ \E chosen \in kSubset(Min({MaxEvents, Cardinality(Ready)}), Ready) :
          \E order \in SetToSeqs(chosen) :
              batch' = [i \in DOMAIN order |->
                          [fd |-> order[i],
                           events |-> IF order[i] = ListenFd THEN {"in"} ELSE EventsOf(order[i])]]
    /\ pc' = "dispatch"
    /\ UNCHANGED <<conns, epoll, pending_close, read_buf, rst, fatal, send_queue,
                   tables, sock, backlog, budget, history>>

NextEvent == batch' = Tail(batch) /\ pc' = "dispatch"

(* Seeded fault: EPOLL_CTL_ADD is forgotten. *)
WatchNothing(fd) == UNCHANGED epoll

Watch(fd) ==
    epoll' = [f \in DOMAIN epoll \cup {fd} |-> IF f = fd THEN {"in"} ELSE epoll[f]]

(* handle_accept(): one turn of its loop.  The kernel gives any free fd.   *)
Accept ==
    /\ pc = "dispatch" /\ batch # <<>> /\ cur = ListenFd
    /\ backlog > 0
    /\ \E fd \in Fd \ DOMAIN conns :
          /\ conns' = [f \in DOMAIN conns \cup {fd} |->
                          IF f = fd THEN NewConnection ELSE conns[f]]
          /\ Watch(fd)
          /\ sock' = [sock EXCEPT ![fd] = NewSocket]
    /\ backlog' = backlog - 1
    /\ UNCHANGED <<pending_close, loop, tables, budget, history>>

(* Seeded fault: without a free fd, accept is tried again at once. *)
AcceptRetries ==
    /\ pc = "dispatch" /\ batch # <<>> /\ cur = ListenFd
    /\ backlog = 0
    /\ NextEvent
    /\ UNCHANGED <<conns, epoll, pending_close, read_buf, rst, fatal, send_queue,
                   tables, sock, backlog, budget, history>>

(* Any failure of accept() ends the loop: nobody is waiting, no fd is left *)
(* (EMFILE), the kernel is short of memory, or the peer has given up, whose *)
(* connection is then gone (ECONNABORTED).                                 *)
AcceptEnds ==
    /\ pc = "dispatch" /\ batch # <<>> /\ cur = ListenFd
    /\ \/ UNCHANGED backlog
       \/ /\ backlog > 0 /\ Fd \ DOMAIN conns # {}
          /\ backlog' = backlog - 1
    /\ NextEvent
    /\ UNCHANGED <<conns, epoll, pending_close, read_buf, rst, fatal, send_queue,
                   tables, sock, budget, history>>

(* An event for a connection that an earlier event of the batch doomed. *)
SkipEvent ==
    /\ pc = "dispatch" /\ batch # <<>> /\ cur # ListenFd
    /\ cur \notin DOMAIN conns \ ToSet(pending_close)
    /\ NextEvent
    /\ UNCHANGED <<conns, epoll, pending_close, read_buf, rst, fatal, send_queue,
                   tables, sock, backlog, budget, history>>

(* handle_client() begins; a hang-up ends it at once. *)
HandleClient ==
    /\ pc = "dispatch" /\ batch # <<>> /\ cur # ListenFd
    /\ cur \in DOMAIN conns \ ToSet(pending_close)
    /\ \/ /\ "hup" \in events
          /\ close_client(cur)
          /\ NextEvent
       \/ /\ "hup" \notin events
          /\ pc' = IF "out" \in events THEN "write" ELSE "read"
          /\ UNCHANGED <<batch, epoll, pending_close>>
    /\ UNCHANGED <<conns, read_buf, rst, fatal, send_queue,
                   tables, sock, backlog, budget, history>>

(* The EPOLLOUT part of handle_client. *)
HandleWrite ==
    /\ pc = "write"
    /\ LET w == on_writeable(cur)
       IN  /\ Written(cur, w)
           /\ \/ /\ w.st = "closed"
                 /\ close_client(cur)
                 /\ NextEvent
              \/ /\ w.st # "closed" /\ "in" \in events
                 /\ pc' = "read"
                 /\ UNCHANGED <<batch, epoll, pending_close>>
              \/ /\ w.st # "closed" /\ "in" \notin events
                 /\ update_events(cur, conns'[cur])
                 /\ NextEvent
    /\ UNCHANGED <<read_buf, rst, fatal, send_queue, tables, backlog, budget, history>>

(* The EPOLLIN part: on_readable(), up to the soft cap or until the socket *)
(* is drained; only then does it see the end of file or the error.         *)
HandleRead ==
    /\ pc = "read"
    /\ LET s == sock[cur]
           n == Min({ReadCap, Len(s.rx)})
       IN  /\ read_buf' = SubSeq(s.rx, 1, n)
           /\ sock' = [sock EXCEPT ![cur].rx = SubSeq(s.rx, n + 1, Len(s.rx))]
           /\ rst' = IF n = ReadCap THEN "ok"
                     ELSE IF s.reset THEN "error"
                     ELSE IF s.eof THEN "closed" ELSE "would_block"
           /\ conns' = [conns EXCEPT ![cur].peer_closed = @ \/ rst' = "closed"]
    /\ pc' = "drain"
    /\ UNCHANGED <<epoll, pending_close, batch, fatal, send_queue,
                   tables, backlog, budget, history>>

(* The drain loop takes the next frame: bytes that cannot be decoded doom  *)
(* the connection; a frame is erased, then given to the message handler.   *)
DrainFrame ==
    /\ pc = "drain" /\ send_queue = <<>> /\ ~ fatal /\ read_buf # <<>>
    /\ LET in == Head(read_buf)
       IN  \/ /\ ~ Decodable(in)
              /\ fatal' = TRUE
              /\ UNCHANGED <<read_buf, send_queue, tables, history>>
           \/ /\ Decodable(in)
              /\ read_buf' = Tail(read_buf)
              /\ send_queue' = out_queue(cur, in)
              /\ process(cur, in)
              /\ loginOf' = IF in.op = "login" /\ loginOf[cur] = NoUser /\ auth(in)
                            THEN [loginOf EXCEPT ![cur] = in.uid] ELSE loginOf
              /\ owed' = IF /\ \/ in.op = "login"
                               \/ in.op = "request" /\ loginOf[cur] # NoUser
                            /\ in.fits
                         THEN <<in>> ELSE <<>>
              /\ UNCHANGED <<fatal, greeting>>
    /\ UNCHANGED <<conns, epoll, pending_close, pc, batch, rst, sock, backlog, budget>>

(* A frame of the out queue that is dropped: its target is gone or doomed, *)
(* or it cannot be encoded.                                                *)
Undeliverable(item) ==
    \/ item.to \notin DOMAIN conns \ ToSet(pending_close)
    \/ ~ Encodable(item.frame)

IsGreeting(frame) ==
    frame.op = "response" /\ frame.status = "ok" /\ frame.of.op = "login"

IsReplyTo(frame, asked) == frame.op = "response" /\ <<frame.of>> = asked

Accepted(item) ==
    /\ greeting' = IF IsGreeting(item.frame)
                   THEN [greeting EXCEPT ![item.to] = "sent"] ELSE greeting
    /\ owed' = IF item.to = cur /\ IsReplyTo(item.frame, owed) THEN <<>> ELSE owed

Dropped(item) ==
    /\ greeting' = IF IsGreeting(item.frame) /\ greeting[item.to] = "none"
                   THEN [greeting EXCEPT ![item.to] = "dropped"] ELSE greeting
    /\ UNCHANGED owed

(* Seeded fault: nobody arms EPOLLOUT for the target. *)
RearmNobody(to, st) == UNCHANGED <<epoll, pending_close>>

(* A blocked target gets EPOLLOUT armed here, unless it is the connection  *)
(* being handled, whose mask is computed anew at the end anyway.           *)
Rearm(to, st) ==
    IF st = "would_block" /\ to # cur
    THEN update_events(to, conns'[to])
    ELSE UNCHANGED <<epoll, pending_close>>

(* Seeded fault: the sender is closed for what its target did. *)
SendFailedBlamesSender(to) ==
    /\ fatal' = TRUE
    /\ send_queue' = <<>>
    /\ UNCHANGED <<epoll, pending_close>>

(* Seeded fault: the rest of the queue, the reply included, is dropped. *)
SendFailedDropsRest(to) ==
    /\ close_client(to)
    /\ send_queue' = <<>>
    /\ UNCHANGED fatal

(* Seeded fault: the connection being handled is closed on the spot. *)
SendFailedClosesAnyone(to) ==
    /\ close_client(to)
    /\ send_queue' = Tail(send_queue)
    /\ UNCHANGED fatal

(* A target that fails is closed; when it is the connection being handled  *)
(* it is only marked, which ends both loops.                               *)
SendFailed(to) ==
    \/ /\ to # cur
       /\ close_client(to)
       /\ send_queue' = Tail(send_queue)
       /\ UNCHANGED fatal
    \/ /\ to = cur
       /\ fatal' = TRUE
       /\ send_queue' = <<>>
       /\ UNCHANGED <<epoll, pending_close>>

(* The next frame of the out queue is encoded and sent. *)
SendFrame ==
    /\ pc = "drain" /\ send_queue # <<>>
    /\ LET item == Head(send_queue)
           w == send(item.to, item.frame)
       IN  \/ /\ Undeliverable(item)
              /\ Dropped(item)
              /\ send_queue' = Tail(send_queue)
              /\ UNCHANGED <<conns, sock, epoll, pending_close, fatal>>
           \/ /\ ~ Undeliverable(item)
              /\ w.st \in {"ok", "would_block"}
              /\ Written(item.to, w)
              /\ Rearm(item.to, w.st)
              /\ Accepted(item)
              /\ send_queue' = Tail(send_queue)
              /\ UNCHANGED fatal
           \/ /\ ~ Undeliverable(item)
              /\ w.st \in {"closed", "error"}
              /\ Written(item.to, w)
              /\ SendFailed(item.to)
              /\ UNCHANGED <<greeting, owed>>
    /\ UNCHANGED <<pc, batch, read_buf, rst, tables, backlog, budget, loginOf>>

(* Seeded fault: the output of a half-closed peer is not waited for. *)
ToBeClosedAtOnce(conn) == fatal \/ rst \in {"error", "closed"}

(* The connection has failed, or its peer is half-closed and nothing is    *)
(* left to be written to it.                                               *)
ToBeClosed(conn) == fatal \/ rst = "error" \/ (rst = "closed" /\ ~ want_write(conn))

(* handle_client() ends: the one place that closes the connection being    *)
(* handled, else its mask is computed anew.                                *)
FinishClient ==
    /\ pc = "drain" /\ send_queue = <<>> /\ (fatal \/ read_buf = <<>>)
    /\ IF ToBeClosed(conns[cur]) THEN close_client(cur) ELSE update_events(cur, conns[cur])
    /\ NextEvent
    /\ read_buf' = <<>> /\ rst' = "ok" /\ fatal' = FALSE /\ owed' = <<>>
    /\ UNCHANGED <<conns, send_queue, tables, sock, backlog, budget, loginOf, greeting>>

EndBatch ==
    /\ pc = "dispatch" /\ batch = <<>>
    /\ pc' = "close"
    /\ UNCHANGED <<conns, epoll, pending_close, batch, read_buf, rst, fatal, send_queue,
                   tables, sock, backlog, budget, history>>

(* drain_pending_close(): erase the connection, which closes the fd, then  *)
(* tell the coordination layer.                                            *)
DrainPendingClose ==
    /\ pc = "close"
    /\ \/ /\ pending_close # <<>>
          /\ LET fd == Head(pending_close)
             IN  /\ conns' = Restrict(conns, DOMAIN conns \ {fd})
                 /\ delete_fd(fd)
                 /\ sock' = [sock EXCEPT ![fd] = NewSocket]
                 /\ loginOf' = [loginOf EXCEPT ![fd] = NoUser]
                 /\ greeting' = [greeting EXCEPT ![fd] = "none"]
          /\ pending_close' = Tail(pending_close)
          /\ UNCHANGED pc
       \/ /\ pending_close = <<>>
          /\ pc' = "wait"
          /\ UNCHANGED <<conns, tables, sock, pending_close, loginOf, greeting>>
    /\ UNCHANGED <<epoll, batch, read_buf, rst, fatal, send_queue, backlog, budget, owed>>

Server ==
    \/ EpollWait \/ Accept \/ AcceptEnds \/ SkipEvent \/ HandleClient
    \/ HandleWrite \/ HandleRead \/ DrainFrame \/ SendFrame \/ FinishClient
    \/ EndBatch \/ DrainPendingClose

-----------------------------------------------------------------------------
(* Peers (environment) *)

Connect ==
    /\ budget.connects > 0
    /\ backlog' = backlog + 1
    /\ budget' = [budget EXCEPT !.connects = @ - 1]
    /\ UNCHANGED <<conns, epoll, pending_close, loop, tables, sock, history>>

PeerStep(fd) ==
    /\ fd \in DOMAIN conns
    /\ ~ sock[fd].reset
    /\ UNCHANGED <<conns, epoll, pending_close, loop, tables, backlog, history>>

PeerSends(fd) ==
    /\ PeerStep(fd)
    /\ ~ sock[fd].eof
    /\ budget.frames > 0
    /\ budget' = [budget EXCEPT !.frames = @ - 1]
    /\ \E frame \in PeerFrames : sock' = [sock EXCEPT ![fd].rx = Append(@, frame)]

PeerReads(fd) ==
    /\ PeerStep(fd)
    /\ sock[fd].tx # <<>>
    /\ sock' = [sock EXCEPT ![fd].tx = Tail(@)]
    /\ UNCHANGED budget

PeerShutsDown(fd) ==
    /\ PeerStep(fd)
    /\ ~ sock[fd].eof
    /\ sock' = [sock EXCEPT ![fd].eof = TRUE]
    /\ UNCHANGED budget

(* The peer is gone: a crash, a timeout, or a close with data unread.  What *)
(* was under way to it is lost.                                            *)
PeerResets(fd) ==
    /\ PeerStep(fd)
    /\ sock' = [sock EXCEPT ![fd].reset = TRUE, ![fd].tx = <<>>]
    /\ UNCHANGED budget

Peers ==
    \/ Connect
    \/ \E fd \in Fd : PeerSends(fd) \/ PeerReads(fd) \/ PeerShutsDown(fd) \/ PeerResets(fd)

-----------------------------------------------------------------------------
Init ==
    /\ UG!Init
    /\ conns = [fd \in {} |-> NewConnection]
    /\ epoll = [fd \in {} |-> {}]
    /\ pending_close = <<>>
    /\ pc = "wait"
    /\ batch = <<>>
    /\ read_buf = <<>>
    /\ rst = "ok"
    /\ fatal = FALSE
    /\ send_queue = <<>>
    /\ sock = [fd \in Fd |-> NewSocket]
    /\ backlog = 0
    /\ budget = [connects |-> MaxConnects, frames |-> MaxFrames]
    /\ loginOf = [fd \in Fd |-> NoUser]
    /\ greeting = [fd \in Fd |-> "none"]
    /\ owed = <<>>

Next == Server \/ Peers

Spec == Init /\ [][Next]_vars

(* The thread always goes on when it can, and the peers that are still     *)
(* there read what they are sent.                                          *)
Fairness == WF_vars(Server) /\ \A fd \in Fd : WF_vars(PeerReads(fd))

FairSpec == Spec /\ Fairness

-----------------------------------------------------------------------------
(* Properties *)

TypeOK ==
    /\ DOMAIN conns \subseteq Fd
    /\ conns \in [DOMAIN conns -> [write_buf : Seq(Outbound), peer_closed : BOOLEAN]]
    /\ DOMAIN epoll \subseteq Fd
    /\ epoll \in [DOMAIN epoll -> SUBSET {"in", "out"}]
    /\ pending_close \in Seq(Fd)
    /\ pc \in {"wait", "dispatch", "write", "read", "drain", "close"}
    /\ batch \in Seq([fd : Fd \cup {ListenFd}, events : SUBSET {"in", "out", "hup"}])
    /\ read_buf \in Seq(Inbound)
    /\ rst \in {"ok", "would_block", "closed", "error"}
    /\ fatal \in BOOLEAN
    /\ send_queue \in Seq([frame : Outbound, to : Fd])
    /\ UG!TypeOK
    /\ sock \in [Fd -> [rx : Seq(Inbound), tx : Seq(Outbound), eof : BOOLEAN, reset : BOOLEAN]]
    /\ backlog \in Nat
    /\ budget \in [connects : Nat, frames : Nat]
    /\ loginOf \in [Fd -> Uid \cup {NoUser}]
    /\ greeting \in [Fd -> {"none", "sent", "dropped"}]
    /\ owed \in Seq(Login \cup Request)

(* A binding is never older than the connection: a bound fd is open and    *)
(* bound to the user that logged in on this connection, however often the  *)
(* fd number was used before (main.cpp:33, core.cpp:309-311).              *)
BindingsAreCurrent ==
    \A fd \in DOMAIN fd_to_uid :
        fd \in DOMAIN conns /\ fd_to_uid[fd] = loginOf[fd]

(* What the server has written to the peer of fd, not read yet. *)
Outgoing(fd) == sock[fd].tx \o conns[fd].write_buf

(* A forwarded request is only ever on its way to a connection on which    *)
(* its receiver logged in.                                                 *)
NoMisdelivery ==
    \A fd \in DOMAIN conns : \A frame \in ToSet(Outgoing(fd)) :
        frame.op = "request" => frame.uid = loginOf[fd]

(* Nothing is forwarded to a connection before its login result: the first *)
(* frame a client gets is the answer to its login, as the client expects   *)
(* (client/main.cpp:127-159), unless that answer is too long to be sent.   *)
LoginResultFirst ==
    \A fd \in DOMAIN conns : \A frame \in ToSet(Outgoing(fd)) :
        frame.op = "request" => greeting[fd] # "none"

(* A connection waits for destruction at most once, it still exists, and   *)
(* epoll no longer reports it.                                             *)
ClosedOnce ==
    /\ \A i, j \in DOMAIN pending_close : pending_close[i] = pending_close[j] => i = j
    /\ ToSet(pending_close) \subseteq DOMAIN conns \ DOMAIN epoll

(* While handle_client works on a connection it stays in conns_ and is not *)
(* doomed: the reference it holds does not dangle (core.cpp:162-175).      *)
HandledIsAlive ==
    pc \in {"write", "read", "drain"} => cur \in DOMAIN conns \ ToSet(pending_close)

(* When the thread goes to sleep epoll watches every connection for what   *)
(* it waits for: input unless the peer closed, output if any is left.  One *)
(* whose peer closed and whose output another connection's frame flushed   *)
(* has nothing left, but is still watched and goes with the next EPOLLOUT. *)
NothingStalls ==
    pc = "wait" =>
        /\ DOMAIN epoll = DOMAIN conns
        /\ \A fd \in DOMAIN conns :
              /\ MaskOf(conns[fd]) \subseteq epoll[fd]
              /\ epoll[fd] # {}

(* Whatever happens to the receivers, the sender of a request and a client *)
(* that logs in get their reply before the next frame is looked at, or are *)
(* closed (core.cpp:214-218).  The one exception is a reply that is too    *)
(* long to be encoded, which is dropped (core.cpp:240-244).                *)
EveryAskerAnswered ==
    pc = "drain" /\ send_queue = <<>> /\ ~ fatal => owed = <<>>

(* A connection is closed only for what its own peer did: it reset or      *)
(* closed, it sent garbage, or it let output pile up to the high-water     *)
(* mark (core.cpp:214-276).                                                *)
AtFault(fd) ==
    \/ sock[fd].reset
    \/ conns'[fd].peer_closed
    \/ Len(conns[fd].write_buf) >= HighWater
    \/ fd = cur /\ read_buf # <<>> /\ ~ Decodable(Head(read_buf))

Dooms(fd) == fd \in ToSet(pending_close)' \ ToSet(pending_close)

OnlyTheFaultyClosed ==
    [][\A fd \in Fd : Dooms(fd) => AtFault(fd)]_vars

(* Output left in a write buffer is sent, if the peer goes on reading. *)
OutputDrains ==
    \A fd \in Fd :
        fd \in DOMAIN conns /\ want_write(conns[fd])
            ~> fd \notin DOMAIN conns \/ ~ want_write(conns[fd])

(* A connection whose peer closed or reset is destroyed. *)
DeadConnectionsGo ==
    \A fd \in Fd :
        fd \in DOMAIN conns /\ (sock[fd].eof \/ sock[fd].reset) ~> fd \notin DOMAIN conns

(* What a peer sent is read, until its connection is gone. *)
InputConsumed ==
    \A fd \in Fd :
        fd \in DOMAIN conns /\ sock[fd].rx # <<>>
            ~> fd \notin DOMAIN conns \/ sock[fd].rx = <<>>

(* architecture.md:205: a login that succeeds binds the connection and is   *)
(* answered with response(ok).                                             *)
LoginAnswered ==
    pc = "wait" => \A fd \in DOMAIN fd_to_uid : greeting[fd] = "sent"
=============================================================================
