---------------------------- MODULE ServerProofs ----------------------------
(***************************************************************************)
(* Proofs about the event loop as a whole and about the process around it, *)
(* for any sets of users and fds and any limits.                           *)
(*                                                                         *)
(* The event loop implements Service.  Quiet is what the step simulation   *)
(* needs beyond the invariants of CoreProofs: nothing is queued outside    *)
(* the drain loop, an fd without a connection has a fresh socket, and a    *)
(* peer counts as closed only once all it sent has been read.              *)
(*                                                                         *)
(* The process keeps all that until it unwinds (ProcessInv): what fails or *)
(* throws leaves the loop in the same step.                                *)
(***************************************************************************)
EXTENDS CoreProofs, Server

Quiet ==
    /\ pc # "drain" => send_queue = <<>>
    /\ \A fd \in Fd \ DOMAIN conns : sock[fd] = NewSocket
    /\ \A fd \in DOMAIN conns :
          conns[fd].peer_closed => sock[fd].eof /\ sock[fd].rx = <<>>

RInv == Inv /\ Blame /\ HungUp /\ Quiet

-----------------------------------------------------------------------------
(* Facts about sequences *)

LEMMA TailConcat ==
    ASSUME NEW S1, NEW s \in Seq(S1), NEW t \in Seq(S1), s # <<>>
    PROVE  /\ s \o t # <<>>
           /\ Head(s \o t) = Head(s)
           /\ Tail(s \o t) = Tail(s) \o t
<1>1. /\ s \o t \in Seq(S1) /\ Len(s \o t) = Len(s) + Len(t)
      /\ \A i \in 1..Len(s) + Len(t) :
            (s \o t)[i] = IF i <= Len(s) THEN s[i] ELSE t[i - Len(s)]
  BY ConcatProperties
<1>2. Len(s) \in Nat \ {0} /\ Len(t) \in Nat
  BY EmptySeq, LenProperties
<1>3. s \o t # <<>>
  BY <1>1, <1>2, EmptySeq
<1>4. Head(s \o t) = Head(s)
  BY <1>1, <1>2
<1> DEFINE u == s \o t
           r == Tail(s)
<1>5. /\ r \in Seq(S1) /\ Len(r) = Len(s) - 1
      /\ \A i \in 1..Len(s) - 1 : r[i] = s[i + 1]
  BY HeadTailProperties
<1>6. /\ Tail(u) \in Seq(S1) /\ Len(Tail(u)) = Len(s) + Len(t) - 1
      /\ \A i \in 1..Len(s) + Len(t) - 1 : Tail(u)[i] = u[i + 1]
  BY <1>1, <1>3, HeadTailProperties
<1> HIDE DEF u, r
<1>7. /\ r \o t \in Seq(S1) /\ Len(r \o t) = Len(s) - 1 + Len(t)
      /\ \A i \in 1..Len(s) - 1 + Len(t) :
            (r \o t)[i] = IF i <= Len(s) - 1 THEN r[i] ELSE t[i - (Len(s) - 1)]
  BY <1>5, ConcatProperties
<1>8. ASSUME NEW i \in 1..Len(s) + Len(t) - 1
      PROVE  Tail(u)[i] = (r \o t)[i]
  <2>1. i + 1 \in 1..Len(s) + Len(t) /\ i \in 1..Len(s) - 1 + Len(t)
    BY <1>2
  <2>2. Tail(u)[i] = IF i + 1 <= Len(s) THEN s[i + 1] ELSE t[i + 1 - Len(s)]
    BY <1>1, <1>6, <2>1 DEF u
  <2>3. CASE i <= Len(s) - 1
    <3>1. i + 1 <= Len(s) /\ i \in 1..Len(s) - 1
      BY <1>2, <2>3
    <3>2. r[i] = s[i + 1]
      BY <1>5, <3>1
    <3> QED
      BY <1>7, <2>1, <2>2, <2>3, <3>1, <3>2
  <2>4. CASE ~ (i <= Len(s) - 1)
    <3>1. i + 1 - Len(s) = i - (Len(s) - 1) /\ ~ (i + 1 <= Len(s))
      BY <1>2, <2>4
    <3> QED
      BY <1>7, <2>1, <2>2, <2>4, <3>1
  <2> QED
    BY <2>3, <2>4
<1>9. Tail(u) = r \o t
  <2>1. Len(Tail(u)) = Len(r \o t) /\ Len(Tail(u)) = Len(s) + Len(t) - 1
    BY <1>2, <1>6, <1>7
  <2> QED
    BY <1>6, <1>7, <1>8, <2>1, SeqEqual
<1> QED
  BY <1>3, <1>4, <1>9 DEF u, r

LEMMA AppendConcat ==
    ASSUME NEW S1, NEW s \in Seq(S1), NEW t \in Seq(S1), NEW e \in S1
    PROVE  s \o Append(t, e) = Append(s \o t, e)
<1>1. s \o t \in Seq(S1) /\ <<e>> \in Seq(S1)
  BY ConcatProperties
<1>2. Append(s \o t, e) = (s \o t) \o <<e>> /\ Append(t, e) = t \o <<e>>
  BY <1>1, AppendIsConcat
<1> QED
  BY <1>1, <1>2, ConcatAssociative

LEMMA SplitSeq ==
    ASSUME NEW S1, NEW s \in Seq(S1), NEW n \in 0..Len(s)
    PROVE  SubSeq(s, 1, n) \o SubSeq(s, n + 1, Len(s)) = s
<1>1. Len(s) \in Nat
  BY LenProperties
<1>2. 1 \in 1..Len(s) + 1 /\ n \in (1 - 1)..Len(s) /\ Len(s) \in n..Len(s)
  BY <1>1
<1>3. SubSeq(s, 1, n) \o SubSeq(s, n + 1, Len(s)) = SubSeq(s, 1, Len(s))
  BY <1>2, ConcatAdjacentSubSeq
<1> QED
  BY <1>3, SubSeqFull

-----------------------------------------------------------------------------
(* Quiet *)

LEMMA WrittenSockets ==
    ASSUME SockOK, NEW fd \in Fd, NEW w, Written(fd, w)
    PROVE  /\ \A f \in Fd \ {fd} : sock'[f] = sock[f]
           /\ sock'[fd] = [sock[fd] EXCEPT !.tx = w.tx]
           /\ \A f \in Fd : /\ sock'[f].eof = sock[f].eof
                            /\ sock'[f].rx = sock[f].rx
                            /\ sock'[f].reset = sock[f].reset
BY DEF Written, SockOK, Socket

LEMMA WrittenQuiet ==
    ASSUME Inv, Quiet, NEW fd \in Fd, fd \in DOMAIN conns, NEW w, Written(fd, w),
           pc' # "drain" => send_queue' = <<>>
    PROVE  Quiet'
<1> USE DEF Inv, Data
<1>1. DOMAIN conns' = DOMAIN conns
  BY DEF Written
<1>2. \A f \in DOMAIN conns : f \in Fd /\ conns'[f].peer_closed = conns[f].peer_closed
  BY WrittenKeeps DEF Struct, Closing
<1> QED
  BY <1>1, <1>2, WrittenSockets DEF Quiet

LEMMA HandleReadQuiet == Inv /\ Quiet /\ HandleRead => Quiet'
<1> SUFFICES ASSUME Inv, Quiet, HandleRead
             PROVE  Quiet'
  OBVIOUS
<1> USE DEF Inv, Data
<1> DEFINE s == sock[cur]
           n == Min({ReadCap, Len(s.rx)})
           rest == SubSeq(s.rx, n + 1, Len(s.rx))
<1>1. /\ sock' = [sock EXCEPT ![cur].rx = rest]
      /\ rst' = IF n = ReadCap THEN "ok"
                ELSE IF s.reset THEN "error"
                ELSE IF s.eof THEN "closed" ELSE "would_block"
      /\ conns' = [conns EXCEPT ![cur].peer_closed = @ \/ rst' = "closed"]
      /\ pc' = "drain"
  BY DEF HandleRead
<1>2. cur \in Fd /\ cur \in DOMAIN conns
  BY DEF HandleRead, Struct, Closing, Handling
<1>3. /\ s.rx \in Seq(Inbound) /\ Len(s.rx) \in Nat /\ ReadCap \in Nat
  BY <1>2, LimitsAssumption DEF SockOK, Socket
<1>4. n = IF ReadCap <= Len(s.rx) THEN ReadCap ELSE Len(s.rx)
  <2> HIDE DEF s
  <2> QED
    BY <1>3, MinOfTwo
<1> HIDE DEF n
<1>5. n = Len(s.rx) => rest = <<>>
  <2> HIDE DEF s
  <2>1. SubSeq(s.rx, Len(s.rx) + 1, Len(s.rx)) = <<>>
    BY <1>3, SubSeqEmpty
  <2> QED
    BY <2>1
<1>6. rst' = "closed" => s.eof /\ rest = <<>>
  BY <1>1, <1>4, <1>5
<1>7. s.rx = <<>> => rest = <<>>
  <2> HIDE DEF s
  <2>1. s.rx = <<>> => Len(s.rx) = 0
    OBVIOUS
  <2>2. s.rx = <<>> => n = Len(s.rx)
    BY <1>3, <1>4, <2>1, LimitsAssumption
  <2> QED
    BY <1>5, <2>2
<1> HIDE DEF rest
<1>8. /\ sock'[cur].rx = rest /\ sock'[cur].eof = s.eof
      /\ \A f \in Fd \ {cur} : sock'[f] = sock[f]
  BY <1>1, <1>2 DEF SockOK, Socket
<1>9. /\ DOMAIN conns' = DOMAIN conns
      /\ conns'[cur].peer_closed => conns[cur].peer_closed \/ rst' = "closed"
      /\ \A f \in DOMAIN conns \ {cur} : conns'[f] = conns[f]
  BY <1>1, <1>2 DEF ConnsOK, Conn
<1>10. \A f \in DOMAIN conns : f \in Fd
  BY DEF Struct, Closing
<1> HIDE DEF s
<1>11. ASSUME NEW f \in DOMAIN conns', conns'[f].peer_closed
       PROVE  sock'[f].eof /\ sock'[f].rx = <<>>
  <2>1. CASE f = cur
    <3>1. conns[cur].peer_closed => s.eof /\ s.rx = <<>>
      BY <1>2 DEF Quiet, s
    <3> QED
      BY <1>6, <1>7, <1>8, <1>9, <1>11, <2>1, <3>1
  <2>2. CASE f # cur
    BY <1>8, <1>9, <1>10, <1>11, <2>2 DEF Quiet
  <2> QED
    BY <2>1, <2>2
<1> QED
  BY <1>1, <1>2, <1>8, <1>9, <1>11 DEF Quiet

LEMMA PeersQuiet == Inv /\ Quiet /\ Peers => Quiet'
<1> SUFFICES ASSUME Inv, Quiet, Peers
             PROVE  Quiet'
  OBVIOUS
<1> USE DEF Inv, Data
<1>1. UNCHANGED <<conns, pc, send_queue>>
  BY PeersKeep DEF loop
<1>2. CASE Connect
  BY <1>1, <1>2 DEF Connect, Quiet
<1>3. ASSUME NEW fd \in Fd,
             PeerSends(fd) \/ PeerReads(fd) \/ PeerShutsDown(fd) \/ PeerResets(fd)
      PROVE  Quiet'
  <2>1. fd \in DOMAIN conns /\ \A f \in Fd \ {fd} : sock'[f] = sock[f]
    BY <1>3 DEF PeerSends, PeerReads, PeerShutsDown, PeerResets, PeerStep, SockOK
  <2>2. sock[fd].eof => sock'[fd].eof /\ sock'[fd].rx = sock[fd].rx
    <3>1. CASE PeerSends(fd)
      BY <3>1 DEF PeerSends
    <3>2. CASE PeerReads(fd)
      BY <3>2 DEF PeerReads, SockOK, Socket
    <3>3. CASE PeerShutsDown(fd)
      BY <3>3 DEF PeerShutsDown, SockOK, Socket
    <3>4. CASE PeerResets(fd)
      BY <3>4 DEF PeerResets, SockOK, Socket
    <3> QED
      BY <1>3, <3>1, <3>2, <3>3, <3>4
  <2>3. \A f \in DOMAIN conns : f \in Fd
    BY DEF Struct, Closing
  <2> QED
    BY <1>1, <2>1, <2>2, <2>3 DEF Quiet
<1> QED
  BY <1>2, <1>3 DEF Peers

LEMMA AcceptQuiet == Inv /\ Quiet /\ Accept => Quiet'
<1> SUFFICES ASSUME Inv, Quiet, Accept
             PROVE  Quiet'
  OBVIOUS
<1> USE DEF Inv, Data
<1>1. PICK fd \in Fd \ DOMAIN conns :
         /\ conns' = [f \in DOMAIN conns \cup {fd} |->
                         IF f = fd THEN NewConnection ELSE conns[f]]
         /\ sock' = [sock EXCEPT ![fd] = NewSocket]
  BY DEF Accept
<1>2. UNCHANGED <<pc, send_queue>>
  BY DEF Accept, loop
<1>3. sock' = sock
  BY <1>1 DEF Quiet, SockOK
<1>4. /\ DOMAIN conns' = DOMAIN conns \cup {fd}
      /\ ~ conns'[fd].peer_closed
      /\ \A f \in DOMAIN conns : conns'[f] = conns[f]
  BY <1>1 DEF NewConnection
<1> QED
  BY <1>1, <1>2, <1>3, <1>4 DEF Quiet

LEMMA DrainPendingCloseQuiet == Inv /\ Quiet /\ DrainPendingClose => Quiet'
<1> SUFFICES ASSUME Inv, Quiet, DrainPendingClose
             PROVE  Quiet'
  OBVIOUS
<1> USE DEF Inv, Data
<1>1. pc = "close" /\ UNCHANGED send_queue
  BY DEF DrainPendingClose
<1>2. CASE pending_close = <<>>
  BY <1>1, <1>2 DEF DrainPendingClose, Quiet
<1>3. CASE pending_close # <<>>
  <2> DEFINE fd == Head(pending_close)
  <2>1. /\ conns' = Restrict(conns, DOMAIN conns \ {fd})
        /\ sock' = [sock EXCEPT ![fd] = NewSocket]
    BY <1>3 DEF DrainPendingClose
  <2>2. fd \in Fd
    BY <1>3, HeadTailProperties DEF Struct, Closing
  <2> HIDE DEF fd
  <2>3. /\ DOMAIN conns' = DOMAIN conns \ {fd}
        /\ \A f \in DOMAIN conns \ {fd} : conns'[f] = conns[f]
    BY <2>1 DEF Restrict
  <2>4. sock'[fd] = NewSocket /\ \A f \in Fd \ {fd} : sock'[f] = sock[f]
    BY <2>1, <2>2 DEF SockOK
  <2>5. \A f \in DOMAIN conns : f \in Fd
    BY DEF Struct, Closing
  <2> QED
    BY <1>1, <2>2, <2>3, <2>4, <2>5 DEF Quiet
<1> QED
  BY <1>2, <1>3

LEMMA QuietNext == Inv /\ Quiet /\ [Next]_vars => Quiet'
<1> SUFFICES ASSUME Inv, Quiet, [Next]_vars
             PROVE  Quiet'
  OBVIOUS
<1> USE DEF Inv, Data
<1>1. CASE EpollWait \/ AcceptEnds \/ SkipEvent \/ HandleClient \/ EndBatch
  <2>1. UNCHANGED <<conns, sock, send_queue>> /\ pc # "drain"
    BY <1>1 DEF EpollWait, AcceptEnds, SkipEvent, HandleClient, EndBatch
  <2> QED
    BY <2>1 DEF Quiet
<1>2. CASE DrainFrame \/ FinishClient \/ UNCHANGED vars
  <2>1. UNCHANGED <<conns, sock>> /\ (pc' # "drain" => send_queue' = <<>>)
    BY <1>2 DEF DrainFrame, FinishClient, vars, loop, Quiet
  <2> QED
    BY <2>1 DEF Quiet
<1>3. CASE HandleWrite
  <2>1. cur \in Fd /\ cur \in DOMAIN conns
    BY <1>3 DEF HandleWrite, Struct, Closing, Handling
  <2>2. send_queue' = <<>> /\ Written(cur, on_writeable(cur))
    BY <1>3 DEF HandleWrite, Quiet
  <2> QED
    BY <2>1, <2>2, WrittenQuiet
<1>4. CASE SendFrame
  <2> DEFINE item == Head(send_queue)
             w == send(item.to, item.frame)
  <2>1. pc' = "drain"
    BY <1>4 DEF SendFrame
  <2>2. CASE UNCHANGED <<conns, sock>>
    BY <2>1, <2>2 DEF Quiet
  <2>3. CASE ~ Undeliverable(item) /\ Written(item.to, w)
    <3>1. item.to \in Fd /\ item.to \in DOMAIN conns
      BY <2>3 DEF Undeliverable, Struct, Closing
    <3> QED
      BY <2>1, <2>3, <3>1, WrittenQuiet
  <2> QED
    BY <1>4, <2>2, <2>3 DEF SendFrame
<1> QED
  BY <1>1, <1>2, <1>3, <1>4, HandleReadQuiet, PeersQuiet, AcceptQuiet,
     DrainPendingCloseQuiet DEF Next, Server

LEMMA QuietInit == Init => Quiet
BY DEF Init, Quiet

LEMMA RInvInit == Init => RInv
BY InvInit, BlameInit, QuietInit DEF RInv

LEMMA RInvNext == RInv /\ [Next]_vars => RInv'
BY InvNext, BlameNext, HungUpNext, QuietNext DEF RInv

-----------------------------------------------------------------------------
(* The operators of Controller that Service uses mean the same there. *)

LEMMA SameQueries ==
    /\ \A fd : S!UG!has_fd(fd) <=> UG!has_fd(fd)
    /\ \A uid : S!UG!online(uid) <=> UG!online(uid)
    /\ \A uid : S!UG!query_all(uid) = UG!query_all(uid)
    /\ \A uid, fd : S!UG!RegisterResult(uid, fd) = UG!RegisterResult(uid, fd)
BY DEF S!UG!has_fd, UG!has_fd, S!UG!online, UG!online, S!UG!query_all, UG!query_all,
       S!UG!RegisterResult, UG!RegisterResult

LEMMA SameFrames ==
    ASSUME NEW frame
    PROVE  /\ S!Decodable(frame) <=> Decodable(frame)
           /\ S!Encodable(frame) <=> Encodable(frame)
BY DEF S!Decodable, Decodable, S!Garbled, Garbled, S!Encodable, Encodable

LEMMA SameProcess ==
    ASSUME NEW fd, NEW in
    PROVE  S!process(fd, in) <=> process(fd, in)
<1>1. \A uid : S!UG!register_user(uid, fd) <=> UG!register_user(uid, fd)
  BY DEF S!UG!register_user, UG!register_user, S!UG!RegisterResult, UG!RegisterResult,
         S!UG!AddFd, UG!AddFd, S!UG!has_fd, UG!has_fd, S!UG!query_all, UG!query_all,
         S!UG!online, UG!online, S!UG!vars, UG!vars
<1> QED
  BY <1>1 DEF S!process, process, S!auth, auth

LEMMA SameQueue ==
    ASSUME NEW fd, NEW in
    PROVE  S!out_queue(fd, in) = out_queue(fd, in)
<1>1. S!login_ok(fd, in) <=> login_ok(fd, in)
  BY SameQueries DEF S!login_ok, login_ok, S!auth, auth
<1>2. S!forwards(in) = forwards(in)
  BY SameQueries, Zenon DEF S!forwards, forwards, S!Item, Item
<1>3. \A frame, to : S!Item(frame, to) = Item(frame, to)
  BY DEF S!Item, Item
<1>4. /\ S!StatusOf(S!login_ok(fd, in)) = StatusOf(login_ok(fd, in))
      /\ S!StatusOf(S!UG!online(in.uid)) = StatusOf(UG!online(in.uid))
  BY <1>1, SameQueries DEF S!StatusOf, StatusOf
<1>5. S!assemble_ack(in) = assemble_ack(in)
  BY DEF S!assemble_ack, assemble_ack
<1>6. \A status : /\ S!assemble_response(in, status) = assemble_response(in, status)
                  /\ S!assemble_login_result(in, status) = assemble_login_result(in, status)
  BY DEF S!assemble_response, assemble_response, S!assemble_login_result, assemble_login_result
<1>7. S!UG!has_fd(fd) <=> UG!has_fd(fd)
  BY SameQueries
<1>8. CASE in.op = "login"
  <2>1. out_queue(fd, in)
           = <<Item(assemble_login_result(in, StatusOf(login_ok(fd, in))), fd)>>
    BY <1>8 DEF out_queue
  <2>2. S!out_queue(fd, in)
           = <<S!Item(S!assemble_login_result(in, S!StatusOf(S!login_ok(fd, in))), fd)>>
    BY <1>8 DEF S!out_queue
  <2> QED
    BY <1>3, <1>4, <1>6, <2>1, <2>2
<1>9. CASE in.op = "ack" /\ UG!has_fd(fd)
  <2>1. out_queue(fd, in) = <<Item(assemble_ack(in), fd)>>
    BY <1>9 DEF out_queue
  <2>2. S!out_queue(fd, in) = <<S!Item(S!assemble_ack(in), fd)>>
    BY <1>7, <1>9 DEF S!out_queue
  <2> QED
    BY <1>3, <1>5, <2>1, <2>2
<1>10. CASE in.op = "request" /\ UG!has_fd(fd)
  <2>1. out_queue(fd, in)
           = Append(forwards(in), Item(assemble_response(in, StatusOf(UG!online(in.uid))), fd))
    BY <1>10 DEF out_queue
  <2>2. S!out_queue(fd, in)
           = Append(S!forwards(in),
                    S!Item(S!assemble_response(in, S!StatusOf(S!UG!online(in.uid))), fd))
    BY <1>7, <1>10 DEF S!out_queue
  <2> QED
    BY <1>2, <1>3, <1>4, <1>6, <2>1, <2>2
<1>11. CASE /\ in.op # "login"
            /\ ~ (in.op = "ack" /\ UG!has_fd(fd))
            /\ ~ (in.op = "request" /\ UG!has_fd(fd))
  BY <1>7, <1>11 DEF out_queue, S!out_queue
<1> QED
  BY <1>8, <1>9, <1>10, <1>11

LEMMA SameDeletion ==
    ASSUME NEW fd
    PROVE  S!delete_fd(fd) <=> delete_fd(fd)
<1>1. \A s, e : S!UG!delete_device(s, e) = UG!delete_device(s, e)
  BY Zenon DEF S!UG!delete_device, UG!delete_device, S!UG!RemoveFirst, UG!RemoveFirst,
               S!UG!RemoveAt, UG!RemoveAt, S!UG!SelectInSeq, UG!SelectInSeq,
               S!UG!Min, UG!Min
<1>2. S!UG!delete_fd(fd) <=> UG!delete_fd(fd)
  BY <1>1, Zenon
     DEF S!UG!delete_fd, UG!delete_fd, S!UG!DropFd, UG!DropFd, S!UG!has_fd, UG!has_fd,
         S!UG!online, UG!online, S!UG!vars, UG!vars, S!UG!Restrict, UG!Restrict
<1> QED
  BY <1>2 DEF S!delete_fd, delete_fd

-----------------------------------------------------------------------------
(* What a step does to the view of one connection *)

LEMMA ViewTypes ==
    ASSUME RInv, NEW fd \in Fd
    PROVE  /\ sock[fd].rx \in Seq(Inbound) /\ sock[fd].tx \in Seq(Outbound)
           /\ Held(fd) \in Seq(Outbound)
           /\ fd \in DOMAIN conns => conns[fd].write_buf \in Seq(Outbound)
           /\ Incoming(fd) \in Seq(Inbound)
           /\ read_buf \in Seq(Inbound)
<1> USE DEF RInv, Inv, Data
<1>1. sock[fd].rx \in Seq(Inbound) /\ sock[fd].tx \in Seq(Outbound)
  BY DEF SockOK, Socket
<1>2. fd \in DOMAIN conns => conns[fd].write_buf \in Seq(Outbound)
  BY DEF ConnsOK, Conn
<1>3. <<>> \in Seq(Inbound) /\ <<>> \in Seq(Outbound) /\ read_buf \in Seq(Inbound)
  BY EmptySeq DEF LoopOK
<1>4. Held(fd) \in Seq(Outbound)
  BY <1>2, <1>3 DEF Held
<1>5. Incoming(fd) \in Seq(Inbound)
  <2> DEFINE b == IF Draining(fd) THEN read_buf ELSE <<>>
  <2>1. b \in Seq(Inbound)
    BY <1>3
  <2> HIDE DEF b
  <2>2. b \o sock[fd].rx \in Seq(Inbound)
    BY <1>1, <2>1, ConcatProperties
  <2>3. Incoming(fd) = IF fd \in Doomed THEN <<>> ELSE b \o sock[fd].rx
    BY DEF Incoming, b
  <2> QED
    BY <1>3, <2>2, <2>3
<1> QED
  BY <1>1, <1>2, <1>3, <1>4, <1>5

LEMMA ViewValues ==
    ASSUME NEW fd \in Fd
    PROVE  /\ Inbox[fd] = Incoming(fd)
           /\ Todo[fd] = IF Draining(fd) THEN send_queue ELSE <<>>
           /\ Outbox[fd] = sock[fd].tx \o Held(fd)
           /\ Unsent[fd] = Len(Held(fd))
           /\ fd \in Eof <=> sock[fd].eof
           /\ fd \in Gone <=> sock[fd].reset
BY DEF Inbox, Todo, Outbox, Unsent, Eof, Gone

LEMMA InboxStep ==
    ASSUME NEW fd \in Fd, \A f \in Fd \ {fd} : Incoming(f)' = Incoming(f)
    PROVE  Inbox' = [Inbox EXCEPT ![fd] = Incoming(fd)']
BY DEF Inbox

LEMMA InboxKept ==
    ASSUME \A f \in Fd : Incoming(f)' = Incoming(f)
    PROVE  Inbox' = Inbox
BY DEF Inbox

(* The frames to send are a matter of the drain loop only. *)
LEMMA NothingDue ==
    ASSUME send_queue = <<>>
    PROVE  Todo = [f \in Fd |-> <<>>]
BY DEF Todo

LEMMA TodoKept ==
    ASSUME send_queue = <<>>, send_queue' = <<>>
    PROVE  Todo' = Todo
BY DEF Todo

(* Outbox, Unsent, Eof and Gone follow from conns and sock. *)
LEMMA OutputKept ==
    ASSUME DOMAIN conns' = DOMAIN conns,
           \A f \in DOMAIN conns : conns'[f].write_buf = conns[f].write_buf,
           \A f \in Fd : sock'[f].tx = sock[f].tx /\ sock'[f].reset = sock[f].reset
    PROVE  Outbox' = Outbox /\ Unsent' = Unsent /\ Gone' = Gone
<1>1. \A f \in Fd : Held(f)' = Held(f)
  BY DEF Held
<1> QED
  BY <1>1 DEF Outbox, Unsent, Gone

LEMMA EofKept ==
    ASSUME \A f \in Fd : sock'[f].eof = sock[f].eof
    PROVE  Eof' = Eof
BY DEF Eof

LEMMA GoneKept ==
    ASSUME \A f \in Fd : sock'[f].reset = sock[f].reset
    PROVE  Gone' = Gone
BY DEF Gone

(* Closing a connection that epoll watches dooms it. *)
LEMMA ClosedSet ==
    ASSUME Struct, NEW fd \in DOMAIN epoll, close_client(fd)
    PROVE  ToSet(pending_close') = ToSet(pending_close) \cup {fd}
<1>1. fd \in Fd /\ pending_close' = Append(pending_close, fd)
  BY DEF Struct, Closing, close_client, is_pending_close
<1> QED
  BY <1>1, ToSetAppend DEF Struct, Closing

(* Outside the drain loop nothing but the kernel holds input. *)
LEMMA IdleIncoming ==
    ASSUME pc # "drain", ~ fatal, NEW fd
    PROVE  Incoming(fd) = IF fd \in ToSet(pending_close) THEN <<>> ELSE <<>> \o sock[fd].rx
BY DEF Incoming, Doomed, Draining

-----------------------------------------------------------------------------
(* Steps that Service does not see *)

LEMMA Stutter ==
    ASSUME RInv, RInv', pc # "drain", pc' # "drain",
           UNCHANGED <<conns, pending_close, sock, tables>>
    PROVE  UNCHANGED S!vars
<1>1. ~ fatal /\ ~ fatal' /\ send_queue = <<>> /\ send_queue' = <<>>
  BY DEF RInv, Blame, Quiet
<1>2. Doomed' = Doomed
  BY <1>1 DEF Doomed
<1>3. Inbox' = Inbox
  BY <1>1, <1>2, InboxKept DEF Incoming, Draining
<1>4. Todo' = Todo
  BY <1>1, TodoKept
<1>5. Outbox' = Outbox /\ Unsent' = Unsent /\ Gone' = Gone /\ Eof' = Eof
  BY OutputKept, EofKept
<1> QED
  BY <1>2, <1>3, <1>4, <1>5 DEF S!vars, S!tables, tables

LEMMA UnseenSteps ==
    ASSUME RInv, RInv', EpollWait \/ AcceptEnds \/ SkipEvent \/ EndBatch
    PROVE  UNCHANGED S!vars
<1>1. UNCHANGED <<conns, pending_close, sock, tables>> /\ pc # "drain" /\ pc' # "drain"
  BY DEF EpollWait, AcceptEnds, SkipEvent, EndBatch, NextEvent
<1> QED
  BY <1>1, Stutter

(* on_readable() moves input from the kernel to the read buffer. *)
LEMMA HandleReadStep ==
    ASSUME RInv, RInv', HandleRead
    PROVE  UNCHANGED S!vars
<1> USE DEF RInv, Inv, Data
<1>1. PICK c \in Fd : c = cur /\ c \in DOMAIN conns
  BY DEF HandleRead, Struct, Closing, Handling
<1> DEFINE rx == sock[c].rx
           n == Min({ReadCap, Len(rx)})
<1>2. /\ read_buf' = SubSeq(rx, 1, n)
      /\ sock' = [sock EXCEPT ![c].rx = SubSeq(rx, n + 1, Len(rx))]
      /\ conns' = [conns EXCEPT ![c].peer_closed = @ \/ rst' = "closed"]
      /\ pc = "read" /\ pc' = "drain"
      /\ UNCHANGED <<pending_close, batch, fatal, send_queue, tables>>
  BY <1>1 DEF HandleRead
<1>3. rx \in Seq(Inbound) /\ Len(rx) \in Nat
  BY ViewTypes
<1>4. n \in 0..Len(rx)
  <2> HIDE DEF rx
  <2>1. ReadCap \in Nat /\ {ReadCap, Len(rx)} = {Len(rx), ReadCap}
    BY LimitsAssumption
  <2> QED
    BY <1>3, <2>1, MinBelowBoth
<1> HIDE DEF n
<1>5. ~ fatal /\ ~ fatal' /\ send_queue = <<>> /\ send_queue' = <<>>
  BY <1>2 DEF Blame, Quiet
<1>6. /\ cur' = c /\ Doomed' = Doomed /\ Todo' = Todo
  BY <1>1, <1>2, <1>5, TodoKept DEF cur, Doomed
<1>7. /\ sock'[c].rx = SubSeq(rx, n + 1, Len(rx))
      /\ \A f \in Fd : /\ sock'[f].tx = sock[f].tx /\ sock'[f].eof = sock[f].eof
                       /\ sock'[f].reset = sock[f].reset
      /\ \A f \in Fd \ {c} : sock'[f] = sock[f]
  BY <1>2 DEF SockOK, Socket
<1>8. /\ DOMAIN conns' = DOMAIN conns
      /\ \A f \in DOMAIN conns : conns'[f].write_buf = conns[f].write_buf
  BY <1>1, <1>2 DEF ConnsOK, Conn
<1>9. SubSeq(rx, 1, n) \o SubSeq(rx, n + 1, Len(rx)) = <<>> \o rx
  BY <1>3, <1>4, SplitSeq, ConcatEmptySeq
<1>10. Incoming(c)' = Incoming(c)
  <2>1. Incoming(c)' = IF c \in Doomed THEN <<>> ELSE read_buf' \o sock'[c].rx
    BY <1>1, <1>2, <1>6 DEF Incoming, Draining
  <2>2. Incoming(c) = IF c \in Doomed THEN <<>> ELSE <<>> \o rx
    BY <1>2 DEF Incoming, Draining
  <2> QED
    BY <1>2, <1>7, <1>9, <2>1, <2>2
<1>11. ASSUME NEW f \in Fd, f # c
       PROVE  Incoming(f)' = Incoming(f)
  BY <1>2, <1>6, <1>7, <1>11 DEF Incoming, Draining
<1>12. Inbox' = Inbox
  BY <1>10, <1>11, InboxKept
<1>13. Outbox' = Outbox /\ Unsent' = Unsent /\ Gone' = Gone /\ Eof' = Eof
  BY <1>7, <1>8, OutputKept, EofKept
<1> QED
  BY <1>2, <1>6, <1>8, <1>12, <1>13 DEF S!vars, S!tables, tables

-----------------------------------------------------------------------------
(* Failures *)

LEMMA FailStep ==
    ASSUME NEW c \in Fd, c \in DOMAIN conns \ Doomed, DOMAIN conns' = DOMAIN conns,
           Doomed' = Doomed \cup {c},
           \A f \in Fd \ {c} : Incoming(f)' = Incoming(f),
           Todo[c] = <<>>, Todo' = Todo, Outbox' = Outbox, Eof' = Eof, Gone' = Gone,
           NEW left \in 0..Unsent[c], Unsent' = [Unsent EXCEPT ![c] = left],
           UNCHANGED tables,
           \/ c \in Gone
           \/ Inbox[c] # <<>> /\ ~ Decodable(Head(Inbox[c]))
           \/ c \in Eof /\ Inbox[c] = <<>> /\ left = 0
    PROVE  S!Fail(c)
<1>1. Incoming(c)' = <<>>
  BY DEF Incoming
<1>2. Inbox' = [Inbox EXCEPT ![c] = <<>>]
  BY <1>1, InboxStep
<1>3. Unsent'[c] = left
  BY DEF Unsent
<1>4. S!Over(c)
  BY <1>3, SameFrames DEF S!Over
<1>5. c \in S!working
  BY DEF S!working
<1> QED
  BY <1>2, <1>4, <1>5 DEF S!Fail, S!tables, tables

(* The same, when the output stays as it is. *)
LEMMA FailUnwritten ==
    ASSUME RInv, NEW c \in Fd, c \in DOMAIN conns \ Doomed, UNCHANGED <<conns, sock, tables>>,
           Doomed' = Doomed \cup {c},
           \A f \in Fd \ {c} : Incoming(f)' = Incoming(f),
           Todo[c] = <<>>, Todo' = Todo,
           \/ c \in Gone
           \/ Inbox[c] # <<>> /\ ~ Decodable(Head(Inbox[c]))
           \/ c \in Eof /\ Inbox[c] = <<>> /\ conns[c].write_buf = <<>>
    PROVE  S!Fail(c)
<1>1. Outbox' = Outbox /\ Unsent' = Unsent /\ Gone' = Gone /\ Eof' = Eof
  BY OutputKept, EofKept
<1>2. Unsent[c] \in Nat /\ (conns[c].write_buf = <<>> => Unsent[c] = 0)
  <2>1. Unsent[c] = Len(Held(c)) /\ Held(c) \in Seq(Outbound)
    BY ViewTypes, ViewValues
  <2>2. conns[c].write_buf = <<>> => Held(c) = <<>>
    BY DEF Held
  <2> QED
    BY <2>1, <2>2, LenProperties, EmptySeq
<1>3. Unsent' = [Unsent EXCEPT ![c] = Unsent[c]] /\ Unsent[c] \in 0..Unsent[c]
  BY <1>1, <1>2 DEF Unsent
<1> QED
  BY <1>1, <1>2, <1>3, FailStep

(* A connection that fails between two events. *)
LEMMA IdleDoom ==
    ASSUME RInv, RInv', pc # "drain", pc' # "drain",
           NEW c \in Fd, c \in DOMAIN epoll, close_client(c),
           \A f \in Fd : sock'[f].rx = sock[f].rx
    PROVE  /\ c \in DOMAIN conns \ Doomed
           /\ Doomed' = Doomed \cup {c}
           /\ \A f \in Fd \ {c} : Incoming(f)' = Incoming(f)
           /\ Todo[c] = <<>> /\ Todo' = Todo
<1>1. /\ ~ fatal /\ send_queue = <<>> /\ Doomed = ToSet(pending_close)
      /\ ~ fatal' /\ send_queue' = <<>> /\ Doomed' = ToSet(pending_close')
  BY DEF RInv, Blame, Quiet, Doomed
<1>2. Doomed' = Doomed \cup {c}
  BY <1>1, ClosedSet DEF RInv, Inv
<1>3. c \in DOMAIN conns \ Doomed
  BY <1>1 DEF RInv, Inv, Struct, Closing
<1>4. ASSUME NEW f \in Fd \ {c}
      PROVE  Incoming(f)' = Incoming(f)
  BY <1>2, <1>4 DEF Incoming, Draining
<1>5. Todo[c] = <<>> /\ Todo' = Todo
  BY <1>1, ViewValues, TodoKept
<1> QED
  BY <1>2, <1>3, <1>4, <1>5

LEMMA HandleClientStep ==
    ASSUME RInv, RInv', HandleClient
    PROVE  [S!Next]_(S!vars)
<1> USE DEF RInv, Inv, Data
<1>1. PICK c \in Fd : c = cur /\ c \in DOMAIN epoll
  BY DEF HandleClient, Struct, Closing
<1>2. /\ UNCHANGED <<conns, sock, tables>> /\ pc # "drain" /\ pc' # "drain" /\ batch # <<>>
  BY DEF HandleClient, NextEvent
<1>3. CASE "hup" \in events /\ close_client(cur)
  <2>1. sock[c].reset
    <3>1. 1 \in DOMAIN batch /\ Head(batch) = batch[1]
      BY <1>2, EmptySeq DEF Struct, Handling
    <3> QED
      BY <1>1, <1>3, <3>1 DEF HungUp, cur, events
  <2>2. /\ c \in DOMAIN conns \ Doomed
        /\ Doomed' = Doomed \cup {c}
        /\ \A f \in Fd \ {c} : Incoming(f)' = Incoming(f)
        /\ Todo[c] = <<>> /\ Todo' = Todo
    BY <1>1, <1>2, <1>3, IdleDoom
  <2>3. c \in Gone
    BY <2>1, ViewValues
  <2>4. S!Fail(c)
    BY <1>2, <2>2, <2>3, FailUnwritten
  <2> QED
    BY <2>4 DEF S!Next, S!Serve
<1>4. CASE UNCHANGED <<batch, epoll, pending_close>>
  BY <1>2, <1>4, Stutter
<1> QED
  BY <1>3, <1>4 DEF HandleClient

-----------------------------------------------------------------------------
(* Writing *)

(* flush() moves output from the buffer to the kernel. *)
Flushed(fd, buf, w) ==
    /\ w.rest \in Seq(Outbound) /\ w.tx \in Seq(Outbound)
    /\ Len(w.rest) <= Len(buf)
    /\ w.tx \o w.rest = sock[fd].tx \o buf
    /\ sock[fd].reset => w.tx = sock[fd].tx /\ w.rest = buf
    /\ w.st = "ok" => w.rest = <<>>
    /\ w.st = "closed" => sock[fd].reset
    /\ w.st = "would_block" => w.rest # <<>> /\ ~ sock[fd].reset
    /\ w.st \in {"ok", "closed", "would_block"}

LEMMA FlushView ==
    ASSUME RInv, NEW fd \in Fd, NEW buf \in Seq(Outbound)
    PROVE  Flushed(fd, buf, flush(fd, buf))
<1> DEFINE w == flush(fd, buf)
<1> DEFINE tx == sock[fd].tx
           n == IF sock[fd].reset THEN 0 ELSE Min({Len(buf), TxCap - Len(tx)})
<1>1. tx \in Seq(Outbound) /\ Len(tx) \in Nat /\ Len(tx) <= TxCap /\ TxCap \in Nat
      /\ Len(buf) \in Nat
  BY LimitsAssumption, LenProperties DEF RInv, Inv, Data, SockOK, Socket
<1>2. n \in 0..Len(buf)
  <2>1. TxCap - Len(tx) \in Nat
    BY <1>1
  <2> HIDE DEF tx, n
  <2>2. Min({Len(buf), TxCap - Len(tx)}) \in 0..Len(buf)
    BY <1>1, <2>1, MinBelowBoth
  <2> QED
    BY <1>1, <2>2 DEF n
<1>3. /\ w.tx = tx \o SubSeq(buf, 1, n)
      /\ w.rest = SubSeq(buf, n + 1, Len(buf))
      /\ w.st = IF n = Len(buf) THEN "ok"
                ELSE IF sock[fd].reset THEN "closed" ELSE "would_block"
  BY DEF flush
<1>4. sock[fd].reset => n = 0
  OBVIOUS
<1> HIDE DEF tx, n, w
<1>5. /\ SubSeq(buf, 1, n) \in Seq(Outbound) /\ SubSeq(buf, n + 1, Len(buf)) \in Seq(Outbound)
      /\ SubSeq(buf, 1, n) \o SubSeq(buf, n + 1, Len(buf)) = buf
  BY <1>2, CutSeq, SplitSeq
<1>6. Len(w.rest) = Len(buf) - n
  <2>1. \A i \in n + 1..Len(buf) : buf[i] \in Outbound
    BY <1>1, <1>2, ElementOfSeq
  <2>2. Len(SubSeq(buf, n + 1, Len(buf)))
           = IF n + 1 <= Len(buf) THEN Len(buf) - (n + 1) + 1 ELSE 0
    BY <1>1, <1>2, <2>1, SubSeqProperties
  <2> QED
    BY <1>1, <1>2, <1>3, <2>2
<1>7. w.rest \in Seq(Outbound) /\ w.tx \in Seq(Outbound)
  BY <1>1, <1>3, <1>5, ConcatProperties
<1>8. w.tx \o w.rest = tx \o buf
  <2> DEFINE p == SubSeq(buf, 1, n)
             q == SubSeq(buf, n + 1, Len(buf))
  <2> HIDE DEF p, q
  <2>1. p \in Seq(Outbound) /\ q \in Seq(Outbound) /\ p \o q = buf
    BY <1>5 DEF p, q
  <2>2. (tx \o p) \o q = tx \o (p \o q)
    <3>1. tx \in Seq(Outbound) /\ p \in Seq(Outbound) /\ q \in Seq(Outbound)
      BY <1>1, <2>1
    <3> QED
      BY <3>1, ConcatAssociative, SMTT(20)
  <2>3. w.tx = tx \o p /\ w.rest = q
    BY <1>3 DEF p, q
  <2> QED
    BY <2>1, <2>2, <2>3
<1>9. n = 0 => w.tx = tx /\ w.rest = buf
  <2>1. n = 0 => SubSeq(buf, 1, n) = <<>>
    BY SubSeqEmpty
  <2>2. tx \o <<>> = tx
    BY <1>1, ConcatEmptySeq
  <2>3. n = 0 => SubSeq(buf, n + 1, Len(buf)) = buf
    BY SubSeqFull
  <2> QED
    BY <1>3, <2>1, <2>2, <2>3
<1>10. /\ n = Len(buf) => w.rest = <<>>
       /\ n # Len(buf) => w.rest # <<>>
  <2>1. n = Len(buf) => Len(w.rest) = 0
    BY <1>1, <1>6
  <2>2. n # Len(buf) => Len(w.rest) # 0
    BY <1>1, <1>2, <1>6
  <2> QED
    BY <1>7, <2>1, <2>2, EmptySeq
<1>11. Len(w.rest) <= Len(buf)
  BY <1>1, <1>2, <1>6
<1>12. sock[fd].reset => w.tx = tx /\ w.rest = buf
  BY <1>4, <1>9
<1>13. /\ w.st = "ok" => w.rest = <<>>
       /\ w.st = "closed" => sock[fd].reset
       /\ w.st = "would_block" => w.rest # <<>> /\ ~ sock[fd].reset
       /\ w.st \in {"ok", "closed", "would_block"}
  BY <1>3, <1>10
<1> QED
  BY <1>7, <1>8, <1>11, <1>12, <1>13 DEF tx, w, Flushed

(* What Service sees of a write. *)
LEMMA WrittenView ==
    ASSUME RInv, NEW c \in Fd, c \in DOMAIN conns, NEW w, Written(c, w)
    PROVE  /\ DOMAIN conns' = DOMAIN conns
           /\ Held(c)' = IF sock[c].reset THEN <<>> ELSE w.rest
           /\ Outbox' = [Outbox EXCEPT ![c] = w.tx \o Held(c)']
           /\ Unsent' = [Unsent EXCEPT ![c] = Len(Held(c)')]
           /\ Eof' = Eof /\ Gone' = Gone
<1>1. /\ DOMAIN conns' = DOMAIN conns
      /\ conns'[c].write_buf = w.rest
      /\ \A f \in DOMAIN conns \ {c} : conns'[f] = conns[f]
  BY WrittenKeeps DEF RInv, Inv, Data
<1>2. /\ \A f \in Fd \ {c} : sock'[f] = sock[f]
      /\ sock'[c].tx = w.tx
      /\ \A f \in Fd : sock'[f].eof = sock[f].eof /\ sock'[f].reset = sock[f].reset
  <2>1. /\ \A f \in Fd \ {c} : sock'[f] = sock[f]
        /\ sock'[c] = [sock[c] EXCEPT !.tx = w.tx]
        /\ \A f \in Fd : sock'[f].eof = sock[f].eof /\ sock'[f].reset = sock[f].reset
    BY WrittenSockets DEF RInv, Inv, Data
  <2>2. sock[c] \in Socket
    BY DEF RInv, Inv, Data, SockOK
  <2> QED
    BY <2>1, <2>2 DEF Socket
<1>3. Held(c)' = IF sock[c].reset THEN <<>> ELSE w.rest
  BY <1>1, <1>2 DEF Held
<1>4. \A f \in Fd \ {c} : Held(f)' = Held(f)
  BY <1>1, <1>2 DEF Held
<1>5. Outbox' = [Outbox EXCEPT ![c] = w.tx \o Held(c)']
  BY <1>2, <1>4 DEF Outbox
<1>6. Unsent' = [Unsent EXCEPT ![c] = Len(Held(c)')]
  BY <1>4 DEF Unsent
<1> QED
  BY <1>1, <1>2, <1>3, <1>5, <1>6, EofKept, GoneKept

LEMMA HandleWriteStep ==
    ASSUME RInv, RInv', HandleWrite
    PROVE  [S!Next]_(S!vars)
<1> USE DEF RInv, Inv, Data
<1>1. PICK c \in Fd : c = cur /\ c \in DOMAIN epoll /\ c \in DOMAIN conns
  BY DEF HandleWrite, Struct, Closing, Handling
<1> DEFINE buf == conns[c].write_buf
           f0 == flush(c, buf)
           w == on_writeable(c)
<1>2. /\ Written(c, w) /\ pc = "write" /\ pc' # "drain" /\ UNCHANGED tables
      /\ \/ w.st = "closed" /\ close_client(c)
         \/ UNCHANGED <<epoll, pending_close>>
         \/ update_events(c, conns'[c])
  BY <1>1 DEF HandleWrite, NextEvent
<1>3. buf \in Seq(Outbound) /\ sock[c].tx \in Seq(Outbound)
  BY <1>1, ViewTypes
<1>4. /\ f0.rest \in Seq(Outbound) /\ f0.tx \in Seq(Outbound)
      /\ Len(f0.rest) <= Len(buf)
      /\ f0.tx \o f0.rest = sock[c].tx \o buf
      /\ sock[c].reset => f0.tx = sock[c].tx /\ f0.rest = buf
      /\ f0.st = "ok" => f0.rest = <<>>
      /\ f0.st = "closed" => sock[c].reset
  <2> HIDE DEF f0, buf
  <2>1. Flushed(c, buf, f0)
    BY <1>3, FlushView DEF f0
  <2> QED
    BY <2>1 DEF Flushed
<1>5. w.tx = f0.tx /\ w.rest = f0.rest
      /\ (w.st = "closed" => f0.st = "closed" \/ (f0.st = "ok" /\ conns[c].peer_closed))
  BY DEF on_writeable, flush
<1> HIDE DEF w, f0
<1>6. /\ DOMAIN conns' = DOMAIN conns
      /\ Held(c)' = IF sock[c].reset THEN <<>> ELSE w.rest
      /\ Outbox' = [Outbox EXCEPT ![c] = w.tx \o Held(c)']
      /\ Unsent' = [Unsent EXCEPT ![c] = Len(Held(c)')]
      /\ Eof' = Eof /\ Gone' = Gone
  BY <1>1, <1>2, WrittenView
<1>7. Held(c) = IF sock[c].reset THEN <<>> ELSE buf
  BY <1>1 DEF Held
<1>8. Outbox' = Outbox
  <2>1. w.tx \o Held(c)' = sock[c].tx \o Held(c)
    BY <1>4, <1>5, <1>6, <1>7
  <2> QED
    BY <1>6, <2>1 DEF Outbox
<1>9. Len(Held(c)') \in 0..Unsent[c] /\ (w.rest = <<>> => Len(Held(c)') = 0)
  <2>1. Unsent[c] = Len(Held(c))
    BY ViewValues
  <2>2. Len(buf) \in Nat /\ Len(w.rest) \in Nat /\ Len(w.rest) <= Len(buf) /\ Len(<<>>) = 0
    BY <1>3, <1>4, <1>5, LenProperties, EmptySeq
  <2>3. CASE sock[c].reset
    BY <1>6, <1>7, <2>1, <2>2, <2>3
  <2>4. CASE ~ sock[c].reset
    BY <1>6, <1>7, <2>1, <2>2, <2>4
  <2> QED
    BY <2>3, <2>4
<1>10. /\ ~ fatal /\ send_queue = <<>> /\ Doomed = ToSet(pending_close)
       /\ ~ fatal' /\ send_queue' = <<>> /\ Doomed' = ToSet(pending_close')
  BY <1>2 DEF Blame, Quiet, Doomed
<1>11. \A f \in Fd : sock'[f].rx = sock[f].rx
  BY <1>2, WrittenSockets
<1>12. conns'[c].write_buf = w.rest /\ conns'[c].peer_closed = conns[c].peer_closed
  BY <1>1, <1>2, WrittenKeeps
<1>13. conns[c].peer_closed => c \in Eof /\ Inbox[c] = <<>>
  <2> SUFFICES ASSUME conns[c].peer_closed
               PROVE  c \in Eof /\ Inbox[c] = <<>>
    OBVIOUS
  <2>1. sock[c].eof /\ sock[c].rx = <<>>
    BY <1>1 DEF Quiet
  <2>2. <<>> \o <<>> = <<>>
    BY ConcatEmptySeq
  <2>3. Incoming(c) = <<>>
    BY <1>2, <1>10, <2>1, <2>2, IdleIncoming
  <2> QED
    BY <2>1, <2>3, ViewValues
<1>14. CASE close_client(c) /\ (c \in Gone \/ (conns[c].peer_closed /\ w.rest = <<>>))
  <2>1. /\ c \in DOMAIN conns \ Doomed
        /\ Doomed' = Doomed \cup {c}
        /\ \A f \in Fd \ {c} : Incoming(f)' = Incoming(f)
        /\ Todo[c] = <<>> /\ Todo' = Todo
    BY <1>1, <1>2, <1>11, <1>14, IdleDoom
  <2>2. S!Fail(c)
    BY <1>2, <1>6, <1>8, <1>9, <1>13, <1>14, <2>1, FailStep
  <2> QED
    BY <2>2 DEF S!Next, S!Serve
<1>15. CASE UNCHANGED pending_close
  <2>1. Doomed' = Doomed /\ Todo' = Todo
    BY <1>10, <1>15, TodoKept
  <2>2. Inbox' = Inbox
    BY <1>2, <1>11, <2>1, InboxKept DEF Incoming, Draining
  <2>3. c \in S!working
    BY <1>1, <1>10 DEF S!working, Struct, Closing
  <2>4. S!Transmit(c)
    BY <1>2, <1>6, <1>8, <1>9, <2>1, <2>2, <2>3 DEF S!Transmit, S!tables, tables
  <2> QED
    BY <2>4 DEF S!Next, S!Serve
<1>16. w.st = "closed" => c \in Gone \/ (conns[c].peer_closed /\ w.rest = <<>>)
  BY <1>4, <1>5, ViewValues
<1>17. MaskOf(conns'[c]) = {} => conns[c].peer_closed /\ w.rest = <<>>
  BY <1>12 DEF MaskOf, want_write
<1> QED
  BY <1>2, <1>14, <1>15, <1>16, <1>17 DEF update_events

LEMMA FinishClientStep ==
    ASSUME RInv, RInv', FinishClient
    PROVE  [S!Next]_(S!vars)
<1> USE DEF RInv, Inv, Data
<1>1. PICK c \in Fd : c = cur /\ c \in DOMAIN epoll /\ c \in DOMAIN conns
  BY DEF FinishClient, Struct, Closing, Handling
<1>2. /\ pc = "drain" /\ pc' = "dispatch" /\ UNCHANGED <<conns, sock, tables>>
      /\ send_queue = <<>> /\ send_queue' = <<>> /\ ~ fatal'
      /\ fatal \/ read_buf = <<>>
      /\ Doomed' = ToSet(pending_close')
      /\ IF ToBeClosed(conns[c]) THEN close_client(c) ELSE update_events(c, conns[c])
  BY <1>1 DEF FinishClient, NextEvent, Doomed
<1>3. Todo' = Todo /\ Todo[c] = <<>>
  BY <1>2, TodoKept, ViewValues
<1>4. \A f \in Fd \ {c} :
         (f \in Doomed' <=> f \in Doomed) => Incoming(f)' = Incoming(f)
  BY <1>1, <1>2 DEF Incoming, Draining
<1>5. Outbox' = Outbox /\ Unsent' = Unsent /\ Gone' = Gone /\ Eof' = Eof
  BY <1>2, OutputKept, EofKept
<1>6. CASE fatal
  <2>1. close_client(c) /\ Doomed = ToSet(pending_close) \cup {c}
    BY <1>1, <1>2, <1>6 DEF ToBeClosed, Doomed
  <2>2. Doomed' = Doomed
    BY <1>1, <1>2, <2>1, ClosedSet
  <2>3. Incoming(c)' = Incoming(c)
    BY <2>1, <2>2 DEF Incoming
  <2>4. Inbox' = Inbox
    BY <1>4, <2>2, <2>3, InboxKept
  <2> QED
    BY <1>2, <1>3, <1>5, <2>2, <2>4 DEF S!vars, S!tables, tables
<1>7. CASE ~ fatal
  <2>1. Doomed = ToSet(pending_close) /\ c \in DOMAIN conns \ Doomed /\ read_buf = <<>>
    BY <1>1, <1>2, <1>7 DEF Doomed, Struct, Closing
  <2>2. Incoming(c) = <<>> \o sock[c].rx
    BY <1>1, <1>2, <2>1 DEF Incoming, Draining
  <2>3. conns[c].peer_closed => c \in Eof /\ Inbox[c] = <<>>
    <3> SUFFICES ASSUME conns[c].peer_closed
                 PROVE  c \in Eof /\ Inbox[c] = <<>>
      OBVIOUS
    <3>1. sock[c].eof /\ sock[c].rx = <<>> /\ <<>> \o <<>> = <<>>
      BY <1>1, ConcatEmptySeq DEF Quiet
    <3> QED
      BY <2>2, <3>1, ViewValues
  <2>4. CASE /\ close_client(c)
             /\ c \in Gone \/ (conns[c].peer_closed /\ conns[c].write_buf = <<>>)
    <3>1. Doomed' = Doomed \cup {c}
      BY <1>1, <1>2, <2>1, <2>4, ClosedSet
    <3>2. \A f \in Fd \ {c} : Incoming(f)' = Incoming(f)
      BY <1>4, <3>1
    <3>3. S!Fail(c)
      BY <1>2, <1>3, <2>1, <2>3, <2>4, <3>1, <3>2, FailUnwritten
    <3> QED
      BY <3>3 DEF S!Next, S!Serve
  <2>5. CASE UNCHANGED pending_close
    <3>1. Doomed' = Doomed
      BY <1>2, <2>1, <2>5
    <3>2. Incoming(c)' = Incoming(c)
      BY <1>2, <2>1, <2>2, <3>1 DEF Incoming, Draining
    <3>3. Inbox' = Inbox
      BY <1>4, <3>1, <3>2, InboxKept
    <3> QED
      BY <1>2, <1>3, <1>5, <3>1, <3>3 DEF S!vars, S!tables, tables
  <2>6. ToBeClosed(conns[c]) => c \in Gone \/ (conns[c].peer_closed /\ conns[c].write_buf = <<>>)
    BY <1>1, <1>7, ViewValues DEF ToBeClosed, Blame, want_write
  <2>7. MaskOf(conns[c]) = {} => conns[c].peer_closed /\ conns[c].write_buf = <<>>
    BY DEF MaskOf, want_write
  <2> QED
    BY <1>2, <2>4, <2>5, <2>6, <2>7 DEF update_events
<1> QED
  BY <1>6, <1>7

-----------------------------------------------------------------------------
(* Opening and closing *)

LEMMA AcceptStep ==
    ASSUME RInv, RInv', Accept
    PROVE  [S!Next]_(S!vars)
<1> USE DEF RInv, Inv, Data
<1>1. PICK fd \in Fd \ DOMAIN conns :
         /\ conns' = [f \in DOMAIN conns \cup {fd} |->
                         IF f = fd THEN NewConnection ELSE conns[f]]
         /\ sock' = [sock EXCEPT ![fd] = NewSocket]
  BY DEF Accept
<1>2. /\ UNCHANGED <<pending_close, pc, batch, read_buf, fatal, send_queue, tables>>
      /\ pc = "dispatch"
  BY DEF Accept, loop
<1>3. sock' = sock
  BY <1>1 DEF Quiet, SockOK
<1>4. /\ Doomed' = Doomed
      /\ \A f \in Fd : Incoming(f)' = Incoming(f)
      /\ Todo' = Todo
  BY <1>2, <1>3 DEF Doomed, cur, Incoming, Draining, Todo
<1>5. ASSUME NEW f \in Fd
      PROVE  Held(f)' = Held(f)
  <2>1. CASE f = fd
    <3>1. Held(f)' = <<>>
      BY <1>1, <2>1 DEF Held, NewConnection
    <3> QED
      BY <1>1, <2>1, <3>1 DEF Held
  <2>2. CASE f # fd
    BY <1>1, <1>3, <2>2 DEF Held
  <2> QED
    BY <2>1, <2>2
<1>6. /\ Inbox' = Inbox /\ Outbox' = Outbox /\ Unsent' = Unsent
      /\ Eof' = Eof /\ Gone' = Gone
  BY <1>3, <1>4, <1>5 DEF Inbox, Outbox, Unsent, Eof, Gone
<1>7. DOMAIN conns' = DOMAIN conns \cup {fd}
  BY <1>1
<1>8. S!Open(fd)
  BY <1>1, <1>2, <1>4, <1>6, <1>7 DEF S!Open, S!tables, tables
<1> QED
  BY <1>1, <1>8 DEF S!Next, S!Peer

LEMMA DrainPendingCloseStep ==
    ASSUME RInv, RInv', DrainPendingClose
    PROVE  [S!Next]_(S!vars)
<1> USE DEF RInv, Inv, Data
<1>1. pc = "close" /\ pc' # "drain"
  BY DEF DrainPendingClose
<1>2. CASE pending_close = <<>>
  BY <1>1, <1>2, Stutter DEF DrainPendingClose
<1>3. CASE pending_close # <<>>
  <2>1. PICK fd \in Fd : fd = Head(pending_close)
    BY <1>3, HeadTailProperties DEF Struct, Closing
  <2>2. /\ conns' = Restrict(conns, DOMAIN conns \ {fd})
        /\ delete_fd(fd)
        /\ sock' = [sock EXCEPT ![fd] = NewSocket]
        /\ pending_close' = Tail(pending_close)
    BY <1>3, <2>1 DEF DrainPendingClose
  <2>3. /\ DOMAIN conns' = DOMAIN conns \ {fd}
        /\ \A f \in DOMAIN conns' : conns'[f] = conns[f]
    BY <2>2 DEF Restrict
  <2>4. /\ ~ fatal /\ send_queue = <<>> /\ Doomed = ToSet(pending_close)
        /\ ~ fatal' /\ send_queue' = <<>> /\ Doomed' = ToSet(pending_close')
    BY <1>1 DEF Blame, Quiet, Doomed
  <2>5. fd \in Doomed /\ Doomed' = Doomed \ {fd}
    <3>1. /\ Head(pending_close) \in ToSet(pending_close)
          /\ ToSet(Tail(pending_close)) = ToSet(pending_close) \ {Head(pending_close)}
      BY <1>3, DistinctTail DEF Struct, Closing
    <3> QED
      BY <2>1, <2>2, <2>4, <3>1
  <2>6. sock'[fd] = NewSocket /\ \A f \in Fd \ {fd} : sock'[f] = sock[f]
    BY <2>2 DEF SockOK
  <2>7. /\ sock'[fd].rx = <<>> /\ sock'[fd].tx = <<>>
        /\ ~ sock'[fd].eof /\ ~ sock'[fd].reset
    BY <2>6 DEF NewSocket
  <2>8. <<>> \o <<>> = <<>> /\ Len(<<>>) = 0
    BY ConcatEmptySeq, EmptySeq
  <2>9. Held(fd)' = <<>> /\ \A f \in Fd \ {fd} : Held(f)' = Held(f)
    BY <2>3, <2>6 DEF Held
  <2>10. Inbox' = Inbox
    <3>1. Incoming(fd)' = Incoming(fd)
      BY <1>1, <2>4, <2>5, <2>7, <2>8 DEF Incoming, Draining
    <3>2. \A f \in Fd \ {fd} : Incoming(f)' = Incoming(f)
      BY <1>1, <2>5, <2>6 DEF Incoming, Draining
    <3> QED
      BY <3>1, <3>2, InboxKept
  <2>11. Todo' = Todo
    BY <2>4, TodoKept
  <2>12. Outbox' = [Outbox EXCEPT ![fd] = <<>>]
    BY <2>6, <2>7, <2>8, <2>9 DEF Outbox
  <2>13. Unsent' = [Unsent EXCEPT ![fd] = 0]
    BY <2>8, <2>9 DEF Unsent
  <2>14. Eof' = Eof \ {fd} /\ Gone' = Gone \ {fd}
    BY <2>6, <2>7 DEF Eof, Gone
  <2>15. S!delete_fd(fd)
    BY <2>2, SameDeletion
  <2>16. S!Close(fd)
    BY <2>3, <2>5, <2>10, <2>11, <2>12, <2>13, <2>14, <2>15 DEF S!Close
  <2> QED
    BY <2>16 DEF S!Next, S!Serve
<1> QED
  BY <1>2, <1>3

-----------------------------------------------------------------------------
(* Handling a frame *)

LEMMA DrainFrameStep ==
    ASSUME RInv, RInv', DrainFrame
    PROVE  [S!Next]_(S!vars)
<1> USE DEF RInv, Inv, Data
<1>1. PICK c \in Fd : c = cur /\ c \in DOMAIN epoll /\ c \in DOMAIN conns
  BY DEF DrainFrame, Struct, Closing, Handling
<1> DEFINE in == Head(read_buf)
<1>2. /\ pc = "drain" /\ send_queue = <<>> /\ ~ fatal /\ read_buf # <<>>
      /\ UNCHANGED <<conns, pending_close, pc, batch, sock>>
  BY DEF DrainFrame
<1>3. cur' = c /\ Doomed = ToSet(pending_close) /\ c \notin Doomed
  BY <1>1, <1>2 DEF cur, Doomed, Struct, Closing
<1>4. Incoming(c) = read_buf \o sock[c].rx
  BY <1>1, <1>2, <1>3 DEF Incoming, Draining
<1>5. /\ Inbox[c] # <<>> /\ Head(Inbox[c]) = in
      /\ Tail(Inbox[c]) = Tail(read_buf) \o sock[c].rx
  <2>1. read_buf \in Seq(Inbound) /\ sock[c].rx \in Seq(Inbound)
    BY ViewTypes
  <2>2. read_buf # <<>>
    BY <1>2
  <2>3. /\ read_buf \o sock[c].rx # <<>>
        /\ Head(read_buf \o sock[c].rx) = Head(read_buf)
        /\ Tail(read_buf \o sock[c].rx) = Tail(read_buf) \o sock[c].rx
    BY <2>1, <2>2, TailConcat
  <2>4. Inbox[c] = read_buf \o sock[c].rx
    BY <1>4, ViewValues
  <2> QED
    BY <2>3, <2>4
<1>6. Outbox' = Outbox /\ Unsent' = Unsent /\ Gone' = Gone /\ Eof' = Eof
  BY <1>2, OutputKept, EofKept
<1>7. Todo = [f \in Fd |-> <<>>]
  BY <1>2, NothingDue
<1>8. CASE ~ Decodable(in) /\ fatal' = TRUE /\ UNCHANGED <<read_buf, send_queue, tables>>
  <2>1. Doomed' = Doomed \cup {c}
    BY <1>2, <1>3, <1>8 DEF Doomed
  <2>2. \A f \in Fd \ {c} : Incoming(f)' = Incoming(f)
    BY <1>1, <1>2, <1>3, <2>1 DEF Incoming, Draining
  <2>3. Todo[c] = <<>> /\ Todo' = Todo
    BY <1>2, <1>7, <1>8, TodoKept
  <2>4. S!Fail(c)
    BY <1>1, <1>2, <1>3, <1>5, <1>8, <2>1, <2>2, <2>3, FailUnwritten
  <2> QED
    BY <2>4 DEF S!Next, S!Serve
<1>9. CASE /\ Decodable(in)
           /\ read_buf' = Tail(read_buf)
           /\ send_queue' = out_queue(c, in)
           /\ process(c, in)
           /\ UNCHANGED fatal
  <2>1. Doomed' = Doomed
    BY <1>1, <1>2, <1>3, <1>9 DEF Doomed
  <2>2. Incoming(c)' = Tail(read_buf) \o sock[c].rx
    BY <1>2, <1>3, <1>9, <2>1 DEF Incoming, Draining
  <2>3. \A f \in Fd \ {c} : Incoming(f)' = Incoming(f)
    BY <1>1, <1>2, <1>3, <2>1 DEF Incoming, Draining
  <2>4. Inbox' = [Inbox EXCEPT ![c] = Tail(Inbox[c])]
    BY <1>5, <2>2, <2>3, InboxStep
  <2>5. Todo' = [Todo EXCEPT ![c] = out_queue(c, in)]
    BY <1>2, <1>3, <1>7, <1>9 DEF Todo, Draining
  <2>6. S!out_queue(c, in) = out_queue(c, in) /\ S!process(c, in) /\ S!Decodable(in)
    BY <1>9, SameQueue, SameProcess, SameFrames
  <2>7. \A f \in Fd : Todo[f] = <<>>
    BY <1>7
  <2>8. c \in S!working
    BY <1>1, <1>3 DEF S!working
  <2> HIDE DEF in
  <2>9. S!Handle(c)
    BY <1>2, <1>5, <1>6, <2>1, <2>4, <2>5, <2>6, <2>7, <2>8 DEF S!Handle
  <2> QED
    BY <2>9 DEF S!Next, S!Serve
<1> QED
  BY <1>1, <1>8, <1>9 DEF DrainFrame, history

(* Sending a frame: what the receiver's output becomes. *)
LEMMA SendAccepted ==
    ASSUME RInv, NEW to \in Fd, to \in DOMAIN conns, NEW frame \in Outbound,
           NEW w, w = send(to, frame), w.st \in {"ok", "would_block"}, Written(to, w)
    PROVE  /\ DOMAIN conns' = DOMAIN conns
           /\ Outbox' = [Outbox EXCEPT ![to] = Append(Outbox[to], frame)]
           /\ \E left \in 0..Unsent[to] + 1 : Unsent' = [Unsent EXCEPT ![to] = left]
           /\ Eof' = Eof /\ Gone' = Gone
           /\ w.st = "would_block" => MaskOf(conns'[to]) # {}
<1> DEFINE old == conns[to].write_buf
           buf == Append(old, frame)
<1>1. /\ old \in Seq(Outbound) /\ sock[to].tx \in Seq(Outbound)
  BY ViewTypes
<1>2. buf \in Seq(Outbound) /\ Len(buf) = Len(old) + 1 /\ Len(old) \in Nat
  BY <1>1, AppendProperties, LenProperties
<1>3. w = flush(to, buf)
  BY DEF send
<1> HIDE DEF buf, old
<1>4. /\ w.rest \in Seq(Outbound) /\ w.tx \in Seq(Outbound)
      /\ Len(w.rest) <= Len(buf)
      /\ w.tx \o w.rest = sock[to].tx \o buf
      /\ sock[to].reset => w.rest = buf
      /\ w.st = "ok" => w.rest = <<>>
      /\ w.st = "would_block" => w.rest # <<>> /\ ~ sock[to].reset
  <2>1. buf \in Seq(Outbound)
    BY <1>2
  <2>2. Flushed(to, buf, w)
    BY <1>3, <2>1, FlushView
  <2> QED
    BY <2>2 DEF Flushed
<1>5. ~ sock[to].reset
  <2>1. buf # <<>>
    BY <1>2, EmptySeq
  <2> QED
    BY <1>4, <2>1
<1>6. /\ DOMAIN conns' = DOMAIN conns
      /\ Held(to)' = w.rest
      /\ Outbox' = [Outbox EXCEPT ![to] = w.tx \o Held(to)']
      /\ Unsent' = [Unsent EXCEPT ![to] = Len(Held(to)')]
      /\ Eof' = Eof /\ Gone' = Gone
  BY <1>5, WrittenView
<1>7. Held(to) = old
  BY <1>5 DEF Held, old
<1>8. Append(Outbox[to], frame) = w.tx \o Held(to)'
  <2>1. sock[to].tx \o Append(old, frame) = Append(sock[to].tx \o old, frame)
    <3>1. sock[to].tx \in Seq(Outbound)
      BY <1>1
    <3>2. old \in Seq(Outbound)
      BY <1>1
    <3>3. \A x \in Seq(Outbound) : x \o Append(old, frame) = Append(x \o old, frame)
      BY <3>2, AppendConcat
    <3> QED
      BY <3>1, <3>3
  <2>2. Outbox[to] = sock[to].tx \o old
    BY <1>7, ViewValues
  <2> QED
    BY <1>4, <1>6, <2>1, <2>2 DEF buf
<1>9. Len(Held(to)') \in 0..Unsent[to] + 1
  <2>1. Unsent[to] = Len(old)
    BY <1>7, ViewValues
  <2>2. Len(w.rest) \in Nat
    BY <1>4, LenProperties
  <2> QED
    BY <1>2, <1>4, <1>6, <2>1, <2>2
<1>10. conns'[to].write_buf = w.rest
  BY WrittenKeeps DEF RInv, Inv, Data
<1>11. w.st = "would_block" => MaskOf(conns'[to]) # {}
  BY <1>4, <1>10 DEF MaskOf, want_write
<1> QED
  BY <1>6, <1>8, <1>9, <1>11

LEMMA SendRefused ==
    ASSUME RInv, NEW to \in Fd, to \in DOMAIN conns, NEW frame \in Outbound,
           NEW w, w = send(to, frame), w.st \in {"closed", "error"}, Written(to, w)
    PROVE  /\ DOMAIN conns' = DOMAIN conns
           /\ Outbox' = Outbox /\ Unsent' = Unsent /\ Eof' = Eof /\ Gone' = Gone
           /\ to \in Gone \/ Unsent[to] >= HighWater
<1> DEFINE old == conns[to].write_buf
           buf == Append(old, frame)
<1>1. old \in Seq(Outbound) /\ sock[to].tx \in Seq(Outbound)
  BY ViewTypes
<1>2. buf \in Seq(Outbound)
  BY <1>1, AppendProperties
<1>3. \/ w = flush(to, buf)
      \/ w.tx = sock[to].tx /\ w.rest = old /\ w.st = "error"
  BY DEF send
<1>4. w.st \in {"closed", "error"}
  OBVIOUS
<1>5. /\ sock[to].reset => w.tx = sock[to].tx
      /\ sock[to].reset \/ (w.rest = old /\ Len(old) >= HighWater /\ w.tx = sock[to].tx)
  <2>1. CASE w = flush(to, buf)
    <3> HIDE DEF buf
    <3>1. Flushed(to, buf, w)
      BY <1>2, <2>1, FlushView
    <3> QED
      BY <1>4, <3>1 DEF Flushed
  <2>2. CASE w.tx = sock[to].tx /\ w.rest = old /\ w.st = "error"
    <3>1. sock[to].reset \/ (Len(old) >= HighWater /\ w.rest = old)
      BY <1>1, SendFails
    <3> QED
      BY <2>2, <3>1
  <2> QED
    BY <1>3, <2>1, <2>2
<1>6. /\ DOMAIN conns' = DOMAIN conns
      /\ Held(to)' = IF sock[to].reset THEN <<>> ELSE w.rest
      /\ Outbox' = [Outbox EXCEPT ![to] = w.tx \o Held(to)']
      /\ Unsent' = [Unsent EXCEPT ![to] = Len(Held(to)')]
      /\ Eof' = Eof /\ Gone' = Gone
  BY WrittenView
<1>7. Held(to) = IF sock[to].reset THEN <<>> ELSE old
  BY DEF Held
<1>8. Held(to)' = Held(to) /\ w.tx = sock[to].tx
  BY <1>5, <1>6, <1>7
<1>9. Outbox' = Outbox /\ Unsent' = Unsent
  BY <1>6, <1>8 DEF Outbox, Unsent
<1>10. to \in Gone \/ Unsent[to] >= HighWater
  <2>1. Unsent[to] = Len(Held(to)) /\ (to \in Gone <=> sock[to].reset)
    BY ViewValues
  <2> QED
    BY <1>5, <1>7, <2>1
<1> QED
  BY <1>6, <1>9, <1>10

LEMMA SendFrameStep ==
    ASSUME RInv, RInv', SendFrame
    PROVE  [S!Next]_(S!vars)
<1> USE DEF RInv, Inv, Data
<1> DEFINE item == Head(send_queue)
           w == send(item.to, item.frame)
<1>1. PICK c \in Fd : c = cur /\ c \in DOMAIN conns /\ c \notin ToSet(pending_close)
  BY DEF SendFrame, Struct, Closing, Handling
<1>2. /\ pc = "drain" /\ pc' = "drain" /\ send_queue # <<>> /\ ~ fatal
      /\ UNCHANGED <<batch, read_buf, tables>>
  BY DEF SendFrame, Blame
<1>3. item \in [frame : Outbound, to : Fd] /\ Tail(send_queue) \in Seq([frame : Outbound, to : Fd])
  BY <1>2, HeadTailProperties DEF LoopOK
<1>4. PICK to \in Fd : to = item.to
  BY <1>3
<1>5. PICK frame \in Outbound : frame = item.frame
  BY <1>3
<1>6. /\ cur' = c /\ Doomed = ToSet(pending_close)
      /\ \A f \in Fd : Draining(f) <=> f = c
      /\ \A f \in Fd : Draining(f)' <=> f = c
  BY <1>1, <1>2 DEF cur, Doomed, Draining
<1>7. /\ Todo[c] = send_queue
      /\ \A f \in Fd \ {c} : Todo[f] = <<>>
      /\ Todo' = [Todo EXCEPT ![c] = send_queue']
  BY <1>6 DEF Todo
<1>8. S!Due(c) /\ S!next(c) = item
  BY <1>2, <1>7 DEF S!Due, S!next
<1>9. \A f \in Fd : sock'[f].rx = sock[f].rx
  <2>1. CASE UNCHANGED sock
    BY <2>1
  <2>2. CASE Written(to, w)
    BY <2>2, WrittenSockets
  <2> QED
    BY <1>4, <2>1, <2>2 DEF SendFrame
<1>10. \A f \in Fd : (f \in Doomed' <=> f \in Doomed) => Incoming(f)' = Incoming(f)
  BY <1>2, <1>6, <1>9 DEF Incoming
<1>11. Undeliverable(item) <=> ~ S!Deliverable(item)
  BY <1>4, <1>6, SameFrames DEF Undeliverable, S!Deliverable, S!working
<1> HIDE DEF item, w
<1>12. CASE /\ Undeliverable(item)
            /\ send_queue' = Tail(send_queue)
            /\ UNCHANGED <<conns, sock, epoll, pending_close, fatal>>
  <2>1. Doomed' = Doomed
    BY <1>2, <1>6, <1>12 DEF Doomed
  <2>2. Inbox' = Inbox
    BY <1>10, <2>1, InboxKept
  <2>3. Outbox' = Outbox /\ Unsent' = Unsent /\ Gone' = Gone /\ Eof' = Eof
    BY <1>12, OutputKept, EofKept
  <2>4. S!Done(c)
    BY <1>7, <1>12 DEF S!Done
  <2>5. S!Lose(c)
    BY <1>2, <1>8, <1>11, <1>12, <2>1, <2>2, <2>3, <2>4 DEF S!Lose, S!tables, tables
  <2> QED
    BY <2>5 DEF S!Next, S!Serve
<1>13. CASE /\ ~ Undeliverable(item)
            /\ w.st \in {"ok", "would_block"}
            /\ Written(to, w)
            /\ Rearm(to, w.st)
            /\ send_queue' = Tail(send_queue)
            /\ UNCHANGED fatal
  <2>1. to \in DOMAIN conns /\ w = send(to, frame)
    BY <1>4, <1>5, <1>13 DEF Undeliverable, w
  <2>2. /\ DOMAIN conns' = DOMAIN conns
        /\ Outbox' = [Outbox EXCEPT ![to] = Append(Outbox[to], frame)]
        /\ \E left \in 0..Unsent[to] + 1 : Unsent' = [Unsent EXCEPT ![to] = left]
        /\ Eof' = Eof /\ Gone' = Gone
        /\ w.st = "would_block" => MaskOf(conns'[to]) # {}
    BY <1>13, <2>1, SendAccepted
  <2>3. UNCHANGED pending_close
    BY <1>13, <2>2 DEF Rearm, update_events
  <2>4. Doomed' = Doomed
    BY <1>2, <1>6, <1>13, <2>3 DEF Doomed
  <2>5. Inbox' = Inbox
    BY <1>10, <2>4, InboxKept
  <2>6. S!Done(c)
    BY <1>7, <1>13 DEF S!Done
  <2>7. S!Deliver(c)
    BY <1>2, <1>4, <1>5, <1>8, <1>11, <1>13, <2>2, <2>4, <2>5, <2>6
       DEF S!Deliver, S!tables, tables
  <2> QED
    BY <2>7 DEF S!Next, S!Serve
<1>14. CASE /\ ~ Undeliverable(item)
            /\ w.st \in {"closed", "error"}
            /\ Written(to, w)
            /\ SendFailed(to)
  <2>1. /\ to \in DOMAIN conns /\ to \in DOMAIN epoll
        /\ w = send(to, frame)
    BY <1>4, <1>5, <1>14 DEF Undeliverable, w, Struct, Closing
  <2>2. /\ DOMAIN conns' = DOMAIN conns
        /\ Outbox' = Outbox /\ Unsent' = Unsent /\ Eof' = Eof /\ Gone' = Gone
        /\ to \in Gone \/ Unsent[to] >= HighWater
    BY <1>14, <2>1, SendRefused
  <2>3. /\ Doomed' = Doomed \cup {to}
        /\ send_queue' = IF to = c THEN <<>> ELSE Tail(send_queue)
    <3>1. CASE to # c
      <4>1. close_client(to) /\ send_queue' = Tail(send_queue) /\ UNCHANGED fatal
        BY <1>1, <1>14, <3>1 DEF SendFailed
      <4>2. Doomed' = ToSet(pending_close')
        BY <1>2, <4>1 DEF Doomed
      <4> QED
        BY <1>6, <2>1, <3>1, <4>1, <4>2, ClosedSet
    <3>2. CASE to = c
      <4>1. fatal' /\ send_queue' = <<>> /\ UNCHANGED pending_close
        BY <1>1, <1>14, <3>2 DEF SendFailed
      <4> QED
        BY <1>6, <3>2, <4>1 DEF Doomed
    <3> QED
      BY <3>1, <3>2
  <2>4. \A f \in Fd \ {to} : Incoming(f)' = Incoming(f)
    BY <1>10, <2>3
  <2>5. Incoming(to)' = <<>>
    BY <2>3 DEF Incoming
  <2>6. Inbox' = [Inbox EXCEPT ![to] = <<>>]
    BY <2>4, <2>5, InboxStep
  <2>7. Todo' = [Todo EXCEPT ![c] = IF to = c THEN <<>> ELSE Tail(Todo[c])]
    BY <1>7, <2>3
  <2>8. S!Refuse(c)
    BY <1>2, <1>4, <1>8, <1>11, <1>14, <2>2, <2>3, <2>6, <2>7
       DEF S!Refuse, S!tables, tables
  <2> QED
    BY <2>8 DEF S!Next, S!Serve
<1> QED
  BY <1>4, <1>12, <1>13, <1>14 DEF SendFrame, item, w

-----------------------------------------------------------------------------
(* Peers *)

LEMMA PeersStep ==
    ASSUME RInv, RInv', Peers
    PROVE  [S!Next]_(S!vars)
<1> USE DEF RInv, Inv, Data
<1>1. UNCHANGED <<conns, pending_close, loop, tables>>
  BY PeersKeep
<1>2. /\ Doomed' = Doomed /\ Todo' = Todo
      /\ \A f \in Fd : Draining(f)' <=> Draining(f)
  BY <1>1 DEF loop, Doomed, Todo, Draining, cur
<1>3. CASE Connect
  <2>1. UNCHANGED sock
    BY <1>3 DEF Connect
  <2>2. Inbox' = Inbox
    BY <1>1, <1>2, <2>1, InboxKept DEF Incoming, loop
  <2>3. Outbox' = Outbox /\ Unsent' = Unsent /\ Gone' = Gone /\ Eof' = Eof
    BY <1>1, <2>1, OutputKept, EofKept
  <2> QED
    BY <1>1, <1>2, <2>2, <2>3 DEF S!vars, S!tables, tables
<1>4. ASSUME NEW fd \in Fd, PeerStep(fd), \A f \in Fd \ {fd} : sock'[f] = sock[f]
      PROVE  /\ fd \in DOMAIN conns /\ ~ sock[fd].reset
             /\ Held(fd) = conns[fd].write_buf
             /\ \A f \in Fd \ {fd} : Incoming(f)' = Incoming(f) /\ Held(f)' = Held(f)
             /\ sock'[fd].rx = sock[fd].rx => Incoming(fd)' = Incoming(fd)
             /\ ~ sock'[fd].reset => Held(fd)' = Held(fd)
  BY <1>1, <1>2, <1>4 DEF PeerStep, Incoming, Held, loop
<1>5. ASSUME NEW fd \in Fd, PeerSends(fd)
      PROVE  [S!Next]_(S!vars)
  <2>1. PICK frame \in PeerFrames : sock' = [sock EXCEPT ![fd].rx = Append(@, frame)]
    BY <1>5 DEF PeerSends
  <2>2. frame \in Inbound
    BY LimitsAssumption
  <2>3. /\ sock'[fd].rx = Append(sock[fd].rx, frame)
        /\ \A f \in Fd : /\ sock'[f].tx = sock[f].tx /\ sock'[f].eof = sock[f].eof
                         /\ sock'[f].reset = sock[f].reset
        /\ \A f \in Fd \ {fd} : sock'[f] = sock[f]
    BY <2>1 DEF SockOK, Socket
  <2>4. /\ fd \in DOMAIN conns /\ ~ sock[fd].reset
        /\ \A f \in Fd \ {fd} : Incoming(f)' = Incoming(f)
    BY <1>4, <1>5, <2>3 DEF PeerSends
  <2>5. Incoming(fd)' = IF fd \in Doomed THEN Incoming(fd) ELSE Append(Incoming(fd), frame)
    <3> DEFINE b == IF Draining(fd) THEN read_buf ELSE <<>>
    <3>1. b \in Seq(Inbound) /\ sock[fd].rx \in Seq(Inbound)
      BY ViewTypes, EmptySeq
    <3>2. /\ Incoming(fd) = IF fd \in Doomed THEN <<>> ELSE b \o sock[fd].rx
          /\ Incoming(fd)' = IF fd \in Doomed THEN <<>> ELSE b \o Append(sock[fd].rx, frame)
      BY <1>1, <1>2, <2>3 DEF Incoming, loop
    <3> HIDE DEF b
    <3>3. b \o Append(sock[fd].rx, frame) = Append(b \o sock[fd].rx, frame)
      <4>1. b \in Seq(Inbound)
        BY <3>1
      <4>2. sock[fd].rx \in Seq(Inbound)
        BY <3>1
      <4> QED
        BY <2>2, <4>1, <4>2, AppendConcat, SMTT(20)
    <3> QED
      BY <3>2, <3>3
  <2>6. Inbox' = [Inbox EXCEPT ![fd] = IF fd \in Doomed THEN Inbox[fd] ELSE Append(Inbox[fd], frame)]
    BY <2>4, <2>5, InboxStep, ViewValues
  <2>7. Outbox' = Outbox /\ Unsent' = Unsent /\ Gone' = Gone /\ Eof' = Eof
    BY <1>1, <2>3, OutputKept, EofKept
  <2>8. fd \notin Eof /\ fd \notin Gone
    BY <1>5, <2>4, ViewValues DEF PeerSends
  <2>9. frame \in S!Inbound
    BY <2>2 DEF S!Inbound, Inbound, S!Login, Login, S!Request, Request, S!Ack, Ack,
               S!Response, Response, S!Garbled, Garbled
  <2>10. S!PeerSends(fd)
    BY <1>1, <1>2, <2>4, <2>6, <2>7, <2>8, <2>9 DEF S!PeerSends, S!tables, tables
  <2> QED
    BY <2>10 DEF S!Next, S!Peer
<1>6. ASSUME NEW fd \in Fd, PeerReads(fd)
      PROVE  [S!Next]_(S!vars)
  <2>1. /\ sock'[fd].tx = Tail(sock[fd].tx) /\ sock[fd].tx # <<>>
        /\ \A f \in Fd : /\ sock'[f].rx = sock[f].rx /\ sock'[f].eof = sock[f].eof
                         /\ sock'[f].reset = sock[f].reset
        /\ \A f \in Fd \ {fd} : sock'[f] = sock[f]
    BY <1>6 DEF PeerReads, SockOK, Socket
  <2>2. /\ fd \in DOMAIN conns
        /\ \A f \in Fd : Incoming(f)' = Incoming(f) /\ Held(f)' = Held(f)
    BY <1>4, <1>6, <2>1 DEF PeerReads
  <2>3. Inbox' = Inbox /\ Unsent' = Unsent /\ Eof' = Eof /\ Gone' = Gone
    BY <2>1, <2>2, InboxKept, EofKept, GoneKept DEF Unsent
  <2>4. sock[fd].tx \in Seq(Outbound) /\ Held(fd) \in Seq(Outbound)
    BY ViewTypes
  <2>5. Tail(sock[fd].tx \o Held(fd)) = Tail(sock[fd].tx) \o Held(fd)
    BY <2>1, <2>4, TailConcat
  <2>6. Outbox' = [Outbox EXCEPT ![fd] = Tail(Outbox[fd])]
    BY <2>1, <2>2, <2>5 DEF Outbox
  <2>7. Len(Outbox[fd]) > Unsent[fd]
    <3>1. Len(sock[fd].tx \o Held(fd)) = Len(sock[fd].tx) + Len(Held(fd))
      BY <2>4, ConcatProperties
    <3>2. Len(sock[fd].tx) \in Nat \ {0} /\ Len(Held(fd)) \in Nat
      BY <2>1, <2>4, LenProperties, EmptySeq
    <3>3. Outbox[fd] = sock[fd].tx \o Held(fd) /\ Unsent[fd] = Len(Held(fd))
      BY ViewValues
    <3> QED
      BY <3>1, <3>2, <3>3
  <2>8. S!PeerReads(fd)
    BY <1>1, <1>2, <2>3, <2>6, <2>7 DEF S!PeerReads, S!tables, tables
  <2> QED
    BY <2>8 DEF S!Next, S!Peer
<1>7. ASSUME NEW fd \in Fd, PeerShutsDown(fd)
      PROVE  [S!Next]_(S!vars)
  <2>1. /\ sock'[fd].eof
        /\ \A f \in Fd : /\ sock'[f].rx = sock[f].rx /\ sock'[f].tx = sock[f].tx
                         /\ sock'[f].reset = sock[f].reset
        /\ \A f \in Fd \ {fd} : sock'[f] = sock[f]
    BY <1>7 DEF PeerShutsDown, SockOK, Socket
  <2>2. fd \in DOMAIN conns /\ \A f \in Fd : Incoming(f)' = Incoming(f)
    BY <1>4, <1>7, <2>1 DEF PeerShutsDown
  <2>3. Inbox' = Inbox
    BY <2>2, InboxKept
  <2>4. Outbox' = Outbox /\ Unsent' = Unsent /\ Gone' = Gone
    BY <1>1, <2>1, OutputKept
  <2>5. Eof' = Eof \cup {fd}
    BY <2>1 DEF Eof
  <2>6. S!PeerShutsDown(fd)
    BY <1>1, <1>2, <2>2, <2>3, <2>4, <2>5 DEF S!PeerShutsDown, S!tables, tables
  <2> QED
    BY <2>6 DEF S!Next, S!Peer
<1>8. ASSUME NEW fd \in Fd, PeerResets(fd)
      PROVE  [S!Next]_(S!vars)
  <2>1. /\ sock'[fd].reset /\ sock'[fd].tx = <<>>
        /\ \A f \in Fd : sock'[f].rx = sock[f].rx /\ sock'[f].eof = sock[f].eof
        /\ \A f \in Fd \ {fd} : sock'[f] = sock[f]
    BY <1>8 DEF PeerResets, SockOK, Socket
  <2>2. /\ fd \in DOMAIN conns
        /\ \A f \in Fd : Incoming(f)' = Incoming(f)
        /\ \A f \in Fd \ {fd} : Held(f)' = Held(f)
    BY <1>4, <1>8, <2>1 DEF PeerResets
  <2>3. Inbox' = Inbox /\ Eof' = Eof
    BY <2>1, <2>2, InboxKept, EofKept
  <2>4. Held(fd)' = <<>> /\ <<>> \o <<>> = <<>> /\ Len(<<>>) = 0
    BY <2>1, ConcatEmptySeq, EmptySeq DEF Held
  <2>5. Outbox' = [Outbox EXCEPT ![fd] = <<>>]
    BY <2>1, <2>2, <2>4 DEF Outbox
  <2>6. Unsent' = [Unsent EXCEPT ![fd] = 0]
    BY <2>2, <2>4 DEF Unsent
  <2>7. Gone' = Gone \cup {fd}
    BY <2>1 DEF Gone
  <2>8. S!PeerLost(fd)
    BY <1>1, <1>2, <2>2, <2>3, <2>5, <2>6, <2>7 DEF S!PeerLost, S!tables, tables
  <2> QED
    BY <2>8 DEF S!Next, S!Peer
<1> QED
  BY <1>3, <1>5, <1>6, <1>7, <1>8 DEF Peers

-----------------------------------------------------------------------------
(* The refinement *)

LEMMA ServiceInit == Init => S!Init
<1> SUFFICES ASSUME Init
             PROVE  S!Init
  OBVIOUS
<1>1. /\ UG!Init /\ DOMAIN conns = {} /\ pending_close = <<>> /\ pc = "wait"
      /\ ~ fatal /\ send_queue = <<>> /\ sock = [fd \in Fd |-> NewSocket]
  BY DEF Init
<1>2. <<>> \o <<>> = <<>> /\ Len(<<>>) = 0
  BY ConcatEmptySeq, EmptySeq
<1>3. Doomed = {}
  BY <1>1 DEF Doomed, ToSet
<1>4. /\ Inbox = [fd \in Fd |-> <<>>] /\ Todo = [fd \in Fd |-> <<>>]
      /\ Outbox = [fd \in Fd |-> <<>>] /\ Unsent = [fd \in Fd |-> 0]
      /\ Eof = {} /\ Gone = {}
  BY <1>1, <1>2, <1>3 DEF Inbox, Todo, Outbox, Unsent, Eof, Gone, Incoming, Held,
                          Draining, NewSocket
<1>5. S!UG!Init
  BY <1>1 DEF S!UG!Init, UG!Init
<1> QED
  BY <1>1, <1>3, <1>4, <1>5 DEF S!Init

LEMMA ServiceNext == RInv /\ RInv' /\ [Next]_vars => [S!Next]_(S!vars)
<1> SUFFICES ASSUME RInv, RInv', [Next]_vars
             PROVE  [S!Next]_(S!vars)
  OBVIOUS
<1>1. CASE UNCHANGED vars
  <2>1. /\ UNCHANGED <<conns, pending_close, pc, batch, read_buf, fatal, send_queue, sock>>
        /\ UNCHANGED <<uid_to_fd, fd_to_uid>>
    BY <1>1 DEF vars, loop, tables
  <2>2. /\ Doomed' = Doomed /\ Inbox' = Inbox /\ Todo' = Todo /\ Outbox' = Outbox
        /\ Unsent' = Unsent /\ Eof' = Eof /\ Gone' = Gone
    BY <2>1 DEF Doomed, cur, Inbox, Incoming, Draining, Todo, Outbox, Unsent, Held, Eof, Gone
  <2> QED
    BY <2>1, <2>2 DEF S!vars, S!tables
<1> QED
  BY <1>1, UnseenSteps, AcceptStep, HandleClientStep, HandleWriteStep, HandleReadStep,
     DrainFrameStep, SendFrameStep, FinishClientStep, DrainPendingCloseStep, PeersStep
     DEF Next, Server

(* Whatever peers, kernel and the order of events do, the event loop keeps  *)
(* what the abstract service promises: frames of a connection are handled  *)
(* once and in order, their answers are delivered in order to every        *)
(* receiver that has not failed, and a connection fails only for a cause   *)
(* of its own (core.cpp:126-289).                                          *)
THEOREM RefinesService == Spec => ImplementsService
<1>1. Init => RInv /\ S!Init
  BY RInvInit, ServiceInit
<1>2. RInv /\ [Next]_vars => RInv' /\ [S!Next]_(S!vars)
  BY RInvNext, ServiceNext
<1> QED
  BY <1>1, <1>2, PTL DEF Spec, ImplementsService, S!Spec

-----------------------------------------------------------------------------
(* The process.  All invariants of the event loop, together: *)

CoreInv == RInv /\ Bound /\ Watching /\ Owing /\ Routed /\ Greeted

LEMMA CoreInvInit == Init => CoreInv
BY RInvInit, BoundInit, WatchingInit, OwingInit, RoutedInit, GreetedInit DEF CoreInv

LEMMA CoreInvNext == CoreInv /\ [Next]_vars => CoreInv'
<1>1. CoreInv => Service
  BY DEF CoreInv, RInv, Service
<1>2. Service /\ Greeted /\ [Next]_vars => Greeted'
  BY DrainFrameGreeted, SendFrameGreeted, OtherGreeted
<1> QED
  BY <1>1, <1>2, RInvNext, BoundNext, WatchingNext, OwingNext, RoutedNext
     DEF CoreInv, RInv

(* What CoreProofs shows of the event loop, as one state predicate. *)
Safe ==
    /\ TypeOK /\ ClosedOnce /\ HandledIsAlive /\ BindingsAreCurrent
    /\ NothingStalls /\ EveryAskerAnswered /\ NoMisdelivery /\ LoginResultFirst

LEMMA CoreInvSafe == CoreInv => Safe
<1> SUFFICES ASSUME CoreInv PROVE Safe
  OBVIOUS
<1>1. TypeOK
  BY InvTypes DEF CoreInv, RInv
<1>2. ClosedOnce /\ HandledIsAlive
  BY DEF CoreInv, RInv, Inv, Struct, Closing, Handling, ClosedOnce, Distinct, HandledIsAlive
<1>3. BindingsAreCurrent /\ EveryAskerAnswered
  BY DEF CoreInv, Bound, Owing, EveryAskerAnswered
<1>4. NothingStalls
  BY WatchingSuffices DEF CoreInv, RInv
<1>5. NoMisdelivery /\ LoginResultFirst
  BY RoutedSuffices, GreetedSuffices DEF CoreInv, RInv, Service
<1> QED
  BY <1>1, <1>2, <1>3, <1>4, <1>5 DEF Safe

ProcessInv ==
    /\ phase \in {"init", "running", "unwinding", "over"}
    /\ phase \in {"init", "running"} => CoreInv

LEMMA StartUpKeeps == ProcessInv /\ StartUp => ProcessInv'
<1> SUFFICES ASSUME ProcessInv, StartUp PROVE ProcessInv'
  OBVIOUS
<1>1. CoreInv /\ UNCHANGED vars
  BY DEF ProcessInv, StartUp
<1>2. CoreInv'
  BY <1>1, CoreInvNext
<1> QED
  BY <1>2 DEF ProcessInv, StartUp

LEMMA RunsKeep == ProcessInv /\ Runs => ProcessInv'
<1> SUFFICES ASSUME ProcessInv, Runs PROVE ProcessInv'
  OBVIOUS
<1>1. phase = "running" /\ Next /\ UNCHANGED phase
  BY DEF Runs, Loops, InLoop, Next
<1>2. CoreInv'
  BY <1>1, CoreInvNext DEF ProcessInv
<1> QED
  BY <1>1, <1>2 DEF ProcessInv

(* Whatever fails ends the loop. *)
LEMMA FailuresLeave ==
    EpollWaitFails \/ OutOfMemory => phase = "running" /\ phase' = "unwinding"
BY DEF EpollWaitFails, OutOfMemory, ThrowInAccept, ThrowInClose, ThrowInHandler, ThrowInRead,
       ThrowInSend, ThrowInDisconnect, Thrown

LEMMA ProcessKeeps == ProcessInv /\ [ServerNext]_<<vars, phase>> => ProcessInv'
<1> SUFFICES ASSUME ProcessInv, [ServerNext]_<<vars, phase>> PROVE ProcessInv'
  OBVIOUS
<1>1. CASE EpollWaitFails \/ OutOfMemory
  BY <1>1, FailuresLeave DEF ProcessInv
<1>2. CASE Unwind
  BY <1>2 DEF Unwind, ProcessInv
<1>3. CASE UNCHANGED <<vars, phase>>
  <2>1. CoreInv => CoreInv'
    BY <1>3, CoreInvNext
  <2> QED
    BY <1>3, <2>1 DEF ProcessInv
<1> QED
  BY <1>1, <1>2, <1>3, StartUpKeeps, RunsKeep DEF ServerNext

LEMMA ProcessStarts == ServerInit => ProcessInv
BY CoreInvInit DEF ServerInit, ProcessInv

LEMMA ProcessAlways == ServerSpec => []ProcessInv
BY ProcessStarts, ProcessKeeps, PTL DEF ServerSpec

(* No failure leaves anything half done that is looked at again: as long   *)
(* as the loop runs, the tables are exact inverses that name only open     *)
(* connections, and every connection is watched or waits to be destroyed,  *)
(* wherever memory runs out or a system call fails (users_group.h:110-113, *)
(* main.cpp:47-51).                                                        *)
THEOREM NothingHalfDone == ServerSpec => []IntactWhileRunning
<1>1. ProcessInv => IntactWhileRunning
  <2> SUFFICES ASSUME ProcessInv, phase = "running"
               PROVE  /\ UG!InvariantsOk /\ BindingsAreCurrent
                      /\ DOMAIN epoll = DOMAIN conns \ ToSet(pending_close)
    BY DEF IntactWhileRunning
  <2>1. CoreInv
    BY DEF ProcessInv
  <2>2. UGP!InvariantsOk
    BY <2>1 DEF CoreInv, RInv, Inv, UGP!Inv
  <2>3. UG!InvariantsOk
    BY <2>2, Zenon
       DEF UG!InvariantsOk, UGP!InvariantsOk, UG!NoEmptyUser, UGP!NoEmptyUser,
           UG!ForwardExact, UGP!ForwardExact,
           UG!BackwardExact, UGP!BackwardExact, UG!has_fd, UGP!has_fd,
           UG!query_all, UGP!query_all, UG!online, UGP!online
  <2> QED
    BY <2>1, <2>3 DEF CoreInv, RInv, Inv, Struct, Closing, Bound
<1> QED
  BY <1>1, ProcessAlways, PTL

(* What holds of the event loop alone holds in the process for as long as  *)
(* the loop runs, whatever of init() succeeded or failed before            *)
(* (main.cpp:13-66).                                                       *)
THEOREM SafeWhileRunning == ServerSpec => [](phase = "running" => Safe)
<1>1. ProcessInv => (phase = "running" => Safe)
  BY CoreInvSafe DEF ProcessInv
<1> QED
  BY <1>1, ProcessAlways, PTL

(* ServesUntilUnwinding: every step before the process unwinds is a step   *)
(* of Service or a stutter, since nothing goes on from what a failure left *)
(* half done (core.cpp:77-98, main.cpp:47-51).                             *)
THEOREM ServedUntilUnwinding == ServerSpec => ServesUntilUnwinding
<1> DEFINE Serves == phase' \notin {"unwinding", "over"} => [S!Next]_(S!vars)
<1>1. ProcessInv /\ [ServerNext]_<<vars, phase>> => [Serves]_<<vars, phase>>
  <2> SUFFICES ASSUME ProcessInv, ServerNext, phase' \notin {"unwinding", "over"}
               PROVE  [S!Next]_(S!vars)
    OBVIOUS
  <2>1. ~ EpollWaitFails /\ ~ OutOfMemory /\ ~ Unwind
    BY FailuresLeave DEF Unwind
  <2>2. phase \in {"init", "running"} /\ [Next]_vars
    BY <2>1 DEF ServerNext, StartUp, Runs, Loops, InLoop, Next
  <2>3. RInv
    BY <2>2 DEF ProcessInv, CoreInv
  <2> QED
    BY <2>2, <2>3, RInvNext, ServiceNext
<1> QED
  BY <1>1, ProcessAlways, PTL DEF ServerSpec, ServesUntilUnwinding
=============================================================================
